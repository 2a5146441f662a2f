----------------------------- MODULE BodyFeedback -----------------------------
(***************************************************************************)
(* How a program gets body states and control statuses besides the         *)
(* callbacks of ExternalController: the classes PullTransport and          *)
(* PullController of pull.py and BodyStateSource of state.py (all in       *)
(* python/locomotion_aorta), used by several threads of one process.       *)
(*                                                                         *)
(* Polled topics keep only their newest frame: the body state, of which    *)
(* two decoded views of one received frame are kept, and the control       *)
(* status, which callbacks hand on to the controller.  Each has a lock of  *)
(* its own, held while waiting for a frame and while the callbacks run.  A *)
(* BodyStateSource stores what its callback brings and wakes the waiters.  *)
(*                                                                         *)
(* A frame is its number and the decoders that can read it.  The topics    *)
(* and the robot that fills them are external.  What publish does beyond   *)
(* its checks is in ExternalController.                                    *)
(***************************************************************************)
EXTENDS Naturals, FiniteSetsExt

CONSTANTS
  Callers,       \* the threads
  Mixes,         \* what they may call in one run: sets of "arrays", "native",
                 \* "snapshot", "publish" and "await"
  NoCaller,      \* who holds a lock that is free
  MaxStates,     \* bound: body states sent
  MaxStatuses,   \* bound: control statuses sent
  MaxCalls       \* bound: calls of each thread

ASSUME MixesAssumption ==
  Mixes \subseteq SUBSET {"arrays", "native", "snapshot", "publish", "await"}
\* One subscription is pulled or has a callback (PullTransport.subscribe refuses the
\* body state): a mix has one or the other.
ASSUME SubscriptionAssumption ==
  \A mix \in Mixes : "snapshot" \in mix => mix \cap {"arrays", "native"} = {}
ASSUME CallersAssumption == NoCaller \notin Callers
ASSUME PullBoundAssumption == {MaxStates, MaxStatuses, MaxCalls} \subseteq Nat

VARIABLES
  pull,     \* the PullTransport and what the controller knows
  topic,    \* the newest frame not received, of each topic
  sent,     \* frames sent on each topic; the last that no reader understands
  uses,     \* what the threads call, chosen at the start
  caller    \* each thread's call

pullVars == <<pull, topic, sent, uses, caller>>

Views == {"arrays", "native"}
Reads == Views \cup {"snapshot"}       \* the calls that return a body state
Nothing == [number |-> 0, readers |-> {}]

\* No call.  floor and late tell what held when the call began; got is the number of
\* the frame it returned or worked with.
AtRest == [pc |-> "idle", use |-> "none", zero |-> FALSE, after |-> 0, frame |-> Nothing,
           floor |-> 0, late |-> FALSE, got |-> 0, calls |-> 0]

-----------------------------------------------------------------------------
(* The topics *)

SendState ==
  /\ sent.states < MaxStates /\ uses \cap Reads # {}
  /\ sent' = [sent EXCEPT !.states = @ + 1]
  /\ \E readers \in {Views, {"arrays"}, {}} :
       topic' = [topic EXCEPT !.state = [number |-> sent'.states, readers |-> readers]]
  /\ UNCHANGED <<pull, caller, uses>>

\* A status that is not understood takes the place of one that was.
SendStatus ==
  /\ sent.statuses < MaxStatuses /\ uses \ Reads # {}
  /\ \E readers \in {{"status"}, {}} :
       /\ sent' = [sent EXCEPT !.statuses = @ + 1,
                               !.spoiled = IF readers = {} THEN sent.statuses + 1 ELSE @]
       /\ topic' = [topic EXCEPT !.status = [number |-> sent'.statuses, readers |-> readers]]
  /\ UNCHANGED <<pull, caller, uses>>

-----------------------------------------------------------------------------
(* Steps of a call *)

\* The call goes on at a place, with the given fields changed.
Proceeds(t, call) == caller' = [caller EXCEPT ![t] = call]
Goes(t, place) == Proceeds(t, [caller[t] EXCEPT !.pc = place])
Ends(t, got) == Proceeds(t, [IF got = 0 THEN AtRest ELSE caller[t] EXCEPT
                              !.pc = "idle", !.frame = Nothing, !.got = got, !.calls = caller[t].calls])

\* notify_all.
Woken == [t \in Callers |-> IF caller[t].pc = "sleep" THEN [caller[t] EXCEPT !.pc = "snap"]
                            ELSE caller[t]]

\* What the caller may count on: states any call has returned, and the status that
\* has arrived, received or not.
FloorOf(use) ==
  CASE use \in Reads -> Max({0} \cup UNION {{caller[t].got, caller[t].floor} :
                                          t \in {u \in Callers : caller[u].use \in Reads}})
    [] use = "publish" -> Max({pull.status} \cup
                              {n \in {topic.status.number} : topic.status.readers # {}})
    [] use = "await" -> pull.known

FirstPlace(use) == CASE use \in Views -> "stateLock"
                     [] use = "snapshot" -> "snap"
                     [] OTHER -> "statusLock"

\* A call begins.  PullController looks at _closed first, the sources later; after is
\* a snapshot the caller has, or None.
Call(t) ==
  /\ caller[t].pc = "idle" /\ caller[t].calls < MaxCalls
  /\ \E use \in uses, zero \in BOOLEAN, after \in {0, caller[t].got} :
       /\ zero => use \in Views
       /\ after # 0 => use = "snapshot"
       /\ use \in Reads \/ ~pull.closed
       /\ caller' = [caller EXCEPT ![t] =
            [AtRest EXCEPT !.pc = FirstPlace(use), !.use = use, !.zero = zero, !.after = after,
                           !.floor = FloorOf(use),
                           !.late = IF use = "snapshot" THEN pull.closed ELSE pull.shut,
                           !.calls = caller[t].calls + 1]]
  /\ UNCHANGED <<pull, topic, sent, uses>>

\* _state_lock, _ensure_open and the first lines of _receive_state.
LockState(t) ==
  /\ caller[t].pc = "stateLock" /\ pull.stateLock = NoCaller
  /\ \/ /\ pull.shut
        /\ Ends(t, 0) /\ UNCHANGED <<pull, topic>>
     \/ /\ ~pull.shut /\ topic.state # Nothing
        /\ Proceeds(t, [caller[t] EXCEPT !.pc = "decode", !.frame = topic.state])
        /\ pull' = [pull EXCEPT !.stateLock = t]
        /\ topic' = [topic EXCEPT !.state = Nothing]
     \/ /\ ~pull.shut /\ topic.state = Nothing /\ pull.latest # Nothing
        /\ Proceeds(t, [caller[t] EXCEPT !.pc = "decode", !.frame = pull.latest])
        /\ pull' = [pull EXCEPT !.stateLock = t]
        /\ UNCHANGED topic
     \/ /\ ~pull.shut /\ topic.state = Nothing /\ pull.latest = Nothing
        /\ IF caller[t].zero
           THEN Ends(t, 0) /\ UNCHANGED pull
           ELSE Goes(t, "receive") /\ pull' = [pull EXCEPT !.stateLock = t]
        /\ UNCHANGED topic
  /\ UNCHANGED <<sent, uses>>

\* The lock is released however the call ends.
Released(got) == [pull EXCEPT !.stateLock = NoCaller]

\* recv, with the lock held: a frame, or the deadline.
Receives(t) ==
  /\ caller[t].pc = "receive"
  /\ \/ /\ topic.state # Nothing /\ ~pull.shut
        /\ Proceeds(t, [caller[t] EXCEPT !.pc = "decode", !.frame = topic.state])
        /\ topic' = [topic EXCEPT !.state = Nothing]
        /\ UNCHANGED pull
     \/ /\ Ends(t, 0) /\ pull' = Released(0)
        /\ UNCHANGED topic
  /\ UNCHANGED <<sent, uses>>

\* The view kept of the frame received, or a new one of it; a frame that cannot be
\* decoded is lost and leaves what was kept.
Decode(t) ==
  LET c == caller[t]
      kept == c.frame = pull.latest /\ pull[c.use] # 0
  IN
  /\ c.pc = "decode"
  /\ IF ~kept /\ c.use \in c.frame.readers /\ ~pull.shut
     THEN Goes(t, "store") /\ UNCHANGED pull
     ELSE LET got == IF kept THEN pull[c.use] ELSE 0 IN Ends(t, got) /\ pull' = Released(got)
  /\ UNCHANGED <<topic, sent, uses>>

\* Faults the checks must notice are named Faulty...; nothing uses them.
FaultyViewed(use, frame) ==
  [pull EXCEPT !.latest = frame, !.stateLock = NoCaller, ![use] = frame.number]

\* A new frame replaces both views.
Viewed(use, frame) ==
  [pull EXCEPT !.latest = frame, !.stateLock = NoCaller,
               !.arrays = IF use = "arrays" THEN frame.number ELSE IF frame = pull.latest THEN @ ELSE 0,
               !.native = IF use = "native" THEN frame.number ELSE IF frame = pull.latest THEN @ ELSE 0]

Store(t) ==
  /\ caller[t].pc = "store"
  /\ pull' = Viewed(caller[t].use, caller[t].frame)
  /\ Ends(t, caller[t].frame.number)
  /\ UNCHANGED <<topic, sent, uses>>

FaultyStatusFree == TRUE
StatusFree == pull.statusLock = NoCaller

\* poll_control_status up to its callbacks.
PollStatus(t) ==
  /\ caller[t].pc = "statusLock" /\ StatusFree
  /\ IF pull.shut
     THEN Ends(t, 0) /\ UNCHANGED <<pull, topic>>
     ELSE /\ topic' = [topic EXCEPT !.status = Nothing]
          /\ IF topic.status.readers # {}
             THEN /\ Proceeds(t, [caller[t] EXCEPT !.pc = "callback", !.frame = topic.status])
                  /\ pull' = [pull EXCEPT !.statusLock = t, !.status = topic.status.number]
             ELSE Goes(t, "look") /\ UNCHANGED pull
  /\ UNCHANGED <<sent, uses>>

\* _on_status, unless the registration is closed.
Callback(t) ==
  /\ caller[t].pc = "callback"
  /\ pull' = [pull EXCEPT !.statusLock = NoCaller,
                          !.known = IF pull.closed \/ caller[t].frame.number <= @ THEN @
                                    ELSE caller[t].frame.number]
  /\ Proceeds(t, [caller[t] EXCEPT !.pc = "look", !.frame = Nothing])
  /\ UNCHANGED <<topic, sent, uses>>

\* What _wait_for is after: a status newer than the one known before.
Sees(t) == caller[t].use = "await" /\ pull.known > caller[t].floor

\* publish looks at the status it was given; _wait_for looks, and polls again after
\* at most 20 ms or ends at its deadline.
Look(t) ==
  /\ caller[t].pc = "look"
  /\ \/ pull.closed /\ Ends(t, 0)
     \/ ~pull.closed /\ (Sees(t) \/ caller[t].use = "publish") /\ Ends(t, pull.known)
     \/ /\ ~pull.closed /\ caller[t].use = "await" /\ ~Sees(t)
        /\ Goes(t, "statusLock") \/ Ends(t, 0)
  /\ UNCHANGED <<pull, topic, sent, uses>>

\* BodyStateSource._receive: the newest frame is stored undecoded.
Deliver == /\ "snapshot" \in uses /\ topic.state # Nothing
           /\ topic' = [topic EXCEPT !.state = Nothing]
           /\ pull' = IF pull.closed THEN pull ELSE [pull EXCEPT !.snapshot = topic.state.number]
           /\ caller' = Woken
           /\ UNCHANGED <<sent, uses>>

\* A snapshot other than the one the caller has.
Fresh(t) == pull.snapshot \notin {0, caller[t].after}

LookSnapshot(t) ==
  /\ caller[t].pc = "snap"
  /\ IF pull.closed THEN Ends(t, 0)
     ELSE IF Fresh(t) THEN Ends(t, pull.snapshot) ELSE Goes(t, "sleep")
  /\ UNCHANGED <<pull, topic, sent, uses>>

Expire(t) == /\ caller[t].pc = "sleep" /\ Ends(t, 0)
             /\ UNCHANGED <<pull, topic, sent, uses>>

\* close: of the ExternalController or of the source, then of its transport.
CloseController == /\ ~pull.closed
                   /\ pull' = [pull EXCEPT !.closed = TRUE]
                   /\ caller' = Woken
                   /\ UNCHANGED <<topic, sent, uses>>
CloseTransport == /\ pull.closed /\ ~pull.shut
                  /\ pull' = [pull EXCEPT !.shut = TRUE]
                  /\ UNCHANGED <<topic, sent, caller, uses>>

-----------------------------------------------------------------------------

PullInit ==
  /\ pull = [latest |-> Nothing, arrays |-> 0, native |-> 0, snapshot |-> 0, status |-> 0, known |-> 0,
             stateLock |-> NoCaller, statusLock |-> NoCaller, closed |-> FALSE, shut |-> FALSE]
  /\ topic = [state |-> Nothing, status |-> Nothing]
  /\ sent = [states |-> 0, statuses |-> 0, spoiled |-> 0]
  /\ uses \in Mixes
  /\ caller = [t \in Callers |-> AtRest]

\* What a thread in a call does next.
Working(t) == \/ LockState(t) \/ Receives(t) \/ Decode(t) \/ Store(t)
              \/ PollStatus(t) \/ Callback(t) \/ Look(t) \/ LookSnapshot(t)

PullNext == \/ \E t \in Callers : Call(t) \/ Working(t) \/ Expire(t)
            \/ Deliver \/ SendState \/ SendStatus \/ CloseController \/ CloseTransport

\* Threads run.  recv and _wait_for come to their deadline; a snapshot need not.
PullFairness ==
  \A t \in Callers : /\ WF_pullVars(Working(t))
                     /\ SF_pullVars(caller[t].use = "await" /\ Look(t) /\ caller'[t].pc = "idle")

PullSpec == PullInit /\ [][PullNext]_pullVars /\ PullFairness

-----------------------------------------------------------------------------
(* Properties *)

\* Body states go forward: no call returns a state older than one that any call had
\* returned before it began, whichever view each asked for and whatever could not be
\* decoded (the two views are of one frame, pull.py:92-102 and 107-115), nor the very
\* snapshot it has; a call begun on a closed transport or source returns none.
StatesGoForward ==
  \A t \in Callers : caller[t].use \in Reads /\ caller[t].got # 0 =>
    /\ caller[t].got >= caller[t].floor /\ caller[t].got # caller[t].after
    /\ ~caller[t].late

\* publish decides on a status no older than the newest that had arrived when it was
\* called, also when another thread had received that one and was about to hand it on
\* (pull.py:218-219 polls, then checks); unless a frame nobody understands came since.
PublishSeesArrived ==
  \A t \in Callers : caller[t].use = "publish" /\ caller[t].got # 0 =>
    caller[t].got >= caller[t].floor \/ sent.spoiled > caller[t].floor

\* Once nobody calls any more every call ends, and stays ended: no lock is kept by a
\* call that failed, the two locks are never waited for in a ring, a wait ends by its
\* deadline or by close, and no snapshot that has come is slept through.
PullRests == \A t \in Callers : \/ caller[t].pc = "idle"
                                \/ caller[t].pc = "sleep" /\ ~Fresh(t) /\ ~pull.closed
PullCallsEnd == <>[]PullRests
=============================================================================
