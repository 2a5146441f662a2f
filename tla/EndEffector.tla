------------------------------ MODULE EndEffector ------------------------------
(***************************************************************************)
(* The hand and gripper clients: HandClient of hand.py, GripperClient of   *)
(* gripper.py with _gripper_lifecycle.py, and FeedbackPulls of _ee_pull.py *)
(* (all in python/locomotion_aorta), used by several threads of a process. *)
(*                                                                         *)
(* Feedback is stored either by the subscriptions' workers, which then run *)
(* the user's callback, or by the caller that polls.  Every block under    *)
(* _condition is one step, and so is one topic of a poll.                  *)
(*                                                                         *)
(* A message is its number and the device type it is about (hand_type and  *)
(* geometry, gripper_type), or garbled; touch is a state.  A command's     *)
(* payload is what info it was checked against.  Read-only clients, which  *)
(* only refuse, are left out, and so are callbacks of a client that polls. *)
(* Topics, services and node are external.                                 *)
(***************************************************************************)
EXTENDS Naturals, Sequences, FiniteSets

CONSTANTS
  Users,          \* the threads that call the client
  NoThread,       \* who holds a lock that is free
  Types,          \* device types
  Shapes,         \* clients: [make : {"hand", "gripper"}, mode : {"pull", "callback"},
                  \* limit : what _UINT64_MAX is for sequences]
  MaxFeedback,    \* bound: messages, of both kinds
  MaxUses        \* bound: calls, of all threads

Feeds == {"info", "state"}
Threads == Users \cup Feeds       \* a worker is named by the topic it serves

ASSUME TypesAssumption == "garbled" \notin Types
ASSUME ThreadAssumption == Users \cap Feeds = {} /\ NoThread \notin Threads
ASSUME ShapesAssumption ==
  Shapes \subseteq [make : {"hand", "gripper"}, mode : {"pull", "callback"}, limit : Nat]
ASSUME EndBoundAssumption == {MaxFeedback, MaxUses} \subseteq Nat

VARIABLES
  client,   \* the client's fields and locks
  feed,     \* the newest message not received, of each kind
  thread,   \* each thread's call
  keys      \* history: commands given to the transport, in that order

endVars == <<client, feed, thread, keys>>

Absent == [number |-> 0, type |-> "none"]
Resting == [pc |-> "idle", use |-> "none", kind |-> "info", after |-> 0, todo |-> <<>>,
            checked |-> Absent, info |-> Absent, state |-> Absent, sequence |-> 0]

-----------------------------------------------------------------------------
(* Feedback *)

\* Bound: nothing more is sent once the client refuses everything.
Send(k) ==
  /\ ~client.error /\ ~client.closed
  /\ client.received.info + client.received.state < MaxFeedback
  /\ client' = [client EXCEPT !.received[k] = @ + 1]
  /\ \E type \in Types \cup {"garbled"} :
       feed' = [feed EXCEPT ![k] = [number |-> client'.received[k], type |-> type]]
  /\ UNCHANGED <<thread, keys>>

\* The other message the client holds is of another device: only hands look.
Mismatch(k, m) ==
  LET other == IF k = "info" THEN client.state ELSE client.info
  IN client.make = "hand" /\ other # Absent /\ other.type # m.type

Refused(k, m) == m.type = "garbled" \/ Mismatch(k, m)

\* _receive: what does not fit is kept as the client's error.
Stored(k, m) == IF client.closed THEN client
                ELSE IF Refused(k, m) THEN [client EXCEPT !.error = TRUE]
                ELSE [client EXCEPT ![k] = m]

\* notify_all.
Notified(calls) == [u \in Threads |-> IF calls[u].pc = "sleep"
                                   THEN [calls[u] EXCEPT !.pc = "look"] ELSE calls[u]]

-----------------------------------------------------------------------------
(* Steps of a thread *)

With(t, call) == [thread EXCEPT ![t] = call]
Moves(t, place) == thread' = With(t, [thread[t] EXCEPT !.pc = place])
Ended(t) == With(t, Resting)
Calling(c) == [c EXCEPT !.calls = @ + 1]
Asks == IF client.mode = "pull" THEN "read" ELSE "look"
Unlocked(t) == [client EXCEPT !.publishLock = IF @ = t THEN NoThread ELSE @]

\* A call returns, or raises: out of a callback an exception is kept like bad feedback.
Returns(t) == client' = Unlocked(t) /\ thread' = Ended(t)
Raises(t) == IF t \in Users THEN Returns(t)
             ELSE client' = [Unlocked(t) EXCEPT !.error = TRUE] /\ thread' = Notified(Ended(t))

\* A worker stores a message, and its callback may publish.
Worker(k) ==
  /\ client.mode = "callback" /\ thread[k].pc = "idle" /\ feed[k] # Absent
  /\ feed' = [feed EXCEPT ![k] = Absent]
  /\ \/ /\ client' = Stored(k, feed[k])
        /\ thread' = Notified(thread)
     \/ /\ ~client.closed /\ ~Refused(k, feed[k]) /\ client.calls < MaxUses
        /\ client' = Calling(Stored(k, feed[k]))
        /\ thread' = Notified(With(k, [Resting EXCEPT !.pc = "lock", !.use = "publish"]))
  /\ UNCHANGED keys

\* A user calls publish (publish_target), wait_info, wait_state, set_touch or close.
Use(t) ==
  /\ thread[t].pc = "idle" /\ client.calls < MaxUses
  /\ client' = Calling(client)
  /\ \/ \E use \in {"publish", "close"} \cup IF client.make = "hand" THEN {"touch"} ELSE {} :
          thread' = With(t, [Resting EXCEPT !.pc = "lock", !.use = use])
     \/ \E k \in Feeds : \E after \in {0, client[k].number} :
          thread' = With(t, [Resting EXCEPT !.pc = Asks, !.use = "wait", !.kind = k,
                                            !.after = after])
  /\ UNCHANGED <<feed, keys>>

\* Faults the checks must notice are named Faulty...; nothing uses them.
FaultyLockFree == TRUE
LockFree == client.publishLock = NoThread

\* What publish reads, in this order: a gripper's reserve_envelope reads info again.
PublishReads == IF client.make = "hand" THEN <<"info", "state">> ELSE <<"info", "state", "info">>

FaultyClosing(t) == [client EXCEPT !.closed = TRUE, !.publishLock = t]
\* close() has set _closed and left the lock.
Closing(t) == [client EXCEPT !.closed = TRUE]

\* _publish_lock and, under it, _ensure_open.
Lock(t) ==
  /\ thread[t].pc = "lock" /\ LockFree
  /\ \/ /\ thread[t].use # "close" /\ (client.closed \/ client.error)
        /\ Raises(t)
     \/ /\ thread[t].use = "publish" /\ ~client.closed /\ ~client.error
        /\ client' = [client EXCEPT !.publishLock = t]
        /\ thread' = With(t, [thread[t] EXCEPT !.pc = Asks, !.todo = PublishReads])
     \/ /\ thread[t].use = "touch" /\ ~client.closed /\ ~client.error
        /\ client' = [client EXCEPT !.publishLock = t]
        /\ Moves(t, "service")
     \/ /\ thread[t].use = "close"
        /\ IF client.closed THEN Returns(t)
           ELSE /\ client' = Closing(t)
                /\ thread' = Notified(With(t, [thread[t] EXCEPT !.pc = "join"]))
  /\ UNCHANGED <<feed, keys>>

\* The subscriptions' workers have finished their callbacks.
Joins == \A k \in Feeds : thread[k].pc = "idle"

\* close() closes its handles with the lock released.
Join(t) == /\ thread[t].pc = "join" /\ Joins
           /\ Returns(t) /\ UNCHANGED <<feed, keys>>

\* The service answers, differs, fails or is not there; its client has a timeout.
Serve(t) == /\ thread[t].pc = "service" /\ Returns(t)
            /\ UNCHANGED <<feed, keys>>

\* With pull_feedback a property or a wait looks for new messages first, unless another
\* caller is doing so.
Read(t) ==
  /\ thread[t].pc = "read"
  /\ IF client.closed \/ client.error THEN Raises(t)
     ELSE IF client.pollLock = NoThread
     THEN Moves(t, "pollInfo") /\ client' = [client EXCEPT !.pollLock = t]
     ELSE Moves(t, "look") /\ UNCHANGED client
  /\ UNCHANGED <<feed, keys>>

\* One topic of FeedbackPulls.poll.
Poll(t, k, here, next) ==
  LET stored == IF feed[k] = Absent THEN client ELSE Stored(k, feed[k])
  IN /\ thread[t].pc = here
     /\ client' = IF next = "look" THEN [stored EXCEPT !.pollLock = NoThread] ELSE stored
     /\ thread' = Notified(With(t, [thread[t] EXCEPT !.pc = next]))
     /\ feed' = [feed EXCEPT ![k] = Absent]
     /\ UNCHANGED keys

Newer(t) == client[thread[t].kind] # Absent /\ client[thread[t].kind].number > thread[t].after

\* _wait looks: the value, or the next round (asleep, unless it polls).
LookWait(t) ==
  /\ thread[t].pc = "look" /\ thread[t].use = "wait"
  /\ IF client.closed \/ client.error THEN Raises(t)
     ELSE IF Newer(t) THEN Returns(t)
     ELSE Moves(t, IF client.mode = "pull" THEN "read" ELSE "sleep") /\ UNCHANGED client
  /\ UNCHANGED <<feed, keys>>

\* The deadline of a wait that found nothing.
GiveUp(t) == /\ thread[t].pc \in {"sleep", "read"} /\ thread[t].use = "wait" /\ ~Newer(t)
             /\ Returns(t) /\ UNCHANGED <<feed, keys>>

\* publish reads the next message it needs; a state is asked for again if there was none.
WithRead(call) ==
  LET k == Head(call.todo)
      again == client.make = "gripper" /\ k = "state" /\ Len(call.todo) > 1 /\ client.state = Absent
  IN [call EXCEPT !.todo = Tail(@) \o IF again THEN <<"state">> ELSE <<>>,
                  ![k] = client[k],
                  !.checked = IF @ = Absent /\ k = "info" THEN client.info ELSE @]

FaultyFits(call) == call.info # Absent
\* validate_info, and the input state is of the same device.
Fits(call) == /\ call.info # Absent
              /\ call.state # Absent => call.state.type = call.info.type

LookPublish(t) ==
  LET call == WithRead(thread[t]) IN
  /\ thread[t].pc = "look" /\ thread[t].use = "publish"
  /\ IF client.closed \/ client.error \/ ~Fits(call) THEN Raises(t)
     ELSE /\ thread' = With(t, [call EXCEPT !.pc = IF call.todo = <<>> THEN "reserve" ELSE Asks])
          /\ UNCHANGED client
  /\ UNCHANGED <<feed, keys>>

FaultyReserved(t) == client
\* The sequence is consumed before the transport is asked.
Reserved(t) == [client EXCEPT !.sequence = @ + 1]

Reserve(t) ==
  /\ thread[t].pc = "reserve"
  /\ IF client.sequence = client.limit THEN Raises(t)
     ELSE /\ client' = Reserved(t)
          /\ thread' = With(t, [thread[t] EXCEPT !.pc = "transmit", !.sequence = client.sequence + 1])
  /\ UNCHANGED <<feed, keys>>

\* The command reaches the topic, or the transport raises with or without sending it.
Transmit(t) ==
  /\ thread[t].pc = "transmit"
  /\ keys' = Append(keys, [sequence |-> thread[t].sequence, info |-> thread[t].info,
                           checked |-> thread[t].checked, state |-> thread[t].state])
  /\ Returns(t) \/ Raises(t)
  /\ UNCHANGED feed

-----------------------------------------------------------------------------

EndInit ==
  /\ \E shape \in Shapes :
       client = [make |-> shape.make, mode |-> shape.mode, limit |-> shape.limit,
                 info |-> Absent, state |-> Absent, error |-> FALSE, closed |-> FALSE,
                 sequence |-> 0, publishLock |-> NoThread, pollLock |-> NoThread,
                 calls |-> 0, received |-> [k \in Feeds |-> 0]]
  /\ feed = [k \in Feeds |-> Absent]
  /\ thread = [t \in Threads |-> Resting]
  /\ keys = <<>>

\* What a thread in a call does next, its deadline aside.
EndWorking(t) ==
  \/ Lock(t) \/ Join(t) \/ Serve(t) \/ Read(t) \/ LookWait(t) \/ LookPublish(t)
  \/ Poll(t, "info", "pollInfo", "pollState") \/ Poll(t, "state", "pollState", "look")
  \/ Reserve(t) \/ Transmit(t)

EndNext == \/ \E t \in Users : Use(t) \/ GiveUp(t)
           \/ \E t \in Threads : EndWorking(t)
           \/ \E k \in Feeds : Send(k) \/ Worker(k)

\* Threads run; nothing else is promised, not even that a deadline passes.
EndFairness == \A t \in Threads : WF_endVars(EndWorking(t))

EndSpec == EndInit /\ [][EndNext]_endVars /\ EndFairness

-----------------------------------------------------------------------------
(* Properties *)

\* The lock is held exactly by the thread in publish or set_touch, and the fields of
\* the client have their types.
EndTypeOK ==
  /\ client.sequence \in 0 .. client.limit
  /\ {client.error, client.closed} \subseteq BOOLEAN
  /\ \A t \in Threads : client.publishLock = t <=>
       \/ thread[t].pc \in {"service", "reserve", "transmit"}
       \/ thread[t].use = "publish" /\ thread[t].pc \in {"read", "pollInfo", "pollState", "look"}

\* "consume even if transport fails; never replay this sequence" (hand.py:217): the
\* sequences given to the transport only grow, over failed publishes, over threads and
\* callbacks that publish at once, and up to the last one.
SequencesGrow == \A i, j \in 1 .. Len(keys) : i < j => keys[i].sequence < keys[j].sequence

\* No command is on its way once close has returned its lock: publish holds it from its
\* look at _closed to the transport (hand.py:179-219, gripper.py:79-98).
NothingAfterClose == [][keys' # keys => ~client.closed]_endVars

\* All is of one device, in whichever order info and states come and change: what a
\* hand client shows; a command and its input state; and the info whose limits a hand's
\* command was checked against and the one it is stamped with.
OneDevice ==
  /\ client.make = "hand" /\ client.info # Absent /\ client.state # Absent =>
       client.info.type = client.state.type
  /\ \A i \in 1 .. Len(keys) :
       /\ keys[i].state # Absent => keys[i].state.type = keys[i].info.type
       /\ client.make = "hand" => keys[i].checked = keys[i].info

\* Once nobody calls any more every call ends, and stays ended: publish, set_touch and
\* close (which waits for callbacks that are still in publish) always, a wait unless
\* what it waits for is not there.
EndRests ==
  \A t \in Threads :
    \/ thread[t].pc = "idle"
    \/ thread[t].use = "wait" /\ ~Newer(t) /\ ~client.error /\ ~client.closed
EndCallsEnd == <>[]EndRests
=============================================================================
