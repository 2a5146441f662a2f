--------------------------- MODULE EndEffectorProofs ---------------------------
(***************************************************************************)
(* Theorems about EndEffector for every set of threads and device types,   *)
(* every limit and every bound: who holds the publish lock, and what that  *)
(* means for the sequences of the commands and for close.                  *)
(***************************************************************************)
EXTENDS EndEffector, TLAPS

USE ThreadAssumption, ShapesAssumption, EndBoundAssumption

-----------------------------------------------------------------------------
(* Types *)

Messages == [number : Nat, type : Types \cup {"garbled", "none"}]

Places == {"idle", "lock", "service", "join", "read", "pollInfo", "pollState", "look",
           "sleep", "reserve", "transmit"}

Calls == [pc : Places, use : {"none", "publish", "close", "touch", "wait"}, kind : Feeds,
          after : Nat, todo : Seq(Feeds), checked : Messages, info : Messages,
          state : Messages, sequence : Nat]

Clients == [make : {"hand", "gripper"}, mode : {"pull", "callback"}, limit : Nat,
            info : Messages, state : Messages, error : BOOLEAN, closed : BOOLEAN,
            sequence : Nat, publishLock : Threads \cup {NoThread},
            pollLock : Threads \cup {NoThread}, calls : Nat, received : [Feeds -> Nat]]

Commands == [sequence : Nat, info : Messages, checked : Messages, state : Messages]

EndTypes == /\ client \in Clients
            /\ feed \in [Feeds -> Messages]
            /\ thread \in [Threads -> Calls]
            /\ keys \in Seq(Commands)

-----------------------------------------------------------------------------
(* The invariant *)

\* A thread is between taking the publish lock and giving it back.
Holds(c) == \/ c.pc \in {"service", "reserve", "transmit"}
            \/ c.use = "publish" /\ c.pc \in {"read", "pollInfo", "pollState", "look"}

\* Only waits sleep, and a publish that still reads has something to read.
GoodCall(c) == /\ c.pc = "sleep" => c.use = "wait"
               /\ c.use = "publish" /\ c.pc \in {"read", "pollInfo", "pollState", "look"}
                    => c.todo # <<>>

LockIsHeld == /\ \A t \in Threads : client.publishLock = t <=> Holds(thread[t])
              /\ client.closed => client.publishLock = NoThread

\* What has been given to the transport is behind what is on its way.
KeysAreBehind ==
  /\ \A i \in 1 .. Len(keys) : keys[i].sequence <= client.sequence
  /\ \A t \in Threads : thread[t].pc = "transmit" =>
       /\ thread[t].sequence = client.sequence
       /\ \A i \in 1 .. Len(keys) : keys[i].sequence < client.sequence

EndInv == /\ EndTypes
          /\ \A t \in Threads : GoodCall(thread[t])
          /\ LockIsHeld
          /\ client.sequence <= client.limit
          /\ KeysAreBehind
          /\ SequencesGrow

-----------------------------------------------------------------------------
(* What the operators do *)

LEMMA Constants ==
  /\ Feeds = {"info", "state"} /\ Feeds \subseteq Threads /\ Users \subseteq Threads
  /\ Absent \in Messages /\ Resting \in Calls
  /\ Resting.pc = "idle" /\ Resting.use = "none" /\ Resting.todo = <<>>
  /\ GoodCall(Resting) /\ ~Holds(Resting)
<1>1. Absent \in Messages /\ Feeds = {"info", "state"}
  BY DEF Absent, Messages, Feeds
<1>2. <<>> \in Seq(Feeds)
  OBVIOUS
<1> QED
  BY <1>1, <1>2 DEF Threads, Resting, Calls, Places, GoodCall, Holds

\* A field of the client that is a message.
LEMMA MessageFields ==
  ASSUME NEW c \in Clients, NEW k \in Feeds, NEW m \in Messages
  PROVE  /\ c[k] \in Messages
         /\ LET d == [c EXCEPT ![k] = m] IN
            /\ d \in Clients
            /\ d.publishLock = c.publishLock /\ d.closed = c.closed /\ d.sequence = c.sequence
            /\ d.limit = c.limit
<1>1. CASE k = "info"
  BY <1>1 DEF Clients
<1>2. CASE k = "state"
  BY <1>2 DEF Clients
<1> QED
  BY <1>1, <1>2 DEF Feeds

LEMMA StoredFields ==
  ASSUME client \in Clients, NEW k \in Feeds, NEW m \in Messages
  PROVE  LET d == Stored(k, m) IN
         /\ d \in Clients
         /\ d.publishLock = client.publishLock /\ d.closed = client.closed
         /\ d.sequence = client.sequence /\ d.limit = client.limit
<1>1. LET d == [client EXCEPT !.error = TRUE] IN
      /\ d \in Clients
      /\ d.publishLock = client.publishLock /\ d.closed = client.closed
      /\ d.sequence = client.sequence /\ d.limit = client.limit
  BY DEF Clients
<1>2. LET d == [client EXCEPT ![k] = m] IN
      /\ d \in Clients
      /\ d.publishLock = client.publishLock /\ d.closed = client.closed
      /\ d.sequence = client.sequence /\ d.limit = client.limit
  BY MessageFields
<1>3. \/ Stored(k, m) = client
      \/ Stored(k, m) = [client EXCEPT !.error = TRUE]
      \/ Stored(k, m) = [client EXCEPT ![k] = m]
  BY DEF Stored
<1> QED
  BY <1>1, <1>2, <1>3

LEMMA NotifiedCalls ==
  ASSUME NEW calls \in [Threads -> Calls], \A t \in Threads : GoodCall(calls[t])
  PROVE  /\ Notified(calls) \in [Threads -> Calls]
         /\ \A t \in Threads :
              /\ GoodCall(Notified(calls)[t])
              /\ Holds(Notified(calls)[t]) <=> Holds(calls[t])
              /\ calls[t].pc = "transmit" \/ Notified(calls)[t].pc = "transmit"
                   => Notified(calls)[t] = calls[t]
<1> SUFFICES ASSUME NEW t \in Threads
             PROVE  LET c == Notified(calls)[t] IN
                    /\ c \in Calls /\ GoodCall(c)
                    /\ Holds(c) <=> Holds(calls[t])
                    /\ calls[t].pc = "transmit" \/ c.pc = "transmit" => c = calls[t]
  BY DEF Notified
<1>1. CASE calls[t].pc = "sleep"
  <2>1. Notified(calls)[t] = [calls[t] EXCEPT !.pc = "look"]
    BY <1>1 DEF Notified
  <2>2. calls[t] \in Calls /\ calls[t].use = "wait"
    BY <1>1 DEF GoodCall
  <2> QED
    BY <1>1, <2>1, <2>2 DEF Calls, Places, GoodCall, Holds
<1>2. CASE calls[t].pc # "sleep"
  BY <1>2 DEF Notified
<1> QED
  BY <1>1, <1>2

LEMMA NotifiedFrame ==
  ASSUME EndInv, NEW t \in Threads, NEW c \in Calls, GoodCall(c),
         thread' \in {With(t, c), Notified(With(t, c))}
  PROVE  /\ thread' \in [Threads -> Calls]
         /\ \A u \in Threads : GoodCall(thread'[u])
         /\ \A u \in Threads \ {t} :
              /\ Holds(thread'[u]) <=> Holds(thread[u])
              /\ thread'[u].pc = "transmit" => thread'[u] = thread[u]
         /\ Holds(thread'[t]) <=> Holds(c)
         /\ c.pc = "transmit" \/ thread'[t].pc = "transmit" => thread'[t] = c
<1>1. /\ With(t, c) \in [Threads -> Calls]
      /\ With(t, c)[t] = c
      /\ \A u \in Threads \ {t} : With(t, c)[u] = thread[u]
      /\ \A u \in Threads : GoodCall(With(t, c)[u])
  BY DEF With, EndInv, EndTypes
<1>2. CASE thread' = With(t, c)
  BY <1>1, <1>2
<1>3. CASE thread' = Notified(With(t, c))
  <2> DEFINE calls == With(t, c)
  <2>1. calls \in [Threads -> Calls] /\ \A u \in Threads : GoodCall(calls[u])
    BY <1>1
  <2> HIDE DEF calls
  <2>2. /\ Notified(calls) \in [Threads -> Calls]
        /\ \A u \in Threads :
              /\ GoodCall(Notified(calls)[u])
              /\ Holds(Notified(calls)[u]) <=> Holds(calls[u])
              /\ calls[u].pc = "transmit" \/ Notified(calls)[u].pc = "transmit"
                   => Notified(calls)[u] = calls[u]
    BY <2>1, NotifiedCalls
  <2>3. calls[t] = c /\ \A u \in Threads \ {t} : calls[u] = thread[u]
    BY <1>1 DEF calls
  <2>4. thread' = Notified(calls)
    BY <1>3 DEF calls
  <2> QED
    BY <2>2, <2>3, <2>4
<1> QED
  BY <1>2, <1>3

\* A step that gives one thread another call and leaves the sequences alone.
LEMMA QuietStep ==
  ASSUME EndInv, NEW t \in Threads, NEW c \in Calls, GoodCall(c), c.pc # "transmit",
         thread' \in {With(t, c), Notified(With(t, c))},
         client' \in Clients, feed' \in [Feeds -> Messages], keys' = keys,
         client'.sequence = client.sequence, client'.limit = client.limit,
         client'.publishLock = IF Holds(c) THEN t
                               ELSE IF client.publishLock = t THEN NoThread
                               ELSE client.publishLock,
         Holds(c) => client.publishLock \in {NoThread, t},
         client'.closed => client'.publishLock = NoThread
  PROVE  EndInv'
<1>1. /\ thread' \in [Threads -> Calls]
      /\ \A u \in Threads : GoodCall(thread'[u])
      /\ \A u \in Threads \ {t} :
              /\ Holds(thread'[u]) <=> Holds(thread[u])
              /\ thread'[u].pc = "transmit" => thread'[u] = thread[u]
      /\ Holds(thread'[t]) <=> Holds(c)
      /\ thread'[t].pc # "transmit"
  BY NotifiedFrame
<1>2. EndTypes'
  BY <1>1 DEF EndInv, EndTypes
<1>3. LockIsHeld'
  BY <1>1 DEF EndInv, LockIsHeld
<1>4. KeysAreBehind'
  BY <1>1 DEF EndInv, KeysAreBehind
<1>5. SequencesGrow' /\ client'.sequence <= client'.limit
  BY DEF EndInv, SequencesGrow
<1> QED
  BY <1>1, <1>2, <1>3, <1>4, <1>5 DEF EndInv, GoodCall

\* What a call's end does to the client.
LEMMA UnlockedFields ==
  ASSUME client \in Clients, NEW t \in Threads
  PROVE  \A d \in {Unlocked(t), [Unlocked(t) EXCEPT !.error = TRUE]} :
           /\ d \in Clients
           /\ d.publishLock = IF client.publishLock = t THEN NoThread ELSE client.publishLock
           /\ d.closed = client.closed /\ d.sequence = client.sequence
           /\ d.limit = client.limit
<1> DEFINE held == IF client.publishLock = t THEN NoThread ELSE client.publishLock
<1>1. held \in Threads \cup {NoThread}
  BY DEF Clients
<1>2. Unlocked(t) = [client EXCEPT !.publishLock = held]
  BY DEF Unlocked
<1> HIDE DEF held
<1>3. LET d == [client EXCEPT !.publishLock = held] IN
      /\ d \in Clients /\ d.publishLock = held
      /\ d.closed = client.closed /\ d.sequence = client.sequence /\ d.limit = client.limit
  BY <1>1 DEF Clients
<1>4. ASSUME NEW c \in Clients
      PROVE  LET d == [c EXCEPT !.error = TRUE] IN
             /\ d \in Clients /\ d.publishLock = c.publishLock
             /\ d.closed = c.closed /\ d.sequence = c.sequence /\ d.limit = c.limit
  BY DEF Clients
<1>5. LET d == Unlocked(t) IN
      /\ d \in Clients /\ d.publishLock = held
      /\ d.closed = client.closed /\ d.sequence = client.sequence /\ d.limit = client.limit
  BY <1>2, <1>3
<1>6. LET d == [Unlocked(t) EXCEPT !.error = TRUE] IN
      /\ d \in Clients /\ d.publishLock = held
      /\ d.closed = client.closed /\ d.sequence = client.sequence /\ d.limit = client.limit
  BY <1>4, <1>5
<1> QED
  BY <1>5, <1>6 DEF held

LEMMA LastStep ==
  ASSUME EndInv, NEW t \in Threads, Returns(t) \/ Raises(t)
  PROVE  /\ client' \in {Unlocked(t), [Unlocked(t) EXCEPT !.error = TRUE]}
         /\ thread' \in {With(t, Resting), Notified(With(t, Resting))}
  BY DEF Returns, Raises, Ended

LEMMA CallEnds ==
  ASSUME EndInv, NEW t \in Threads, Returns(t) \/ Raises(t),
         feed' \in [Feeds -> Messages], keys' = keys
  PROVE  EndInv'
<1>1. /\ client' \in Clients
      /\ client'.publishLock = IF client.publishLock = t THEN NoThread ELSE client.publishLock
      /\ client'.closed = client.closed /\ client'.sequence = client.sequence
      /\ client'.limit = client.limit
  <2>1. client \in Clients
    BY DEF EndInv, EndTypes
  <2>2. client' \in {Unlocked(t), [Unlocked(t) EXCEPT !.error = TRUE]}
    BY LastStep
  <2> QED
    BY <2>1, <2>2, UnlockedFields
<1>2. client'.closed => client'.publishLock = NoThread
  BY <1>1 DEF EndInv, LockIsHeld
<1>3. Resting \in Calls /\ GoodCall(Resting) /\ Resting.pc # "transmit" /\ ~Holds(Resting)
  BY Constants
<1> QED
  BY <1>1, <1>2, <1>3, LastStep, QuietStep

-----------------------------------------------------------------------------
(* Every step preserves the invariant *)

LEMMA SendStep ==
  ASSUME EndInv, NEW k \in Feeds, Send(k)
  PROVE  EndInv'
<1>1. /\ client' = [client EXCEPT !.received[k] = @ + 1] /\ client \in Clients
      /\ feed \in [Feeds -> Messages] /\ UNCHANGED <<thread, keys>>
  BY DEF Send, EndInv, EndTypes
<1>2. /\ client' \in Clients /\ client'.publishLock = client.publishLock
      /\ client'.closed = client.closed /\ client'.sequence = client.sequence
      /\ client'.limit = client.limit /\ client'.received[k] \in Nat
  BY <1>1 DEF Clients
<1>3. PICK type \in Types \cup {"garbled"} :
        feed' = [feed EXCEPT ![k] = [number |-> client'.received[k], type |-> type]]
  BY DEF Send
<1>4. feed' \in [Feeds -> Messages]
  BY <1>1, <1>2, <1>3 DEF Messages
<1> QED
  BY <1>1, <1>2, <1>4 DEF EndInv, EndTypes, LockIsHeld, KeysAreBehind, SequencesGrow, GoodCall

LEMMA WorkerStep ==
  ASSUME EndInv, NEW k \in Feeds, Worker(k)
  PROVE  EndInv'
<1>1. /\ client \in Clients /\ feed \in [Feeds -> Messages] /\ thread \in [Threads -> Calls]
      /\ feed' \in [Feeds -> Messages] /\ keys' = keys /\ k \in Threads
  BY Constants DEF EndInv, EndTypes, Worker
<1>2. LET d == Stored(k, feed[k]) IN
      /\ d \in Clients
      /\ d.publishLock = client.publishLock /\ d.closed = client.closed
      /\ d.sequence = client.sequence /\ d.limit = client.limit
  BY <1>1, StoredFields
<1>4. CASE client' = Stored(k, feed[k]) /\ thread' = Notified(thread)
  <2>1. thread = With(k, thread[k])
    BY <1>1 DEF With
  <2>2. /\ thread[k] \in Calls /\ GoodCall(thread[k]) /\ thread[k].pc # "transmit"
        /\ client.publishLock = k <=> Holds(thread[k])
        /\ client.closed => client.publishLock = NoThread
    BY <1>1 DEF Worker, EndInv, LockIsHeld
  <2> QED
    BY <1>1, <1>2, <1>4, <2>1, <2>2, QuietStep
<1>5. CASE /\ client' = Calling(Stored(k, feed[k]))
           /\ thread' = Notified(With(k, [Resting EXCEPT !.pc = "lock", !.use = "publish"]))
  <2> DEFINE c == [Resting EXCEPT !.pc = "lock", !.use = "publish"]
  <2>1. c \in Calls /\ GoodCall(c) /\ c.pc # "transmit" /\ ~Holds(c)
    BY Constants DEF Calls, Places, GoodCall, Holds
  <2>2. /\ client' \in Clients
        /\ client'.publishLock = client.publishLock /\ client'.closed = client.closed
        /\ client'.sequence = client.sequence /\ client'.limit = client.limit
    BY <1>2, <1>5 DEF Calling, Clients
  <2>3. client.publishLock # k /\ (client.closed => client.publishLock = NoThread)
    BY <1>1 DEF Worker, EndInv, LockIsHeld, Holds
  <2> HIDE DEF c
  <2> QED
    BY <1>1, <1>5, <2>1, <2>2, <2>3, QuietStep DEF c
<1> QED
  BY <1>4, <1>5 DEF Worker

LEMMA UseStep ==
  ASSUME EndInv, NEW t \in Users, Use(t)
  PROVE  EndInv'
<1>1. /\ client \in Clients /\ feed' \in [Feeds -> Messages] /\ keys' = keys /\ t \in Threads
      /\ client' = Calling(client)
  BY Constants DEF EndInv, EndTypes, Use
<1>2. /\ client' \in Clients /\ client'.publishLock = client.publishLock
      /\ client'.closed = client.closed /\ client'.sequence = client.sequence
      /\ client'.limit = client.limit
  BY <1>1 DEF Calling, Clients
<1>3. client.publishLock # t /\ (client.closed => client.publishLock = NoThread)
  BY <1>1 DEF Use, EndInv, LockIsHeld, Holds
<1>4. PICK c : c \in Calls /\ GoodCall(c) /\ c.pc # "transmit" /\ ~Holds(c) /\ thread' = With(t, c)
  <2>1. ASSUME NEW use \in {"publish", "close", "touch"}
        PROVE  LET c == [Resting EXCEPT !.pc = "lock", !.use = use] IN
               c \in Calls /\ GoodCall(c) /\ c.pc # "transmit" /\ ~Holds(c)
    BY Constants DEF Calls, Places, GoodCall, Holds
  <2>2. ASSUME NEW kind \in Feeds, NEW after \in {0, client[kind].number}
        PROVE  LET c == [Resting EXCEPT !.pc = Asks, !.use = "wait", !.kind = kind,
                                        !.after = after] IN
               c \in Calls /\ GoodCall(c) /\ c.pc # "transmit" /\ ~Holds(c)
    <3>1. after \in Nat
      <4>1. client[kind] \in Messages
        BY <1>1, MessageFields, Constants
      <4> QED
        BY <4>1 DEF Messages
    <3>2. Asks \in {"read", "look"}
      BY DEF Asks
    <3> QED
      BY <3>1, <3>2, Constants DEF Calls, Places, GoodCall, Holds
  <2>3. CASE \E use \in {"publish", "close", "touch"} :
               thread' = With(t, [Resting EXCEPT !.pc = "lock", !.use = use])
    BY <2>1, <2>3
  <2>4. CASE \E kind \in Feeds : \E after \in {0, client[kind].number} :
               thread' = With(t, [Resting EXCEPT !.pc = Asks, !.use = "wait", !.kind = kind,
                                                 !.after = after])
    BY <2>2, <2>4
  <2> QED
    BY <2>3, <2>4 DEF Use
<1> QED
  BY <1>1, <1>2, <1>3, <1>4, QuietStep

\* A step of a call that keeps or gives up nothing but the poll's lock.
LEMMA KeepStep ==
  ASSUME EndInv, NEW t \in Threads, NEW c \in Calls, GoodCall(c), c.pc # "transmit",
         Holds(c) <=> Holds(thread[t]),
         thread' \in {With(t, c), Notified(With(t, c))},
         client' \in Clients, feed' \in [Feeds -> Messages], keys' = keys,
         client'.sequence = client.sequence, client'.limit = client.limit,
         client'.publishLock = client.publishLock, client'.closed = client.closed
  PROVE  EndInv'
<1>1. client.publishLock = t <=> Holds(c)
  BY DEF EndInv, LockIsHeld
<1>2. client'.closed => client'.publishLock = NoThread
  BY DEF EndInv, LockIsHeld
<1> QED
  BY <1>1, <1>2, QuietStep

Looking == {"read", "pollInfo", "pollState", "look"}

LEMMA MovedCall ==
  ASSUME EndInv, NEW t \in Threads, thread[t].pc \in Looking,
         NEW place \in Looking \cup IF thread[t].use = "wait" THEN {"sleep"} ELSE {}
  PROVE  LET c == [thread[t] EXCEPT !.pc = place] IN
         /\ c \in Calls /\ GoodCall(c) /\ c.pc # "transmit"
         /\ Holds(c) <=> Holds(thread[t])
  BY DEF EndInv, EndTypes, Calls, Places, Looking, GoodCall, Holds

LEMMA LockStep ==
  ASSUME EndInv, NEW t \in Threads, Lock(t)
  PROVE  EndInv'
<1>1. /\ client \in Clients /\ feed' \in [Feeds -> Messages] /\ keys' = keys
      /\ thread[t] \in Calls /\ thread[t].pc = "lock" /\ client.publishLock = NoThread
  BY DEF EndInv, EndTypes, Lock, LockFree
<1>2. CASE Returns(t) \/ Raises(t)
  BY <1>1, <1>2, CallEnds
<1>3. ~Holds(thread[t]) /\ NoThread # t
  BY <1>1 DEF EndInv, LockIsHeld, Holds
<1>4. CASE client' = [client EXCEPT !.publishLock = t] /\ ~client.closed
  <2>1. /\ client' \in Clients /\ client'.publishLock = t /\ ~client'.closed
        /\ client'.sequence = client.sequence /\ client'.limit = client.limit
    BY <1>1, <1>4 DEF Clients
  <2>2. CASE /\ thread[t].use = "publish"
             /\ thread' = With(t, [thread[t] EXCEPT !.pc = Asks, !.todo = PublishReads])
    <3> DEFINE c == [thread[t] EXCEPT !.pc = Asks, !.todo = PublishReads]
    <3>1. Asks \in {"read", "look"} /\ PublishReads \in Seq(Feeds) /\ PublishReads # <<>>
      <4>1. /\ <<"info", "state">> \in Seq({"info", "state"}) \ {<<>>}
            /\ <<"info", "state", "info">> \in Seq({"info", "state"}) \ {<<>>}
        OBVIOUS
      <4> QED
        BY <4>1 DEF Asks, PublishReads, Feeds
    <3>2. c \in Calls /\ GoodCall(c) /\ Holds(c) /\ c.pc # "transmit"
      BY <1>1, <2>2, <3>1 DEF Calls, Places, GoodCall, Holds
    <3> QED
      BY <1>1, <2>1, <2>2, <3>2, QuietStep
  <2>3. CASE Moves(t, "service")
    <3> DEFINE c == [thread[t] EXCEPT !.pc = "service"]
    <3>1. c \in Calls /\ GoodCall(c) /\ Holds(c) /\ c.pc # "transmit"
      BY <1>1 DEF Calls, Places, GoodCall, Holds
    <3> QED
      BY <1>1, <2>1, <2>3, <3>1, QuietStep DEF Moves
  <2> QED
    BY <1>1, <1>4, <2>2, <2>3, <1>2 DEF Lock, Closing, Clients
<1>5. CASE client' = Closing(t) /\ thread' = Notified(With(t, [thread[t] EXCEPT !.pc = "join"]))
  <2> DEFINE c == [thread[t] EXCEPT !.pc = "join"]
  <2>1. /\ client' \in Clients /\ client'.publishLock = client.publishLock
        /\ client'.sequence = client.sequence /\ client'.limit = client.limit
    BY <1>1, <1>5 DEF Closing, Clients
  <2>2. c \in Calls /\ GoodCall(c) /\ ~Holds(c) /\ c.pc # "transmit"
    BY <1>1 DEF Calls, Places, GoodCall, Holds
  <2> QED
    BY <1>1, <1>3, <1>5, <2>1, <2>2, QuietStep
<1> QED
  BY <1>2, <1>4, <1>5 DEF Lock

LEMMA ReadStep ==
  ASSUME EndInv, NEW t \in Threads, Read(t)
  PROVE  EndInv'
<1>1. /\ client \in Clients /\ feed' \in [Feeds -> Messages] /\ keys' = keys
      /\ thread[t].pc \in Looking
  BY DEF EndInv, EndTypes, Read, Looking
<1>2. CASE Raises(t)
  BY <1>1, <1>2, CallEnds
<1>3. CASE \E place \in {"pollInfo", "look"} :
             Moves(t, place) /\ client' \in {client, [client EXCEPT !.pollLock = t]}
  <2>1. PICK place \in {"pollInfo", "look"} :
          Moves(t, place) /\ client' \in {client, [client EXCEPT !.pollLock = t]}
    BY <1>3
  <2>2. /\ client' \in Clients /\ client'.publishLock = client.publishLock
        /\ client'.closed = client.closed /\ client'.sequence = client.sequence
        /\ client'.limit = client.limit
    BY <1>1, <2>1 DEF Clients
  <2> DEFINE c == [thread[t] EXCEPT !.pc = place]
  <2>3. /\ c \in Calls /\ GoodCall(c) /\ c.pc # "transmit"
        /\ Holds(c) <=> Holds(thread[t])
    BY <1>1, MovedCall DEF Looking
  <2>4. thread' = With(t, c)
    BY <2>1 DEF Moves
  <2> HIDE DEF c
  <2> QED
    BY <1>1, <2>2, <2>3, <2>4, KeepStep
<1> QED
  BY <1>2, <1>3 DEF Read

LEMMA PollStep ==
  ASSUME EndInv, NEW t \in Threads, NEW k \in Feeds,
         NEW here \in Looking, NEW next \in {"pollState", "look"}, Poll(t, k, here, next)
  PROVE  EndInv'
<1> DEFINE stored == IF feed[k] = Absent THEN client ELSE Stored(k, feed[k])
           c == [thread[t] EXCEPT !.pc = next]
<1>1. /\ client \in Clients /\ feed \in [Feeds -> Messages] /\ feed[k] \in Messages
      /\ keys' = keys /\ thread[t].pc \in Looking /\ feed' = [feed EXCEPT ![k] = Absent]
  BY DEF EndInv, EndTypes, Poll
<1>2. LET d == Stored(k, feed[k]) IN
      /\ d \in Clients
      /\ d.publishLock = client.publishLock /\ d.closed = client.closed
      /\ d.sequence = client.sequence /\ d.limit = client.limit
  BY <1>1, StoredFields
<1>3. /\ stored \in Clients
      /\ stored.publishLock = client.publishLock /\ stored.closed = client.closed
      /\ stored.sequence = client.sequence /\ stored.limit = client.limit
  BY <1>1, <1>2
<1>4. feed' \in [Feeds -> Messages]
  BY <1>1, Constants
<1>5. client' \in {stored, [stored EXCEPT !.pollLock = NoThread]} /\ thread' = Notified(With(t, c))
  BY DEF Poll
<1>6. /\ c \in Calls /\ GoodCall(c) /\ c.pc # "transmit"
      /\ Holds(c) <=> Holds(thread[t])
  BY <1>1, MovedCall DEF Looking
<1> HIDE DEF stored, c
<1>7. /\ client' \in Clients /\ client'.publishLock = client.publishLock
      /\ client'.closed = client.closed /\ client'.sequence = client.sequence
      /\ client'.limit = client.limit
  BY <1>3, <1>5 DEF Clients
<1> QED
  BY <1>1, <1>4, <1>5, <1>6, <1>7, KeepStep

LEMMA LookWaitStep ==
  ASSUME EndInv, NEW t \in Threads, LookWait(t)
  PROVE  EndInv'
<1>1. /\ client \in Clients /\ feed' \in [Feeds -> Messages] /\ keys' = keys
      /\ thread[t].pc \in Looking /\ thread[t].use = "wait"
  BY DEF EndInv, EndTypes, LookWait, Looking
<1>2. CASE Returns(t) \/ Raises(t)
  BY <1>1, <1>2, CallEnds
<1>3. CASE \E place \in {"read", "sleep"} : Moves(t, place) /\ UNCHANGED client
  <2>1. PICK place \in {"read", "sleep"} : Moves(t, place) /\ UNCHANGED client
    BY <1>3
  <2> DEFINE c == [thread[t] EXCEPT !.pc = place]
  <2>2. /\ c \in Calls /\ GoodCall(c) /\ c.pc # "transmit"
        /\ Holds(c) <=> Holds(thread[t])
    BY <1>1, MovedCall DEF Looking
  <2>3. thread' = With(t, c)
    BY <2>1 DEF Moves
  <2> HIDE DEF c
  <2> QED
    BY <1>1, <2>1, <2>2, <2>3, KeepStep
<1> QED
  BY <1>2, <1>3 DEF LookWait

\* What publish has read after one more look.
LEMMA ReadCall ==
  ASSUME EndInv, NEW t \in Threads, thread[t].use = "publish", thread[t].pc \in Looking
  PROVE  WithRead(thread[t]) \in Calls /\ WithRead(thread[t]).use = "publish"
<1> DEFINE call == thread[t]
           k == Head(call.todo)
           again == client.make = "gripper" /\ k = "state" /\ Len(call.todo) > 1
                      /\ client.state = Absent
           more == IF again THEN <<"state">> ELSE <<>>
           todo == Tail(call.todo) \o more
           checked == IF call.checked = Absent /\ k = "info" THEN client.info ELSE call.checked
<1>1. call \in Calls /\ call.use = "publish" /\ call.todo \in Seq(Feeds) /\ call.todo # <<>>
  BY DEF EndInv, EndTypes, Calls, GoodCall, Looking
<1>2. k \in Feeds /\ Tail(call.todo) \in Seq(Feeds)
  BY <1>1
<1>3. more \in Seq(Feeds)
  <2>1. <<"state">> \in Seq({"info", "state"}) /\ <<>> \in Seq({"info", "state"})
    OBVIOUS
  <2> QED
    BY <2>1 DEF Feeds
<1>4. todo \in Seq(Feeds)
  BY <1>2, <1>3
<1>5. client[k] \in Messages /\ client.info \in Messages /\ call.checked \in Messages
  <2>1. client \in Clients
    BY DEF EndInv, EndTypes
  <2>2. client[k] \in Messages
    BY <1>2, <2>1, MessageFields, Constants
  <2> QED
    BY <1>1, <2>1, <2>2 DEF Clients, Calls
<1>6. checked \in Messages
  BY <1>5
<1>7. WithRead(call) = [call EXCEPT !.todo = todo, ![k] = client[k], !.checked = checked]
  <2>1. WithRead(call) = [call EXCEPT !.todo = todo, ![k] = client[k],
                            !.checked = IF @ = Absent /\ k = "info" THEN client.info ELSE @]
    BY DEF WithRead
  <2> HIDE DEF call, k, more, todo
  <2>2. k # "checked"
    BY <1>2, Constants
  <2> QED
    BY <1>1, <2>1, <2>2 DEF Calls
<1> HIDE DEF call, k, more, todo, checked
<1>8. /\ [call EXCEPT !.todo = todo, ![k] = client[k], !.checked = checked] \in Calls
      /\ [call EXCEPT !.todo = todo, ![k] = client[k], !.checked = checked].use = call.use
  <2>1. CASE k = "info"
    BY <1>1, <1>4, <1>5, <1>6, <2>1 DEF Calls
  <2>2. CASE k = "state"
    BY <1>1, <1>4, <1>5, <1>6, <2>2 DEF Calls
  <2> QED
    BY <1>2, <2>1, <2>2, Constants
<1> QED
  BY <1>1, <1>7, <1>8 DEF call

LEMMA LookPublishStep ==
  ASSUME EndInv, NEW t \in Threads, LookPublish(t)
  PROVE  EndInv'
<1>1. /\ client \in Clients /\ feed' \in [Feeds -> Messages] /\ keys' = keys
      /\ thread[t].pc \in Looking /\ thread[t].use = "publish" /\ Holds(thread[t])
  BY DEF EndInv, EndTypes, LookPublish, Looking, Holds
<1>2. CASE Raises(t)
  BY <1>1, <1>2, CallEnds
<1> DEFINE call == WithRead(thread[t])
           place == IF call.todo = <<>> THEN "reserve" ELSE Asks
           c == [call EXCEPT !.pc = place]
<1>3. CASE thread' = With(t, c) /\ UNCHANGED client
  <2>1. call \in Calls /\ call.use = "publish"
    BY <1>1, ReadCall
  <2> HIDE DEF call
  <2>2. Asks \in {"read", "look"}
    BY DEF Asks
  <2>3. c \in Calls /\ GoodCall(c) /\ c.pc # "transmit" /\ Holds(c)
    BY <2>1, <2>2 DEF Calls, Places, GoodCall, Holds
  <2> HIDE DEF c
  <2> QED
    BY <1>1, <1>3, <2>3, KeepStep
<1> QED
  BY <1>2, <1>3 DEF LookPublish

\* Only the holder of the lock reserves or transmits.
LEMMA OneHolder ==
  ASSUME EndInv, NEW t \in Threads, NEW u \in Threads, Holds(thread[t]), Holds(thread[u])
  PROVE  t = u /\ client.publishLock = t /\ ~client.closed
  BY DEF EndInv, LockIsHeld

LEMMA KeysHaveNumbers ==
  ASSUME EndInv
  PROVE  \A i \in 1 .. Len(keys) : keys[i].sequence \in Nat
<1>1. keys \in Seq(Commands)
  BY DEF EndInv, EndTypes
<1>2. \A i \in 1 .. Len(keys) : keys[i] \in Commands
  BY <1>1
<1> QED
  BY <1>2 DEF Commands

LEMMA ReserveStep ==
  ASSUME EndInv, NEW t \in Threads, Reserve(t)
  PROVE  EndInv'
<1>1. /\ client \in Clients /\ feed' \in [Feeds -> Messages] /\ keys' = keys
      /\ thread[t] \in Calls /\ Holds(thread[t])
  BY DEF EndInv, EndTypes, Reserve, Holds
<1>2. CASE Raises(t)
  BY <1>1, <1>2, CallEnds
<1> DEFINE c == [thread[t] EXCEPT !.pc = "transmit", !.sequence = client.sequence + 1]
<1>3. CASE client' = Reserved(t) /\ thread' = With(t, c) /\ client.sequence # client.limit
  <2>1. /\ client' \in Clients /\ client'.publishLock = client.publishLock
        /\ client'.closed = client.closed /\ client'.sequence = client.sequence + 1
        /\ client'.limit = client.limit
    BY <1>1, <1>3 DEF Reserved, Clients
  <2>2. client.sequence \in Nat /\ client.limit \in Nat
    BY <1>1 DEF Clients
  <2>3. /\ c \in Calls /\ GoodCall(c) /\ Holds(c) /\ c.pc = "transmit"
        /\ c.sequence = client'.sequence
    <3>1. ASSUME NEW n \in Nat
          PROVE  LET d == [thread[t] EXCEPT !.pc = "transmit", !.sequence = n] IN
                 /\ d \in Calls /\ GoodCall(d) /\ Holds(d) /\ d.pc = "transmit"
                 /\ d.sequence = n
      BY <1>1 DEF Calls, Places, GoodCall, Holds
    <3>2. client.sequence + 1 \in Nat
      BY <2>2
    <3> QED
      BY <2>1, <3>1, <3>2
  <2> HIDE DEF c
  <2>4. /\ thread' \in [Threads -> Calls]
        /\ \A u \in Threads : GoodCall(thread'[u])
        /\ \A u \in Threads \ {t} :
              /\ Holds(thread'[u]) <=> Holds(thread[u])
              /\ thread'[u].pc = "transmit" => thread'[u] = thread[u]
        /\ thread'[t] = c
    BY <1>3, <2>3, NotifiedFrame
  <2>5. EndTypes'
    BY <1>1, <2>1, <2>4 DEF EndInv, EndTypes
  <2>6. LockIsHeld'
    BY <1>1, <2>1, <2>3, <2>4 DEF EndInv, LockIsHeld
  <2>7. client'.sequence <= client'.limit
    BY <1>3, <2>1, <2>2 DEF EndInv
  <2>8. KeysAreBehind'
    <3>1. \A i \in 1 .. Len(keys) : keys[i].sequence \in Nat /\ keys[i].sequence <= client.sequence
      BY KeysHaveNumbers DEF EndInv, KeysAreBehind
    <3>2. \A u \in Threads : thread'[u].pc = "transmit" => u = t
      BY <1>1, <2>4, OneHolder DEF Holds
    <3> QED
      BY <1>1, <2>1, <2>2, <2>3, <2>4, <3>1, <3>2 DEF KeysAreBehind
  <2>9. SequencesGrow'
    BY <1>1 DEF EndInv, SequencesGrow
  <2> QED
    BY <2>4, <2>5, <2>6, <2>7, <2>8, <2>9 DEF EndInv, GoodCall
<1> QED
  BY <1>2, <1>3 DEF Reserve

LEMMA TransmitStep ==
  ASSUME EndInv, NEW t \in Threads, Transmit(t)
  PROVE  EndInv' /\ ~client'.closed
<1> DEFINE command == [sequence |-> thread[t].sequence, info |-> thread[t].info,
                       checked |-> thread[t].checked, state |-> thread[t].state]
<1>1. /\ client \in Clients /\ feed' \in [Feeds -> Messages] /\ keys \in Seq(Commands)
      /\ thread[t] \in Calls /\ Holds(thread[t]) /\ thread[t].pc = "transmit"
      /\ Returns(t) \/ Raises(t)
      /\ keys' = Append(keys, command)
  BY DEF EndInv, EndTypes, Transmit, Holds
<1>2. client.publishLock = t /\ ~client.closed
  BY <1>1, OneHolder
<1>3. /\ client' \in Clients /\ client'.publishLock = NoThread /\ ~client'.closed
      /\ client'.sequence = client.sequence /\ client'.limit = client.limit
  <2>1. client' \in {Unlocked(t), [Unlocked(t) EXCEPT !.error = TRUE]}
    BY <1>1, LastStep
  <2> QED
    BY <1>1, <1>2, <2>1, UnlockedFields
<1>4. /\ thread' \in [Threads -> Calls]
      /\ \A u \in Threads : GoodCall(thread'[u])
      /\ \A u \in Threads \ {t} :
            /\ Holds(thread'[u]) <=> Holds(thread[u])
            /\ thread'[u].pc = "transmit" => thread'[u] = thread[u]
      /\ ~Holds(thread'[t]) /\ thread'[t].pc # "transmit"
  <2>1. Resting \in Calls /\ GoodCall(Resting) /\ Resting.pc # "transmit" /\ ~Holds(Resting)
    BY Constants
  <2>2. thread' \in {With(t, Resting), Notified(With(t, Resting))}
    BY <1>1, LastStep
  <2> QED
    BY <2>1, <2>2, NotifiedFrame
<1>5. command \in Commands /\ command.sequence = client.sequence
  BY <1>1 DEF EndInv, KeysAreBehind, Calls, Commands
<1> HIDE DEF command
<1>6. /\ keys' \in Seq(Commands) /\ Len(keys') = Len(keys) + 1 /\ Len(keys) \in Nat
      /\ \A i \in 1 .. Len(keys) : keys'[i] = keys[i]
      /\ keys'[Len(keys) + 1] = command
  BY <1>1, <1>5
<1>7. \A i \in 1 .. Len(keys) : keys[i].sequence \in Nat /\ keys[i].sequence < client.sequence
  BY <1>1, KeysHaveNumbers DEF EndInv, KeysAreBehind
<1>8. \A u \in Threads : ~Holds(thread'[u]) /\ thread'[u].pc # "transmit"
  BY <1>1, <1>4, OneHolder DEF Holds
<1>9. LockIsHeld'
  BY <1>3, <1>8 DEF LockIsHeld
<1>10. client.sequence \in Nat
  BY <1>1 DEF Clients
<1>11. KeysAreBehind'
  <2>1. \A i \in 1 .. Len(keys') : keys'[i].sequence <= client'.sequence
    <3> SUFFICES ASSUME NEW i \in 1 .. Len(keys') PROVE keys'[i].sequence <= client.sequence
      BY <1>3
    <3>1. CASE i = Len(keys) + 1
      BY <1>5, <1>6, <1>10, <3>1
    <3>2. CASE i # Len(keys) + 1
      BY <1>6, <1>7, <1>10, <3>2
    <3> QED
      BY <3>1, <3>2
  <2> QED
    BY <1>8, <2>1 DEF KeysAreBehind
<1>12. SequencesGrow'
  <2> SUFFICES ASSUME NEW i \in 1 .. Len(keys'), NEW j \in 1 .. Len(keys'), i < j
               PROVE  keys'[i].sequence < keys'[j].sequence
    BY DEF SequencesGrow
  <2>1. CASE j = Len(keys) + 1
    BY <1>5, <1>6, <1>7, <2>1
  <2>2. CASE j # Len(keys) + 1
    BY <1>6, <2>2 DEF EndInv, SequencesGrow
  <2> QED
    BY <2>1, <2>2
<1>13. EndTypes'
  BY <1>1, <1>3, <1>4, <1>6 DEF EndInv, EndTypes
<1>14. (client.sequence <= client.limit)' /\ (\A u \in Threads : GoodCall(thread[u]))'
  BY <1>3, <1>4 DEF EndInv, GoodCall
<1> QED
  BY <1>3, <1>9, <1>11, <1>12, <1>13, <1>14 DEF EndInv

LEMMA EndStep ==
  ASSUME EndInv, [EndNext]_endVars
  PROVE  EndInv'
<1>1. ASSUME NEW t \in Users, Use(t) PROVE EndInv'
  BY <1>1, UseStep
<1>2. ASSUME NEW t \in Users, GiveUp(t) PROVE EndInv'
  <2>1. t \in Threads /\ Returns(t) /\ feed' \in [Feeds -> Messages] /\ keys' = keys
    BY <1>2, Constants DEF GiveUp, EndInv, EndTypes
  <2> QED
    BY <2>1, CallEnds
<1>3. ASSUME NEW t \in Threads, Join(t) \/ Serve(t) PROVE EndInv'
  <2>1. Returns(t) /\ feed' \in [Feeds -> Messages] /\ keys' = keys
    BY <1>3 DEF Join, Serve, EndInv, EndTypes
  <2> QED
    BY <2>1, CallEnds
<1>4. ASSUME NEW t \in Threads,
             \/ Poll(t, "info", "pollInfo", "pollState")
             \/ Poll(t, "state", "pollState", "look")
      PROVE  EndInv'
  <2>1. {"info", "state"} \subseteq Feeds /\ {"pollInfo", "pollState", "look"} \subseteq Looking
    BY Constants DEF Looking
  <2> QED
    BY <1>4, <2>1, PollStep
<1>5. ASSUME NEW t \in Threads, EndWorking(t) PROVE EndInv'
  BY <1>3, <1>4, <1>5, LockStep, ReadStep, LookWaitStep, LookPublishStep, ReserveStep,
     TransmitStep DEF EndWorking
<1>6. ASSUME UNCHANGED endVars PROVE EndInv'
  BY <1>6 DEF endVars, EndInv, EndTypes, LockIsHeld, KeysAreBehind, SequencesGrow, GoodCall
<1> QED
  BY <1>1, <1>2, <1>5, <1>6, SendStep, WorkerStep DEF EndNext

LEMMA EndStart == EndInit => EndInv
<1> SUFFICES ASSUME EndInit PROVE EndInv
  OBVIOUS
<1>1. /\ feed = [k \in Feeds |-> Absent] /\ thread = [t \in Threads |-> Resting] /\ keys = <<>>
  BY DEF EndInit
<1>2. PICK shape \in Shapes :
       client = [make |-> shape.make, mode |-> shape.mode, limit |-> shape.limit,
                 info |-> Absent, state |-> Absent, error |-> FALSE, closed |-> FALSE,
                 sequence |-> 0, publishLock |-> NoThread, pollLock |-> NoThread,
                 calls |-> 0, received |-> [k \in Feeds |-> 0]]
  BY DEF EndInit
<1>3. client \in Clients /\ client.sequence <= client.limit
      /\ client.publishLock = NoThread /\ ~client.closed
  <2>1. shape \in [make : {"hand", "gripper"}, mode : {"pull", "callback"}, limit : Nat]
    OBVIOUS
  <2> QED
    BY <1>2, <2>1, Constants DEF Clients
<1>4. EndTypes
  BY <1>1, <1>3, Constants DEF EndTypes
<1>5. \A t \in Threads : thread[t] = Resting
  BY <1>1
<1>6. Len(keys) = 0
  BY <1>1
<1>7. LockIsHeld
  <2>1. \A t \in Threads : client.publishLock # t
    BY <1>3
  <2> QED
    BY <1>3, <1>5, <2>1, Constants DEF LockIsHeld
<1>8. KeysAreBehind /\ SequencesGrow
  BY <1>5, <1>6, Constants DEF KeysAreBehind, SequencesGrow
<1> QED
  BY <1>3, <1>4, <1>5, <1>7, <1>8, Constants DEF EndInv

-----------------------------------------------------------------------------
(* Theorems *)

\* Who holds the publish lock (hand.py:179, gripper.py:79), and the types.
THEOREM EndInvariant == EndSpec => []EndInv
  BY EndStart, EndStep, PTL DEF EndSpec

\* The counter of publish stays within its limit, and the publish lock is held exactly
\* by the thread that is between taking it and giving it back (hand.py:179-219).
THEOREM EndTypesHold == EndSpec => []EndTypeOK
<1>1. ASSUME EndInv PROVE EndTypeOK
  <2>1. client \in Clients /\ client.limit \in Nat /\ client.sequence <= client.limit
    BY <1>1 DEF EndInv, EndTypes, Clients
  <2>2. client.sequence \in 0 .. client.limit /\ {client.error, client.closed} \subseteq BOOLEAN
    BY <2>1 DEF Clients
  <2> QED
    BY <1>1, <2>2 DEF EndInv, LockIsHeld, Holds, EndTypeOK
<1> QED
  BY <1>1, EndInvariant, PTL

\* The sequences of the commands given to the transport only grow: the counter is moved
\* under the publish lock before the transport is asked and is never moved back
\* (hand.py:217), whoever publishes and whatever fails.
THEOREM SequencesOnlyGrow == EndSpec => []SequencesGrow
<1>1. EndInv => SequencesGrow
  BY DEF EndInv
<1> QED
  BY <1>1, EndInvariant, PTL

\* close has the publish lock once to itself, so no publish is between its look at _closed
\* and the transport when it goes on (hand.py:179-219, gripper.py:79-98).
THEOREM CloseIsLast == EndSpec => NothingAfterClose
<1>1. ASSUME EndInv, [EndNext]_endVars PROVE [keys' # keys => ~client.closed]_endVars
  <2>1. ASSUME NEW t \in Threads, Transmit(t) PROVE ~client.closed
    <3>1. Holds(thread[t])
      BY <2>1 DEF Transmit, Holds
    <3> QED
      BY <1>1, <3>1, OneHolder
  <2>2. ASSUME keys' # keys, EndNext PROVE \E t \in Threads : Transmit(t)
    BY <2>2 DEF EndNext, EndWorking, Use, GiveUp, Send, Worker, Lock, Join, Serve, Read,
       LookWait, LookPublish, Poll, Reserve
  <2> QED
    BY <1>1, <2>1, <2>2 DEF endVars
<1> QED
  BY <1>1, EndInvariant, PTL DEF EndSpec, NothingAfterClose

-----------------------------------------------------------------------------
(* One device: what publish has gathered so far *)

Honest(r, make) == /\ r.state # Absent => r.state.type = r.info.type
                   /\ make = "hand" => r.checked = r.info

\* A hand's publish still wants both messages, or holds the info it has checked.
Gathered(c, make) ==
  /\ c.pc = "lock" => c.checked = Absent
  /\ c.pc \in {"reserve", "transmit"} => Honest(c, make)
  /\ c.use = "publish" /\ c.pc \in Looking /\ make = "hand" =>
       \/ c.todo = <<"info", "state">> /\ c.checked = Absent
       \/ c.todo = <<"state">> /\ c.checked = c.info

Shown(d) == d.make = "hand" /\ d.info # Absent /\ d.state # Absent => d.info.type = d.state.type

DeviceInv == /\ Shown(client)
             /\ \A t \in Threads : Gathered(thread[t], client.make)
             /\ \A i \in 1 .. Len(keys) : Honest(keys[i], client.make)

LEMMA ShownStored ==
  ASSUME client \in Clients, NEW k \in Feeds, NEW m \in Messages, Shown(client)
  PROVE  Stored(k, m).make = client.make /\ Shown(Stored(k, m))
<1>1. CASE Stored(k, m) = client
  BY <1>1
<1>2. CASE Stored(k, m) = [client EXCEPT !.error = TRUE]
  BY <1>2 DEF Shown, Clients
<1>3. CASE Stored(k, m) = [client EXCEPT ![k] = m] /\ ~Refused(k, m)
  <2>1. CASE k = "info"
    BY <1>3, <2>1 DEF Shown, Clients, Refused, Mismatch
  <2>2. CASE k = "state"
    BY <1>3, <2>2 DEF Shown, Clients, Refused, Mismatch
  <2> QED
    BY <2>1, <2>2, Constants
<1> QED
  BY <1>1, <1>2, <1>3 DEF Stored

LEMMA DeviceKept ==
  ASSUME EndInv, DeviceInv, NEW t \in Threads, NEW c \in Calls, GoodCall(c),
         Gathered(c, client.make), thread' \in {With(t, c), Notified(With(t, c))},
         client'.make = client.make, Shown(client'), keys' = keys
  PROVE  DeviceInv'
<1>1. /\ With(t, c)[t] = c
      /\ \A u \in Threads \ {t} : With(t, c)[u] = thread[u]
  BY DEF With, EndInv, EndTypes
<1>2. \A u \in Threads : With(t, c)[u] \in Calls /\ GoodCall(With(t, c)[u])
  BY <1>1 DEF EndInv, EndTypes
<1>3. \A u \in Threads : Gathered(With(t, c)[u], client.make)
  BY <1>1 DEF DeviceInv
<1>4. ASSUME NEW u \in Threads
      PROVE  Gathered(thread'[u], client.make)
  <2> DEFINE calls == With(t, c)
  <2>1. calls[u] \in Calls /\ GoodCall(calls[u]) /\ Gathered(calls[u], client.make)
    BY <1>2, <1>3
  <2>2. thread' \in {calls, Notified(calls)}
    OBVIOUS
  <2> HIDE DEF calls
  <2>3. CASE thread'[u] = calls[u]
    BY <2>1, <2>3
  <2>4. CASE calls[u].pc = "sleep" /\ thread'[u] = [calls[u] EXCEPT !.pc = "look"]
    BY <2>1, <2>4 DEF Calls, GoodCall, Gathered
  <2> QED
    BY <2>2, <2>3, <2>4 DEF Notified
<1> QED
  BY <1>4 DEF DeviceInv

LEMMA RestingGathered == \A make : Gathered(Resting, make)
  BY DEF Resting, Gathered, Looking

\* A call's end leaves what the client shows.
LEMMA LastShown ==
  ASSUME EndInv, NEW t \in Threads, Returns(t) \/ Raises(t)
  PROVE  client'.make = client.make /\ (Shown(client) => Shown(client'))
<1>1. client \in Clients
  BY DEF EndInv, EndTypes
<1>2. LET d == Unlocked(t) IN
      d \in Clients /\ d.make = client.make /\ d.info = client.info /\ d.state = client.state
  BY <1>1, UnlockedFields DEF Unlocked, Clients
<1>3. ASSUME NEW c \in Clients
      PROVE  LET d == [c EXCEPT !.error = TRUE] IN
             d.make = c.make /\ d.info = c.info /\ d.state = c.state
  BY DEF Clients
<1> QED
  BY <1>2, <1>3, LastStep DEF Shown

LEMMA DeviceEnds ==
  ASSUME EndInv, DeviceInv, NEW t \in Threads, Returns(t) \/ Raises(t), keys' = keys
  PROVE  DeviceInv'
<1>1. client'.make = client.make /\ Shown(client')
  BY LastShown DEF DeviceInv
<1>2. thread' \in {With(t, Resting), Notified(With(t, Resting))}
  BY LastStep
<1> QED
  BY <1>1, <1>2, Constants, RestingGathered, DeviceKept

LEMMA DeviceLock ==
  ASSUME EndInv, DeviceInv, NEW t \in Threads, Lock(t)
  PROVE  DeviceInv'
<1>1. /\ client \in Clients /\ keys' = keys /\ thread[t] \in Calls
      /\ thread[t].pc = "lock" /\ thread[t].checked = Absent
  BY DEF EndInv, EndTypes, Lock, DeviceInv, Gathered
<1>2. CASE Returns(t) \/ Raises(t)
  BY <1>1, <1>2, DeviceEnds
<1>3. CASE client' \in {[client EXCEPT !.publishLock = t], Closing(t)}
  <2>1. client'.make = client.make /\ Shown(client')
    BY <1>1, <1>3 DEF Closing, Clients, DeviceInv, Shown
  <2>2. CASE /\ thread[t].use = "publish"
             /\ thread' = With(t, [thread[t] EXCEPT !.pc = Asks, !.todo = PublishReads])
    <3> DEFINE c == [thread[t] EXCEPT !.pc = Asks, !.todo = PublishReads]
    <3>1. Asks \in {"read", "look"}
      BY DEF Asks
    <3>2. PublishReads \in Seq(Feeds) /\ PublishReads # <<>>
      <4>1. /\ <<"info", "state">> \in Seq({"info", "state"}) \ {<<>>}
            /\ <<"info", "state", "info">> \in Seq({"info", "state"}) \ {<<>>}
        OBVIOUS
      <4> QED
        BY <4>1 DEF PublishReads, Feeds
    <3>3. client.make = "hand" => PublishReads = <<"info", "state">>
      BY DEF PublishReads
    <3>4. c \in Calls /\ GoodCall(c)
      BY <1>1, <3>1, <3>2 DEF Calls, Places, GoodCall
    <3>5. Gathered(c, client.make)
      BY <1>1, <3>1, <3>3 DEF Calls, Gathered
    <3> HIDE DEF c
    <3> QED
      BY <1>1, <2>1, <2>2, <3>4, <3>5, DeviceKept DEF c
  <2>3. CASE \E place \in {"service", "join"} :
               thread' \in {With(t, [thread[t] EXCEPT !.pc = place]),
                            Notified(With(t, [thread[t] EXCEPT !.pc = place]))}
    <3>1. ASSUME NEW place \in {"service", "join"}
          PROVE  LET c == [thread[t] EXCEPT !.pc = place] IN
                 c \in Calls /\ GoodCall(c) /\ Gathered(c, client.make)
      BY <1>1 DEF Calls, Places, GoodCall, Gathered, Looking
    <3> QED
      BY <1>1, <2>1, <2>3, <3>1, DeviceKept
  <2> QED
    BY <1>2, <2>2, <2>3 DEF Lock, Moves
<1> QED
  BY <1>2, <1>3 DEF Lock

\* A look without a result, a poll or a sleep.
LEMMA DeviceMoves ==
  ASSUME EndInv, DeviceInv, NEW t \in Threads, thread[t].pc \in Looking,
         NEW place \in Looking \cup IF thread[t].use = "wait" THEN {"sleep"} ELSE {},
         thread' \in {With(t, [thread[t] EXCEPT !.pc = place]),
                      Notified(With(t, [thread[t] EXCEPT !.pc = place]))},
         client'.make = client.make, Shown(client'), keys' = keys
  PROVE  DeviceInv'
<1> DEFINE c == [thread[t] EXCEPT !.pc = place]
<1>1. c \in Calls /\ GoodCall(c)
  BY MovedCall
<1>2. Gathered(c, client.make)
  BY DEF DeviceInv, EndInv, EndTypes, Calls, Gathered, Looking
<1> HIDE DEF c
<1> QED
  BY <1>1, <1>2, DeviceKept DEF c

LEMMA DeviceRead ==
  ASSUME EndInv, DeviceInv, NEW t \in Threads, Read(t) \/ LookWait(t)
  PROVE  DeviceInv'
<1>1. client \in Clients /\ keys' = keys /\ thread[t].pc \in Looking
  BY DEF EndInv, EndTypes, Read, LookWait, Looking
<1>2. CASE Returns(t) \/ Raises(t)
  BY <1>1, <1>2, DeviceEnds
<1>3. CASE /\ client' \in {client, [client EXCEPT !.pollLock = t]}
           /\ \E place \in Looking \cup IF thread[t].use = "wait" THEN {"sleep"} ELSE {} :
                Moves(t, place)
  <2>1. client'.make = client.make /\ Shown(client')
    BY <1>1, <1>3 DEF Clients, DeviceInv, Shown
  <2> QED
    BY <1>1, <1>3, <2>1, DeviceMoves DEF Moves
<1> QED
  BY <1>2, <1>3 DEF Read, LookWait, Looking

LEMMA DevicePoll ==
  ASSUME EndInv, DeviceInv, NEW t \in Threads, NEW k \in Feeds,
         NEW here \in Looking, NEW next \in {"pollState", "look"}, Poll(t, k, here, next)
  PROVE  DeviceInv'
<1>1. client \in Clients /\ feed[k] \in Messages /\ keys' = keys /\ thread[t].pc \in Looking
  BY DEF EndInv, EndTypes, Poll
<1> DEFINE stored == IF feed[k] = Absent THEN client ELSE Stored(k, feed[k])
<1>2. stored \in Clients /\ stored.make = client.make /\ Shown(stored)
  BY <1>1, StoredFields, ShownStored DEF DeviceInv
<1>3. /\ client' \in {stored, [stored EXCEPT !.pollLock = NoThread]}
      /\ thread' = Notified(With(t, [thread[t] EXCEPT !.pc = next]))
  BY DEF Poll
<1> HIDE DEF stored
<1>4. client'.make = client.make /\ Shown(client')
  BY <1>2, <1>3 DEF Clients, Shown
<1> QED
  BY <1>1, <1>3, <1>4, DeviceMoves DEF Looking

LEMMA DeviceLook ==
  ASSUME EndInv, DeviceInv, NEW t \in Threads, LookPublish(t)
  PROVE  DeviceInv'
<1> DEFINE call == WithRead(thread[t])
           place == IF call.todo = <<>> THEN "reserve" ELSE Asks
           c == [call EXCEPT !.pc = place]
<1>1. /\ client \in Clients /\ keys' = keys /\ thread[t] \in Calls
      /\ thread[t].pc \in Looking /\ thread[t].use = "publish"
      /\ Gathered(thread[t], client.make)
  BY DEF EndInv, EndTypes, LookPublish, Looking, DeviceInv
<1>2. CASE Raises(t)
  BY <1>1, <1>2, DeviceEnds
<1>3. CASE thread' = With(t, c) /\ UNCHANGED client /\ Fits(call)
  <2>1. call \in Calls /\ call.use = "publish" /\ Asks \in {"read", "look"}
    BY <1>1, ReadCall DEF Asks
  <2>2. client.make = "hand" =>
          \/ call.todo = <<"state">> /\ call.checked = call.info
          \/ call.todo = <<>> /\ call.checked = call.info
    <3> SUFFICES ASSUME client.make = "hand"
                 PROVE  \/ call.todo = <<"state">> /\ call.checked = call.info
                        \/ call.todo = <<>> /\ call.checked = call.info
      OBVIOUS
    <3>1. CASE thread[t].todo = <<"info", "state">> /\ thread[t].checked = Absent
      <4>1. /\ Head(thread[t].todo) = "info" /\ Tail(thread[t].todo) \o <<>> = <<"state">>
        BY <3>1
      <4>2. call = [thread[t] EXCEPT !.todo = <<"state">>, !.info = client.info,
                                     !.checked = client.info]
        BY <1>1, <3>1, <4>1 DEF WithRead, Calls
      <4> QED
        BY <1>1, <4>2 DEF Calls
    <3>2. CASE thread[t].todo = <<"state">> /\ thread[t].checked = thread[t].info
      <4>1. /\ Head(thread[t].todo) = "state" /\ Tail(thread[t].todo) \o <<>> = <<>>
        BY <3>2
      <4>2. call = [thread[t] EXCEPT !.todo = <<>>, !.state = client.state,
                                     !.checked = thread[t].checked]
        BY <1>1, <3>2, <4>1 DEF WithRead, Calls
      <4> QED
        BY <1>1, <3>2, <4>2 DEF Calls
    <3> QED
      BY <1>1, <3>1, <3>2 DEF Gathered
  <2>3. call.state # Absent => call.state.type = call.info.type
    BY <1>3 DEF Fits
  <2> HIDE DEF call
  <2>4. c \in Calls /\ GoodCall(c) /\ Gathered(c, client.make)
    <3>1. CASE call.todo = <<>>
      <4>1. c = [call EXCEPT !.pc = "reserve"]
        BY <3>1
      <4>2. Honest(call, client.make)
        <5>1. call.todo # <<"state">>
          BY <3>1
        <5> QED
          BY <2>2, <2>3, <5>1 DEF Honest
      <4> HIDE DEF c
      <4> QED
        BY <2>1, <4>1, <4>2 DEF Calls, Places, GoodCall, Gathered, Looking, Honest
    <3>2. CASE call.todo # <<>>
      <4>1. c = [call EXCEPT !.pc = Asks]
        BY <3>2
      <4> HIDE DEF c
      <4> QED
        BY <2>1, <2>2, <3>2, <4>1 DEF Calls, Places, GoodCall, Gathered
    <3> QED
      BY <3>1, <3>2
  <2> HIDE DEF c
  <2> QED
    BY <1>1, <1>3, <2>4, DeviceKept DEF DeviceInv
<1> QED
  BY <1>2, <1>3 DEF LookPublish

LEMMA DeviceReserve ==
  ASSUME EndInv, DeviceInv, NEW t \in Threads, Reserve(t)
  PROVE  DeviceInv'
<1>1. client \in Clients /\ keys' = keys /\ thread[t] \in Calls /\ thread[t].pc = "reserve"
  BY DEF EndInv, EndTypes, Reserve
<1>2. CASE Raises(t)
  BY <1>1, <1>2, DeviceEnds
<1> DEFINE c == [thread[t] EXCEPT !.pc = "transmit", !.sequence = client.sequence + 1]
<1>3. CASE client' = Reserved(t) /\ thread' = With(t, c)
  <2>1. client'.make = client.make /\ Shown(client') /\ client.sequence \in Nat
    BY <1>1, <1>3 DEF Reserved, Clients, DeviceInv, Shown
  <2>2. ASSUME NEW n \in Nat
        PROVE  LET d == [thread[t] EXCEPT !.pc = "transmit", !.sequence = n] IN
               d \in Calls /\ GoodCall(d) /\ Gathered(d, client.make)
    BY <1>1 DEF DeviceInv, Calls, Places, GoodCall, Gathered, Looking, Honest
  <2>3. client.sequence + 1 \in Nat
    BY <2>1
  <2>4. c \in Calls /\ GoodCall(c) /\ Gathered(c, client.make)
    BY <2>2, <2>3
  <2> HIDE DEF c
  <2> QED
    BY <1>1, <1>3, <2>1, <2>4, DeviceKept
<1> QED
  BY <1>2, <1>3 DEF Reserve

LEMMA DeviceTransmit ==
  ASSUME EndInv, DeviceInv, NEW t \in Threads, Transmit(t)
  PROVE  DeviceInv'
<1> DEFINE command == [sequence |-> thread[t].sequence, info |-> thread[t].info,
                       checked |-> thread[t].checked, state |-> thread[t].state]
<1>1. /\ keys \in Seq(Commands) /\ thread[t] \in Calls /\ keys' = Append(keys, command)
      /\ Honest(thread[t], client.make)
      /\ Returns(t) \/ Raises(t)
  BY DEF EndInv, EndTypes, Transmit, DeviceInv, Gathered
<1>2. command \in Commands /\ Honest(command, client.make)
  <2>1. ASSUME NEW c \in Calls, Honest(c, client.make)
        PROVE  LET d == [sequence |-> c.sequence, info |-> c.info, checked |-> c.checked,
                         state |-> c.state] IN
               d \in Commands /\ Honest(d, client.make)
    <3>1. /\ c.sequence \in Nat
          /\ c.info \in Messages /\ c.checked \in Messages /\ c.state \in Messages
      BY DEF Calls
    <3> QED
      BY <2>1, <3>1 DEF Commands, Honest
  <2> QED
    BY <1>1, <2>1
<1> HIDE DEF command
<1>3. /\ Len(keys') = Len(keys) + 1 /\ Len(keys) \in Nat
      /\ \A i \in 1 .. Len(keys) : keys'[i] = keys[i]
      /\ keys'[Len(keys) + 1] = command
  BY <1>1, <1>2
<1>4. client'.make = client.make /\ Shown(client')
  BY <1>1, LastShown DEF DeviceInv
<1>5. \A i \in 1 .. Len(keys') : Honest(keys'[i], client.make)
  <2> SUFFICES ASSUME NEW i \in 1 .. Len(keys') PROVE Honest(keys'[i], client.make)
    OBVIOUS
  <2>1. CASE i = Len(keys) + 1
    BY <1>2, <1>3, <2>1
  <2>2. CASE i # Len(keys) + 1
    <3>1. i \in 1 .. Len(keys)
      BY <1>3, <2>2
    <3> QED
      BY <1>3, <3>1 DEF DeviceInv
  <2> QED
    BY <2>1, <2>2
<1>6. ASSUME NEW u \in Threads PROVE Gathered(thread'[u], client.make)
  <2> DEFINE calls == With(t, Resting)
  <2>1. thread' \in {calls, Notified(calls)}
    BY <1>1, LastStep
  <2>2. calls[u] \in Calls /\ GoodCall(calls[u]) /\ Gathered(calls[u], client.make)
    <3>1. calls[t] = Resting /\ (u # t => calls[u] = thread[u])
      BY DEF With, EndInv, EndTypes
    <3> QED
      BY <3>1, Constants, RestingGathered DEF DeviceInv, EndInv, EndTypes
  <2> HIDE DEF calls
  <2>3. CASE thread'[u] = calls[u]
    BY <2>2, <2>3
  <2>4. CASE calls[u].pc = "sleep" /\ thread'[u] = [calls[u] EXCEPT !.pc = "look"]
    BY <2>2, <2>4 DEF Calls, GoodCall, Gathered
  <2> QED
    BY <2>1, <2>3, <2>4 DEF Notified
<1> QED
  BY <1>4, <1>5, <1>6 DEF DeviceInv

LEMMA DeviceFeedback ==
  ASSUME EndInv, DeviceInv, NEW k \in Feeds, Send(k) \/ Worker(k)
  PROVE  DeviceInv'
<1>1. client \in Clients /\ feed[k] \in Messages /\ keys' = keys /\ k \in Threads
  BY Constants DEF EndInv, EndTypes, Send, Worker
<1>2. CASE Send(k)
  <2>1. thread' = thread /\ client'.make = client.make /\ Shown(client')
    BY <1>1, <1>2 DEF Send, Clients, DeviceInv, Shown
  <2> QED
    BY <1>1, <2>1 DEF DeviceInv
<1>3. CASE Worker(k)
  <2> DEFINE stored == Stored(k, feed[k])
  <2>1. stored \in Clients /\ stored.make = client.make /\ Shown(stored)
    BY <1>1, StoredFields, ShownStored DEF DeviceInv
  <2>2. client' \in {stored, Calling(stored)}
    BY <1>3 DEF Worker
  <2> HIDE DEF stored
  <2>3. client'.make = client.make /\ Shown(client')
    BY <2>1, <2>2 DEF Calling, Clients, Shown
  <2>4. thread = With(k, thread[k]) /\ thread[k] \in Calls /\ GoodCall(thread[k])
        /\ Gathered(thread[k], client.make)
    BY <1>1 DEF With, EndInv, EndTypes, DeviceInv
  <2>5. LET c == [Resting EXCEPT !.pc = "lock", !.use = "publish"] IN
        c \in Calls /\ GoodCall(c) /\ Gathered(c, client.make)
    BY Constants DEF Calls, Places, GoodCall, Gathered, Looking, Resting
  <2> QED
    BY <1>1, <1>3, <2>3, <2>4, <2>5, DeviceKept DEF Worker
<1> QED
  BY <1>2, <1>3

LEMMA DeviceUse ==
  ASSUME EndInv, DeviceInv, NEW t \in Users, Use(t)
  PROVE  DeviceInv'
<1>1. client \in Clients /\ keys' = keys /\ t \in Threads /\ client' = Calling(client)
  BY Constants DEF EndInv, EndTypes, Use
<1>2. client'.make = client.make /\ Shown(client')
  BY <1>1 DEF Calling, Clients, DeviceInv, Shown
<1>3. CASE \E use \in {"publish", "close", "touch"} :
             thread' = With(t, [Resting EXCEPT !.pc = "lock", !.use = use])
  <2>1. ASSUME NEW use \in {"publish", "close", "touch"}
        PROVE  LET c == [Resting EXCEPT !.pc = "lock", !.use = use] IN
               c \in Calls /\ GoodCall(c) /\ Gathered(c, client.make)
    BY Constants DEF Calls, Places, GoodCall, Gathered, Looking, Resting
  <2> QED
    BY <1>1, <1>2, <1>3, <2>1, DeviceKept
<1>4. CASE \E kind \in Feeds : \E after \in {0, client[kind].number} :
             thread' = With(t, [Resting EXCEPT !.pc = Asks, !.use = "wait", !.kind = kind,
                                               !.after = after])
  <2>1. ASSUME NEW kind \in Feeds, NEW after \in {0, client[kind].number}
        PROVE  LET c == [Resting EXCEPT !.pc = Asks, !.use = "wait", !.kind = kind,
                                        !.after = after] IN
               c \in Calls /\ GoodCall(c) /\ Gathered(c, client.make)
    <3>1. after \in Nat
      <4>1. client[kind] \in Messages
        BY <1>1, MessageFields, Constants
      <4> QED
        BY <4>1 DEF Messages
    <3>2. Asks \in {"read", "look"}
      BY DEF Asks
    <3> QED
      BY <3>1, <3>2, Constants DEF Calls, Places, GoodCall, Gathered, Looking, Resting
  <2> QED
    BY <1>1, <1>2, <1>4, <2>1, DeviceKept
<1> QED
  BY <1>3, <1>4 DEF Use

LEMMA DeviceStep ==
  ASSUME EndInv, DeviceInv, [EndNext]_endVars
  PROVE  DeviceInv'
<1>1. ASSUME NEW t \in Users, Use(t) PROVE DeviceInv'
  BY <1>1, DeviceUse
<1>2. ASSUME NEW t \in Threads, GiveUp(t) \/ Join(t) \/ Serve(t) PROVE DeviceInv'
  BY <1>2, DeviceEnds DEF GiveUp, Join, Serve
<1>3. ASSUME NEW t \in Threads,
             \/ Poll(t, "info", "pollInfo", "pollState")
             \/ Poll(t, "state", "pollState", "look")
      PROVE  DeviceInv'
  <2>1. {"info", "state"} \subseteq Feeds /\ {"pollInfo", "pollState", "look"} \subseteq Looking
    BY Constants DEF Looking
  <2> QED
    BY <1>3, <2>1, DevicePoll
<1>4. ASSUME NEW t \in Threads, EndWorking(t) PROVE DeviceInv'
  BY <1>2, <1>3, <1>4, DeviceLock, DeviceRead, DeviceLook, DeviceReserve, DeviceTransmit
  DEF EndWorking
<1>5. ASSUME UNCHANGED endVars PROVE DeviceInv'
  BY <1>5 DEF endVars, DeviceInv
<1> QED
  BY <1>1, <1>2, <1>4, <1>5, DeviceFeedback, Constants DEF EndNext

\* Info and state may come and change in any order, and a publish may read them with any
\* number of messages in between: a command is of one device, and for a hand so is what
\* the client shows (hand.py:97, hand.py:179-219, gripper.py:79-98).
THEOREM CommandsAreOfOneDevice == EndSpec => []OneDevice
<1>1. EndInit => DeviceInv
  <2> SUFFICES ASSUME EndInit PROVE DeviceInv
    OBVIOUS
  <2>1. (\A t \in Threads : thread[t] = Resting) /\ Len(keys) = 0 /\ client.info = Absent
    BY DEF EndInit
  <2> QED
    BY <2>1, RestingGathered DEF DeviceInv, Shown
<1>2. EndInv /\ DeviceInv => OneDevice
  BY DEF DeviceInv, Shown, Honest, OneDevice
<1> QED
  BY <1>1, <1>2, EndInvariant, DeviceStep, PTL DEF EndSpec
=============================================================================
