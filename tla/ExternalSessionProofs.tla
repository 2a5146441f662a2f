------------------------ MODULE ExternalSessionProofs ------------------------
(***************************************************************************)
(* Theorems about ExternalSession for every set of controllers and threads,*)
(* every limit and timeout, and topics and publishes that may fail.  The   *)
(* lemmas of RobotProtocolProofs about the object are instantiated here.   *)
(*                                                                         *)
(* Every step is first shown to be of one of a few kinds (SessionStep),    *)
(* which say what it changes and no more; the invariants are then kept     *)
(* kind by kind: types; who owns a session (OwnersInv); where a thread is  *)
(* and what its controller has (PlacesAgree); requests and answers on the  *)
(* topics (RequestsInv); leases and sessions (LeasesInv); the numbers of   *)
(* commands (KeysInv).  The first two need nothing; the next three that    *)
(* one thread of a controller calls enter_external, exit_external and      *)
(* close (OneLifecycle), and the last that no other publishes (OneRole).   *)
(***************************************************************************)
EXTENDS ExternalSession, TLAPS

RP == INSTANCE RobotProtocolProofs WITH
  Clients <- Controllers,
  RequestIds <- 1 .. MaxRequests,
  Seed <- 1,
  RejectOperation <- "NONE",
  protocol <- robot,
  reply <- NoMessage

-----------------------------------------------------------------------------
(* Types *)

RequestNumbers == 0 .. MaxRequests
Status == [seq : Nat, phase : RP!Phases \cup {"NONE"}, client : Controllers \cup {NoId, "none"},
           lease : RP!Generations, generation : RP!Generations]
CommandMessage == [key : RP!Keys, wellFormed : BOOLEAN, client : Controllers]
Fields == [request : RequestNumbers, lease : RP!Generations, session : RP!Generations,
           next : Nat, cancelSent : BOOLEAN, acks : SUBSET RP!Ack, latest : Status,
           closed : BOOLEAN, detached : BOOLEAN]

\* The places of a thread: in no call or publishing a command, in enter_external up to
\* its lease and after it, and in a failure, exit_external or close.
RestPlaces == {"ready", "sendCommand"}
PreparePlaces == {"prepare", "sendPrepare", "awaitPrepare", "lease"}
CommitPlaces == {"commit", "sendCommit", "awaitCommit", "awaitRunning", "adopt"}
EndPlaces == {"fail", "sendFail", "exit", "sendExit", "awaitCancel", "awaitIdle", "clear"}
ClosePlaces == {"sendClose", "detach"}
Places == RestPlaces \cup PreparePlaces \cup CommitPlaces \cup EndPlaces \cup ClosePlaces

CancelCarriers == {"sendFail", "sendExit", "sendClose"}
RequestCarriers == {"sendPrepare", "sendCommit"} \cup CancelCarriers

Messages == RP!Request \cup CommandMessage \cup {NoMessage}
Locals == [pc : Places, request : RequestNumbers, lease : RP!Generations, before : Nat,
           generation : RP!Generations, message : Messages]

TypeInv ==
  /\ ctl \in [Controllers -> Fields]
  /\ thread \in [Threads -> Locals]
  /\ \A t \in Threads : /\ thread[t].pc \in RequestCarriers => thread[t].message \in RP!Request
                        /\ At(t, "sendCommand") => thread[t].message \in CommandMessage
  /\ uuids \in RequestNumbers
  /\ requests \in Seq(RP!Request)
  /\ commands \in Seq(CommandMessage)
  /\ acks \in [Controllers -> Seq(RP!Ack)]
  /\ published \in Status
  /\ RP!GoodState(robot)

-----------------------------------------------------------------------------
(* The operators of the two instances of RobotProtocol are the same *)

LEMMA SameValues ==
  /\ Robot!NoKey = RP!NoKey /\ Robot!Fresh = RP!Fresh
  /\ Robot!Request = RP!Request /\ Robot!Command = RP!Command
  BY DEF Robot!NoKey, RP!NoKey, Robot!Fresh, RP!Fresh,
         Robot!Request, RP!Request, Robot!Command, RP!Command,
         Robot!Operations, RP!Operations, Robot!Keys, RP!Keys,
         Robot!Generations, RP!Generations, Robot!Sequences, RP!Sequences

LEMMA SameNoKey == Robot!NoKey = RP!NoKey
  BY SameValues

LEMMA SameClear == ASSUME NEW p PROVE Robot!Clear(p) = RP!Clear(p)
  BY DEF Robot!Clear, RP!Clear, Robot!Fresh, RP!Fresh, Robot!NoKey, RP!NoKey

LEMMA SameWatchdog == ASSUME NEW p PROVE Robot!Watchdog(p) = RP!Watchdog(p)
  BY SameClear
  DEF Robot!Watchdog, RP!Watchdog, Robot!PrepareExpired, RP!PrepareExpired,
      Robot!CommandsExpired, RP!CommandsExpired, Robot!Hold, RP!Hold,
      Robot!NoKey, RP!NoKey

LEMMA SameRequestControl ==
  ASSUME NEW w, NEW r
  PROVE  /\ Robot!AfterRequest(w, r) = RP!AfterRequest(w, r)
         /\ Robot!ReplyTo(w, r) = RP!ReplyTo(w, r)
<1>1. /\ Robot!Prepares(w, r) <=> RP!Prepares(w, r)
      /\ Robot!Commits(w, r) <=> RP!Commits(w, r)
      /\ Robot!Cancels(w, r) <=> RP!Cancels(w, r)
      /\ Robot!Repeats(w, r) <=> RP!Repeats(w, r)
  BY DEF Robot!Prepares, RP!Prepares, Robot!Commits, RP!Commits, Robot!Cancels, RP!Cancels,
         Robot!Repeats, RP!Repeats, Robot!Admissible, RP!Admissible, Robot!Idle, RP!Idle,
         Robot!CanIssue, RP!CanIssue, Robot!Owns, RP!Owns,
         Robot!SameRequest, RP!SameRequest, Robot!External, RP!External
<1>2. Robot!AfterRequest(w, r) = RP!AfterRequest(w, r)
  BY <1>1, SameClear
  DEF Robot!AfterRequest, RP!AfterRequest, Robot!Prepared, RP!Prepared,
      Robot!Committed, RP!Committed
<1> QED
  BY <1>1, <1>2 DEF Robot!ReplyTo, RP!ReplyTo, Robot!AcceptsRequest, RP!AcceptsRequest

LEMMA SameCommands ==
  ASSUME NEW w, NEW cmd
  PROVE  /\ Robot!Admits(w, cmd) <=> RP!Admits(w, cmd)
         /\ Robot!AfterCommand(w, cmd) = RP!AfterCommand(w, cmd)
         /\ Robot!Applies(w) <=> RP!Applies(w)
         /\ Robot!AfterTick(w) = RP!AfterTick(w)
  BY DEF Robot!Admits, RP!Admits, Robot!External, RP!External,
         Robot!AfterCommand, RP!AfterCommand, Robot!Admitted, RP!Admitted,
         Robot!Rejected, RP!Rejected, Robot!NoKey, RP!NoKey,
         Robot!Applies, RP!Applies, Robot!AfterTick, RP!AfterTick,
         Robot!Applied, RP!Applied

\* The lemmas of RobotProtocolProofs may be used.
LEMMA RobotConstants == RP!IdAssumption /\ RP!LimitAssumption
  BY RobotAssumption
  DEF Robot!IdAssumption, RP!IdAssumption, Robot!LimitAssumption, RP!LimitAssumption,
      Robot!Operations, RP!Operations, Robot!NoOperation, RP!NoOperation

USE RobotConstants

-----------------------------------------------------------------------------
(* Types are kept *)

LEMMA Numbers ==
  ASSUME NEW p, RP!GoodState(p)
  PROVE  /\ p \in RP!ProtocolState
         /\ p.issued \in Nat /\ p.generation \in Nat /\ p.accepted \in Nat
         /\ p.lease \in Nat /\ p.age \in Nat
  BY DEF RP!GoodState, RP!ProtocolState, RP!Generations, RP!Sequences

\* The protocol looks at nothing of a command but its key and its form.
LEMMA CommandAlone ==
  ASSUME NEW w, NEW m \in CommandMessage
  PROVE  \E cmd \in RP!Command : /\ cmd.key = m.key
                                 /\ RP!Admits(w, m) <=> RP!Admits(w, cmd)
                                 /\ RP!AfterCommand(w, m) = RP!AfterCommand(w, cmd)
<1> DEFINE cmd == [key |-> m.key, wellFormed |-> m.wellFormed]
<1>1. cmd \in RP!Command
  BY DEF CommandMessage, RP!Command
<1>2. cmd.key = m.key /\ cmd.wellFormed = m.wellFormed
  OBVIOUS
<1> HIDE DEF cmd
<1>3. RP!Admits(w, m) <=> RP!Admits(w, cmd)
  BY <1>2 DEF RP!Admits
<1>4. RP!Admitted(w, m) = RP!Admitted(w, cmd)
  BY <1>2 DEF RP!Admitted
<1> QED
  BY <1>1, <1>2, <1>3, <1>4 DEF RP!AfterCommand

LEMMA OpenedType ==
  /\ Opened \in Fields /\ Resting \in Locals /\ NoStatus \in Status
  /\ \A k \in Fields : SessionCleared(k) \in Fields
<1>1. 0 \in RP!Generations /\ 0 \in RequestNumbers
  BY BoundAssumption, RP!Values DEF RequestNumbers
<1>2. NoStatus \in Status
  BY <1>1 DEF NoStatus, Status, NoLease
<1>3. Opened \in Fields
  BY <1>1, <1>2 DEF Opened, Fields, NoRequest, NoLease
<1>4. Resting \in Locals
  <2>1. ASSUME NEW m \in Messages
        PROVE  [pc |-> "ready", request |-> 0, lease |-> 0, before |-> 0,
                generation |-> 0, message |-> m] \in Locals
    BY <1>1, <2>1 DEF Locals, Places, RestPlaces
  <2>2. NoMessage \in Messages
    BY DEF Messages
  <2> QED
    BY <2>1, <2>2 DEF Resting, NoRequest, NoLease
<1>5. ASSUME NEW k \in Fields PROVE SessionCleared(k) \in Fields
  BY <1>1 DEF SessionCleared, Fields, NoRequest, NoLease
<1> QED
  BY <1>2, <1>3, <1>4, <1>5

LEMMA MessageType ==
  ASSUME TypeInv, NEW c \in Controllers, ctl[c].request # NoRequest,
         NEW op \in RP!Operations
  PROVE  ControlRequest(c, op) \in RP!Request
<1>1. ctl[c] \in Fields
  BY DEF TypeInv
<1>2. ctl[c].request \in 1 .. MaxRequests /\ ctl[c].lease \in RP!Generations
  BY <1>1, BoundAssumption DEF Fields, RequestNumbers, NoRequest
<1> QED
  BY <1>2 DEF ControlRequest, RP!Request

LEMMA OperationNames == {"PREPARE", "COMMIT", "CANCEL"} = RP!Operations
  BY DEF RP!Operations

LEMMA GotoThread ==
  ASSUME TypeInv, NEW t \in Threads, NEW place \in Places, Goto(t, place)
  PROVE  LET h == thread'[t] IN
         /\ thread' \in [Threads -> Locals]
         /\ \A u \in Threads \ {t} : thread'[u] = thread[u]
         /\ place = "ready" => h = Resting
         /\ place # "ready" => /\ h.pc = place /\ h.request = thread[t].request
                              /\ h.lease = thread[t].lease /\ h.before = thread[t].before
                              /\ h.generation = thread[t].generation
<1> DEFINE h == [thread[t] EXCEPT !.pc = place, !.message = NoMessage]
<1>1. thread \in [Threads -> Locals] /\ thread[t] \in Locals
  BY DEF TypeInv
<1>2. NoMessage \in Messages
  BY DEF Messages
<1>3. /\ h \in Locals /\ h.pc = place /\ h.request = thread[t].request
      /\ h.lease = thread[t].lease /\ h.before = thread[t].before
      /\ h.generation = thread[t].generation
  BY <1>1, <1>2 DEF Locals
<1>4. thread' = [thread EXCEPT ![t] = IF place = "ready" THEN Resting ELSE h]
  BY DEF Goto
<1> HIDE DEF h
<1> QED
  BY <1>1, <1>3, <1>4, OpenedType

LEMMA CarryingThread ==
  ASSUME TypeInv, NEW t \in Threads, NEW place \in Places, NEW m \in Messages,
         Carrying(t, place, m)
  PROVE  LET h == thread'[t] IN
         /\ thread' \in [Threads -> Locals]
         /\ \A u \in Threads \ {t} : thread'[u] = thread[u]
         /\ h.pc = place /\ h.message = m /\ h.request = thread[t].request
         /\ h.lease = thread[t].lease /\ h.before = thread[t].before
         /\ h.generation = thread[t].generation
<1> DEFINE h == [thread[t] EXCEPT !.pc = place, !.message = m]
<1>1. thread \in [Threads -> Locals] /\ thread[t] \in Locals
  BY DEF TypeInv
<1>2. /\ h \in Locals /\ h.pc = place /\ h.message = m /\ h.request = thread[t].request
      /\ h.lease = thread[t].lease /\ h.before = thread[t].before
      /\ h.generation = thread[t].generation
  BY <1>1 DEF Locals
<1>3. thread' = [thread EXCEPT ![t] = h]
  BY <1>1 DEF Carrying
<1> HIDE DEF h
<1> QED
  BY <1>1, <1>2, <1>3

-----------------------------------------------------------------------------
(* What a step of a thread does *)

\* Only the thread and its controller change, and keep their types.
Frame(t) ==
  /\ ctl' \in [Controllers -> Fields] /\ thread' \in [Threads -> Locals]
  /\ \A d \in Controllers \ {Of(t)} : ctl'[d] = ctl[d]
  /\ \A u \in Threads \ {t} : thread'[u] = thread[u]
  /\ acks' = acks /\ published' = published

\* Everything but closed and detached; everything but the session too; ...
SameRest(t) == LET k == ctl[Of(t)] k2 == ctl'[Of(t)] IN
  k2.acks = k.acks /\ k2.latest = k.latest
SameFields(t) == LET k == ctl[Of(t)] k2 == ctl'[Of(t)] IN
  /\ SameRest(t) /\ k2.request = k.request /\ k2.lease = k.lease
  /\ k2.session = k.session /\ k2.next = k.next
Silent == uuids' = uuids /\ requests' = requests /\ commands' = commands
From(t, place, next) == At(t, place) /\ At(t, next)'
Keeps(t) == thread'[t].request = thread[t].request

\* enter_external draws a request.
Entering(t) == LET k == ctl[Of(t)] k2 == ctl'[Of(t)] IN
  /\ t[2] \in Lifecycle /\ From(t, "ready", "prepare")
  /\ k.request = 0 /\ uuids < MaxRequests /\ uuids' = uuids + 1
  /\ k2.request = uuids + 1 /\ k2.lease = 0 /\ k2.session = 0 /\ k2.next = 1
  /\ k2.cancelSent = FALSE /\ k2.acks = {} /\ k2.latest = k.latest
  /\ thread'[t].request = uuids + 1
  /\ requests' = requests /\ commands' = commands

\* It builds a PREPARE or a COMMIT.
Building(t) ==
  /\ Silent /\ ctl' = ctl /\ Keeps(t) /\ ctl[Of(t)].request # 0
  /\ \/ From(t, "prepare", "sendPrepare")
        /\ thread'[t].message = ControlRequest(Of(t), "PREPARE")
     \/ From(t, "commit", "sendCommit")
        /\ thread'[t].message = ControlRequest(Of(t), "COMMIT")

\* The transport takes a request, loses it, or raises.
Delivering(t) ==
  /\ uuids' = uuids /\ commands' = commands /\ ctl' = ctl
  /\ thread[t].message \in RP!Request
  /\ requests' \in {requests, Append(requests, thread[t].message)}
  /\ \/ At(t, "sendPrepare") /\ thread'[t].pc \in {"awaitPrepare", "fail"} /\ Keeps(t)
     \/ At(t, "sendCommit") /\ thread'[t].pc \in {"awaitCommit", "fail"} /\ Keeps(t)
     \/ From(t, "sendFail", "ready")
     \/ From(t, "sendExit", "awaitCancel") /\ Keeps(t)
     \/ From(t, "sendClose", "detach")

AnsweredBy(t, op) ==
  \E a \in ctl[Of(t)].acks : /\ a.request = thread[t].request /\ a.operation = op /\ a.accepted
                             /\ op = "PREPARE" => /\ thread'[t].lease = a.lease
                                                  /\ a.lease # 0

\* A thread goes on to its next place, with what it has read.
Walking(t) ==
  /\ Silent /\ ctl' = ctl
  /\ \/ thread[t].pc \in {"fail", "awaitCancel", "awaitIdle"} /\ At(t, "ready")'
     \/ thread[t].pc \in PreparePlaces \cup CommitPlaces /\ At(t, "fail")' /\ Keeps(t)
     \/ From(t, "awaitPrepare", "lease") /\ Keeps(t) /\ AnsweredBy(t, "PREPARE")
     \/ From(t, "awaitCommit", "awaitRunning") /\ Keeps(t)
     \/ /\ From(t, "awaitRunning", "adopt") /\ Keeps(t)
        /\ StatusAllowsPublish(Of(t))
        /\ thread'[t].generation = ctl[Of(t)].latest.generation
     \/ /\ From(t, "ready", "exit") /\ t[2] \in Lifecycle
        /\ ctl[Of(t)].request # 0 /\ thread'[t].request = ctl[Of(t)].request
     \/ From(t, "exit", "awaitCancel") /\ Keeps(t)
     \/ From(t, "awaitCancel", "awaitIdle") /\ Keeps(t) /\ AnsweredBy(t, "CANCEL")
     \/ From(t, "awaitIdle", "clear") /\ Keeps(t)

Leasing(t) ==
  /\ Silent /\ From(t, "lease", "commit") /\ Keeps(t)
  /\ LET k == ctl[Of(t)] k2 == ctl'[Of(t)] IN
     /\ SameRest(t) /\ k2.request = k.request /\ k2.lease = thread[t].lease
     /\ k2.session = k.session /\ k2.next = k.next /\ k2.cancelSent = k.cancelSent

Adopting(t) ==
  /\ Silent /\ From(t, "adopt", "ready")
  /\ LET k == ctl[Of(t)] k2 == ctl'[Of(t)] IN
     /\ SameRest(t) /\ k2.request = k.request /\ k2.lease = k.lease
     /\ k2.session = thread[t].generation /\ k2.next = 1 /\ k2.cancelSent = k.cancelSent

\* The request is marked as cancelled, by a failure, exit_external or close.
Cancelling(t) ==
  /\ Silent /\ SameFields(t)
  /\ ctl[Of(t)].request # 0 /\ ~ctl[Of(t)].cancelSent /\ ctl'[Of(t)].cancelSent = TRUE
  /\ \/ From(t, "fail", "sendFail") /\ Keeps(t)
     \/ From(t, "exit", "sendExit") /\ Keeps(t)
     \/ From(t, "ready", "sendClose") /\ t[2] \in Lifecycle
  /\ thread'[t].message = ControlRequest(Of(t), "CANCEL")

\* publish gives a command its key.
Publishing(t) == LET key == NextKey(Of(t)) IN
  /\ Silent /\ From(t, "ready", "sendCommand")
  /\ StatusAllowsPublish(Of(t)) /\ key \in RP!Keys
  /\ LET k == ctl[Of(t)] k2 == ctl'[Of(t)] IN
     /\ SameRest(t) /\ k2.request = k.request /\ k2.lease = k.lease
     /\ k2.session = key.session /\ k2.next = key.sequence + 1
     /\ k2.cancelSent = k.cancelSent
  /\ thread'[t].message = [key |-> key, wellFormed |-> TRUE, client |-> Of(t)]

Sending(t) ==
  /\ uuids' = uuids /\ requests' = requests /\ ctl' = ctl
  /\ From(t, "sendCommand", "ready")
  /\ thread[t].message \in CommandMessage
  /\ commands' \in {commands, Append(commands, thread[t].message)}

Clearing(t) == LET k2 == ctl'[Of(t)] IN
  /\ Silent /\ From(t, "clear", "ready") /\ SameRest(t)
  /\ k2.request = 0 /\ k2.lease = 0 /\ k2.session = 0 /\ k2.next = 1
  /\ k2.cancelSent = FALSE

Closing(t) ==
  /\ Silent /\ SameFields(t) /\ ctl'[Of(t)].cancelSent = ctl[Of(t)].cancelSent
  /\ \/ From(t, "ready", "detach") /\ t[2] \in Lifecycle
     \/ From(t, "detach", "ready")

CallStep(t) ==
  \/ Entering(t) \/ Building(t) \/ Delivering(t) \/ Walking(t) \/ Leasing(t) \/ Adopting(t)
  \/ Cancelling(t) \/ Publishing(t) \/ Sending(t) \/ Clearing(t) \/ Closing(t)

LEMMA PublishesStep ==
  ASSUME TypeInv, NEW t \in Threads, NEW then \in Places, NEW otherwise \in Places,
         PublishesRequest(t, then, otherwise), thread[t].pc \in RequestCarriers
  PROVE  /\ Frame(t)
         /\ uuids' = uuids /\ commands' = commands /\ ctl' = ctl
         /\ thread[t].message \in RP!Request
         /\ requests' \in {requests, Append(requests, thread[t].message)}
         /\ thread'[t].pc \in {then, otherwise}
         /\ thread'[t].pc # "ready" => Keeps(t)
<1>1. /\ uuids' = uuids /\ commands' = commands /\ ctl' = ctl
      /\ acks' = acks /\ published' = published
      /\ thread[t].message \in RP!Request /\ ctl \in [Controllers -> Fields]
  BY DEF PublishesRequest, TypeInv
<1>2. requests' \in {requests, Append(requests, thread[t].message)}
  BY DEF PublishesRequest, Outcomes
<1>3. Goto(t, then) \/ Goto(t, otherwise)
  BY DEF PublishesRequest
<1>5. PICK place \in {then, otherwise} : Goto(t, place)
  BY <1>3
<1>6. /\ thread' \in [Threads -> Locals]
      /\ \A u \in Threads \ {t} : thread'[u] = thread[u]
      /\ thread'[t].pc = place /\ (place # "ready" => Keeps(t))
  <2>1. place \in Places
    OBVIOUS
  <2> QED
    BY <1>5, <2>1, GotoThread DEF Resting, Keeps
<1>7. Frame(t)
  BY <1>1, <1>6 DEF Frame
<1> QED
  BY <1>1, <1>2, <1>5, <1>6, <1>7

\* A step that leaves the fields alone and goes somewhere.
LEMMA GotoStep ==
  ASSUME TypeInv, NEW t \in Threads, NEW place \in Places, Goto(t, place),
         ctl' = ctl, UNCHANGED <<uuids, topics>>
  PROVE  /\ Frame(t) /\ Silent /\ At(t, place)'
         /\ place # "ready" => Keeps(t)
<1>1. /\ ctl' = ctl /\ ctl \in [Controllers -> Fields] /\ acks' = acks
      /\ published' = published /\ Silent
  BY DEF TypeInv, topics, Silent
<1>2. /\ thread' \in [Threads -> Locals]
      /\ \A u \in Threads \ {t} : thread'[u] = thread[u]
      /\ At(t, place)' /\ (place # "ready" => Keeps(t))
  BY GotoThread DEF Resting, Keeps, At
<1> QED
  BY <1>1, <1>2 DEF Frame

LEMMA CarryingStep ==
  ASSUME TypeInv, NEW t \in Threads, NEW place \in Places, NEW m \in Messages,
         Carrying(t, place, m), ctl' \in [Controllers -> Fields],
         \A d \in Controllers \ {Of(t)} : ctl'[d] = ctl[d], UNCHANGED <<uuids, topics>>
  PROVE  /\ Frame(t) /\ Silent /\ At(t, place)' /\ Keeps(t)
         /\ thread'[t].message = m
<1>1. acks' = acks /\ published' = published /\ Silent
  BY DEF topics, Silent
<1>2. /\ thread' \in [Threads -> Locals]
      /\ \A u \in Threads \ {t} : thread'[u] = thread[u]
      /\ At(t, place)' /\ Keeps(t) /\ thread'[t].message = m
  BY CarryingThread DEF Keeps, At
<1> QED
  BY <1>1, <1>2 DEF Frame

\* New fields of the thread's controller.
LEMMA FieldsStep ==
  ASSUME TypeInv, NEW t \in Threads, NEW k \in Fields, ctl' = [ctl EXCEPT ![Of(t)] = k]
  PROVE  /\ Of(t) \in Controllers /\ ctl[Of(t)] \in Fields
         /\ ctl' \in [Controllers -> Fields] /\ ctl'[Of(t)] = k
         /\ \A d \in Controllers \ {Of(t)} : ctl'[d] = ctl[d]
<1>1. Of(t) \in Controllers /\ ctl \in [Controllers -> Fields]
  BY DEF TypeInv, Threads, Of
<1> QED
  BY <1>1

\* New locals of the thread.
LEMMA LocalsStep ==
  ASSUME TypeInv, NEW t \in Threads, NEW h \in Locals, thread' = [thread EXCEPT ![t] = h]
  PROVE  /\ thread' \in [Threads -> Locals] /\ thread'[t] = h
         /\ \A u \in Threads \ {t} : thread'[u] = thread[u]
  BY DEF TypeInv

LEMMA ThreadTypes ==
  ASSUME TypeInv, NEW t \in Threads
  PROVE  Of(t) \in Controllers /\ ctl[Of(t)] \in Fields /\ thread[t] \in Locals
  BY DEF TypeInv, Threads, Of

LEMMA EnterBeginStep ==
  ASSUME TypeInv, NEW t \in Threads, EnterBegin(t)
  PROVE  Frame(t) /\ Entering(t)
<1> DEFINE k == [SessionCleared(ctl[Of(t)]) EXCEPT !.request = uuids + 1, !.acks = {}]
           h == [thread[t] EXCEPT !.pc = "prepare", !.request = uuids + 1]
<1>1. Of(t) \in Controllers /\ ctl[Of(t)] \in Fields /\ thread[t] \in Locals
  BY ThreadTypes
<1>2. uuids' = uuids + 1 /\ uuids + 1 \in RequestNumbers
  BY BoundAssumption DEF EnterBegin, TypeInv, RequestNumbers
<1>3. SessionCleared(ctl[Of(t)]) \in Fields
  BY <1>1, OpenedType
<1>4. k \in Fields
  BY <1>2, <1>3 DEF Fields
<1>5. h \in Locals /\ h.pc = "prepare" /\ h.request = uuids + 1
  BY <1>1, <1>2 DEF Locals, Places, PreparePlaces
<1>6. /\ k.request = uuids + 1 /\ k.lease = 0 /\ k.session = 0 /\ k.next = 1
      /\ k.cancelSent = FALSE /\ k.acks = {} /\ k.latest = ctl[Of(t)].latest
  BY <1>1 DEF SessionCleared, Fields, NoLease
<1>7. ctl' = [ctl EXCEPT ![Of(t)] = k] /\ thread' = [thread EXCEPT ![t] = h]
  BY <1>2, ThreadTypes DEF EnterBegin
<1> HIDE DEF k, h
<1>8. /\ ctl' \in [Controllers -> Fields] /\ ctl'[Of(t)] = k
      /\ \A d \in Controllers \ {Of(t)} : ctl'[d] = ctl[d]
  BY <1>4, <1>7, FieldsStep
<1>9. /\ thread' \in [Threads -> Locals] /\ thread'[t] = h
      /\ \A u \in Threads \ {t} : thread'[u] = thread[u]
  BY <1>5, <1>7, LocalsStep
<1>10. acks' = acks /\ published' = published /\ requests' = requests /\ commands' = commands
  BY DEF EnterBegin, topics
<1>11. Frame(t)
  BY <1>8, <1>9, <1>10 DEF Frame
<1> QED
  BY <1>2, <1>5, <1>6, <1>8, <1>9, <1>10, <1>11 DEF Entering, EnterBegin, At, From, NoRequest

LEMMA BuildsStep ==
  ASSUME TypeInv, NEW t \in Threads, BuildPrepare(t) \/ BuildCommit(t)
  PROVE  Frame(t) /\ (Building(t) \/ Walking(t))
<1>1. {"sendPrepare", "sendCommit", "fail"} \subseteq Places
  BY DEF Places, PreparePlaces, CommitPlaces, EndPlaces
<1>2. Of(t) \in Controllers /\ ctl \in [Controllers -> Fields]
  BY ThreadTypes DEF TypeInv
<1>3. ASSUME NEW op \in {"PREPARE", "COMMIT"}, NEW then \in {"sendPrepare", "sendCommit"},
             Builds(t, op, then, "fail")
      PROVE  /\ Frame(t) /\ Silent /\ ctl' = ctl /\ Keeps(t)
             /\ \/ At(t, "fail")'
                \/ /\ At(t, then)' /\ ctl[Of(t)].request # 0
                   /\ thread'[t].message = ControlRequest(Of(t), op)
  <2>1. ctl' = ctl /\ UNCHANGED <<uuids, topics>>
    BY <1>3 DEF Builds
  <2>2. CASE ctl[Of(t)].request = NoRequest
    <3>1. Goto(t, "fail")
      BY <1>3, <2>2 DEF Builds
    <3> QED
      BY <1>1, <2>1, <3>1, GotoStep
  <2>3. CASE ctl[Of(t)].request # NoRequest
    <3>1. Carrying(t, then, ControlRequest(Of(t), op))
      BY <1>3, <2>3 DEF Builds
    <3>2. ControlRequest(Of(t), op) \in Messages
      BY <1>2, <2>3, MessageType DEF Messages, RP!Operations
    <3> HIDE DEF ControlRequest
    <3> QED
      BY <1>1, <1>2, <2>1, <2>3, <3>1, <3>2, CarryingStep DEF NoRequest
  <2> QED
    BY <2>2, <2>3
<1>4. CASE BuildPrepare(t)
  <2>1. At(t, "prepare") /\ Builds(t, "PREPARE", "sendPrepare", "fail")
    BY <1>4 DEF BuildPrepare
  <2> QED
    BY <1>3, <2>1 DEF Building, Walking, From, At, PreparePlaces
<1>5. CASE BuildCommit(t)
  <2>1. At(t, "commit") /\ Builds(t, "COMMIT", "sendCommit", "fail")
    BY <1>5 DEF BuildCommit
  <2> QED
    BY <1>3, <2>1 DEF Building, Walking, From, At, CommitPlaces
<1> QED
  BY <1>4, <1>5

LEMMA DeliversStep ==
  ASSUME TypeInv, NEW t \in Threads,
         \/ SendPrepare(t) \/ SendCommit(t) \/ SendFailCancel(t)
         \/ SendExitCancel(t) \/ SendCloseCancel(t)
  PROVE  Frame(t) /\ Delivering(t)
<1>1. {"awaitPrepare", "awaitCommit", "awaitCancel", "fail", "ready", "detach"} \subseteq Places
  BY DEF Places, RestPlaces, PreparePlaces, CommitPlaces, EndPlaces, ClosePlaces
<1>2. CASE SendPrepare(t)
  <2>1. /\ At(t, "sendPrepare") /\ thread[t].pc \in RequestCarriers
        /\ PublishesRequest(t, "awaitPrepare", "fail")
    BY <1>2 DEF SendPrepare, At, RequestCarriers
  <2> QED
    BY <1>1, <2>1, PublishesStep DEF Delivering
<1>3. CASE SendCommit(t)
  <2>1. /\ At(t, "sendCommit") /\ thread[t].pc \in RequestCarriers
        /\ PublishesRequest(t, "awaitCommit", "fail")
    BY <1>3 DEF SendCommit, At, RequestCarriers
  <2> QED
    BY <1>1, <2>1, PublishesStep DEF Delivering
<1>4. CASE SendFailCancel(t)
  <2>1. /\ At(t, "sendFail") /\ thread[t].pc \in RequestCarriers
        /\ PublishesRequest(t, "ready", "ready")
    BY <1>4 DEF SendFailCancel, At, RequestCarriers, CancelCarriers
  <2> QED
    BY <1>1, <2>1, PublishesStep DEF Delivering, From, At
<1>5. CASE SendExitCancel(t)
  <2>1. /\ At(t, "sendExit") /\ thread[t].pc \in RequestCarriers
        /\ PublishesRequest(t, "awaitCancel", "awaitCancel")
    BY <1>5 DEF SendExitCancel, At, RequestCarriers, CancelCarriers
  <2> QED
    BY <1>1, <2>1, PublishesStep DEF Delivering, From, At
<1>6. CASE SendCloseCancel(t)
  <2>1. /\ At(t, "sendClose") /\ thread[t].pc \in RequestCarriers
        /\ PublishesRequest(t, "detach", "detach")
    BY <1>6 DEF SendCloseCancel, At, RequestCarriers, CancelCarriers
  <2> QED
    BY <1>1, <2>1, PublishesStep DEF Delivering, From, At
<1> QED
  BY <1>2, <1>3, <1>4, <1>5, <1>6

LEMMA AwaitPrepareStep ==
  ASSUME TypeInv, NEW t \in Threads, AwaitPrepare(t)
  PROVE  Frame(t) /\ Walking(t)
<1>1. Of(t) \in Controllers /\ ctl[Of(t)] \in Fields /\ thread[t] \in Locals
  BY ThreadTypes
<1>2. /\ ctl' = ctl /\ UNCHANGED <<uuids, topics>> /\ Silent /\ acks' = acks
      /\ published' = published /\ At(t, "awaitPrepare") /\ ctl \in [Controllers -> Fields]
  BY DEF AwaitPrepare, Silent, topics, TypeInv
<1>3. CASE Goto(t, "fail")
  <2>1. "fail" \in Places
    BY DEF Places, EndPlaces
  <2>2. Frame(t) /\ Silent /\ At(t, "fail")' /\ Keeps(t)
    BY <1>2, <1>3, <2>1, GotoStep
  <2> QED
    BY <1>2, <2>2 DEF Walking, At, PreparePlaces
<1>4. ASSUME NEW a \in AckFor(Of(t), thread[t].request, "PREPARE"), a.accepted,
             a.lease # NoLease,
             thread' = [thread EXCEPT ![t].pc = "lease", ![t].lease = a.lease]
      PROVE  Frame(t) /\ Walking(t)
  <2> DEFINE h == [thread[t] EXCEPT !.pc = "lease", !.lease = a.lease]
  <2>1. /\ a \in ctl[Of(t)].acks /\ a.request = thread[t].request
        /\ a.operation = "PREPARE" /\ a.lease \in RP!Generations
    BY <1>1 DEF AckFor, Fields, RP!Ack
  <2>2. /\ h \in Locals /\ h.pc = "lease" /\ h.lease = a.lease
        /\ h.request = thread[t].request
    BY <1>1, <2>1 DEF Locals, Places, PreparePlaces
  <2>3. thread' = [thread EXCEPT ![t] = h]
    BY <1>4
  <2> HIDE DEF h
  <2>4. /\ thread' \in [Threads -> Locals] /\ thread'[t] = h
        /\ \A u \in Threads \ {t} : thread'[u] = thread[u]
    BY <2>2, <2>3, LocalsStep
  <2>5. Frame(t)
    BY <1>2, <2>4 DEF Frame
  <2>6. AnsweredBy(t, "PREPARE") /\ Keeps(t)
    BY <1>4, <2>1, <2>2, <2>4 DEF AnsweredBy, NoLease, Keeps
  <2> QED
    BY <1>2, <2>2, <2>4, <2>5, <2>6 DEF Walking, From, At
<1> QED
  BY <1>3, <1>4 DEF AwaitPrepare

LEMMA TakeLeaseStep ==
  ASSUME TypeInv, NEW t \in Threads, TakeLease(t)
  PROVE  Frame(t) /\ Leasing(t)
<1> DEFINE k == [ctl[Of(t)] EXCEPT !.lease = thread[t].lease]
           h == [thread[t] EXCEPT !.pc = "commit", !.before = ctl[Of(t)].latest.seq]
<1>1. Of(t) \in Controllers /\ ctl[Of(t)] \in Fields /\ thread[t] \in Locals
  BY ThreadTypes
<1>2. thread[t].lease \in RP!Generations /\ ctl[Of(t)].latest.seq \in Nat
  BY <1>1 DEF Locals, Fields, Status
<1>3. /\ k \in Fields /\ k.request = ctl[Of(t)].request /\ k.lease = thread[t].lease
      /\ k.session = ctl[Of(t)].session /\ k.next = ctl[Of(t)].next
      /\ k.cancelSent = ctl[Of(t)].cancelSent
      /\ k.acks = ctl[Of(t)].acks /\ k.latest = ctl[Of(t)].latest
  BY <1>1, <1>2 DEF Fields
<1>4. h \in Locals /\ h.pc = "commit" /\ h.request = thread[t].request
  BY <1>1, <1>2 DEF Locals, Places, CommitPlaces
<1>5. ctl' = [ctl EXCEPT ![Of(t)] = k] /\ thread' = [thread EXCEPT ![t] = h]
  BY DEF TakeLease
<1> HIDE DEF k, h
<1>6. /\ ctl' \in [Controllers -> Fields] /\ ctl'[Of(t)] = k
      /\ \A d \in Controllers \ {Of(t)} : ctl'[d] = ctl[d]
  BY <1>3, <1>5, FieldsStep
<1>7. /\ thread' \in [Threads -> Locals] /\ thread'[t] = h
      /\ \A u \in Threads \ {t} : thread'[u] = thread[u]
  BY <1>4, <1>5, LocalsStep
<1>8. Silent /\ acks' = acks /\ published' = published /\ At(t, "lease")
  BY DEF TakeLease, topics, Silent
<1>9. Frame(t)
  BY <1>6, <1>7, <1>8 DEF Frame
<1> QED
  BY <1>3, <1>4, <1>6, <1>7, <1>8, <1>9 DEF Leasing, From, At, Keeps, SameRest

LEMMA AwaitRunningStep ==
  ASSUME TypeInv, NEW t \in Threads, AwaitRunning(t)
  PROVE  Frame(t) /\ Walking(t)
<1>1. Of(t) \in Controllers /\ ctl[Of(t)] \in Fields /\ thread[t] \in Locals
  BY ThreadTypes
<1>2. /\ ctl' = ctl /\ Silent /\ acks' = acks
      /\ published' = published /\ At(t, "awaitRunning") /\ ctl \in [Controllers -> Fields]
  BY DEF AwaitRunning, Silent, topics, TypeInv
<1>3. ASSUME StatusAllowsPublish(Of(t)),
             thread' = [thread EXCEPT ![t].pc = "adopt",
                                      ![t].generation = ctl[Of(t)].latest.generation]
      PROVE  Frame(t) /\ Walking(t)
  <2> DEFINE h == [thread[t] EXCEPT !.pc = "adopt",
                                    !.generation = ctl[Of(t)].latest.generation]
  <2>1. ctl[Of(t)].latest.generation \in RP!Generations
    BY <1>1 DEF Fields, Status
  <2>2. /\ h \in Locals /\ h.pc = "adopt" /\ h.request = thread[t].request
        /\ h.generation = ctl[Of(t)].latest.generation
    BY <1>1, <2>1 DEF Locals, Places, CommitPlaces
  <2>3. thread' = [thread EXCEPT ![t] = h]
    BY <1>3
  <2> HIDE DEF h
  <2>4. /\ thread' \in [Threads -> Locals] /\ thread'[t] = h
        /\ \A u \in Threads \ {t} : thread'[u] = thread[u]
    BY <2>2, <2>3, LocalsStep
  <2>5. Frame(t)
    BY <1>2, <2>4 DEF Frame
  <2> QED
    BY <1>2, <1>3, <2>2, <2>4, <2>5 DEF Walking, From, At, Keeps
<1>4. ASSUME thread' = [thread EXCEPT ![t].pc = "fail"]
      PROVE  Frame(t) /\ Walking(t)
  <2> DEFINE h == [thread[t] EXCEPT !.pc = "fail"]
  <2>1. h \in Locals /\ h.pc = "fail" /\ h.request = thread[t].request
    BY <1>1 DEF Locals, Places, EndPlaces
  <2>2. thread' = [thread EXCEPT ![t] = h]
    BY <1>4
  <2> HIDE DEF h
  <2>3. /\ thread' \in [Threads -> Locals] /\ thread'[t] = h
        /\ \A u \in Threads \ {t} : thread'[u] = thread[u]
    BY <2>1, <2>2, LocalsStep
  <2>4. Frame(t)
    BY <1>2, <2>3 DEF Frame
  <2> QED
    BY <1>2, <2>1, <2>3, <2>4 DEF Walking, At, Keeps, CommitPlaces
<1> QED
  BY <1>3, <1>4 DEF AwaitRunning, OwnedRunningAfter

LEMMA AdoptSessionStep ==
  ASSUME TypeInv, NEW t \in Threads, AdoptSession(t)
  PROVE  Frame(t) /\ Adopting(t)
<1> DEFINE k == [ctl[Of(t)] EXCEPT !.session = thread[t].generation, !.next = 1]
<1>1. Of(t) \in Controllers /\ ctl[Of(t)] \in Fields /\ thread[t] \in Locals
  BY ThreadTypes
<1>2. thread[t].generation \in RP!Generations
  BY <1>1 DEF Locals
<1>3. /\ k \in Fields /\ k.request = ctl[Of(t)].request /\ k.lease = ctl[Of(t)].lease
      /\ k.session = thread[t].generation /\ k.next = 1
      /\ k.cancelSent = ctl[Of(t)].cancelSent
      /\ k.acks = ctl[Of(t)].acks /\ k.latest = ctl[Of(t)].latest
  BY <1>1, <1>2 DEF Fields
<1>4. ctl' = [ctl EXCEPT ![Of(t)] = k]
  BY DEF AdoptSession
<1> HIDE DEF k
<1>5. /\ ctl' \in [Controllers -> Fields] /\ ctl'[Of(t)] = k
      /\ \A d \in Controllers \ {Of(t)} : ctl'[d] = ctl[d]
  BY <1>3, <1>4, FieldsStep
<1>6. /\ Silent /\ acks' = acks /\ published' = published /\ At(t, "adopt")
      /\ Goto(t, "ready") /\ "ready" \in Places
  BY DEF AdoptSession, topics, Silent, Places, RestPlaces
<1>7. /\ thread' \in [Threads -> Locals] /\ At(t, "ready")'
      /\ \A u \in Threads \ {t} : thread'[u] = thread[u]
  BY <1>6, GotoThread DEF Resting, At
<1>8. Frame(t)
  BY <1>5, <1>6, <1>7 DEF Frame
<1> QED
  BY <1>3, <1>5, <1>6, <1>7, <1>8 DEF Adopting, From, SameRest

LEMMA ClearSessionStep ==
  ASSUME TypeInv, NEW t \in Threads, ClearSession(t)
  PROVE  Frame(t) /\ Clearing(t)
<1> DEFINE k == SessionCleared(ctl[Of(t)])
<1>1. Of(t) \in Controllers /\ ctl[Of(t)] \in Fields
  BY ThreadTypes
<1>2. k \in Fields
  BY <1>1, OpenedType
<1>3. /\ k.request = 0 /\ k.lease = 0 /\ k.session = 0 /\ k.next = 1 /\ k.cancelSent = FALSE
      /\ k.acks = ctl[Of(t)].acks /\ k.latest = ctl[Of(t)].latest
  BY <1>1 DEF Fields, SessionCleared, NoRequest, NoLease
<1>4. ctl' = [ctl EXCEPT ![Of(t)] = k]
  BY DEF ClearSession
<1> HIDE DEF k
<1>5. /\ ctl' \in [Controllers -> Fields] /\ ctl'[Of(t)] = k
      /\ \A d \in Controllers \ {Of(t)} : ctl'[d] = ctl[d]
  BY <1>2, <1>4, FieldsStep
<1>6. /\ Silent /\ acks' = acks /\ published' = published /\ At(t, "clear")
      /\ Goto(t, "ready") /\ "ready" \in Places
  BY DEF ClearSession, topics, Silent, Places, RestPlaces
<1>7. /\ thread' \in [Threads -> Locals] /\ At(t, "ready")'
      /\ \A u \in Threads \ {t} : thread'[u] = thread[u]
  BY <1>6, GotoThread DEF Resting, At
<1>8. Frame(t)
  BY <1>5, <1>6, <1>7 DEF Frame
<1> QED
  BY <1>3, <1>5, <1>6, <1>7, <1>8 DEF Clearing, From, SameRest

LEMMA MovesStep ==
  ASSUME TypeInv, NEW t \in Threads, AwaitCommit(t) \/ AwaitCancel(t) \/ AwaitIdle(t)
  PROVE  Frame(t) /\ Walking(t)
<1>1. ASSUME NEW place \in Places, Moves(t, place)
      PROVE  Frame(t) /\ Silent /\ ctl' = ctl /\ At(t, place)' /\ (place # "ready" => Keeps(t))
  BY <1>1, GotoStep DEF Moves
<1>2. {"awaitRunning", "fail", "awaitIdle", "ready", "clear"} \subseteq Places
  BY DEF Places, RestPlaces, CommitPlaces, EndPlaces
<1>3. CASE AwaitCommit(t)
  <2>1. At(t, "awaitCommit") /\ (Moves(t, "awaitRunning") \/ Moves(t, "fail"))
    BY <1>3 DEF AwaitCommit
  <2>2. CASE Moves(t, "awaitRunning")
    BY <1>1, <1>2, <2>1, <2>2 DEF Walking, From
  <2>3. CASE Moves(t, "fail")
    BY <1>1, <1>2, <2>1, <2>3 DEF Walking, At, CommitPlaces
  <2> QED
    BY <2>1, <2>2, <2>3
<1>4. CASE AwaitCancel(t)
  <2>1. CASE Moves(t, "ready") /\ At(t, "awaitCancel")
    BY <1>1, <1>2, <2>1 DEF Walking, At
  <2>2. ASSUME NEW a \in AckFor(Of(t), thread[t].request, "CANCEL"), a.accepted,
               Moves(t, "awaitIdle"), At(t, "awaitCancel")
        PROVE  Frame(t) /\ Walking(t)
    <3>1. AnsweredBy(t, "CANCEL")
      BY <2>2 DEF AckFor, AnsweredBy
    <3> QED
      BY <1>1, <1>2, <2>2, <3>1 DEF Walking, From
  <2> QED
    BY <1>4, <2>1, <2>2 DEF AwaitCancel
<1>5. CASE AwaitIdle(t)
  <2>1. At(t, "awaitIdle") /\ (Moves(t, "clear") \/ Moves(t, "ready"))
    BY <1>5 DEF AwaitIdle
  <2> QED
    BY <1>1, <1>2, <2>1 DEF Walking, From, At
<1> QED
  BY <1>3, <1>4, <1>5

LEMMA MarkedType ==
  ASSUME NEW k \in Fields
  PROVE  LET k2 == [k EXCEPT !.cancelSent = TRUE] IN
         /\ k2 \in Fields /\ k2.cancelSent = TRUE /\ k2.request = k.request
         /\ k2.lease = k.lease /\ k2.session = k.session /\ k2.next = k.next
         /\ k2.acks = k.acks /\ k2.latest = k.latest
  BY DEF Fields

LEMMA CancelsStep ==
  ASSUME TypeInv, NEW t \in Threads, FailEnter(t) \/ ExitCancel(t)
  PROVE  Frame(t) /\ (Walking(t) \/ Cancelling(t))
<1> DEFINE k == [ctl[Of(t)] EXCEPT !.cancelSent = TRUE]
<1>1. Of(t) \in Controllers /\ ctl[Of(t)] \in Fields
  BY ThreadTypes
<1>2. ASSUME NEW then \in CancelCarriers, NEW otherwise \in Places,
             Cancels(t, then, otherwise)
      PROVE  /\ Frame(t) /\ Silent
             /\ \/ ctl' = ctl /\ At(t, otherwise)' /\ (otherwise # "ready" => Keeps(t))
                \/ /\ SameFields(t) /\ Keeps(t) /\ At(t, then)'
                   /\ ctl[Of(t)].request # 0 /\ ~ctl[Of(t)].cancelSent
                   /\ ctl'[Of(t)].cancelSent = TRUE
                   /\ thread'[t].message = ControlRequest(Of(t), "CANCEL")
  <2>1. CASE ctl[Of(t)].request = NoRequest \/ ctl[Of(t)].cancelSent
    <3>1. Goto(t, otherwise) /\ ctl' = ctl /\ UNCHANGED <<uuids, topics>>
      BY <1>2, <2>1 DEF Cancels
    <3> QED
      BY <3>1, GotoStep
  <2>2. CASE ~(ctl[Of(t)].request = NoRequest \/ ctl[Of(t)].cancelSent)
    <3>1. /\ Carrying(t, then, ControlRequest(Of(t), "CANCEL"))
          /\ ctl' = [ctl EXCEPT ![Of(t)].cancelSent = TRUE]
          /\ UNCHANGED <<uuids, topics>>
      BY <1>2, <2>2 DEF Cancels
    <3>2. ControlRequest(Of(t), "CANCEL") \in Messages
      BY <1>1, <2>2, MessageType DEF Messages, RP!Operations
    <3>3. ctl' = [ctl EXCEPT ![Of(t)] = k]
      BY <3>1
    <3>4. /\ k \in Fields /\ k.cancelSent = TRUE /\ k.request = ctl[Of(t)].request
          /\ k.lease = ctl[Of(t)].lease /\ k.session = ctl[Of(t)].session
          /\ k.next = ctl[Of(t)].next
          /\ k.acks = ctl[Of(t)].acks /\ k.latest = ctl[Of(t)].latest
      BY <1>1, MarkedType
    <3>5. then \in Places
      BY DEF CancelCarriers, Places, EndPlaces, ClosePlaces
    <3> HIDE DEF k, ControlRequest
    <3>6. /\ ctl' \in [Controllers -> Fields] /\ ctl'[Of(t)] = k
          /\ \A d \in Controllers \ {Of(t)} : ctl'[d] = ctl[d]
      BY <3>3, <3>4, FieldsStep
    <3>7. Frame(t) /\ Silent /\ At(t, then)' /\ Keeps(t)
          /\ thread'[t].message = ControlRequest(Of(t), "CANCEL")
      BY <3>1, <3>2, <3>5, <3>6, CarryingStep
    <3>8. SameFields(t)
      BY <3>4, <3>6 DEF SameFields, SameRest
    <3> QED
      BY <2>2, <3>4, <3>6, <3>7, <3>8 DEF NoRequest
  <2> QED
    BY <2>1, <2>2
<1>3. /\ "ready" \in Places /\ "awaitCancel" \in Places
      /\ "sendFail" \in CancelCarriers /\ "sendExit" \in CancelCarriers
  BY DEF Places, RestPlaces, EndPlaces, CancelCarriers
<1>4. CASE FailEnter(t)
  <2>1. At(t, "fail") /\ Cancels(t, "sendFail", "ready")
    BY <1>4 DEF FailEnter
  <2>2. thread[t].pc \in {"fail", "awaitCancel", "awaitIdle"}
    BY <2>1 DEF At
  <2> QED
    BY <1>2, <1>3, <2>1, <2>2 DEF Walking, Cancelling, From
<1>5. CASE ExitCancel(t)
  <2>1. At(t, "exit") /\ Cancels(t, "sendExit", "awaitCancel")
    BY <1>5 DEF ExitCancel
  <2> QED
    BY <1>2, <1>3, <2>1 DEF Walking, Cancelling, From
<1> QED
  BY <1>4, <1>5

LEMMA ExitBeginStep ==
  ASSUME TypeInv, NEW t \in Threads, ExitBegin(t)
  PROVE  Frame(t) /\ Walking(t)
<1> DEFINE h == [thread[t] EXCEPT !.pc = "exit", !.request = ctl[Of(t)].request]
<1>1. Of(t) \in Controllers /\ ctl[Of(t)] \in Fields /\ thread[t] \in Locals
  BY ThreadTypes
<1>2. ctl[Of(t)].request \in RequestNumbers
  BY <1>1 DEF Fields
<1>3. h \in Locals /\ h.pc = "exit" /\ h.request = ctl[Of(t)].request
  BY <1>1, <1>2 DEF Locals, Places, EndPlaces
<1>4. thread' = [thread EXCEPT ![t] = h]
  BY DEF ExitBegin
<1> HIDE DEF h
<1>5. /\ thread' \in [Threads -> Locals] /\ thread'[t] = h
      /\ \A u \in Threads \ {t} : thread'[u] = thread[u]
  BY <1>3, <1>4, LocalsStep
<1>6. /\ Silent /\ ctl' = ctl /\ acks' = acks /\ published' = published
      /\ ctl \in [Controllers -> Fields] /\ At(t, "ready") /\ t[2] \in Lifecycle
      /\ ctl[Of(t)].request # 0
  BY DEF ExitBegin, topics, Silent, TypeInv, NoRequest
<1> QED
  BY <1>3, <1>5, <1>6 DEF Frame, Walking, From, At

LEMMA CloseStep ==
  ASSUME TypeInv, NEW t \in Threads, CloseBegin(t) \/ Detach(t)
  PROVE  Frame(t) /\ (Closing(t) \/ Cancelling(t))
<1>1. Of(t) \in Controllers /\ ctl[Of(t)] \in Fields
  BY ThreadTypes
<1>2. ctl[Of(t)].cancelSent \in BOOLEAN
  BY <1>1 DEF Fields
<1>3. CASE CloseBegin(t)
  <2> DEFINE cancels == ctl[Of(t)].request # NoRequest /\ ~ctl[Of(t)].cancelSent
             marked == ctl[Of(t)].cancelSent \/ cancels
             k == [ctl[Of(t)] EXCEPT !.closed = TRUE, !.cancelSent = marked]
  <2>1. marked \in BOOLEAN
    OBVIOUS
  <2>2. ctl' = [ctl EXCEPT ![Of(t)] = k]
    BY <1>3 DEF CloseBegin
  <2> HIDE DEF marked
  <2>3. /\ k \in Fields /\ k.cancelSent = marked /\ k.request = ctl[Of(t)].request
        /\ k.lease = ctl[Of(t)].lease /\ k.session = ctl[Of(t)].session
        /\ k.next = ctl[Of(t)].next
        /\ k.acks = ctl[Of(t)].acks /\ k.latest = ctl[Of(t)].latest
    BY <1>1, <2>1 DEF Fields
  <2> HIDE DEF k
  <2>4. /\ ctl' \in [Controllers -> Fields] /\ ctl'[Of(t)] = k
        /\ \A d \in Controllers \ {Of(t)} : ctl'[d] = ctl[d]
    BY <2>2, <2>3, FieldsStep
  <2>5. SameFields(t) /\ ctl'[Of(t)].cancelSent = marked
    BY <2>3, <2>4 DEF SameFields, SameRest
  <2>6. At(t, "ready") /\ t[2] \in Lifecycle /\ UNCHANGED <<uuids, topics>>
    BY <1>3 DEF CloseBegin
  <2>7. CASE cancels
    <3>1. Carrying(t, "sendClose", ControlRequest(Of(t), "CANCEL"))
      BY <1>3, <2>7 DEF CloseBegin
    <3>2. ControlRequest(Of(t), "CANCEL") \in Messages
      BY <1>1, <2>7, MessageType DEF Messages, RP!Operations
    <3>3. "sendClose" \in Places
      BY DEF Places, ClosePlaces
    <3>4. marked = TRUE
      BY <2>1, <2>7 DEF marked
    <3> HIDE DEF ControlRequest
    <3>5. Frame(t) /\ Silent /\ At(t, "sendClose")'
          /\ thread'[t].message = ControlRequest(Of(t), "CANCEL")
      BY <2>4, <2>6, <3>1, <3>2, <3>3, CarryingStep
    <3> QED
      BY <2>5, <2>6, <2>7, <3>4, <3>5 DEF Cancelling, From, NoRequest
  <2>8. CASE ~cancels
    <3>1. Goto(t, "detach") /\ "detach" \in Places
      BY <1>3, <2>8 DEF CloseBegin, Places, ClosePlaces
    <3>2. /\ thread' \in [Threads -> Locals]
          /\ \A u \in Threads \ {t} : thread'[u] = thread[u]
          /\ At(t, "detach")'
      BY <3>1, GotoThread DEF At
    <3>3. marked = ctl[Of(t)].cancelSent
      BY <1>2, <2>8 DEF marked
    <3>4. Frame(t) /\ Silent
      BY <2>4, <2>6, <3>2 DEF Frame, Silent, topics
    <3> QED
      BY <2>5, <2>6, <3>2, <3>3, <3>4 DEF Closing, From
  <2> QED
    BY <2>7, <2>8
<1>4. CASE Detach(t)
  <2> DEFINE k == [ctl[Of(t)] EXCEPT !.detached = TRUE]
  <2>1. ctl' = [ctl EXCEPT ![Of(t)] = k]
    BY <1>4 DEF Detach
  <2>2. /\ k \in Fields /\ k.cancelSent = ctl[Of(t)].cancelSent
        /\ k.request = ctl[Of(t)].request
        /\ k.lease = ctl[Of(t)].lease /\ k.session = ctl[Of(t)].session
        /\ k.next = ctl[Of(t)].next
        /\ k.acks = ctl[Of(t)].acks /\ k.latest = ctl[Of(t)].latest
    BY <1>1 DEF Fields
  <2> HIDE DEF k
  <2>3. /\ ctl' \in [Controllers -> Fields] /\ ctl'[Of(t)] = k
        /\ \A d \in Controllers \ {Of(t)} : ctl'[d] = ctl[d]
    BY <2>1, <2>2, FieldsStep
  <2>4. /\ Silent /\ acks' = acks /\ published' = published /\ At(t, "detach")
        /\ Goto(t, "ready") /\ "ready" \in Places
    BY <1>4 DEF Detach, topics, Silent, Places, RestPlaces
  <2>5. /\ thread' \in [Threads -> Locals] /\ At(t, "ready")'
        /\ \A u \in Threads \ {t} : thread'[u] = thread[u]
    BY <2>4, GotoThread DEF Resting, At
  <2>6. Frame(t)
    BY <2>3, <2>4, <2>5 DEF Frame
  <2>7. SameFields(t) /\ ctl'[Of(t)].cancelSent = ctl[Of(t)].cancelSent
    BY <2>2, <2>3 DEF SameFields, SameRest
  <2> QED
    BY <2>4, <2>5, <2>6, <2>7 DEF Closing, From
<1> QED
  BY <1>3, <1>4

LEMMA PublishBeginStep ==
  ASSUME TypeInv, NEW t \in Threads, PublishBegin(t)
  PROVE  Frame(t) /\ Publishing(t)
<1> DEFINE key == NextKey(Of(t))
           k == [ctl[Of(t)] EXCEPT !.session = key.session, !.next = key.sequence + 1]
           m == [key |-> key, wellFormed |-> TRUE, client |-> Of(t)]
<1>1. Of(t) \in Controllers /\ ctl[Of(t)] \in Fields
  BY ThreadTypes
<1>2. /\ ctl[Of(t)].latest.generation \in RP!Generations /\ ctl[Of(t)].next \in Nat
      /\ MaxSequence \in Nat
  BY <1>1, BoundAssumption DEF Fields, Status
<1>3. /\ key.session = ctl[Of(t)].latest.generation
      /\ key.sequence \in {1, ctl[Of(t)].next} /\ key.sequence <= MaxSequence
      /\ key = [session |-> key.session, sequence |-> key.sequence]
  BY DEF PublishBegin, NextKey
<1>4. key.sequence \in RP!Sequences /\ key.sequence + 1 \in Nat
  BY <1>2, <1>3 DEF RP!Sequences
<1>5. key \in RP!Keys
  BY <1>2, <1>3, <1>4 DEF RP!Keys
<1>6. /\ ctl' = [ctl EXCEPT ![Of(t)] = k] /\ Carrying(t, "sendCommand", m)
      /\ UNCHANGED <<uuids, topics>> /\ At(t, "ready") /\ StatusAllowsPublish(Of(t))
  BY DEF PublishBegin
<1> HIDE DEF key
<1>7. /\ k \in Fields /\ k.request = ctl[Of(t)].request
      /\ k.lease = ctl[Of(t)].lease /\ k.session = key.session /\ k.next = key.sequence + 1
      /\ k.acks = ctl[Of(t)].acks /\ k.latest = ctl[Of(t)].latest
      /\ k.cancelSent = ctl[Of(t)].cancelSent
  BY <1>1, <1>2, <1>3, <1>4 DEF Fields
<1>8. m \in CommandMessage
  BY <1>1, <1>5 DEF CommandMessage
<1>9. m \in Messages /\ "sendCommand" \in Places
  BY <1>8 DEF Messages, Places, RestPlaces
<1> HIDE DEF k
<1>10. /\ ctl' \in [Controllers -> Fields] /\ ctl'[Of(t)] = k
       /\ \A d \in Controllers \ {Of(t)} : ctl'[d] = ctl[d]
  BY <1>6, <1>7, FieldsStep
<1> HIDE DEF m
<1>11. Frame(t) /\ Silent /\ At(t, "sendCommand")' /\ thread'[t].message = m
  BY <1>6, <1>9, <1>10, CarryingStep
<1> QED
  BY <1>5, <1>6, <1>7, <1>10, <1>11 DEF Publishing, From, SameRest, key, m

LEMMA SendCommandStep ==
  ASSUME TypeInv, NEW t \in Threads, SendCommand(t)
  PROVE  Frame(t) /\ Sending(t)
<1>1. /\ At(t, "sendCommand") /\ ctl' = ctl /\ uuids' = uuids /\ requests' = requests
      /\ acks' = acks /\ published' = published /\ ctl \in [Controllers -> Fields]
      /\ Goto(t, "ready") /\ "ready" \in Places
  BY DEF SendCommand, TypeInv, Places, RestPlaces
<1>2. thread[t].message \in CommandMessage
  BY <1>1 DEF TypeInv
<1>3. commands' \in {commands, Append(commands, thread[t].message)}
  BY DEF SendCommand, Outcomes
<1>4. /\ thread' \in [Threads -> Locals] /\ At(t, "ready")'
      /\ \A u \in Threads \ {t} : thread'[u] = thread[u]
  BY <1>1, GotoThread DEF Resting, At
<1>5. Frame(t)
  BY <1>1, <1>4 DEF Frame
<1> QED
  BY <1>1, <1>2, <1>3, <1>4, <1>5 DEF Sending, From

\* Every step of a call is of one of these kinds.
LEMMA CallSteps ==
  ASSUME TypeInv, NEW t \in Threads, Call(t)
  PROVE  Frame(t) /\ CallStep(t)
<1>1. CASE Enter(t)
  BY <1>1, EnterBeginStep, BuildsStep, DeliversStep, AwaitPrepareStep, TakeLeaseStep,
     MovesStep, AwaitRunningStep, AdoptSessionStep, CancelsStep DEF Enter, CallStep
<1>2. CASE PublishBegin(t) \/ SendCommand(t)
  BY <1>2, PublishBeginStep, SendCommandStep DEF CallStep
<1>3. CASE Exit(t)
  BY <1>3, ExitBeginStep, CancelsStep, DeliversStep, MovesStep, ClearSessionStep
  DEF Exit, CallStep
<1>4. CASE Close(t)
  BY <1>4, CloseStep, DeliversStep DEF Close, CallStep
<1> QED
  BY <1>1, <1>2, <1>3, <1>4 DEF Call

-----------------------------------------------------------------------------
(* What the callbacks do *)

\* An ACK is kept or dropped.
Hearing(c) == LET k == ctl[c] k2 == ctl'[c] IN
  /\ ctl' \in [Controllers -> Fields] /\ acks' \in [Controllers -> Seq(RP!Ack)]
  /\ acks[c] # <<>> /\ acks'[c] = Tail(acks[c])
  /\ \A d \in Controllers \ {c} : ctl'[d] = ctl[d] /\ acks'[d] = acks[d]
  /\ k2.acks \in {k.acks, k.acks \cup {Head(acks[c])}}
  /\ k2.request = k.request /\ k2.lease = k.lease /\ k2.session = k.session
  /\ k2.next = k.next /\ k2.cancelSent = k.cancelSent /\ k2.latest = k.latest
  /\ UNCHANGED <<thread, uuids, requests, commands, published>>

\* The published status becomes the latest.
Seeing(c) == LET k == ctl[c] k2 == ctl'[c] IN
  /\ ctl' \in [Controllers -> Fields]
  /\ \A d \in Controllers \ {c} : ctl'[d] = ctl[d]
  /\ k2.request = k.request /\ k2.lease = k.lease /\ k2.session = k.session
  /\ k2.next = k.next /\ k2.cancelSent = k.cancelSent /\ k2.acks = k.acks
  /\ k2.latest = published
  /\ UNCHANGED <<thread, uuids, topics>>

LEMMA HeadOf ==
  ASSUME NEW S, NEW q \in Seq(S), q # <<>>
  PROVE  /\ Head(q) \in S /\ Tail(q) \in Seq(S)
         /\ Head(q) \in Range(q)
         /\ \A x \in Range(Tail(q)) : x \in Range(q)
<1>1. /\ Len(q) \in Nat /\ Len(q) > 0 /\ Head(q) = q[1] /\ Tail(q) \in Seq(S)
      /\ Len(Tail(q)) = Len(q) - 1
      /\ \A i \in 1 .. Len(q) - 1 : Tail(q)[i] = q[i + 1]
  OBVIOUS
<1>2. /\ 1 \in 1 .. Len(q) /\ \A i \in 1 .. Len(q) - 1 : i + 1 \in 1 .. Len(q)
  BY <1>1
<1>3. DOMAIN q = 1 .. Len(q) /\ DOMAIN Tail(q) = 1 .. Len(q) - 1
  BY <1>1
<1> QED
  BY <1>1, <1>2, <1>3 DEF Range

LEMMA OnAckStep ==
  ASSUME TypeInv, NEW c \in Controllers, OnAck(c)
  PROVE  Hearing(c)
<1> DEFINE a == Head(acks[c])
           k == [ctl[c] EXCEPT !.acks = @ \cup {a}]
<1>1. /\ ctl \in [Controllers -> Fields] /\ ctl[c] \in Fields
      /\ acks \in [Controllers -> Seq(RP!Ack)] /\ acks[c] \in Seq(RP!Ack)
  BY DEF TypeInv
<1>2. acks[c] # <<>> /\ acks' = [acks EXCEPT ![c] = Tail(acks[c])]
  BY DEF OnAck
<1>3. a \in RP!Ack /\ Tail(acks[c]) \in Seq(RP!Ack)
  BY <1>1, <1>2, HeadOf
<1>4. ctl' = ctl \/ ctl' = [ctl EXCEPT ![c] = k]
  BY DEF OnAck
<1>5. /\ k \in Fields /\ k.request = ctl[c].request /\ k.lease = ctl[c].lease
      /\ k.session = ctl[c].session /\ k.next = ctl[c].next
      /\ k.cancelSent = ctl[c].cancelSent /\ k.latest = ctl[c].latest
      /\ k.acks = ctl[c].acks \cup {a}
  BY <1>1, <1>3 DEF Fields
<1>6. /\ acks' \in [Controllers -> Seq(RP!Ack)] /\ acks'[c] = Tail(acks[c])
      /\ \A d \in Controllers \ {c} : acks'[d] = acks[d]
  BY <1>1, <1>2, <1>3
<1>7. UNCHANGED <<thread, uuids, requests, commands, published>>
  BY DEF OnAck
<1> HIDE DEF k
<1>8. CASE ctl' = ctl
  BY <1>1, <1>2, <1>6, <1>7, <1>8 DEF Hearing
<1>9. CASE ctl' = [ctl EXCEPT ![c] = k]
  <2>1. /\ ctl' \in [Controllers -> Fields] /\ ctl'[c] = k
        /\ \A d \in Controllers \ {c} : ctl'[d] = ctl[d]
    BY <1>1, <1>5, <1>9
  <2> QED
    BY <2>1, <1>2, <1>5, <1>6, <1>7 DEF Hearing
<1> QED
  BY <1>4, <1>8, <1>9

LEMMA OnStatusStep ==
  ASSUME TypeInv, NEW c \in Controllers, OnStatus(c)
  PROVE  Seeing(c)
<1> DEFINE k == [ctl[c] EXCEPT !.latest = published]
<1>1. ctl \in [Controllers -> Fields] /\ ctl[c] \in Fields /\ published \in Status
  BY DEF TypeInv
<1>2. ctl' = [ctl EXCEPT ![c] = k] /\ UNCHANGED <<thread, uuids, topics>>
  BY DEF OnStatus
<1>3. /\ k \in Fields /\ k.request = ctl[c].request /\ k.lease = ctl[c].lease
      /\ k.session = ctl[c].session /\ k.next = ctl[c].next
      /\ k.cancelSent = ctl[c].cancelSent /\ k.latest = published /\ k.acks = ctl[c].acks
  BY <1>1 DEF Fields
<1> HIDE DEF k
<1>4. /\ ctl' \in [Controllers -> Fields] /\ ctl'[c] = k
      /\ \A d \in Controllers \ {c} : ctl'[d] = ctl[d]
  BY <1>1, <1>2, <1>3
<1> QED
  BY <1>2, <1>3, <1>4 DEF Seeing

-----------------------------------------------------------------------------
(* What the robot does *)

LEMMA SameExternal == ASSUME NEW p PROVE Robot!External(p) <=> RP!External(p)
  BY DEF Robot!External, RP!External

\* Owner and session are the same; or a lease that never ran has been withdrawn.
SameLease(q, p) ==
  /\ q.client = p.client /\ q.request = p.request /\ q.lease = p.lease
  /\ q.generation = p.generation /\ q.issued = p.issued
  /\ RP!External(q) <=> RP!External(p)
Freed(q, p) == q.client = NoId /\ ~RP!External(q) /\ q.issued = p.issued
Quiet(q, p) == /\ RP!GoodState(q)
               /\ SameLease(q, p) \/ (Freed(q, p) /\ ~RP!External(p))

LEMMA WatchdogQuiet ==
  ASSUME NEW p, RP!GoodState(p)
  PROVE  Quiet(RP!Watchdog(p), p)
<1>1. p \in RP!ProtocolState
  BY DEF RP!GoodState
<1> QED
  BY <1>1, RP!WatchdogCases, RP!ClearFields, RP!HoldFields
  DEF Quiet, SameLease, Freed, RP!Empty, RP!External

LEMMA CommandQuiet ==
  ASSUME NEW p, RP!GoodState(p), NEW m \in CommandMessage
  PROVE  Quiet(RP!AfterCommand(RP!Watchdog(p), m), p)
<1> DEFINE w == RP!Watchdog(p)
<1>1. Quiet(w, p) /\ RP!GoodState(w) /\ w \in RP!ProtocolState
  BY WatchdogQuiet DEF Quiet, RP!GoodState
<1> HIDE DEF w
<1>2. PICK cmd \in RP!Command : /\ RP!AfterCommand(w, m) = RP!AfterCommand(w, cmd)
                                /\ RP!Admits(w, m) <=> RP!Admits(w, cmd)
  BY CommandAlone
<1> DEFINE q == RP!AfterCommand(w, cmd)
<1>3. RP!GoodState(q)
  BY <1>1, RP!AfterCommandGood
<1>4. SameLease(RP!Rejected(w), w)
  BY <1>1, RP!RejectedFields DEF SameLease, RP!SameSession, RP!External
<1>5. RP!Admits(w, cmd) => SameLease(RP!Admitted(w, cmd), w)
  BY <1>1, RP!AdmittedFields DEF SameLease, RP!Admits, RP!External
<1>6. SameLease(q, w)
  BY <1>4, <1>5 DEF RP!AfterCommand
<1> HIDE DEF q
<1>7. Quiet(q, p)
  BY <1>1, <1>3, <1>6 DEF Quiet, SameLease, Freed
<1> QED
  BY <1>2, <1>7 DEF q, w

\* A request leases the robot, starts the session of its lease, frees the robot, or
\* changes nothing; a is the answer.
Preparing(q, w, r, a) ==
  /\ r.operation = "PREPARE" /\ w.client = NoId /\ ~RP!External(w) /\ ~RP!External(q)
  /\ q.client = r.client /\ q.request = r.request
  /\ q.lease = w.issued + 1 /\ q.issued = w.issued + 1 /\ a.lease = q.lease
Committing(q, w, r, a) ==
  /\ r.operation = "COMMIT" /\ ~RP!External(w) /\ RP!External(q)
  /\ w.client = r.client /\ w.request = r.request /\ w.lease = r.lease
  /\ q.client = w.client /\ q.request = w.request /\ q.lease = w.lease
  /\ q.generation = w.issued + 1 /\ q.issued = w.issued + 1
Releasing(q, w, r, a) ==
  /\ r.operation = "CANCEL" /\ Freed(q, w)
  /\ w.client = r.client /\ w.request = r.request /\ w.lease = r.lease
Answers(q, w, r, a) ==
  /\ a.client = r.client /\ a.request = r.request /\ a.operation = r.operation
  /\ a.accepted /\ a.operation = "PREPARE"
       => q.client = r.client /\ q.request = r.request /\ q.lease = a.lease
  /\ a.accepted /\ a.operation = "CANCEL" => q.client = NoId

RequestStep(q, w, r, a) ==
  /\ RP!GoodState(q) /\ a \in RP!Ack /\ Answers(q, w, r, a)
  /\ Preparing(q, w, r, a) \/ Committing(q, w, r, a) \/ Releasing(q, w, r, a) \/ q = w

LEMMA RequestSteps ==
  ASSUME NEW w, RP!GoodState(w), NEW r \in RP!Request
  PROVE  RequestStep(RP!AfterRequest(w, r), w, r, RP!ReplyTo(w, r))
<1> DEFINE q == RP!AfterRequest(w, r)
           a == RP!ReplyTo(w, r)
<1>1. RP!GoodState(q) /\ a \in RP!Ack /\ w \in RP!ProtocolState
  BY RP!AfterRequestGood, RP!ReplyType DEF RP!GoodState
<1>2. /\ a.client = r.client /\ a.request = r.request /\ a.operation = r.operation
      /\ a.accepted = RP!AcceptsRequest(w, r)
  BY DEF RP!ReplyTo
<1>3. CASE RP!Prepares(w, r)
  <2>1. q = RP!Prepared(w, r) /\ ~RP!Commits(w, r) /\ ~RP!Cancels(w, r)
    BY <1>3 DEF RP!AfterRequest, RP!Prepares, RP!Commits, RP!Cancels
  <2>2. RP!CanIssue(w) /\ w.client = NoId /\ r.operation = "PREPARE" /\ RP!Empty(w)
    BY <1>3, RP!PreparedGood DEF RP!Prepares, RP!Idle
  <2>3. a.lease = q.lease
    BY <1>3, <2>1 DEF RP!ReplyTo, RP!AcceptsRequest
  <2>4. Preparing(q, w, r, a)
    BY <1>1, <2>1, <2>2, <2>3, RP!PreparedFields DEF Preparing, RP!Empty, RP!External
  <2> QED
    BY <1>1, <1>2, <2>2, <2>3, <2>4 DEF RequestStep, Answers, Preparing
<1>4. CASE RP!Commits(w, r)
  <2>1. q = RP!Committed(w) /\ ~RP!Prepares(w, r) /\ ~RP!Cancels(w, r)
    BY <1>4 DEF RP!AfterRequest, RP!Prepares, RP!Commits, RP!Cancels
  <2>2. /\ RP!CanIssue(w) /\ w.phase = "ARMED" /\ r.operation = "COMMIT"
        /\ w.client = r.client /\ w.request = r.request /\ w.lease = r.lease
    BY <1>4 DEF RP!Commits, RP!Owns, RP!SameRequest
  <2>3. Committing(q, w, r, a)
    BY <1>1, <2>1, <2>2, RP!CommittedFields DEF Committing, RP!External
  <2> QED
    BY <1>1, <1>2, <2>2, <2>3 DEF RequestStep, Answers
<1>5. CASE RP!Cancels(w, r)
  <2>1. q = RP!Clear(w)
    BY <1>5 DEF RP!AfterRequest, RP!Prepares, RP!Commits, RP!Cancels
  <2>2. /\ r.operation = "CANCEL"
        /\ w.client = r.client /\ w.request = r.request /\ w.lease = r.lease
    BY <1>5 DEF RP!Cancels, RP!Owns, RP!SameRequest
  <2>3. Freed(q, w)
    BY <1>1, <2>1, RP!ClearFields DEF Freed, RP!Empty, RP!External
  <2> QED
    BY <1>1, <1>2, <2>2, <2>3 DEF RequestStep, Answers, Releasing, Freed
<1>6. CASE ~(RP!Prepares(w, r) \/ RP!Commits(w, r) \/ RP!Cancels(w, r))
  <2>1. q = w
    BY <1>6 DEF RP!AfterRequest
  <2>2. a.accepted => RP!Repeats(w, r)
    BY <1>2, <1>6 DEF RP!AcceptsRequest
  <2>3. a.accepted => a.lease = q.lease
    BY <1>2, <1>6 DEF RP!ReplyTo
  <2>4. Answers(q, w, r, a)
    BY <1>2, <2>1, <2>2, <2>3 DEF Answers, RP!Repeats, RP!SameRequest, RP!Idle
  <2> QED
    BY <1>1, <2>1, <2>4 DEF RequestStep
<1> QED
  BY <1>3, <1>4, <1>5, <1>6

\* The robot answers the request r with a, from the state w the watchdog left.
Answering(r, w, a) ==
  /\ requests # <<>> /\ r = Head(requests) /\ r \in RP!Request /\ requests' = Tail(requests)
  /\ Quiet(w, robot) /\ RequestStep(robot', w, r, a)
  /\ acks' \in [Controllers -> Seq(RP!Ack)]
  /\ \A d \in Controllers : acks'[d] \in {acks[d], Append(acks[d], a)}
  /\ \A d \in Controllers \ {r.client} : acks'[d] = acks[d]
  /\ UNCHANGED <<clientVars, commands, published>>

\* The robot takes a command, ages, or publishes what it is.
Working ==
  /\ Quiet(robot', robot)
  /\ commands' = commands \/ (commands # <<>> /\ commands' = Tail(commands))
  /\ published' \in {published, StatusOf(robot')}
  /\ UNCHANGED <<clientVars, requests, acks>>

LEMMA ReceiveRequestStep ==
  ASSUME TypeInv, ReceiveRequest
  PROVE  Answering(Head(requests), RP!Watchdog(robot),
                   RP!ReplyTo(RP!Watchdog(robot), Head(requests)))
<1> DEFINE r == Head(requests)
           w == RP!Watchdog(robot)
           a == RP!ReplyTo(w, r)
<1>1. r \in RP!Request
  <2>1. requests \in Seq(RP!Request) /\ requests # <<>>
    BY DEF TypeInv, ReceiveRequest
  <2> QED
    BY <2>1, HeadOf
<1>2. Quiet(w, robot) /\ RP!GoodState(w)
  BY WatchdogQuiet DEF TypeInv, Quiet
<1>3. robot' = RP!AfterRequest(w, r)
  BY SameWatchdog, SameRequestControl DEF ReceiveRequest
<1>4. RequestStep(robot', w, r, a)
  BY <1>1, <1>2, <1>3, RequestSteps
<1>5. PICK q \in Outcomes(acks[r.client], a) : acks' = [acks EXCEPT ![r.client] = q]
  BY SameWatchdog, SameRequestControl DEF ReceiveRequest
<1>6. a \in RP!Ack /\ r.client \in Controllers /\ acks \in [Controllers -> Seq(RP!Ack)]
  BY <1>1, <1>4 DEF RequestStep, RP!Request, TypeInv
<1> HIDE DEF a, w
<1>7. q \in {acks[r.client], Append(acks[r.client], a)}
  BY <1>5 DEF Outcomes
<1>8. acks[r.client] \in Seq(RP!Ack) /\ Append(acks[r.client], a) \in Seq(RP!Ack)
  BY <1>6
<1>9. q \in Seq(RP!Ack)
  BY <1>7, <1>8
<1>10. /\ acks' \in [Controllers -> Seq(RP!Ack)]
       /\ \A d \in Controllers : acks'[d] \in {acks[d], Append(acks[d], a)}
       /\ \A d \in Controllers \ {r.client} : acks'[d] = acks[d]
  BY <1>5, <1>6, <1>7, <1>9
<1>11. /\ requests # <<>> /\ requests' = Tail(requests)
       /\ UNCHANGED <<clientVars, commands, published>>
  BY DEF ReceiveRequest
<1> QED
  BY <1>1, <1>2, <1>4, <1>10, <1>11 DEF Answering, a, w

LEMMA AgedQuiet ==
  ASSUME NEW p, RP!GoodState(p)
  PROVE  Quiet([p EXCEPT !.age = @ + 1], p)
<1>1. p \in RP!ProtocolState
  BY DEF RP!GoodState
<1>2. RP!GoodState([p EXCEPT !.age = @ + 1])
  BY <1>1, RP!AgedFields, RP!SameGood
<1> QED
  BY <1>1, <1>2, RP!AgedFields DEF Quiet, SameLease, RP!SameSession, RP!External

LEMMA WorkingStep ==
  ASSUME TypeInv, ReceiveCommand \/ PublishStatus \/ TimePasses
  PROVE  Working
<1>1. RP!GoodState(robot) /\ commands \in Seq(CommandMessage)
  BY DEF TypeInv
<1>2. CASE ReceiveCommand
  <2>1. /\ commands # <<>> /\ commands' = Tail(commands)
        /\ robot' = RP!AfterCommand(RP!Watchdog(robot), Head(commands))
        /\ UNCHANGED <<clientVars, requests, acks, published>>
    BY <1>2, SameWatchdog, SameCommands DEF ReceiveCommand
  <2>2. Head(commands) \in CommandMessage
    BY <1>1, <2>1, HeadOf
  <2>3. Quiet(robot', robot)
    BY <1>1, <2>1, <2>2, CommandQuiet
  <2> QED
    BY <2>1, <2>3 DEF Working
<1>3. CASE PublishStatus
  BY <1>1, <1>3, SameWatchdog, WatchdogQuiet DEF PublishStatus, Working
<1>4. CASE TimePasses
  <2>1. /\ robot' = [robot EXCEPT !.age = @ + 1]
        /\ UNCHANGED <<clientVars, commands, published, requests, acks>>
    BY <1>4 DEF TimePasses, topics
  <2> QED
    BY <1>1, <2>1, AgedQuiet DEF Working
<1> QED
  BY <1>2, <1>3, <1>4

\* Every step is one of these.
Idling == UNCHANGED vars
SessionStep ==
  \/ Idling
  \/ \E t \in Threads : Frame(t) /\ CallStep(t) /\ robot' = robot
  \/ \E c \in Controllers : (Hearing(c) \/ Seeing(c)) /\ robot' = robot
  \/ \E r, w, a : Answering(r, w, a)
  \/ Working

LEMMA AllSteps ==
  ASSUME TypeInv, [Next]_vars
  PROVE  SessionStep
<1>1. CASE ClientNext /\ UNCHANGED robot
  BY <1>1, CallSteps, OnAckStep, OnStatusStep DEF ClientNext, SessionStep
<1>2. CASE RobotNext
  BY <1>2, ReceiveRequestStep, WorkingStep DEF RobotNext, SessionStep
<1>3. CASE UNCHANGED vars
  BY <1>3 DEF SessionStep, Idling
<1> QED
  BY <1>1, <1>2, <1>3 DEF Next

-----------------------------------------------------------------------------
(* Types are kept *)

LEMMA StatusOfType ==
  ASSUME NEW p, RP!GoodState(p)
  PROVE  /\ StatusOf(p) \in Status
         /\ ExternalStatus(StatusOf(p)) <=> RP!External(p)
  BY DEF RP!GoodState, RP!ProtocolState, StatusOf, Status, ExternalStatus, RP!External

\* What a thread carries has its type; what it carried may have been sent.
LEMMA CarriedType ==
  ASSUME TypeInv, NEW t \in Threads, CallStep(t)
  PROVE  /\ thread'[t].pc \in RequestCarriers => thread'[t].message \in RP!Request
         /\ At(t, "sendCommand")' => thread'[t].message \in CommandMessage
<1>1. Of(t) \in Controllers
  BY ThreadTypes
<1>2. CASE Building(t)
  <2>1. /\ ctl[Of(t)].request # NoRequest
        /\ thread'[t].pc \in {"sendPrepare", "sendCommit"}
        /\ thread'[t].message \in {ControlRequest(Of(t), "PREPARE"), ControlRequest(Of(t), "COMMIT")}
    BY <1>2 DEF Building, From, At, NoRequest
  <2>2. thread'[t].message \in RP!Request
    BY <1>1, <2>1, MessageType DEF RP!Operations
  <2> QED
    BY <2>1, <2>2 DEF At
<1>3. CASE Cancelling(t)
  <2>1. /\ ctl[Of(t)].request # NoRequest
        /\ thread'[t].pc \in CancelCarriers
        /\ thread'[t].message = ControlRequest(Of(t), "CANCEL")
    BY <1>3 DEF Cancelling, From, At, NoRequest, CancelCarriers
  <2>2. thread'[t].message \in RP!Request
    BY <1>1, <2>1, MessageType DEF RP!Operations
  <2> QED
    BY <2>1, <2>2 DEF At, CancelCarriers
<1>4. CASE Publishing(t)
  <2>1. thread'[t].message \in CommandMessage
    BY <1>1, <1>4 DEF Publishing, CommandMessage
  <2> QED
    BY <1>4, <2>1 DEF Publishing, From, At, RequestCarriers, CancelCarriers
<1>5. CASE \/ Entering(t) \/ Delivering(t) \/ Leasing(t) \/ Adopting(t)
           \/ Sending(t) \/ Clearing(t) \/ Closing(t)
  BY <1>5 DEF Entering, Delivering, Leasing, Adopting, Sending, Clearing, Closing,
              From, At, RequestCarriers, CancelCarriers
<1>6. CASE Walking(t)
  BY <1>6 DEF Walking, From, At, RequestCarriers, CancelCarriers
<1> QED
  BY <1>2, <1>3, <1>4, <1>5, <1>6 DEF CallStep

LEMMA CallType ==
  ASSUME TypeInv, NEW t \in Threads, Frame(t), CallStep(t), robot' = robot
  PROVE  TypeInv'
<1>1. /\ ctl' \in [Controllers -> Fields] /\ thread' \in [Threads -> Locals]
      /\ acks' = acks /\ published' = published
      /\ \A u \in Threads \ {t} : thread'[u] = thread[u]
  BY DEF Frame
<1>2. \A u \in Threads : /\ thread'[u].pc \in RequestCarriers => thread'[u].message \in RP!Request
                         /\ At(u, "sendCommand")' => thread'[u].message \in CommandMessage
  BY <1>1, CarriedType DEF TypeInv, At
<1>3. /\ uuids \in RequestNumbers /\ requests \in Seq(RP!Request)
      /\ commands \in Seq(CommandMessage)
  BY DEF TypeInv
<1>4. CASE Silent
  BY <1>1, <1>2, <1>4 DEF TypeInv, Silent
<1>5. CASE Entering(t)
  <2>1. uuids' \in RequestNumbers /\ requests' = requests /\ commands' = commands
    BY <1>3, <1>5, BoundAssumption DEF Entering, RequestNumbers
  <2> QED
    BY <1>1, <1>2, <2>1 DEF TypeInv
<1>6. CASE Delivering(t)
  <2>1. requests' \in Seq(RP!Request) /\ uuids' = uuids /\ commands' = commands
    BY <1>3, <1>6 DEF Delivering
  <2> QED
    BY <1>1, <1>2, <2>1 DEF TypeInv
<1>7. CASE Sending(t)
  <2>1. commands' \in Seq(CommandMessage) /\ uuids' = uuids /\ requests' = requests
    BY <1>3, <1>7 DEF Sending
  <2> QED
    BY <1>1, <1>2, <2>1 DEF TypeInv
<1> QED
  BY <1>4, <1>5, <1>6, <1>7
  DEF CallStep, Building, Walking, Leasing, Adopting, Cancelling, Publishing, Clearing, Closing

LEMMA StepType == TypeInv /\ [Next]_vars => TypeInv'
<1> SUFFICES ASSUME TypeInv, SessionStep PROVE TypeInv'
  BY AllSteps
<1>1. CASE Idling
  BY <1>1 DEF Idling, vars, clientVars, topics, TypeInv, At
<1>2. ASSUME NEW t \in Threads, Frame(t), CallStep(t), robot' = robot
      PROVE  TypeInv'
  BY <1>2, CallType
<1>3. ASSUME NEW c \in Controllers, Hearing(c) \/ Seeing(c), robot' = robot
      PROVE  TypeInv'
  BY <1>3 DEF Hearing, Seeing, TypeInv, topics, At
<1>4. ASSUME NEW r, NEW w, NEW a, Answering(r, w, a)
      PROVE  TypeInv'
  <2>1. requests' \in Seq(RP!Request)
    BY <1>4, HeadOf DEF Answering, TypeInv
  <2>2. RP!GoodState(robot)'
    BY <1>4 DEF Answering, RequestStep
  <2>3. acks' \in [Controllers -> Seq(RP!Ack)] /\ UNCHANGED <<clientVars, commands, published>>
    BY <1>4 DEF Answering
  <2> QED
    BY <2>1, <2>2, <2>3 DEF TypeInv, clientVars, At
<1>5. CASE Working
  <2>1. commands' \in Seq(CommandMessage)
    <3>1. commands \in Seq(CommandMessage)
      BY DEF TypeInv
    <3>2. commands # <<>> => Tail(commands) \in Seq(CommandMessage)
      BY <3>1, HeadOf
    <3> QED
      BY <1>5, <3>1, <3>2 DEF Working
  <2>2. RP!GoodState(robot') /\ published' \in Status
    BY <1>5, StatusOfType DEF Working, Quiet, TypeInv
  <2>3. UNCHANGED <<clientVars, requests, acks>>
    BY <1>5 DEF Working
  <2> QED
    BY <2>1, <2>2, <2>3 DEF TypeInv, clientVars, At
<1> QED
  BY <1>1, <1>2, <1>3, <1>4, <1>5 DEF SessionStep

LEMMA InitType == Init => TypeInv
<1> SUFFICES ASSUME Init PROVE TypeInv
  OBVIOUS
<1>1. Opened \in Fields /\ Resting \in Locals /\ NoStatus \in Status
  BY OpenedType
<1>2. ctl \in [Controllers -> Fields] /\ thread \in [Threads -> Locals]
  BY <1>1 DEF Init, ClientInit
<1>3. \A t \in Threads : thread[t].pc = "ready"
  BY DEF Init, ClientInit, Resting
<1>4. uuids \in RequestNumbers
  BY BoundAssumption DEF Init, ClientInit, RequestNumbers
<1>5. RP!GoodState(robot)
  BY SameValues, RP!FreshGood DEF Init
<1> QED
  BY <1>1, <1>2, <1>3, <1>4, <1>5
  DEF Init, TypeInv, At, RequestCarriers, CancelCarriers

-----------------------------------------------------------------------------
(* Sessions have one owner *)

AllStatuses == {published} \cup {ctl[c].latest : c \in Controllers}

\* Session g was given to c: no session that runs now or later has that number and
\* another owner.
Belongs(g, c) ==
  /\ g # 0 /\ g <= robot.issued
  /\ RP!External(robot) /\ robot.generation = g => robot.client = c

StatusIsTrue(s) ==
  ExternalStatus(s) => /\ s.client \in Controllers
                       /\ s.lease # 0 /\ s.lease <= robot.issued
                       /\ Belongs(s.generation, s.client)

CommandIsOwners(m) == Belongs(m.key.session, m.client)

OwnersInv == /\ \A s \in AllStatuses : StatusIsTrue(s)
             /\ \A m \in CommandsOut : CommandIsOwners(m)

\* Numbers that have been given out are not given again.
LEMMA QuietBelongs ==
  ASSUME TypeInv, Quiet(robot', robot)
  PROVE  /\ robot'.issued = robot.issued
         /\ \A g \in RP!Generations : \A c : Belongs(g, c) => Belongs(g, c)'
<1>1. RP!GoodState(robot)
  BY DEF TypeInv
<1> QED
  BY <1>1 DEF Quiet, SameLease, Freed, Belongs

LEMMA AnsweringBelongs ==
  ASSUME TypeInv, NEW r, NEW w, NEW a, Answering(r, w, a)
  PROVE  /\ robot'.issued >= robot.issued /\ robot'.issued \in Nat /\ robot.issued \in Nat
         /\ \A g \in RP!Generations : \A c : Belongs(g, c) => Belongs(g, c)'
<1>1. /\ RP!GoodState(robot) /\ RP!GoodState(w) /\ Quiet(w, robot)
      /\ RequestStep(robot', w, r, a)
  BY DEF TypeInv, Answering, Quiet
<1>2. /\ w.issued = robot.issued /\ robot.issued \in Nat
      /\ robot.generation \in Nat /\ w.generation \in Nat
  BY <1>1, Numbers DEF Quiet, SameLease, Freed
<1>3. RP!External(w) => SameLease(w, robot)
  BY <1>1 DEF Quiet, Freed
<1>4. /\ robot'.issued \in {robot.issued, robot.issued + 1}
      /\ \/ ~RP!External(robot')
         \/ robot'.generation = robot.issued + 1
         \/ RP!External(robot) /\ robot'.generation = robot.generation
            /\ robot'.client = robot.client
  BY <1>1, <1>2, <1>3
  DEF RequestStep, Preparing, Committing, Releasing, Freed, SameLease
<1>5. RP!Generations \subseteq Nat
  BY DEF RP!Generations
<1> QED
  BY <1>2, <1>4, <1>5 DEF Belongs

LEMMA RangeAppend ==
  ASSUME NEW S, NEW q \in Seq(S), NEW x \in S
  PROVE  Range(Append(q, x)) = Range(q) \cup {x}
<1>1. /\ Len(q) \in Nat /\ DOMAIN q = 1 .. Len(q)
      /\ DOMAIN Append(q, x) = 1 .. Len(q) + 1
      /\ \A i \in 1 .. Len(q) : Append(q, x)[i] = q[i]
      /\ Append(q, x)[Len(q) + 1] = x
  OBVIOUS
<1>2. 1 .. Len(q) + 1 = (1 .. Len(q)) \cup {Len(q) + 1}
  BY <1>1
<1> QED
  BY <1>1, <1>2 DEF Range

\* No command that was not built in this step is new on its way.
LEMMA CallCommands ==
  ASSUME TypeInv, NEW t \in Threads, Frame(t), CallStep(t)
  PROVE  \A m \in CommandsOut' : m \in CommandsOut \/ (At(t, "sendCommand")' /\ m = thread'[t].message)
<1>1. CASE Sending(t)
  <2>1. /\ commands \in Seq(CommandMessage) /\ At(t, "sendCommand")
        /\ thread[t].message \in CommandMessage
        /\ commands' \in {commands, Append(commands, thread[t].message)}
    BY <1>1 DEF TypeInv, Sending, From
  <2>2. \A m \in Range(commands') : m \in Range(commands) \/ m = thread[t].message
    <3>1. Range(Append(commands, thread[t].message)) = Range(commands) \cup {thread[t].message}
      BY <2>1, RangeAppend
    <3> QED
      BY <2>1, <3>1
  <2>3. thread[t].message \in CommandsOut
    BY <2>1 DEF CommandsOut, Carried, At
  <2> QED
    BY <2>2, <2>3 DEF CommandsOut, Carried, Frame, At
<1>2. CASE ~Sending(t)
  <2>1. commands' = commands
    BY <1>2 DEF CallStep, Silent, Entering, Building, Delivering, Walking, Leasing, Adopting,
                Cancelling, Publishing, Clearing, Closing
  <2> QED
    BY <2>1 DEF CommandsOut, Carried, Frame, At
<1> QED
  BY <1>1, <1>2

LEMMA StatusFields ==
  ASSUME TypeInv
  PROVE  /\ \A s \in AllStatuses : s \in Status
         /\ \A c \in Controllers : ctl[c].latest \in AllStatuses
         /\ \A m \in CommandsOut : m \in CommandMessage
<1>1. published \in Status /\ \A c \in Controllers : ctl[c].latest \in Status
  BY DEF TypeInv, Fields
<1>2. \A m \in Range(commands) : m \in CommandMessage
  <2>1. commands \in Seq(CommandMessage)
    BY DEF TypeInv
  <2> QED
    BY <2>1 DEF Range
<1>3. \A m \in Carried({"sendCommand"}) : m \in CommandMessage
  BY DEF Carried, TypeInv, At
<1> QED
  BY <1>1, <1>2, <1>3 DEF AllStatuses, CommandsOut

\* A command gets the session of a status that names its controller.
LEMMA PublishingBelongs ==
  ASSUME TypeInv, OwnersInv, NEW t \in Threads, Publishing(t)
  PROVE  CommandIsOwners(thread'[t].message)
<1>1. Of(t) \in Controllers
  BY ThreadTypes
<1>2. /\ ctl[Of(t)].latest \in AllStatuses /\ ExternalStatus(ctl[Of(t)].latest)
      /\ ctl[Of(t)].latest.client = Of(t)
  BY <1>1, StatusFields DEF Publishing, StatusAllowsPublish
<1>3. Belongs(ctl[Of(t)].latest.generation, Of(t))
  BY <1>2 DEF OwnersInv, StatusIsTrue
<1>4. thread'[t].message = [key |-> NextKey(Of(t)), wellFormed |-> TRUE, client |-> Of(t)]
  BY DEF Publishing
<1>5. NextKey(Of(t)).session = ctl[Of(t)].latest.generation
  BY DEF NextKey
<1> HIDE DEF NextKey
<1> QED
  BY <1>3, <1>4, <1>5 DEF CommandIsOwners

\* What thread t is to publish after its step is a command only if it was just built.
LEMMA CallAtSend ==
  ASSUME NEW t \in Threads, CallStep(t), At(t, "sendCommand")'
  PROVE  Publishing(t)
  BY DEF CallStep, Entering, Building, Delivering, Walking, Leasing, Adopting,
         Cancelling, Sending, Clearing, Closing, From, At

LEMMA StepOwners == TypeInv /\ OwnersInv /\ [Next]_vars => OwnersInv'
<1> SUFFICES ASSUME TypeInv, OwnersInv, SessionStep, TypeInv' PROVE OwnersInv'
  BY AllSteps, StepType
<1>0. /\ \A s \in AllStatuses : s.generation \in RP!Generations /\ s.lease \in Nat
      /\ \A m \in CommandsOut : m.key.session \in RP!Generations
  <2>1. RP!Generations \subseteq Nat
    BY DEF RP!Generations
  <2> QED
    BY <2>1, StatusFields DEF Status, CommandMessage, RP!Keys
<1>1. CASE Idling
  BY <1>1 DEF Idling, vars, clientVars, topics, OwnersInv, AllStatuses, CommandsOut, Carried,
              StatusIsTrue, CommandIsOwners, Belongs
<1>2. ASSUME NEW t \in Threads, Frame(t), CallStep(t), robot' = robot
      PROVE  OwnersInv'
  <2>1. \A s \in AllStatuses' : s \in AllStatuses
    <3>1. \A c \in Controllers : ctl'[c].latest = ctl[c].latest
      BY <1>2 DEF Frame, CallStep, Entering, Building, Delivering, Walking, Leasing, Adopting,
         Cancelling, Publishing, Sending, Clearing, Closing, SameFields, SameRest
    <3> QED
      BY <1>2, <3>1 DEF Frame, AllStatuses
  <2>2. \A m \in CommandsOut' : CommandIsOwners(m)
    BY <1>2, CallCommands, CallAtSend, PublishingBelongs DEF OwnersInv
  <2> QED
    BY <1>2, <2>1, <2>2 DEF OwnersInv, StatusIsTrue, CommandIsOwners, Belongs
<1>3. ASSUME NEW c \in Controllers, Hearing(c) \/ Seeing(c), robot' = robot
      PROVE  OwnersInv'
  <2>1. \A d \in Controllers : ctl'[d].latest \in {ctl[d].latest, published}
    BY <1>3 DEF Hearing, Seeing
  <2>2. published' = published /\ commands' = commands /\ thread' = thread
    BY <1>3 DEF Hearing, Seeing, topics
  <2>3. \A s \in AllStatuses' : s \in AllStatuses
    BY <2>1, <2>2 DEF AllStatuses
  <2>4. CommandsOut' = CommandsOut
    BY <2>2 DEF CommandsOut, Carried
  <2> QED
    BY <1>3, <2>3, <2>4 DEF OwnersInv, StatusIsTrue, CommandIsOwners, Belongs
<1>4. ASSUME NEW r, NEW w, NEW a, Answering(r, w, a)
      PROVE  OwnersInv'
  <2>1. AllStatuses' = AllStatuses /\ CommandsOut' = CommandsOut
    BY <1>4 DEF Answering, clientVars, AllStatuses, CommandsOut, Carried
  <2>2. \A n \in Nat : n <= robot.issued => n <= robot'.issued
    BY <1>4, AnsweringBelongs
  <2>3. \A g \in RP!Generations : \A c : Belongs(g, c) => Belongs(g, c)'
    BY <1>4, AnsweringBelongs
  <2>4. ASSUME NEW s \in AllStatuses PROVE StatusIsTrue(s)'
    BY <1>0, <2>2, <2>3, <2>4 DEF OwnersInv, StatusIsTrue
  <2>5. ASSUME NEW m \in CommandsOut PROVE CommandIsOwners(m)'
    BY <1>0, <2>3, <2>5 DEF OwnersInv, CommandIsOwners
  <2> QED
    BY <2>1, <2>4, <2>5 DEF OwnersInv
<1>5. CASE Working
  <2>1. /\ robot'.issued = robot.issued
        /\ \A g \in RP!Generations : \A c : Belongs(g, c) => Belongs(g, c)'
    BY <1>5, QuietBelongs DEF Working
  <2>2. ASSUME NEW s \in AllStatuses PROVE StatusIsTrue(s)'
    BY <1>0, <2>1, <2>2 DEF OwnersInv, StatusIsTrue
  <2>3. ASSUME NEW m \in CommandsOut PROVE CommandIsOwners(m)'
    BY <1>0, <2>1, <2>3 DEF OwnersInv, CommandIsOwners
  <2>4. StatusIsTrue(StatusOf(robot))'
    <3>1. RP!GoodState(robot)'
      BY DEF TypeInv
    <3> QED
      BY <3>1 DEF RP!GoodState, RP!OwnershipConsistent, RP!ProtocolState, StatusIsTrue,
         StatusOf, ExternalStatus, Belongs, RP!External
  <2>5. \A s \in AllStatuses' : s \in AllStatuses \/ s = StatusOf(robot)'
    BY <1>5 DEF Working, clientVars, AllStatuses
  <2>6. \A m \in CommandsOut' : m \in CommandsOut
    <3>1. commands \in Seq(CommandMessage)
      BY DEF TypeInv
    <3>2. \A m \in Range(commands') : m \in Range(commands)
      BY <1>5, <3>1, HeadOf DEF Working
    <3> QED
      BY <1>5, <3>2 DEF Working, clientVars, CommandsOut, Carried
  <2> QED
    BY <2>2, <2>3, <2>4, <2>5, <2>6 DEF OwnersInv
<1> QED
  BY <1>1, <1>2, <1>3, <1>4, <1>5 DEF SessionStep

LEMMA InitOwners == Init => OwnersInv
<1> SUFFICES ASSUME Init PROVE OwnersInv
  OBVIOUS
<1>1. \A s \in AllStatuses : ~ExternalStatus(s)
  BY DEF Init, ClientInit, AllStatuses, Opened, NoStatus, ExternalStatus
<1>2. CommandsOut = {}
  <2>1. \A t \in Threads : thread[t].pc = "ready"
    BY DEF Init, ClientInit, Resting
  <2>2. Range(commands) = {}
    BY DEF Init, Range
  <2> QED
    BY <2>1, <2>2 DEF CommandsOut, Carried
<1> QED
  BY <1>1, <1>2 DEF OwnersInv, StatusIsTrue

\* What every behaviour keeps, however many threads call what they like: the numbers stay
\* within the limits the code tests them against (controller.py:264, protocol.cpp:242, 267),
\* and every status and command names a session of the client it was given to.
THEOREM AlwaysTyped == Spec => [](TypeInv /\ OwnersInv)
<1>1. Init => TypeInv /\ OwnersInv
  BY InitType, InitOwners
<1>2. (TypeInv /\ OwnersInv) /\ [Next]_vars => (TypeInv /\ OwnersInv)'
  BY StepType, StepOwners
<1> QED
  BY <1>1, <1>2, PTL DEF Spec

\* The robot obeys only commands of its owner: every command on its way that names
\* the session of now was sent by the client the robot is leased to
\* (controller.py:229-286, 460-469; protocol.cpp:275-298).
THEOREM OwnersCommand == Spec => []CommandsAreOwners
<1>1. TypeInv /\ OwnersInv => CommandsAreOwners
  BY SameExternal DEF OwnersInv, CommandIsOwners, Belongs, CommandsAreOwners, OwnedBy
<1> QED
  BY <1>1, AlwaysTyped, PTL

-----------------------------------------------------------------------------
(* One thread calls enter_external, exit_external and close *)

OneLifecycle == \A r, s \in Lifecycle : r = s

FieldsAgree(c) ==
  LET k == ctl[c] IN
  /\ k.request <= uuids
  /\ k.request = 0 => k.lease = 0 /\ ~k.cancelSent
  /\ k.session # 0 => k.lease # 0

ThreadAgrees(t) ==
  LET c == Of(t)  k == ctl[c]  h == thread[t] IN
  /\ t[2] \notin Lifecycle => h.pc \in RestPlaces
  /\ h.pc \in PreparePlaces \cup CommitPlaces \cup EndPlaces
       => k.request # 0 /\ h.request = k.request
  /\ h.pc \in PreparePlaces => k.lease = 0 /\ ~k.cancelSent
  /\ h.pc \in CommitPlaces => k.lease # 0 /\ ~k.cancelSent
  /\ h.pc = "lease" => h.lease # 0
  /\ h.pc = "sendPrepare" => h.message = ControlRequest(c, "PREPARE")
  /\ h.pc = "sendCommit" => h.message = ControlRequest(c, "COMMIT")
  /\ h.pc \in CancelCarriers => /\ k.request # 0 /\ k.cancelSent
                                /\ h.message = ControlRequest(c, "CANCEL")

PlacesAgree == /\ \A c \in Controllers : FieldsAgree(c)
               /\ \A t \in Threads : ThreadAgrees(t)

\* While the lifecycle thread is in a call, the others are in none or publish.
LEMMA Alone ==
  ASSUME OneLifecycle, PlacesAgree, NEW t \in Threads, NEW u \in Threads \ {t},
         t[2] \in Lifecycle, Of(u) = Of(t)
  PROVE  thread[u].pc \in RestPlaces
<1>1. u[2] # t[2]
  BY DEF Threads, Of
<1> QED
  BY <1>1 DEF OneLifecycle, PlacesAgree, ThreadAgrees

LEMMA NotResting ==
  ASSUME PlacesAgree, NEW t \in Threads, thread[t].pc \notin RestPlaces
  PROVE  t[2] \in Lifecycle
  BY DEF PlacesAgree, ThreadAgrees

\* What the other threads' places depend on stays, or they are in no call.
SameRequest(c) == LET k == ctl[c] k2 == ctl'[c] IN
  k2.request = k.request /\ k2.lease = k.lease /\ k2.cancelSent = k.cancelSent

LEMMA CallDisturbs ==
  ASSUME PlacesAgree, NEW t \in Threads, CallStep(t)
  PROVE  t[2] \in Lifecycle \/ SameRequest(Of(t))
<1>1. CASE Entering(t)
  BY <1>1 DEF Entering
<1>2. CASE Building(t) \/ Delivering(t) \/ Walking(t) \/ Sending(t)
  BY <1>2 DEF Building, Delivering, Walking, Sending, SameRequest
<1>3. CASE Adopting(t) \/ Publishing(t) \/ Closing(t)
  BY <1>3 DEF Adopting, Publishing, Closing, SameRequest, SameFields
<1>4. CASE Leasing(t) \/ Clearing(t)
  <2>1. thread[t].pc \notin RestPlaces
    BY <1>4 DEF Leasing, Clearing, From, At, RestPlaces
  <2> QED
    BY <2>1, NotResting
<1>5. CASE Cancelling(t)
  <2>1. t[2] \in Lifecycle \/ thread[t].pc \notin RestPlaces
    BY <1>5 DEF Cancelling, From, At, RestPlaces
  <2> QED
    BY <2>1, NotResting
<1> QED
  BY <1>1, <1>2, <1>3, <1>4, <1>5 DEF CallStep

LEMMA OtherAgrees ==
  ASSUME OneLifecycle, TypeInv, PlacesAgree, NEW t \in Threads, Frame(t), CallStep(t),
         NEW u \in Threads \ {t}
  PROVE  ThreadAgrees(u)'
<1>1. thread'[u] = thread[u] /\ ThreadAgrees(u) /\ Of(u) \in Controllers
  BY ThreadTypes DEF Frame, PlacesAgree
<1>2. CASE SameRequest(Of(u))
  BY <1>1, <1>2 DEF ThreadAgrees, SameRequest, ControlRequest
<1>3. CASE ~SameRequest(Of(u))
  <2>1. Of(u) = Of(t)
    BY <1>1, <1>3 DEF Frame, SameRequest
  <2>2. thread[u].pc \in RestPlaces
    BY <1>3, <2>1, CallDisturbs, Alone
  <2> QED
    BY <1>1, <2>2 DEF ThreadAgrees, RestPlaces, PreparePlaces, CommitPlaces, EndPlaces,
                      CancelCarriers
<1> QED
  BY <1>2, <1>3

LEMMA FieldsAgreeStep ==
  ASSUME TypeInv, PlacesAgree, NEW t \in Threads, Frame(t), CallStep(t), OwnersInv
  PROVE  \A c \in Controllers : FieldsAgree(c)'
<1> DEFINE k == ctl[Of(t)]
           k2 == ctl'[Of(t)]
<1>1. Of(t) \in Controllers /\ FieldsAgree(Of(t)) /\ ThreadAgrees(t)
  BY ThreadTypes DEF PlacesAgree
<1>2. /\ uuids \in Nat /\ uuids' \in {uuids, uuids + 1}
      /\ \A c \in Controllers : ctl[c].request \in Nat
  <2>1. uuids' \in {uuids, uuids + 1}
    BY DEF CallStep, Silent, Entering, Building, Delivering, Walking, Leasing, Adopting,
         Cancelling, Publishing, Sending, Clearing, Closing
  <2> QED
    BY <2>1, BoundAssumption DEF TypeInv, Fields, RequestNumbers
<1>3. \A c \in Controllers \ {Of(t)} : FieldsAgree(c)'
  BY <1>2 DEF Frame, PlacesAgree, FieldsAgree
<1> SUFFICES FieldsAgree(Of(t))'
  BY <1>3
<1>4. CASE Entering(t)
  BY <1>1, <1>2, <1>4 DEF Entering, FieldsAgree
<1>5. CASE Building(t) \/ Delivering(t) \/ Walking(t) \/ Sending(t)
  <2>1. k2 = k
    BY <1>5 DEF Building, Delivering, Walking, Sending
  <2> QED
    BY <1>1, <1>2, <2>1 DEF FieldsAgree
<1>6. CASE Leasing(t)
  <2>1. thread[t].lease # 0 /\ k.request # 0
    BY <1>1, <1>6 DEF ThreadAgrees, Leasing, From, At, PreparePlaces
  <2> QED
    BY <1>1, <1>2, <1>6, <2>1 DEF Leasing, FieldsAgree
<1>7. CASE Adopting(t)
  <2>1. k.lease # 0
    BY <1>1, <1>7 DEF ThreadAgrees, Adopting, From, At, CommitPlaces
  <2> QED
    BY <1>1, <1>2, <1>7, <2>1 DEF Adopting, FieldsAgree
<1>8. CASE Cancelling(t) \/ Closing(t)
  BY <1>1, <1>2, <1>8 DEF Cancelling, Closing, SameFields, FieldsAgree
<1>9. CASE Publishing(t)
  BY <1>1, <1>2, <1>9 DEF Publishing, FieldsAgree, StatusAllowsPublish, NoLease
<1>10. CASE Clearing(t)
  BY <1>1, <1>2, <1>10 DEF Clearing, FieldsAgree
<1> QED
  BY <1>4, <1>5, <1>6, <1>7, <1>8, <1>9, <1>10 DEF CallStep

LEMMA ThreadAgreesStep ==
  ASSUME TypeInv, PlacesAgree, NEW t \in Threads, Frame(t), CallStep(t)
  PROVE  ThreadAgrees(t)'
<1> DEFINE c == Of(t)
           k == ctl[Of(t)]
           k2 == ctl'[Of(t)]
<1>1. c \in Controllers /\ FieldsAgree(c) /\ ThreadAgrees(t)
  BY ThreadTypes DEF PlacesAgree
<1>2. uuids \in Nat
  BY BoundAssumption DEF TypeInv, RequestNumbers
<1>3. CASE Entering(t)
  <2>1. /\ t[2] \in Lifecycle /\ thread'[t].pc = "prepare" /\ thread'[t].request = uuids + 1
        /\ k2.request = uuids + 1 /\ k2.lease = 0 /\ ~k2.cancelSent /\ uuids + 1 # 0
    BY <1>2, <1>3 DEF Entering, From, At
  <2> QED
    BY <2>1 DEF ThreadAgrees, RestPlaces, PreparePlaces, CommitPlaces, EndPlaces, CancelCarriers
<1>4. CASE Building(t)
  <2>1. /\ k2 = k /\ thread'[t].request = thread[t].request
        /\ \/ From(t, "prepare", "sendPrepare")
              /\ thread'[t].message = ControlRequest(c, "PREPARE")
           \/ From(t, "commit", "sendCommit")
              /\ thread'[t].message = ControlRequest(c, "COMMIT")
        /\ ctl' = ctl
    BY <1>4 DEF Building, Keeps
  <2>2. ControlRequest(c, "PREPARE")' = ControlRequest(c, "PREPARE")
        /\ ControlRequest(c, "COMMIT")' = ControlRequest(c, "COMMIT")
    BY <2>1 DEF ControlRequest
  <2>3. /\ thread[t].pc \in PreparePlaces \cup CommitPlaces
        /\ thread[t].pc \notin RestPlaces
    BY <2>1 DEF From, At, PreparePlaces, CommitPlaces, RestPlaces
  <2> QED
    BY <1>1, <2>1, <2>2, <2>3
    DEF ThreadAgrees, RestPlaces, PreparePlaces, CommitPlaces, EndPlaces, CancelCarriers,
        From, At
<1>5. CASE Delivering(t)
  <2>1. /\ k2 = k
        /\ \/ At(t, "sendPrepare") /\ thread'[t].pc \in {"awaitPrepare", "fail"} /\ Keeps(t)
           \/ At(t, "sendCommit") /\ thread'[t].pc \in {"awaitCommit", "fail"} /\ Keeps(t)
           \/ From(t, "sendFail", "ready")
           \/ From(t, "sendExit", "awaitCancel") /\ Keeps(t)
           \/ From(t, "sendClose", "detach")
    BY <1>5 DEF Delivering
  <2> QED
    BY <1>1, <2>1
    DEF ThreadAgrees, RestPlaces, PreparePlaces, CommitPlaces, EndPlaces, CancelCarriers,
        From, At, Keeps
<1>6. CASE Walking(t)
  <2>1. k2 = k
    BY <1>6 DEF Walking
  <2>2. thread'[t].pc = "lease" => thread'[t].lease # 0
    BY <1>6 DEF Walking, AnsweredBy, From, At
  <2> QED
    BY <1>1, <1>6, <2>1, <2>2
    DEF ThreadAgrees, RestPlaces, PreparePlaces, CommitPlaces, EndPlaces, CancelCarriers,
        From, At, Keeps, Walking
<1>7. CASE Leasing(t)
  BY <1>1, <1>7
  DEF ThreadAgrees, RestPlaces, PreparePlaces, CommitPlaces, EndPlaces, CancelCarriers,
      From, At, Keeps, Leasing
<1>8. CASE Cancelling(t)
  <2>1. ControlRequest(c, "CANCEL")' = ControlRequest(c, "CANCEL")
    BY <1>8 DEF Cancelling, SameFields, ControlRequest
  <2> QED
    BY <1>1, <1>8, <2>1
    DEF ThreadAgrees, RestPlaces, PreparePlaces, CommitPlaces, EndPlaces, CancelCarriers,
        From, At, Keeps, Cancelling, SameFields
<1>9. CASE Publishing(t) \/ Sending(t) \/ Clearing(t) \/ Adopting(t) \/ Closing(t)
  <2>1. /\ thread'[t].pc \in {"ready", "sendCommand", "detach"}
        /\ thread'[t].pc = "detach" => t[2] \in Lifecycle
    BY <1>9 DEF Publishing, Sending, Clearing, Adopting, Closing, From, At
  <2> QED
    BY <2>1
    DEF ThreadAgrees, RestPlaces, PreparePlaces, CommitPlaces, EndPlaces, CancelCarriers
<1> QED
  BY <1>3, <1>4, <1>5, <1>6, <1>7, <1>8, <1>9 DEF CallStep

LEMMA StepPlaces ==
  OneLifecycle /\ TypeInv /\ OwnersInv /\ PlacesAgree /\ [Next]_vars => PlacesAgree'
<1> SUFFICES ASSUME OneLifecycle, TypeInv, OwnersInv, PlacesAgree, SessionStep
             PROVE  PlacesAgree'
  BY AllSteps
<1>1. ASSUME NEW t \in Threads, Frame(t), CallStep(t), robot' = robot
      PROVE  PlacesAgree'
  BY <1>1, FieldsAgreeStep, OtherAgrees, ThreadAgreesStep DEF PlacesAgree
<1>2. ASSUME UNCHANGED <<thread, uuids>>,
             \A d \in Controllers : SameRequest(d) /\ ctl'[d].session = ctl[d].session
      PROVE  PlacesAgree'
  BY <1>2, ThreadTypes DEF PlacesAgree, FieldsAgree, ThreadAgrees, SameRequest, ControlRequest
<1>3. ASSUME NEW c \in Controllers, Hearing(c) \/ Seeing(c)
      PROVE  PlacesAgree'
  BY <1>2, <1>3 DEF Hearing, Seeing, SameRequest
<1>4. CASE Idling \/ Working \/ \E r, w, a : Answering(r, w, a)
  <2>1. UNCHANGED clientVars
    BY <1>4 DEF Idling, vars, Working, Answering
  <2> QED
    BY <1>2, <2>1 DEF clientVars, SameRequest
<1> QED
  BY <1>1, <1>3, <1>4 DEF SessionStep

-----------------------------------------------------------------------------
(* Requests and their answers *)

AcksOf(c) == Range(acks[c]) \cup ctl[c].acks

\* Nothing of the request has left the controller.
Unsent(c) ==
  /\ \A m \in Range(requests) : m.client = c => m.request # ctl[c].request
  /\ robot.client # c
  /\ \A a \in AcksOf(c) : a.request # ctl[c].request

\* A PREPARE on its way is the controller's own of now, and not yet obeyed; a COMMIT or
\* CANCEL of the request of now carries its lease.
RequestIsKnown(m) ==
  LET k == ctl[m.client] IN
  /\ m.request <= uuids
  /\ m.operation = "PREPARE" => m.request = k.request /\ robot.client # m.client
  /\ m.operation = "COMMIT" /\ m.request = k.request => m.lease = k.lease /\ m.lease # 0
  /\ m.operation = "CANCEL" /\ m.request = k.request => m.lease = k.lease /\ k.cancelSent

\* The topic keeps order: a request's PREPARE is ahead of all else it sends.
PrepareComesFirst(q) ==
  \A i, j \in 1 .. Len(q) :
    i < j /\ q[j].operation = "PREPARE" /\ q[i].client = q[j].client
      => q[i].request # q[j].request

\* Request r of c will not own the robot again.
Gone(c, r) ==
  /\ \A m \in Range(requests) : m.client = c /\ m.operation = "PREPARE" => m.request # r
  /\ robot.client = c => robot.request # r
  /\ ctl[c].request = r => ctl[c].cancelSent

AckIsKnown(c, a) ==
  /\ a.request \in Nat \ {0} /\ a.request <= uuids
  /\ a.accepted /\ a.operation = "CANCEL" => Gone(c, a.request)

EarlyPlaces == {"prepare", "sendPrepare"}
LatePlaces == {"awaitIdle", "clear"}

RequestsInv ==
  /\ \A t \in Threads : thread[t].pc \in EarlyPlaces => Unsent(Of(t))
  /\ \A m \in Range(requests) : RequestIsKnown(m)
  /\ PrepareComesFirst(requests)
  /\ \A c \in Controllers : \A a \in AcksOf(c) : AckIsKnown(c, a)
  /\ \A t \in Threads : thread[t].pc \in LatePlaces => Gone(Of(t), ctl[Of(t)].request)
  /\ OwnedIsKnown

LEMMA TailFirst ==
  ASSUME NEW S, NEW q \in Seq(S), q # <<>>, PrepareComesFirst(q)
  PROVE  /\ PrepareComesFirst(Tail(q))
         /\ \A m \in Range(Tail(q)) :
              m.operation = "PREPARE" /\ m.client = Head(q).client => m.request # Head(q).request
<1>1. /\ Len(q) \in Nat /\ Len(q) > 0 /\ Head(q) = q[1]
      /\ Len(Tail(q)) = Len(q) - 1 /\ DOMAIN Tail(q) = 1 .. Len(q) - 1
      /\ \A i \in 1 .. Len(q) - 1 : Tail(q)[i] = q[i + 1]
  OBVIOUS
<1>2. /\ 1 \in 1 .. Len(q)
      /\ \A i \in 1 .. Len(q) - 1 : i + 1 \in 1 .. Len(q) /\ 1 < i + 1
      /\ \A i, j \in 1 .. Len(q) - 1 : i < j => i + 1 < j + 1
  BY <1>1
<1>3. PrepareComesFirst(Tail(q))
  BY <1>1, <1>2 DEF PrepareComesFirst
<1>4. \A i \in 1 .. Len(q) - 1 :
         Tail(q)[i].operation = "PREPARE" /\ Tail(q)[i].client = Head(q).client
           => Tail(q)[i].request # Head(q).request
  BY <1>1, <1>2 DEF PrepareComesFirst
<1> QED
  BY <1>1, <1>3, <1>4 DEF Range

LEMMA AppendFirst ==
  ASSUME NEW S, NEW q \in Seq(S), NEW x \in S, PrepareComesFirst(q),
         x.operation = "PREPARE"
           => \A m \in Range(q) : m.client = x.client => m.request # x.request
  PROVE  PrepareComesFirst(Append(q, x))
<1> DEFINE z == Append(q, x)
<1>1. /\ Len(q) \in Nat /\ DOMAIN q = 1 .. Len(q)
      /\ Len(z) = Len(q) + 1 /\ z[Len(q) + 1] = x
      /\ \A i \in 1 .. Len(q) : z[i] = q[i]
  OBVIOUS
<1> HIDE DEF z
<1>2. \A i, j \in 1 .. Len(q) + 1 :
         i < j => i \in 1 .. Len(q) /\ (j \in 1 .. Len(q) \/ j = Len(q) + 1)
  BY <1>1
<1>3. \A i \in 1 .. Len(q) : q[i] \in Range(q)
  BY <1>1 DEF Range
<1>4. ASSUME NEW i \in 1 .. Len(z), NEW j \in 1 .. Len(z),
             i < j, z[j].operation = "PREPARE", z[i].client = z[j].client
      PROVE  z[i].request # z[j].request
  <2>1. i \in 1 .. Len(q) /\ z[i] = q[i] /\ q[i] \in Range(q)
    BY <1>1, <1>2, <1>3, <1>4
  <2>2. CASE j \in 1 .. Len(q)
    BY <1>1, <1>4, <2>1, <2>2 DEF PrepareComesFirst
  <2>3. CASE j = Len(q) + 1
    BY <1>1, <1>4, <2>1, <2>3
  <2> QED
    BY <1>1, <1>2, <1>4, <2>2, <2>3
<1> QED
  BY <1>4 DEF PrepareComesFirst, z

LEMMA RequestFields ==
  ASSUME TypeInv
  PROVE  /\ uuids \in Nat
         /\ \A m \in Range(requests) :
              /\ m \in RP!Request /\ m.client \in Controllers
              /\ m.request \in Nat \ {0} /\ m.lease \in RP!Generations
         /\ \A c \in Controllers : ctl[c].request \in Nat /\ ctl[c].cancelSent \in BOOLEAN
         /\ NoId \notin Controllers
<1>1. requests \in Seq(RP!Request)
  BY DEF TypeInv
<1>2. \A m \in Range(requests) : m \in RP!Request
  BY <1>1 DEF Range
<1>3. uuids \in Nat /\ \A c \in Controllers : ctl[c].request \in Nat /\ ctl[c].cancelSent \in BOOLEAN
  BY BoundAssumption DEF TypeInv, Fields, RequestNumbers
<1>4. NoId \notin Controllers
  BY DEF RP!IdAssumption
<1> QED
  BY <1>2, <1>3, <1>4, BoundAssumption DEF RP!Request

\* A step that draws, sends and forgets no request.
LEMMA SettledRequests ==
  ASSUME TypeInv, RequestsInv, uuids' = uuids, requests' = requests,
         \A c \in Controllers : /\ ctl'[c].request = ctl[c].request
                                /\ ctl[c].cancelSent => ctl'[c].cancelSent
                                /\ \A a \in AcksOf(c)' : a \in AcksOf(c),
         \A m \in Range(requests) :
           m.request = ctl[m.client].request /\ m.operation # "PREPARE" /\ RequestIsKnown(m)
             => ctl'[m.client].lease = ctl[m.client].lease,
         \/ robot'.client = robot.client /\ robot'.request = robot.request
         \/ robot'.client = NoId,
         \A t \in Threads :
           /\ thread'[t].pc \in EarlyPlaces => thread[t].pc \in EarlyPlaces
           /\ thread'[t].pc \in LatePlaces
                => thread[t].pc \in LatePlaces \/ Gone(Of(t), ctl[Of(t)].request)
  PROVE  RequestsInv'
<1>1. /\ \A m \in Range(requests) : m.client \in Controllers
      /\ \A t \in Threads : Of(t) \in Controllers
      /\ NoId \notin Controllers
  BY RequestFields, ThreadTypes
<1>2. \A c \in Controllers : Unsent(c) => Unsent(c)'
  BY <1>1 DEF Unsent
<1>3. \A c \in Controllers : \A r : Gone(c, r) => Gone(c, r)'
  BY <1>1 DEF Gone
<1>4. \A m \in Range(requests') : RequestIsKnown(m)'
  BY <1>1 DEF RequestsInv, RequestIsKnown
<1>5. \A c \in Controllers : \A a \in AcksOf(c)' : AckIsKnown(c, a)'
  BY <1>3 DEF RequestsInv, AckIsKnown
<1>6. OwnedIsKnown'
  BY <1>1 DEF RequestsInv, OwnedIsKnown, OwnedBy
<1>7. \A t \in Threads : /\ thread'[t].pc \in EarlyPlaces => Unsent(Of(t))'
                         /\ thread'[t].pc \in LatePlaces => Gone(Of(t), ctl[Of(t)].request)'
  BY <1>1, <1>2, <1>3 DEF RequestsInv
<1>8. PrepareComesFirst(requests)'
  BY DEF RequestsInv
<1> QED
  BY <1>4, <1>5, <1>6, <1>7, <1>8 DEF RequestsInv

\* A request of the robot's owner is a number.
LEMMA OwnerRequest ==
  ASSUME TypeInv, robot.client \in Controllers
  PROVE  robot.request \in Nat \ {0}
<1>1. RP!GoodState(robot) /\ NoId \notin Controllers
  BY RequestFields DEF TypeInv
<1>2. robot.request # NoId /\ robot.request \in (1 .. MaxRequests) \cup {NoId}
  BY <1>1 DEF RP!GoodState, RP!OwnershipConsistent, RP!ProtocolState
<1> QED
  BY <1>2, BoundAssumption

LEMMA EnteringRequests ==
  ASSUME OneLifecycle, TypeInv, PlacesAgree, RequestsInv, NEW t \in Threads,
         Frame(t), Entering(t), robot' = robot
  PROVE  RequestsInv'
<1> DEFINE c == Of(t)
<1>1. /\ c \in Controllers /\ uuids \in Nat /\ uuids' = uuids + 1 /\ requests' = requests
      /\ ctl[c].request = 0 /\ ctl'[c].request = uuids + 1 /\ ctl'[c].acks = {}
      /\ acks' = acks /\ t[2] \in Lifecycle /\ At(t, "prepare")'
      /\ \A d \in Controllers \ {c} : ctl'[d] = ctl[d]
      /\ \A u \in Threads \ {t} : thread'[u] = thread[u]
  BY RequestFields, ThreadTypes DEF Entering, Frame, From
<1>2. robot.client # c
  BY <1>1, OwnerRequest DEF RequestsInv, OwnedIsKnown, OwnedBy
<1>3. \A u \in Threads \ {t} : thread[u].pc \in EarlyPlaces \cup LatePlaces => Of(u) # c
  BY <1>1, Alone DEF RestPlaces, EarlyPlaces, LatePlaces
<1>4. \A u \in Threads : Of(u) \in Controllers
  BY ThreadTypes
<1>5. /\ \A m \in Range(requests) : m.request \in Nat \ {0} /\ m.request <= uuids
      /\ \A m \in Range(requests) : m.operation = "PREPARE" => m.client # c
      /\ \A m \in Range(requests) : m.client \in Controllers
  BY <1>1, RequestFields DEF RequestsInv, RequestIsKnown
<1>6. \A d \in Controllers : \A a \in AcksOf(d)' : a \in AcksOf(d)
  BY <1>1 DEF AcksOf
<1>7. \A d \in Controllers : \A a \in AcksOf(d) : a.request \in Nat \ {0} /\ a.request <= uuids
  BY DEF RequestsInv, AckIsKnown
<1>8. Unsent(c)'
  BY <1>1, <1>2, <1>5, <1>6, <1>7 DEF Unsent
<1>9. \A d \in Controllers \ {c} : Unsent(d) => Unsent(d)'
  BY <1>1, <1>6 DEF Unsent
<1>10. \A d \in Controllers, r \in Nat : r <= uuids /\ Gone(d, r) => Gone(d, r)'
  BY <1>1 DEF Gone
<1>11. \A m \in Range(requests') : RequestIsKnown(m)'
  BY <1>1, <1>5 DEF RequestsInv, RequestIsKnown
<1>12. \A d \in Controllers : \A a \in AcksOf(d)' : AckIsKnown(d, a)'
  <2>1. uuids <= uuids'
    BY <1>1
  <2> QED
    BY <1>1, <1>6, <1>7, <1>10, <2>1 DEF RequestsInv, AckIsKnown
<1>13. OwnedIsKnown'
  BY <1>1, <1>2 DEF RequestsInv, OwnedIsKnown, OwnedBy
<1>14. \A u \in Threads : thread'[u].pc \in EarlyPlaces => Unsent(Of(u))'
  BY <1>1, <1>3, <1>4, <1>8, <1>9 DEF RequestsInv
<1>15. \A u \in Threads : thread'[u].pc \in LatePlaces => Gone(Of(u), ctl[Of(u)].request)'
  <2>1. \A d \in Controllers \ {c} : Gone(d, ctl[d].request) => Gone(d, ctl[d].request)'
    BY <1>1 DEF Gone
  <2>2. thread'[t].pc \notin LatePlaces
    BY <1>1 DEF At, LatePlaces
  <2> QED
    BY <1>1, <1>3, <1>4, <2>1, <2>2 DEF RequestsInv
<1>16. PrepareComesFirst(requests)'
  BY <1>1 DEF RequestsInv
<1> QED
  BY <1>11, <1>12, <1>13, <1>14, <1>15, <1>16 DEF RequestsInv

LEMMA ClearingRequests ==
  ASSUME OneLifecycle, TypeInv, PlacesAgree, RequestsInv, NEW t \in Threads,
         Frame(t), Clearing(t), robot' = robot
  PROVE  RequestsInv'
<1> DEFINE c == Of(t)
<1>1. /\ c \in Controllers /\ uuids' = uuids /\ requests' = requests
      /\ ctl'[c].request = 0 /\ ctl'[c].acks = ctl[c].acks
      /\ acks' = acks /\ At(t, "clear") /\ At(t, "ready")'
      /\ \A d \in Controllers \ {c} : ctl'[d] = ctl[d]
      /\ \A u \in Threads \ {t} : thread'[u] = thread[u]
  BY ThreadTypes DEF Clearing, Frame, From, Silent, SameRest
<1>2. Gone(c, ctl[c].request) /\ t[2] \in Lifecycle
  <2>1. thread[t].pc \in LatePlaces /\ thread[t].pc \notin RestPlaces
    BY <1>1 DEF At, LatePlaces, RestPlaces
  <2> QED
    BY <2>1, NotResting DEF RequestsInv
<1>3. \A u \in Threads \ {t} : thread[u].pc \in EarlyPlaces \cup LatePlaces => Of(u) # c
  BY <1>1, <1>2, Alone DEF RestPlaces, EarlyPlaces, LatePlaces
<1>4. \A u \in Threads : Of(u) \in Controllers
  BY ThreadTypes
<1>5. /\ \A m \in Range(requests) : m.request \in Nat \ {0} /\ m.client \in Controllers
      /\ \A m \in Range(requests) : m.operation = "PREPARE" => m.client # c
  BY <1>2, RequestFields DEF RequestsInv, RequestIsKnown, Gone
<1>6. \A d \in Controllers : AcksOf(d)' = AcksOf(d)
  BY <1>1 DEF AcksOf
<1>7. \A d \in Controllers \ {c} : Unsent(d) => Unsent(d)'
  BY <1>1, <1>6 DEF Unsent
<1>8. \A d \in Controllers, r \in Nat \ {0} : Gone(d, r) => Gone(d, r)'
  BY <1>1 DEF Gone
<1>9. \A m \in Range(requests') : RequestIsKnown(m)'
  BY <1>1, <1>5 DEF RequestsInv, RequestIsKnown
<1>10. \A d \in Controllers : \A a \in AcksOf(d)' : AckIsKnown(d, a)'
  BY <1>1, <1>6, <1>8 DEF RequestsInv, AckIsKnown
<1>11. OwnedIsKnown'
  BY <1>1, <1>2 DEF RequestsInv, OwnedIsKnown, OwnedBy, Gone
<1>12. thread'[t].pc \notin EarlyPlaces \cup LatePlaces
  BY <1>1 DEF At, EarlyPlaces, LatePlaces
<1>13. \A u \in Threads : thread'[u].pc \in EarlyPlaces => Unsent(Of(u))'
  BY <1>1, <1>3, <1>4, <1>7, <1>12 DEF RequestsInv
<1>14. \A u \in Threads : thread'[u].pc \in LatePlaces => Gone(Of(u), ctl[Of(u)].request)'
  <2>1. \A d \in Controllers \ {c} : Gone(d, ctl[d].request) => Gone(d, ctl[d].request)'
    BY <1>1 DEF Gone
  <2> QED
    BY <1>1, <1>3, <1>4, <1>12, <2>1 DEF RequestsInv
<1>15. PrepareComesFirst(requests)'
  BY <1>1 DEF RequestsInv
<1> QED
  BY <1>9, <1>10, <1>11, <1>13, <1>14, <1>15 DEF RequestsInv

\* A request that is delivered comes after all others.
LEMMA DeliveringRequests ==
  ASSUME OneLifecycle, TypeInv, PlacesAgree, RequestsInv, NEW t \in Threads,
         Frame(t), Delivering(t), robot' = robot
  PROVE  RequestsInv'
<1> DEFINE c == Of(t)
           m0 == thread[t].message
           k == ctl[Of(t)]
<1>1. /\ c \in Controllers /\ uuids' = uuids /\ ctl' = ctl /\ acks' = acks
      /\ requests \in Seq(RP!Request) /\ m0 \in RP!Request
      /\ \A u \in Threads \ {t} : thread'[u] = thread[u]
      /\ requests' \in {requests, Append(requests, m0)}
  BY ThreadTypes DEF Delivering, Frame, TypeInv
<1>2. /\ thread[t].pc \in RequestCarriers /\ thread[t].pc \notin RestPlaces
      /\ thread'[t].pc \notin EarlyPlaces \cup LatePlaces
  BY DEF Delivering, From, At, RequestCarriers, CancelCarriers, RestPlaces, EarlyPlaces, LatePlaces
<1>3. \A d \in Controllers : AcksOf(d)' = AcksOf(d)
  BY <1>1 DEF AcksOf
<1>4. CASE requests' = requests
  BY <1>1, <1>2, <1>3, <1>4, SettledRequests
<1>5. CASE requests' = Append(requests, m0)
  <2>1. Range(requests') = Range(requests) \cup {m0}
    <3> HIDE DEF m0
    <3> QED
      BY <1>1, <1>5, RangeAppend
  <2>2. /\ m0.client = c /\ m0.request = k.request /\ m0.lease = k.lease /\ k.request # 0
        /\ m0.operation = "PREPARE" => ~k.cancelSent /\ Unsent(c)
        /\ m0.operation = "COMMIT" => k.lease # 0
        /\ m0.operation = "CANCEL" => k.cancelSent
    <3>. ThreadAgrees(t)
      BY DEF PlacesAgree
    <3>1. \A op \in {"PREPARE", "COMMIT", "CANCEL"} :
             LET m == ControlRequest(c, op) IN
             m.client = c /\ m.request = k.request /\ m.lease = k.lease /\ m.operation = op
      BY DEF ControlRequest
    <3> HIDE DEF m0
    <3>2. CASE At(t, "sendPrepare")
      <4>1. /\ thread[t].pc = "sendPrepare" /\ thread[t].pc \in PreparePlaces
            /\ thread[t].pc \in EarlyPlaces
        BY <3>2 DEF At, PreparePlaces, EarlyPlaces
      <4>2. m0 = ControlRequest(c, "PREPARE") /\ k.request # 0 /\ ~k.cancelSent
        BY <4>1 DEF ThreadAgrees, m0
      <4>3. Unsent(c)
        BY <4>1 DEF RequestsInv
      <4> QED
        BY <3>1, <4>2, <4>3
    <3>3. CASE At(t, "sendCommit")
      <4>1. thread[t].pc = "sendCommit" /\ thread[t].pc \in CommitPlaces
        BY <3>3 DEF At, CommitPlaces
      <4>2. m0 = ControlRequest(c, "COMMIT") /\ k.request # 0 /\ k.lease # 0
        BY <4>1 DEF ThreadAgrees, m0
      <4> QED
        BY <3>1, <4>2
    <3>4. CASE thread[t].pc \in CancelCarriers
      <4>1. m0 = ControlRequest(c, "CANCEL") /\ k.request # 0 /\ k.cancelSent
        BY <3>4 DEF ThreadAgrees, m0
      <4> QED
        BY <3>1, <4>1
    <3> QED
      BY <1>2, <3>2, <3>3, <3>4 DEF RequestCarriers, At
  <2>3. k.request <= uuids
    BY <1>1 DEF PlacesAgree, FieldsAgree
  <2>4. \A u \in Threads \ {t} : thread[u].pc \in EarlyPlaces \cup LatePlaces => Of(u) # c
    BY <1>2, NotResting, Alone DEF RestPlaces, EarlyPlaces, LatePlaces
  <2> HIDE DEF m0
  <2>5. \A d \in Controllers \ {c} : Unsent(d) => Unsent(d)'
    BY <1>1, <1>3, <2>1, <2>2 DEF Unsent
  <2>6. \A u \in Threads : thread'[u].pc \in EarlyPlaces => Unsent(Of(u))'
    BY <1>1, <1>2, <2>4, <2>5, ThreadTypes DEF RequestsInv
  <2>7. \A m \in Range(requests) : RequestIsKnown(m)'
    BY <1>1 DEF RequestsInv, RequestIsKnown
  <2>8. \A m \in {m0} : RequestIsKnown(m)'
    <3>1. m0.operation = "PREPARE" => robot.client # c
      BY <2>2 DEF Unsent
    <3>2. RequestIsKnown(m0)
      BY <2>2, <2>3, <3>1 DEF RequestIsKnown
    <3> QED
      BY <1>1, <3>2 DEF RequestIsKnown
  <2>9. PrepareComesFirst(requests)'
    <3>1. m0.operation = "PREPARE"
            => \A m \in Range(requests) : m.client = m0.client => m.request # m0.request
      BY <2>2 DEF Unsent
    <3>2. PrepareComesFirst(Append(requests, m0))
      BY <1>1, <3>1, AppendFirst DEF RequestsInv
    <3> QED
      BY <1>5, <3>2
  <2>10. \A d \in Controllers : \A r : Gone(d, r) => Gone(d, r)'
    BY <1>1, <2>1, <2>2 DEF Gone
  <2>11. \A d \in Controllers : \A a \in AcksOf(d)' : AckIsKnown(d, a)'
    BY <1>1, <1>3, <2>10 DEF RequestsInv, AckIsKnown
  <2>12. \A u \in Threads : thread'[u].pc \in LatePlaces => Gone(Of(u), ctl[Of(u)].request)'
    BY <1>1, <1>2, <2>10, ThreadTypes DEF RequestsInv
  <2>13. OwnedIsKnown'
    BY <1>1 DEF RequestsInv, OwnedIsKnown, OwnedBy
  <2>14. \A m \in Range(requests') : RequestIsKnown(m)'
    BY <2>1, <2>7, <2>8
  <2> QED
    BY <2>6, <2>9, <2>11, <2>12, <2>13, <2>14 DEF RequestsInv
<1> QED
  BY <1>1, <1>4, <1>5

LEMMA CallRequests ==
  ASSUME OneLifecycle, TypeInv, PlacesAgree, RequestsInv, NEW t \in Threads,
         Frame(t), CallStep(t), robot' = robot
  PROVE  RequestsInv'
<1> DEFINE c == Of(t)
           k == ctl[Of(t)]
           k2 == ctl'[Of(t)]
<1>1. CASE Entering(t) \/ Clearing(t) \/ Delivering(t)
  BY <1>1, EnteringRequests, ClearingRequests, DeliveringRequests
<1>2. CASE ~(Entering(t) \/ Clearing(t) \/ Delivering(t))
  <2>1. /\ c \in Controllers /\ acks' = acks
        /\ \A d \in Controllers \ {c} : ctl'[d] = ctl[d]
        /\ \A u \in Threads \ {t} : thread'[u] = thread[u]
    BY ThreadTypes DEF Frame
  <2>2. uuids' = uuids /\ requests' = requests
    BY <1>2 DEF CallStep, Silent, Building, Walking, Leasing, Adopting,
         Cancelling, Publishing, Sending, Closing
  <2>3. k2.acks = k.acks /\ k2.request = k.request /\ (k.cancelSent => k2.cancelSent)
    BY <1>2 DEF CallStep, Building, Walking, Leasing, Adopting,
         Cancelling, Publishing, Sending, Closing, SameFields, SameRest
  <2>4. \A m \in Range(requests) :
           m.request = ctl[m.client].request /\ m.operation # "PREPARE" /\ RequestIsKnown(m)
             => ctl'[m.client].lease = ctl[m.client].lease
    <3>1. CASE Leasing(t)
      <4>1. k.lease = 0 /\ ~k.cancelSent
        BY <3>1 DEF PlacesAgree, ThreadAgrees, Leasing, From, At, PreparePlaces
      <4>2. \A m \in Range(requests) : m.operation \in {"PREPARE", "COMMIT", "CANCEL"}
        BY RequestFields DEF RP!Request, RP!Operations
      <4> QED
        BY <2>1, <4>1, <4>2, RequestFields DEF RequestIsKnown
    <3>2. CASE ~Leasing(t)
      <4>1. k2.lease = k.lease
        BY <1>2, <3>2 DEF CallStep, Building, Walking, Adopting,
         Cancelling, Publishing, Sending, Closing, SameFields
      <4> QED
        BY <2>1, <4>1, RequestFields
    <3> QED
      BY <3>1, <3>2
  <2>5. thread'[t].pc \in EarlyPlaces => thread[t].pc \in EarlyPlaces
    BY <1>2 DEF CallStep, Building, Walking, Leasing, Adopting,
         Cancelling, Publishing, Sending, Closing, From, At, EarlyPlaces
  <2>6. thread'[t].pc \in LatePlaces => thread[t].pc \in LatePlaces \/ Gone(c, k.request)
    <3>1. CASE Walking(t)
      <4>1. CASE From(t, "awaitCancel", "awaitIdle") /\ AnsweredBy(t, "CANCEL")
        <5>1. PICK a \in k.acks : a.request = thread[t].request /\ a.operation = "CANCEL" /\ a.accepted
          BY <4>1 DEF AnsweredBy
        <5>2. thread[t].request = k.request
          BY <4>1 DEF PlacesAgree, ThreadAgrees, From, At, EndPlaces
        <5>3. AckIsKnown(c, a)
          BY <2>1, <5>1 DEF RequestsInv, AcksOf
        <5> QED
          BY <5>1, <5>2, <5>3 DEF AckIsKnown
      <4>2. CASE From(t, "awaitIdle", "clear")
        BY <4>2 DEF From, At, LatePlaces
      <4>3. CASE ~From(t, "awaitCancel", "awaitIdle") /\ ~From(t, "awaitIdle", "clear")
        BY <3>1, <4>3 DEF Walking, From, At, LatePlaces
      <4> QED
        BY <3>1, <4>1, <4>2, <4>3 DEF Walking, From, At
    <3>2. CASE ~Walking(t)
      BY <1>2, <3>2 DEF CallStep, Building, Leasing, Adopting,
         Cancelling, Publishing, Sending, Closing, From, At, LatePlaces
    <3> QED
      BY <3>1, <3>2
  <2>7. \A d \in Controllers : /\ ctl'[d].request = ctl[d].request
                               /\ ctl[d].cancelSent => ctl'[d].cancelSent
                               /\ \A a \in AcksOf(d)' : a \in AcksOf(d)
    BY <2>1, <2>3 DEF AcksOf
  <2>8. \A u \in Threads :
           /\ thread'[u].pc \in EarlyPlaces => thread[u].pc \in EarlyPlaces
           /\ thread'[u].pc \in LatePlaces
                => thread[u].pc \in LatePlaces \/ Gone(Of(u), ctl[Of(u)].request)
    BY <2>1, <2>5, <2>6
  <2> QED
    BY <2>2, <2>4, <2>7, <2>8, SettledRequests
<1> QED
  BY <1>1, <1>2

LEMMA HearingAcks ==
  ASSUME TypeInv, NEW c \in Controllers, Hearing(c)
  PROVE  \A d \in Controllers : \A a \in AcksOf(d)' : a \in AcksOf(d)
<1>1. acks[c] \in Seq(RP!Ack) /\ acks[c] # <<>>
  BY DEF TypeInv, Hearing
<1>2. /\ Head(acks[c]) \in Range(acks[c])
      /\ \A x \in Range(Tail(acks[c])) : x \in Range(acks[c])
  BY <1>1, HeadOf
<1> QED
  BY <1>2 DEF Hearing, AcksOf

\* The robot's answer to the request it takes.
LEMMA AnsweringRequests ==
  ASSUME TypeInv, RequestsInv, NEW r, NEW w, NEW a, Answering(r, w, a)
  PROVE  RequestsInv'
<1> DEFINE e == r.client
<1>1. /\ requests \in Seq(RP!Request) /\ requests # <<>> /\ r = Head(requests)
      /\ r \in RP!Request /\ requests' = Tail(requests)
      /\ ctl' = ctl /\ thread' = thread /\ uuids' = uuids
      /\ a \in RP!Ack /\ a.client = e /\ a.request = r.request /\ a.operation = r.operation
      /\ a.accepted /\ a.operation = "CANCEL" => robot'.client = NoId
  BY DEF TypeInv, Answering, RequestStep, Answers, clientVars
<1>2. /\ r \in Range(requests) /\ e \in Controllers
      /\ \A m \in Range(requests') : m \in Range(requests)
      /\ PrepareComesFirst(requests')
      /\ \A m \in Range(requests') :
           m.operation = "PREPARE" /\ m.client = e => m.request # r.request
  BY <1>1, HeadOf, TailFirst, RequestFields DEF RequestsInv
<1>3. RequestIsKnown(r) /\ r.request \in Nat \ {0}
  BY <1>2, RequestFields DEF RequestsInv
<1>4. \A c \in Controllers :
         robot'.client = c
           => \/ robot.client = c /\ robot'.request = robot.request
              \/ r.operation = "PREPARE" /\ e = c /\ robot'.request = r.request
  <2>1. \A c \in Controllers : w.client = c => robot.client = c /\ w.request = robot.request
    BY RequestFields DEF Answering, Quiet, SameLease, Freed
  <2>2. \/ robot'.client = NoId
        \/ robot'.client = w.client /\ robot'.request = w.request
        \/ r.operation = "PREPARE" /\ robot'.client = e /\ robot'.request = r.request
    BY DEF Answering, RequestStep, Preparing, Committing, Releasing, Freed
  <2> QED
    BY <2>1, <2>2, RequestFields
<1>5. \A c \in Controllers : \A b \in AcksOf(c)' : b \in AcksOf(c) \/ (c = e /\ b = a)
  <2>1. \A c \in Controllers : /\ acks[c] \in Seq(RP!Ack)
                               /\ acks'[c] \in {acks[c], Append(acks[c], a)}
                               /\ c # e => acks'[c] = acks[c]
    BY DEF TypeInv, Answering
  <2>2. \A c \in Controllers : Range(Append(acks[c], a)) = Range(acks[c]) \cup {a}
    BY <1>1, <2>1, RangeAppend
  <2>3. ASSUME NEW c \in Controllers, NEW b \in AcksOf(c)'
        PROVE  b \in AcksOf(c) \/ (c = e /\ b = a)
    <3>1. b \in Range(acks'[c]) \cup ctl[c].acks
      BY <1>1, <2>3 DEF AcksOf
    <3>2. CASE acks'[c] = acks[c]
      BY <3>1, <3>2 DEF AcksOf
    <3>3. CASE acks'[c] # acks[c]
      <4>1. acks'[c] = Append(acks[c], a) /\ c = e
        BY <2>1, <3>3
      <4> QED
        BY <2>2, <3>1, <4>1 DEF AcksOf
    <3> QED
      BY <3>2, <3>3
  <2> QED
    BY <2>3
<1>6. /\ NoId \notin Controllers /\ \A u \in Threads : Of(u) \in Controllers
      /\ \A m \in Range(requests) : m.client \in Controllers
  BY RequestFields, ThreadTypes
<1>7. \A c \in Controllers : Unsent(c) => Unsent(c)'
  <2> SUFFICES ASSUME NEW c \in Controllers, Unsent(c) PROVE Unsent(c)'
    OBVIOUS
  <2>1. e = c => r.request # ctl[c].request /\ r.operation # "PREPARE"
    BY <1>2, <1>3 DEF Unsent, RequestIsKnown
  <2> QED
    BY <1>1, <1>2, <1>4, <1>5, <2>1 DEF Unsent
<1>8. \A m \in Range(requests') : RequestIsKnown(m)'
  BY <1>1, <1>2, <1>3, <1>4, <1>6 DEF RequestsInv, RequestIsKnown
<1>9. \A c \in Controllers : \A x : Gone(c, x) => Gone(c, x)'
  BY <1>1, <1>2, <1>4 DEF Gone
<1>10. \A c \in Controllers : \A b \in AcksOf(c)' : AckIsKnown(c, b)'
  <2>1. AckIsKnown(e, a)'
    <3>1. ASSUME a.accepted, a.operation = "CANCEL" PROVE Gone(e, r.request)'
      BY <1>1, <1>2, <1>3, <1>6, <3>1 DEF Gone, RequestIsKnown
    <3> QED
      BY <1>1, <1>3, <3>1 DEF AckIsKnown, RequestIsKnown
  <2>2. \A c \in Controllers : \A b \in AcksOf(c) : AckIsKnown(c, b)'
    BY <1>1, <1>9 DEF RequestsInv, AckIsKnown
  <2> QED
    BY <1>5, <2>1, <2>2
<1>11. OwnedIsKnown'
  BY <1>1, <1>3, <1>4 DEF RequestsInv, OwnedIsKnown, OwnedBy, RequestIsKnown
<1>12. \A u \in Threads : /\ thread'[u].pc \in EarlyPlaces => Unsent(Of(u))'
                          /\ thread'[u].pc \in LatePlaces => Gone(Of(u), ctl[Of(u)].request)'
  BY <1>1, <1>6, <1>7, <1>9 DEF RequestsInv
<1> QED
  BY <1>2, <1>8, <1>10, <1>11, <1>12 DEF RequestsInv

LEMMA StepRequests ==
  OneLifecycle /\ TypeInv /\ PlacesAgree /\ RequestsInv /\ [Next]_vars => RequestsInv'
<1> SUFFICES ASSUME OneLifecycle, TypeInv, PlacesAgree, RequestsInv, SessionStep
             PROVE  RequestsInv'
  BY AllSteps
<1>1. ASSUME NEW t \in Threads, Frame(t), CallStep(t), robot' = robot
      PROVE  RequestsInv'
  BY <1>1, CallRequests
<1>2. ASSUME NEW c \in Controllers, Hearing(c) \/ Seeing(c), robot' = robot
      PROVE  RequestsInv'
  <2>1. \A d \in Controllers : \A a \in AcksOf(d)' : a \in AcksOf(d)
    <3>1. CASE Hearing(c)
      BY <3>1, HearingAcks
    <3>2. CASE Seeing(c)
      BY <3>2 DEF Seeing, AcksOf, topics
    <3> QED
      BY <1>2, <3>1, <3>2
  <2>2. /\ thread' = thread /\ uuids' = uuids /\ requests' = requests
        /\ \A d \in Controllers : /\ ctl'[d].request = ctl[d].request
                                  /\ ctl'[d].cancelSent = ctl[d].cancelSent
                                  /\ ctl'[d].lease = ctl[d].lease
    BY <1>2 DEF Hearing, Seeing, topics
  <2> QED
    BY <1>2, <2>1, <2>2, SettledRequests, RequestFields
<1>3. ASSUME NEW r, NEW w, NEW a, Answering(r, w, a)
      PROVE  RequestsInv'
  BY <1>3, AnsweringRequests
<1>4. CASE Idling \/ Working
  <2>1. UNCHANGED <<clientVars, requests, acks>>
    BY <1>4 DEF Idling, vars, topics, Working
  <2>2. \/ robot'.client = robot.client /\ robot'.request = robot.request
        \/ robot'.client = NoId
    BY <1>4 DEF Idling, vars, Working, Quiet, SameLease, Freed
  <2>3. \A d \in Controllers : AcksOf(d)' = AcksOf(d)
    BY <2>1 DEF AcksOf, clientVars
  <2> QED
    BY <2>1, <2>2, <2>3, SettledRequests DEF clientVars
<1> QED
  BY <1>1, <1>2, <1>3, <1>4 DEF SessionStep

LEMMA InitPlacesRequests == Init => PlacesAgree /\ RequestsInv
<1> SUFFICES ASSUME Init PROVE PlacesAgree /\ RequestsInv
  OBVIOUS
<1>1. /\ \A c \in Controllers : ctl[c] = Opened
      /\ \A t \in Threads : thread[t] = Resting
      /\ uuids = 0 /\ requests = <<>> /\ robot.client = NoId
      /\ \A c \in Controllers : acks[c] = <<>>
  BY SameValues DEF Init, ClientInit, RP!Fresh
<1>2. /\ Range(requests) = {} /\ \A c \in Controllers : Range(acks[c]) = {}
      /\ Len(requests) = 0
  BY <1>1 DEF Range
<1>3. \A c \in Controllers : /\ ctl[c].request = 0 /\ ctl[c].lease = 0 /\ ctl[c].session = 0
                             /\ ~ctl[c].cancelSent /\ ctl[c].acks = {}
  BY <1>1 DEF Opened, NoRequest, NoLease
<1>4. \A t \in Threads : thread[t].pc = "ready"
  BY <1>1 DEF Resting
<1>5. PlacesAgree
  BY <1>1, <1>3, <1>4
  DEF PlacesAgree, FieldsAgree, ThreadAgrees, RestPlaces, PreparePlaces, CommitPlaces,
      EndPlaces, CancelCarriers
<1>6. NoId \notin Controllers
  BY DEF RP!IdAssumption
<1>7. \A c \in Controllers : AcksOf(c) = {}
  BY <1>2, <1>3 DEF AcksOf
<1>8. PrepareComesFirst(requests)
  BY <1>2 DEF PrepareComesFirst
<1> QED
  BY <1>1, <1>2, <1>4, <1>5, <1>6, <1>7, <1>8
  DEF RequestsInv, EarlyPlaces, LatePlaces, OwnedIsKnown, OwnedBy

-----------------------------------------------------------------------------
(* Leases and sessions *)

Grants(c, a) == a.request = ctl[c].request /\ a.operation = "PREPARE" /\ a.accepted

\* The controller has been told, or is about to be told, that its request has lease l.
Knows(c, l) ==
  /\ ctl[c].request # 0
  /\ \/ ctl[c].lease = l
     \/ \E t \in Threads : Of(t) = c /\ At(t, "lease") /\ thread[t].lease = l
     \/ \E a \in AcksOf(c) : Grants(c, a) /\ a.lease = l

LeaseIsKnown(c, l) ==
  /\ l <= robot.issued
  /\ robot.client = c => robot.lease = l
  /\ \A m \in Range(requests) : m.client = c => m.operation # "PREPARE"

Runs(c, l, g) == /\ RP!External(robot) /\ robot.client = c
                 /\ robot.lease = l /\ robot.generation = g

\* A lease the controller knows is the one it owns the robot by.
KnownLeases == \A c \in Controllers, l \in RP!Generations \ {0} :
                 Knows(c, l) => LeaseIsKnown(c, l)

\* A session starts with the COMMIT of a controller that has taken its lease.
OwnersTookLease == \A c \in Controllers :
                     robot.client = c /\ RP!External(robot) => ctl[c].lease # 0

\* A status that names a lease its client knows is of a session that runs until the
\* client cancels it.
StatusTells(s, c) ==
  ExternalStatus(s) /\ s.client = c /\ Knows(c, s.lease)
    => /\ ctl[c].lease = s.lease
       /\ ~ctl[c].cancelSent => Runs(c, s.lease, s.generation)
StatusesTell == \A s \in AllStatuses, c \in Controllers : StatusTells(s, c)

SessionsRun == \A c \in Controllers :
                 ctl[c].session # 0 /\ ~ctl[c].cancelSent
                   => Runs(c, ctl[c].lease, ctl[c].session)

AdoptedRun == \A t \in Threads :
                At(t, "adopt") => Runs(Of(t), ctl[Of(t)].lease, thread[t].generation)

LeasesInv == KnownLeases /\ OwnersTookLease /\ StatusesTell /\ SessionsRun /\ AdoptedRun

LEMMA LeaseTypes ==
  ASSUME TypeInv
  PROVE  /\ \A c \in Controllers : ctl[c].lease \in RP!Generations
         /\ \A s \in AllStatuses : s.lease \in RP!Generations
         /\ \A c \in Controllers : \A a \in AcksOf(c) : a \in RP!Ack /\ a.lease \in RP!Generations
         /\ \A t \in Threads : thread[t].lease \in RP!Generations
<1>1. \A c \in Controllers : /\ ctl[c].lease \in RP!Generations
                             /\ \A a \in ctl[c].acks : a \in RP!Ack
  BY DEF TypeInv, Fields
<1>2. \A c \in Controllers : \A a \in Range(acks[c]) : a \in RP!Ack
  <2>1. \A c \in Controllers : acks[c] \in Seq(RP!Ack)
    BY DEF TypeInv
  <2> QED
    BY <2>1 DEF Range
<1>3. \A s \in AllStatuses : s.lease \in RP!Generations
  BY StatusFields DEF Status
<1>4. \A t \in Threads : thread[t].lease \in RP!Generations
  BY DEF TypeInv, Locals
<1>5. \A a \in RP!Ack : a.lease \in RP!Generations
  BY DEF RP!Ack
<1> QED
  BY <1>1, <1>2, <1>3, <1>4, <1>5 DEF AcksOf

\* A step of the clients that tells no controller of a new lease.
LEMMA ClientLeases ==
  ASSUME TypeInv, OwnersInv, LeasesInv, robot' = robot,
         \A s \in AllStatuses' : s \in AllStatuses,
         \A c \in Controllers, l \in RP!Generations \ {0} : Knows(c, l)' => Knows(c, l),
         \A m \in Range(requests') :
            m \in Range(requests) \/ m.operation # "PREPARE"
              \/ \A l \in RP!Generations \ {0} : ~Knows(m.client, l)',
         \A c \in Controllers :
            \/ /\ ctl'[c].lease = ctl[c].lease
               /\ ctl[c].cancelSent => ctl'[c].cancelSent
            \/ /\ \A l \in RP!Generations \ {0} : ~Knows(c, l)'
               /\ robot.client # c
            \/ ctl[c].lease = 0
  PROVE  StatusesTell' /\ KnownLeases' /\ OwnersTookLease'
<1>1. KnownLeases'
  BY DEF LeasesInv, KnownLeases, LeaseIsKnown
<1>2. OwnersTookLease'
  BY DEF LeasesInv, OwnersTookLease
<1>3. ASSUME NEW s \in AllStatuses', NEW c \in Controllers,
             ExternalStatus(s), s.client = c, Knows(c, s.lease)'
      PROVE  ctl'[c].lease = s.lease /\ (~ctl'[c].cancelSent => Runs(c, s.lease, s.generation)')
  <2>1. s \in AllStatuses /\ s.lease \in RP!Generations \ {0}
    BY <1>3, LeaseTypes DEF OwnersInv, StatusIsTrue
  <2>2. Knows(c, s.lease)
    BY <1>3, <2>1
  <2>3. ctl[c].lease = s.lease /\ (~ctl[c].cancelSent => Runs(c, s.lease, s.generation))
    BY <1>3, <2>1, <2>2 DEF LeasesInv, StatusesTell, StatusTells
  <2>4. Runs(c, s.lease, s.generation)' <=> Runs(c, s.lease, s.generation)
    BY DEF Runs
  <2> QED
    BY <1>3, <2>1, <2>3, <2>4
<1>4. StatusesTell'
  BY <1>3 DEF StatusesTell, StatusTells
<1> QED
  BY <1>1, <1>2, <1>4

\* What the other controllers know depends on nothing a call changes.
LEMMA OthersKnow ==
  ASSUME NEW t \in Threads, Frame(t), NEW d \in Controllers \ {Of(t)}, NEW l
  PROVE  Knows(d, l)' <=> Knows(d, l)
<1>1. /\ ctl'[d] = ctl[d] /\ acks' = acks
      /\ \A u \in Threads : Of(u) = d => thread'[u] = thread[u]
  BY DEF Frame
<1>2. AcksOf(d)' = AcksOf(d)
  BY <1>1 DEF AcksOf
<1> QED
  BY <1>1, <1>2 DEF Knows, Grants, At

\* A call tells its controller of a lease by an answer it has kept.
LEMMA CallKnows ==
  ASSUME TypeInv, PlacesAgree, NEW t \in Threads, Frame(t), CallStep(t),
         ~Entering(t), ~Clearing(t)
  PROVE  /\ \A d \in Controllers : \A l : Knows(d, l)' => Knows(d, l)
         /\ ctl'[Of(t)].request = ctl[Of(t)].request
<1> DEFINE c == Of(t)
           k == ctl[Of(t)]
           k2 == ctl'[Of(t)]
<1>1. c \in Controllers /\ ThreadAgrees(t)
  BY ThreadTypes DEF PlacesAgree
<1>2. k2.request = k.request /\ k2.acks = k.acks
  BY DEF CallStep, Building, Delivering, Walking, Leasing, Adopting, Cancelling, Publishing,
         Sending, Closing, SameFields, SameRest
<1>3. k2.lease = k.lease \/ (At(t, "lease") /\ k2.lease = thread[t].lease)
  BY DEF CallStep, Building, Delivering, Walking, Leasing, Adopting, Cancelling, Publishing,
         Sending, Closing, SameFields, From
<1>4. AcksOf(c)' = AcksOf(c)
  BY <1>2 DEF AcksOf, Frame
<1>5. At(t, "lease")' => \E a \in AcksOf(c) : Grants(c, a) /\ a.lease = thread'[t].lease
  <2>1. SUFFICES ASSUME At(t, "lease")'
                 PROVE  \E a \in AcksOf(c) : Grants(c, a) /\ a.lease = thread'[t].lease
    OBVIOUS
  <2>2. At(t, "awaitPrepare") /\ AnsweredBy(t, "PREPARE")
    BY <2>1 DEF CallStep, Building, Delivering, Walking, Leasing, Adopting, Cancelling,
                Publishing, Sending, Closing, From, At
  <2>3. thread[t].request = k.request
    BY <1>1, <2>2 DEF ThreadAgrees, At, PreparePlaces
  <2>4. PICK a \in k.acks : /\ a.request = thread[t].request /\ a.operation = "PREPARE"
                            /\ a.accepted /\ thread'[t].lease = a.lease
    BY <2>2 DEF AnsweredBy
  <2> QED
    BY <2>3, <2>4 DEF AcksOf, Grants
<1>6. ASSUME NEW l, Knows(c, l)' PROVE Knows(c, l)
  <2>1. k.request # 0
    BY <1>2, <1>6 DEF Knows
  <2>2. CASE ctl'[c].lease = l
    BY <1>3, <2>1, <2>2 DEF Knows
  <2>3. CASE \E u \in Threads : Of(u) = c /\ At(u, "lease")' /\ thread'[u].lease = l
    <3>1. PICK u \in Threads : Of(u) = c /\ At(u, "lease")' /\ thread'[u].lease = l
      BY <2>3
    <3>2. CASE u = t
      BY <1>5, <2>1, <3>1, <3>2 DEF Knows
    <3>3. CASE u # t
      <4>1. thread'[u] = thread[u]
        BY <3>3 DEF Frame
      <4> QED
        BY <2>1, <3>1, <4>1 DEF Knows, At
    <3> QED
      BY <3>2, <3>3
  <2>4. CASE \E a \in AcksOf(c)' : Grants(c, a)' /\ a.lease = l
    BY <1>2, <1>4, <2>1, <2>4 DEF Knows, Grants
  <2> QED
    BY <1>6, <2>2, <2>3, <2>4 DEF Knows
<1>7. \A d \in Controllers \ {c} : \A l : Knows(d, l)' => Knows(d, l)
  BY OthersKnow
<1> QED
  BY <1>2, <1>6, <1>7

\* A controller with a new request, or none, knows of no lease and does not own the robot.
LEMMA ForgetKnows ==
  ASSUME OneLifecycle, TypeInv, PlacesAgree, RequestsInv, NEW t \in Threads, Frame(t),
         Entering(t) \/ Clearing(t)
  PROVE  /\ \A l \in RP!Generations \ {0} : ~Knows(Of(t), l)'
         /\ robot.client # Of(t)
         /\ \A u \in Threads : Of(u) = Of(t) => thread'[u].pc \notin {"lease", "adopt"}
<1> DEFINE c == Of(t)
<1>1. c \in Controllers /\ t[2] \in Lifecycle
  <2>1. CASE Entering(t)
    BY <2>1, ThreadTypes DEF Entering
  <2>2. CASE Clearing(t)
    <3>1. thread[t].pc \notin RestPlaces
      BY <2>2 DEF Clearing, From, At, RestPlaces
    <3> QED
      BY <3>1, ThreadTypes, NotResting
  <2> QED
    BY <2>1, <2>2
<1>2. \A u \in Threads : Of(u) = c => thread'[u].pc \notin {"lease", "adopt"}
  <2>1. thread'[t].pc \in {"ready", "prepare"}
    BY DEF Entering, Clearing, From, At
  <2>2. \A u \in Threads \ {t} : Of(u) = c => thread'[u].pc \in RestPlaces
    BY <1>1, Alone DEF Frame
  <2> QED
    BY <2>1, <2>2 DEF RestPlaces
<1>3. robot.client # c
  <2>1. CASE Entering(t)
    <3>1. robot.client = c => robot.request = 0
      BY <1>1, <2>1 DEF Entering, RequestsInv, OwnedIsKnown, OwnedBy
    <3> QED
      BY <1>1, <3>1, OwnerRequest
  <2>2. CASE Clearing(t)
    <3>1. thread[t].pc \in LatePlaces
      BY <2>2 DEF Clearing, From, At, LatePlaces
    <3> QED
      BY <1>1, <3>1 DEF RequestsInv, OwnedIsKnown, OwnedBy, Gone
  <2> QED
    BY <2>1, <2>2
<1>4. CASE Clearing(t)
  BY <1>2, <1>3, <1>4 DEF Clearing, Knows
<1>5. CASE Entering(t)
  <2>1. ctl'[c].request = uuids + 1 /\ ctl'[c].lease = 0 /\ ctl'[c].acks = {} /\ acks' = acks
    BY <1>5 DEF Entering, Frame
  <2>2. uuids \in Nat /\ \A a \in Range(acks[c]) : a.request \in Nat /\ a.request <= uuids
    BY <1>1, RequestFields DEF RequestsInv, AcksOf, AckIsKnown
  <2>3. \A a \in AcksOf(c)' : a.request # ctl'[c].request
    BY <2>1, <2>2 DEF AcksOf
  <2> QED
    BY <1>2, <1>3, <2>1, <2>3 DEF Knows, Grants, At
<1> QED
  BY <1>4, <1>5

\* A PREPARE is delivered before its controller can know of a lease.
LEMMA DeliveringKnows ==
  ASSUME OneLifecycle, TypeInv, PlacesAgree, RequestsInv, NEW t \in Threads,
         Frame(t), CallStep(t)
  PROVE  \A m \in Range(requests') :
            m \in Range(requests) \/ m.operation # "PREPARE"
              \/ \A l \in RP!Generations \ {0} : ~Knows(m.client, l)
<1> DEFINE c == Of(t)
           m0 == thread[t].message
<1>1. CASE ~Delivering(t)
  <2>1. requests' = requests
    BY <1>1 DEF CallStep, Silent, Entering, Building, Walking, Leasing, Adopting,
         Cancelling, Publishing, Sending, Clearing, Closing
  <2> QED
    BY <2>1
<1>2. CASE Delivering(t)
  <2>1. /\ requests \in Seq(RP!Request) /\ m0 \in RP!Request
        /\ requests' \in {requests, Append(requests, m0)}
    BY <1>2 DEF Delivering, TypeInv
  <2>2. Range(Append(requests, m0)) = Range(requests) \cup {m0}
    <3> HIDE DEF m0
    <3> QED
      BY <2>1, RangeAppend
  <2>3. m0.operation = "PREPARE" => m0.client = c /\ \A l \in RP!Generations \ {0} : ~Knows(c, l)
    <3>1. ThreadAgrees(t)
      BY DEF PlacesAgree
    <3>2. CASE At(t, "sendPrepare")
      <4>1. /\ thread[t].pc = "sendPrepare" /\ thread[t].pc \in PreparePlaces
            /\ thread[t].pc \in EarlyPlaces /\ thread[t].pc \notin RestPlaces
        BY <3>2 DEF At, PreparePlaces, EarlyPlaces, RestPlaces
      <4>2. m0 = ControlRequest(c, "PREPARE") /\ ctl[c].lease = 0
        BY <3>1, <4>1 DEF ThreadAgrees
      <4>3. m0.client = c
        BY <4>2 DEF ControlRequest
      <4>4. \A a \in AcksOf(c) : ~Grants(c, a)
        BY <4>1 DEF RequestsInv, Unsent, Grants
      <4>5. \A u \in Threads : Of(u) = c => ~At(u, "lease")
        <5>1. \A u \in Threads \ {t} : Of(u) = c => thread[u].pc \in RestPlaces
          BY <4>1, NotResting, Alone
        <5> QED
          BY <4>1, <5>1 DEF RestPlaces, At
      <4> QED
        BY <4>2, <4>3, <4>4, <4>5 DEF Knows
    <3>3. CASE At(t, "sendCommit")
      <4>1. m0 = ControlRequest(c, "COMMIT")
        BY <3>1, <3>3 DEF ThreadAgrees, At
      <4> QED
        BY <4>1 DEF ControlRequest
    <3>4. CASE thread[t].pc \in CancelCarriers
      <4>1. m0 = ControlRequest(c, "CANCEL")
        BY <3>1, <3>4 DEF ThreadAgrees
      <4> QED
        BY <4>1 DEF ControlRequest
    <3> QED
      BY <1>2, <3>2, <3>3, <3>4 DEF Delivering, From, At, CancelCarriers
  <2>4. \A m \in Range(requests') : m \in Range(requests) \/ m = m0
    <3> HIDE DEF m0
    <3> QED
      BY <2>1, <2>2
  <2> HIDE DEF m0
  <2> QED
    BY <2>3, <2>4
<1> QED
  BY <1>1, <1>2

\* What a call does to the leases its controller knows.
LEMMA CallLeases ==
  ASSUME OneLifecycle, TypeInv, OwnersInv, PlacesAgree, RequestsInv, LeasesInv,
         NEW t \in Threads, Frame(t), CallStep(t), robot' = robot
  PROVE  StatusesTell' /\ KnownLeases' /\ OwnersTookLease'
<1> DEFINE c == Of(t)
           k == ctl[Of(t)]
           k2 == ctl'[Of(t)]
<1>1. /\ c \in Controllers /\ ThreadAgrees(t)
      /\ \A d \in Controllers \ {c} : ctl'[d] = ctl[d]
  BY ThreadTypes DEF PlacesAgree, Frame
<1>2. \A s \in AllStatuses' : s \in AllStatuses
  <2>1. \A d \in Controllers : ctl'[d].latest = ctl[d].latest
    BY DEF Frame, CallStep, Entering, Building, Delivering, Walking, Leasing, Adopting,
       Cancelling, Publishing, Sending, Clearing, Closing, SameFields, SameRest
  <2> QED
    BY <2>1 DEF Frame, AllStatuses
<1>3. \A d \in Controllers, l \in RP!Generations \ {0} : Knows(d, l)' => Knows(d, l)
  <2>1. CASE Entering(t) \/ Clearing(t)
    BY <1>1, <2>1, ForgetKnows, OthersKnow
  <2>2. CASE ~Entering(t) /\ ~Clearing(t)
    BY <2>2, CallKnows
  <2> QED
    BY <2>1, <2>2
<1>4. \A m \in Range(requests') :
         m \in Range(requests) \/ m.operation # "PREPARE"
           \/ \A l \in RP!Generations \ {0} : ~Knows(m.client, l)'
  <2>1. CASE Delivering(t)
    <3>1. \A d, l : Knows(d, l)' => Knows(d, l)
      <4>1. /\ ctl' = ctl /\ acks' = acks /\ ~At(t, "lease")'
            /\ \A u \in Threads \ {t} : thread'[u] = thread[u]
        BY <2>1 DEF Delivering, Frame, From, At
      <4>2. \A d : AcksOf(d)' = AcksOf(d)
        BY <4>1 DEF AcksOf
      <4> QED
        BY <4>1, <4>2 DEF Knows, Grants, At
    <3> QED
      BY <3>1, DeliveringKnows
  <2>2. CASE ~Delivering(t)
    <3>1. requests' = requests
      BY <2>2 DEF CallStep, Silent, Entering, Building, Walking, Leasing, Adopting,
           Cancelling, Publishing, Sending, Clearing, Closing
    <3> QED
      BY <3>1
  <2> QED
    BY <2>1, <2>2
<1>5. \/ k2.lease = k.lease /\ (k.cancelSent => k2.cancelSent)
      \/ (\A l \in RP!Generations \ {0} : ~Knows(c, l)') /\ robot.client # c
      \/ k.lease = 0
  <2>1. CASE Entering(t) \/ Clearing(t)
    BY <2>1, ForgetKnows
  <2>2. CASE Leasing(t)
    BY <1>1, <2>2 DEF Leasing, From, At, ThreadAgrees, PreparePlaces
  <2>3. CASE ~Entering(t) /\ ~Clearing(t) /\ ~Leasing(t)
    BY <2>3 DEF CallStep, Building, Delivering, Walking, Adopting,
         Cancelling, Publishing, Sending, Closing, SameFields
  <2> QED
    BY <2>1, <2>2, <2>3
<1>6. \A d \in Controllers :
         \/ ctl'[d].lease = ctl[d].lease /\ (ctl[d].cancelSent => ctl'[d].cancelSent)
         \/ (\A l \in RP!Generations \ {0} : ~Knows(d, l)') /\ robot.client # d
         \/ ctl[d].lease = 0
  BY <1>1, <1>5
<1> QED
  BY <1>2, <1>3, <1>4, <1>6, ClientLeases

\* A session is adopted, or published in, after a status of it.
LEMMA CallSessions ==
  ASSUME OneLifecycle, TypeInv, OwnersInv, PlacesAgree, RequestsInv, LeasesInv,
         NEW t \in Threads, Frame(t), CallStep(t), robot' = robot
  PROVE  SessionsRun' /\ AdoptedRun'
<1> DEFINE c == Of(t)
           k == ctl[Of(t)]
           k2 == ctl'[Of(t)]
<1>1. /\ c \in Controllers /\ ThreadAgrees(t) /\ FieldsAgree(c)
      /\ \A d \in Controllers \ {c} : ctl'[d] = ctl[d]
      /\ \A u \in Threads \ {t} : thread'[u] = thread[u]
      /\ \A u \in Threads : Of(u) \in Controllers
  BY ThreadTypes DEF PlacesAgree, Frame
<1>2. \A d, l, g : Runs(d, l, g)' <=> Runs(d, l, g)
  BY DEF Runs
<1>3. StatusAllowsPublish(c) /\ ~k.cancelSent => Runs(c, k.lease, k.latest.generation)
  <2>1. SUFFICES ASSUME StatusAllowsPublish(c), ~k.cancelSent
                 PROVE  Runs(c, k.lease, k.latest.generation)
    OBVIOUS
  <2>2. /\ ExternalStatus(k.latest) /\ k.latest.client = c /\ k.latest.lease = k.lease
        /\ k.request # 0 /\ k.latest \in AllStatuses
    BY <1>1, <2>1, StatusFields DEF StatusAllowsPublish, NoRequest
  <2>3. Knows(c, k.latest.lease)
    BY <2>2 DEF Knows
  <2> QED
    BY <1>1, <2>1, <2>2, <2>3 DEF LeasesInv, StatusesTell, StatusTells
<1>4. k2.session # 0 /\ ~k2.cancelSent => Runs(c, k2.lease, k2.session)
  <2>1. CASE Entering(t) \/ Clearing(t)
    BY <2>1 DEF Entering, Clearing
  <2>2. CASE Leasing(t)
    BY <1>1, <2>2 DEF Leasing, From, At, ThreadAgrees, PreparePlaces, FieldsAgree
  <2>3. CASE Adopting(t)
    BY <2>3 DEF Adopting, From, LeasesInv, AdoptedRun
  <2>4. CASE Publishing(t)
    <3>1. k2.session = k.latest.generation /\ k2.lease = k.lease /\ k2.cancelSent = k.cancelSent
      BY <2>4 DEF Publishing, NextKey
    <3> QED
      BY <1>3, <2>4, <3>1 DEF Publishing
  <2>5. CASE Cancelling(t)
    BY <2>5 DEF Cancelling
  <2>6. CASE Building(t) \/ Delivering(t) \/ Walking(t) \/ Sending(t) \/ Closing(t)
    <3>1. k2.session = k.session /\ k2.lease = k.lease /\ k2.cancelSent = k.cancelSent
      BY <2>6 DEF Building, Delivering, Walking, Sending, Closing, SameFields
    <3> QED
      BY <1>1, <3>1 DEF LeasesInv, SessionsRun
  <2> QED
    BY <2>1, <2>2, <2>3, <2>4, <2>5, <2>6 DEF CallStep
<1>5. SessionsRun'
  BY <1>1, <1>2, <1>4 DEF LeasesInv, SessionsRun
<1>6. At(t, "adopt")' => Runs(c, k2.lease, thread'[t].generation)
  <2>1. SUFFICES ASSUME At(t, "adopt")' PROVE Runs(c, k2.lease, thread'[t].generation)
    OBVIOUS
  <2>2. /\ At(t, "awaitRunning") /\ ctl' = ctl /\ StatusAllowsPublish(c)
        /\ thread'[t].generation = k.latest.generation
    BY <2>1 DEF CallStep, Entering, Building, Delivering, Walking, Leasing, Adopting,
         Cancelling, Publishing, Sending, Clearing, Closing, From, At
  <2>3. ~k.cancelSent
    BY <1>1, <2>2 DEF ThreadAgrees, At, CommitPlaces
  <2> QED
    BY <1>3, <2>2, <2>3
<1>7. ASSUME NEW u \in Threads \ {t}, At(u, "adopt")'
      PROVE  Runs(Of(u), ctl'[Of(u)].lease, thread'[u].generation)
  <2>1. At(u, "adopt") /\ thread'[u] = thread[u]
    BY <1>1, <1>7 DEF At
  <2>2. ctl'[Of(u)].lease = ctl[Of(u)].lease
    <3>1. CASE Of(u) # c
      BY <1>1, <3>1
    <3>2. CASE Of(u) = c
      <4>1. thread[u].pc \notin RestPlaces
        BY <2>1 DEF At, RestPlaces
      <4>2. SameRequest(c)
        BY <3>2, <4>1, CallDisturbs, Alone
      <4> QED
        BY <3>2, <4>2 DEF SameRequest
    <3> QED
      BY <3>1, <3>2
  <2> QED
    BY <2>1, <2>2 DEF LeasesInv, AdoptedRun
<1>8. AdoptedRun'
  BY <1>2, <1>6, <1>7 DEF AdoptedRun
<1> QED
  BY <1>5, <1>8

\* A session that is not cancelled goes on running.
LEMMA AnsweringRuns ==
  ASSUME TypeInv, RequestsInv, NEW r, NEW w, NEW a, Answering(r, w, a),
         NEW c \in Controllers, ~ctl[c].cancelSent, NEW l, NEW g, Runs(c, l, g)
  PROVE  Runs(c, l, g)'
<1>1. /\ RP!External(robot) /\ robot.client = c /\ robot.lease = l /\ robot.generation = g
      /\ c # NoId /\ robot.request = ctl[c].request
  BY RequestFields DEF Runs, RequestsInv, OwnedIsKnown, OwnedBy
<1>2. /\ w.client = c /\ w.request = robot.request /\ w.lease = l /\ w.generation = g
      /\ RP!External(w)
  BY <1>1 DEF Answering, Quiet, SameLease, Freed
<1>3. r \in Range(requests) /\ RequestStep(robot', w, r, a)
  <2>1. requests \in Seq(RP!Request) /\ requests # <<>> /\ r = Head(requests)
    BY DEF TypeInv, Answering
  <2> QED
    BY <2>1, HeadOf DEF Answering
<1>4. ~Preparing(robot', w, r, a) /\ ~Committing(robot', w, r, a)
  BY <1>1, <1>2 DEF Preparing, Committing
<1>5. ~Releasing(robot', w, r, a)
  BY <1>1, <1>2, <1>3 DEF Releasing, RequestsInv, RequestIsKnown
<1>6. robot' = w
  BY <1>3, <1>4, <1>5 DEF RequestStep
<1> QED
  BY <1>2, <1>6 DEF Runs

\* What a client learns by the robot's answer, and what its earlier knowledge is worth.
LEMMA AnsweringLeases ==
  ASSUME TypeInv, TypeInv', OwnersInv, PlacesAgree, RequestsInv, LeasesInv,
         NEW r, NEW w, NEW a, Answering(r, w, a)
  PROVE  LeasesInv'
<1> DEFINE e == r.client
<1>1. /\ requests \in Seq(RP!Request) /\ requests # <<>> /\ r = Head(requests)
      /\ r \in RP!Request /\ requests' = Tail(requests)
      /\ ctl' = ctl /\ thread' = thread /\ AllStatuses' = AllStatuses
      /\ Quiet(w, robot) /\ RequestStep(robot', w, r, a)
  BY DEF TypeInv, Answering, clientVars, AllStatuses
<1>2. /\ r \in Range(requests) /\ e \in Controllers /\ RequestIsKnown(r)
      /\ \A m \in Range(requests') : m \in Range(requests)
      /\ \A m \in Range(requests') :
           m.operation = "PREPARE" /\ m.client = e => m.request # r.request
  BY <1>1, HeadOf, TailFirst, RequestFields DEF RequestsInv
<1>3. /\ NoId \notin Controllers
      /\ w.client # NoId => SameLease(w, robot)
      /\ RP!External(w) => SameLease(w, robot)
      /\ w.issued = robot.issued
  BY <1>1, RequestFields DEF Quiet, SameLease, Freed
<1>4. /\ robot.issued \in Nat /\ robot'.issued \in Nat /\ robot'.issued >= robot.issued
      /\ robot'.lease <= robot'.issued
  <2>1. RP!GoodState(robot)'
    BY DEF TypeInv
  <2> QED
    BY <2>1, AnsweringBelongs DEF RP!GoodState, RP!OwnershipConsistent
<1>5. ASSUME NEW c \in Controllers, NEW l, Knows(c, l)', ~Knows(c, l)
      PROVE  c = e /\ Grants(c, a) /\ a.lease = l
  <2>1. PICK b \in AcksOf(c)' : Grants(c, b) /\ b.lease = l /\ b \notin AcksOf(c)
    BY <1>1, <1>5 DEF Knows, Grants, At
  <2>2. b \in Range(acks'[c]) /\ b \notin Range(acks[c])
    BY <1>1, <2>1 DEF AcksOf
  <2>3. acks[c] \in Seq(RP!Ack) /\ a \in RP!Ack
    BY <1>1 DEF TypeInv, RequestStep
  <2>4. acks'[c] = Append(acks[c], a) /\ c = e
    BY <2>2 DEF Answering
  <2>5. b = a
    BY <2>2, <2>3, <2>4, RangeAppend
  <2> QED
    BY <2>1, <2>4, <2>5
<1>6. ASSUME Grants(e, a)
      PROVE  /\ robot'.client = e /\ robot'.lease = a.lease /\ r.operation = "PREPARE"
             /\ r.request = ctl[e].request
             /\ robot'.lease = robot.issued + 1
  <2>1. /\ r.operation = "PREPARE" /\ r.request = ctl[e].request
        /\ robot'.client = e /\ robot'.lease = a.lease
    BY <1>1, <1>6 DEF Grants, RequestStep, Answers
  <2>2. robot.client # e
    BY <1>2, <2>1 DEF RequestIsKnown
  <2>3. robot' # w
    BY <1>2, <1>3, <2>1, <2>2 DEF SameLease
  <2>4. Preparing(robot', w, r, a)
    BY <1>1, <2>1, <2>3 DEF RequestStep, Committing, Releasing
  <2> QED
    BY <1>3, <2>1, <2>4 DEF Preparing
<1>7. ASSUME NEW c \in Controllers, NEW l \in RP!Generations \ {0}, Knows(c, l)'
      PROVE  LeaseIsKnown(c, l)'
  <2>1. CASE Knows(c, l)
    <3>1. LeaseIsKnown(c, l)
      BY <2>1 DEF LeasesInv, KnownLeases
    <3>2. l <= robot'.issued
      <4>1. l \in Nat
        BY DEF RP!Generations
      <4> QED
        BY <1>4, <3>1, <4>1 DEF LeaseIsKnown
    <3>3. robot'.client = c => robot'.lease = l
      <4>1. ~(r.operation = "PREPARE" /\ e = c)
        BY <1>2, <3>1 DEF LeaseIsKnown
      <4> QED
        BY <1>1, <1>3, <3>1, <4>1
        DEF LeaseIsKnown, RequestStep, Preparing, Committing, Releasing, Freed, SameLease
    <3> QED
      BY <1>2, <3>1, <3>2, <3>3 DEF LeaseIsKnown
  <2>2. CASE ~Knows(c, l)
    <3>1. c = e /\ Grants(e, a) /\ a.lease = l
      BY <1>5, <1>7, <2>2
    <3>2. /\ robot'.lease = l /\ r.request = ctl[e].request
      BY <1>6, <3>1
    <3>3. \A m \in Range(requests') : m.client = e => m.operation # "PREPARE"
      BY <1>2, <3>2 DEF RequestsInv, RequestIsKnown
    <3> QED
      BY <1>4, <3>1, <3>2, <3>3 DEF LeaseIsKnown
  <2> QED
    BY <2>1, <2>2
<1>8. OwnersTookLease'
  <2> SUFFICES ASSUME NEW c \in Controllers, robot'.client = c, RP!External(robot')
               PROVE  ctl'[c].lease # 0
    BY DEF OwnersTookLease
  <2>1. CASE Committing(robot', w, r, a)
    <3>1. w.client = c /\ e = c /\ w.request = r.request /\ w.lease = r.lease
          /\ r.operation = "COMMIT"
      BY <2>1 DEF Committing
    <3>2. robot.client = c /\ robot.request = r.request
      BY <1>3, <3>1 DEF SameLease
    <3>3. r.request = ctl[c].request
      BY <3>2 DEF RequestsInv, OwnedIsKnown, OwnedBy
    <3> QED
      BY <1>1, <1>2, <3>1, <3>3 DEF RequestIsKnown
  <2>2. CASE ~Committing(robot', w, r, a)
    <3>1. robot' = w
      BY <1>1, <2>2 DEF RequestStep, Preparing, Releasing, Freed
    <3>2. robot.client = c /\ RP!External(robot)
      BY <1>3, <3>1 DEF SameLease
    <3> QED
      BY <1>1, <3>2 DEF LeasesInv, OwnersTookLease
  <2> QED
    BY <2>1, <2>2
<1>9. ASSUME NEW s \in AllStatuses, NEW c \in Controllers,
             ExternalStatus(s), s.client = c, Knows(c, s.lease)'
      PROVE  ctl[c].lease = s.lease /\ (~ctl[c].cancelSent => Runs(c, s.lease, s.generation)')
  <2>1. CASE Knows(c, s.lease)
    <3>1. ctl[c].lease = s.lease /\ (~ctl[c].cancelSent => Runs(c, s.lease, s.generation))
      BY <1>9, <2>1 DEF LeasesInv, StatusesTell, StatusTells
    <3> QED
      BY <3>1, AnsweringRuns
  <2>2. CASE ~Knows(c, s.lease)
    <3>1. c = e /\ Grants(e, a) /\ a.lease = s.lease
      BY <1>5, <1>9, <2>2
    <3>2. s.lease = robot.issued + 1
      BY <1>6, <3>1
    <3>3. s.lease <= robot.issued
      BY <1>9 DEF OwnersInv, StatusIsTrue
    <3> QED
      BY <1>4, <3>2, <3>3
  <2> QED
    BY <2>1, <2>2
<1>10. StatusesTell'
  BY <1>1, <1>9 DEF StatusesTell, StatusTells
<1>11. SessionsRun'
  BY <1>1, AnsweringRuns DEF LeasesInv, SessionsRun
<1>12. AdoptedRun'
  <2> SUFFICES ASSUME NEW t \in Threads, At(t, "adopt")
               PROVE  Runs(Of(t), ctl[Of(t)].lease, thread[t].generation)'
    BY <1>1 DEF AdoptedRun, At
  <2>1. Of(t) \in Controllers /\ ~ctl[Of(t)].cancelSent
    BY ThreadTypes DEF PlacesAgree, ThreadAgrees, At, CommitPlaces
  <2>2. Runs(Of(t), ctl[Of(t)].lease, thread[t].generation)
    BY DEF LeasesInv, AdoptedRun
  <2> QED
    BY <1>1, <2>1, <2>2, AnsweringRuns DEF Runs
<1>13. KnownLeases'
  BY <1>7 DEF KnownLeases
<1> QED
  BY <1>8, <1>10, <1>11, <1>12, <1>13 DEF LeasesInv

\* A step that changes nothing of a session but hears of it.
LEMMA ListeningLeases ==
  ASSUME TypeInv, OwnersInv, LeasesInv, robot' = robot, thread' = thread, requests' = requests,
         \A s \in AllStatuses' : s \in AllStatuses,
         \A c \in Controllers : SameRequest(c) /\ ctl'[c].session = ctl[c].session,
         \A c \in Controllers : \A a \in AcksOf(c)' : a \in AcksOf(c)
  PROVE  LeasesInv'
<1>1. \A c \in Controllers, l \in RP!Generations \ {0} : Knows(c, l)' => Knows(c, l)
  BY DEF Knows, Grants, At, SameRequest
<1>2. /\ \A c \in Controllers : ctl'[c].lease = ctl[c].lease
                                /\ (ctl[c].cancelSent => ctl'[c].cancelSent)
      /\ \A m \in Range(requests') : m \in Range(requests)
  BY DEF SameRequest
<1>3. StatusesTell' /\ KnownLeases' /\ OwnersTookLease'
  BY <1>1, <1>2, ClientLeases
<1>4. SessionsRun' /\ AdoptedRun'
  BY ThreadTypes DEF LeasesInv, SessionsRun, AdoptedRun, Runs, SameRequest, At
<1> QED
  BY <1>3, <1>4 DEF LeasesInv

\* The robot frees itself of leases that never ran, and says what it is.
LEMMA WorkingLeases ==
  ASSUME TypeInv, PlacesAgree, LeasesInv, Working
  PROVE  LeasesInv'
<1>1. /\ ctl' = ctl /\ thread' = thread /\ requests' = requests /\ acks' = acks
      /\ published' \in {published, StatusOf(robot')}
      /\ robot'.issued = robot.issued
      /\ robot'.client # NoId => SameLease(robot', robot)
      /\ RP!External(robot) => SameLease(robot', robot)
      /\ RP!External(robot') => SameLease(robot', robot)
  BY DEF Working, clientVars, Quiet, SameLease, Freed
<1>2. NoId \notin Controllers /\ \A t \in Threads : Of(t) \in Controllers
  BY RequestFields, ThreadTypes
<1>3. \A c, l : Knows(c, l)' <=> Knows(c, l)
  BY <1>1 DEF Knows, Grants, AcksOf, At
<1>4. \A c \in Controllers : \A l, g : Runs(c, l, g) => Runs(c, l, g)'
  BY <1>1 DEF Runs, SameLease
<1>5. KnownLeases'
  BY <1>1, <1>2, <1>3 DEF LeasesInv, KnownLeases, LeaseIsKnown, SameLease
<1>6. OwnersTookLease'
  BY <1>1, <1>2 DEF LeasesInv, OwnersTookLease, SameLease
<1>7. SessionsRun' /\ AdoptedRun'
  BY <1>1, <1>2, <1>4 DEF LeasesInv, SessionsRun, AdoptedRun, At
<1>8. ASSUME NEW c \in Controllers, NEW s, s = StatusOf(robot'),
             ExternalStatus(s), s.client = c, Knows(c, s.lease)
      PROVE  ctl[c].lease = s.lease /\ Runs(c, s.lease, s.generation)'
  <2>1. /\ RP!External(robot') /\ robot'.client = c
        /\ s.lease = robot'.lease /\ s.generation = robot'.generation
    BY <1>8 DEF StatusOf, ExternalStatus, RP!External
  <2>2. RP!External(robot) /\ robot.client = c /\ robot.lease = s.lease
    BY <1>1, <2>1 DEF SameLease
  <2>3. /\ ctl[c].lease # 0 /\ ctl[c].request # 0
        /\ ctl[c].lease \in RP!Generations \ {0}
    BY <2>2, LeaseTypes DEF LeasesInv, OwnersTookLease, PlacesAgree, FieldsAgree
  <2>4. LeaseIsKnown(c, ctl[c].lease)
    BY <2>3 DEF LeasesInv, KnownLeases, Knows
  <2> QED
    BY <2>1, <2>2, <2>4 DEF LeaseIsKnown, Runs
<1>9. \A s \in AllStatuses' : s \in AllStatuses \/ s = StatusOf(robot')
  BY <1>1 DEF AllStatuses
<1>10. ASSUME NEW s \in AllStatuses', NEW c \in Controllers,
              ExternalStatus(s), s.client = c, Knows(c, s.lease)
       PROVE  ctl[c].lease = s.lease /\ (~ctl[c].cancelSent => Runs(c, s.lease, s.generation)')
  BY <1>4, <1>8, <1>9, <1>10 DEF LeasesInv, StatusesTell, StatusTells
<1>11. StatusesTell'
  BY <1>1, <1>3, <1>10 DEF StatusesTell, StatusTells
<1> QED
  BY <1>5, <1>6, <1>7, <1>11 DEF LeasesInv

LEMMA StepLeases ==
  OneLifecycle /\ TypeInv /\ OwnersInv /\ PlacesAgree /\ RequestsInv /\ LeasesInv /\ [Next]_vars
    => LeasesInv'
<1> SUFFICES ASSUME OneLifecycle, TypeInv, TypeInv', OwnersInv, PlacesAgree, RequestsInv,
                    LeasesInv, SessionStep
             PROVE  LeasesInv'
  BY AllSteps, StepType
<1>1. ASSUME NEW t \in Threads, Frame(t), CallStep(t), robot' = robot
      PROVE  LeasesInv'
  BY <1>1, CallLeases, CallSessions DEF LeasesInv
<1>2. ASSUME NEW c \in Controllers, Hearing(c), robot' = robot
      PROVE  LeasesInv'
  <2>1. \A d \in Controllers : \A a \in AcksOf(d)' : a \in AcksOf(d)
    BY <1>2, HearingAcks
  <2>2. /\ thread' = thread /\ requests' = requests /\ published' = published
        /\ \A d \in Controllers : /\ SameRequest(d) /\ ctl'[d].session = ctl[d].session
                                  /\ ctl'[d].latest = ctl[d].latest
    BY <1>2 DEF Hearing, SameRequest
  <2>3. \A s \in AllStatuses' : s \in AllStatuses
    BY <2>2 DEF AllStatuses
  <2> QED
    BY <1>2, <2>1, <2>2, <2>3, ListeningLeases
<1>3. ASSUME NEW c \in Controllers, Seeing(c), robot' = robot
      PROVE  LeasesInv'
  <2>1. /\ thread' = thread /\ requests' = requests /\ published' = published /\ acks' = acks
        /\ \A d \in Controllers : /\ SameRequest(d) /\ ctl'[d].session = ctl[d].session
                                  /\ ctl'[d].latest \in {ctl[d].latest, published}
                                  /\ ctl'[d].acks = ctl[d].acks
    BY <1>3 DEF Seeing, SameRequest, topics
  <2>2. \A s \in AllStatuses' : s \in AllStatuses
    BY <2>1 DEF AllStatuses
  <2>3. \A d \in Controllers : \A a \in AcksOf(d)' : a \in AcksOf(d)
    BY <2>1 DEF AcksOf
  <2> QED
    BY <1>3, <2>1, <2>2, <2>3, ListeningLeases
<1>4. ASSUME NEW r, NEW w, NEW a, Answering(r, w, a)
      PROVE  LeasesInv'
  BY <1>4, AnsweringLeases
<1>5. CASE Idling
  <2>1. /\ robot' = robot /\ ctl' = ctl /\ thread' = thread /\ requests' = requests
        /\ acks' = acks /\ published' = published
    BY <1>5 DEF Idling, vars, clientVars, topics
  <2>2. /\ AllStatuses' = AllStatuses /\ \A c \in Controllers : SameRequest(c)
        /\ \A c \in Controllers : AcksOf(c)' = AcksOf(c)
    BY <2>1 DEF AllStatuses, SameRequest, AcksOf
  <2> QED
    BY <2>1, <2>2, ListeningLeases
<1>6. CASE Working
  BY <1>6, WorkingLeases
<1> QED
  BY <1>1, <1>2, <1>3, <1>4, <1>5, <1>6 DEF SessionStep

LEMMA InitLeases == Init => LeasesInv
<1> SUFFICES ASSUME Init PROVE LeasesInv
  OBVIOUS
<1>1. /\ \A c \in Controllers : ctl[c].request = 0 /\ ctl[c].session = 0
      /\ \A t \in Threads : thread[t].pc = "ready"
      /\ robot.phase = "IDLE"
  BY SameValues DEF Init, ClientInit, RP!Fresh, Opened, NoRequest, Resting
<1> QED
  BY <1>1 DEF LeasesInv, KnownLeases, OwnersTookLease, StatusesTell, StatusTells, SessionsRun,
              AdoptedRun, Knows, At, RP!External

SessionInv == TypeInv /\ OwnersInv /\ PlacesAgree /\ RequestsInv /\ LeasesInv

\* What every behaviour keeps while one thread of a controller enters, exits and closes
\* (controller.py:149-205, 296-351), whatever the other threads publish.
THEOREM AlwaysSession == ASSUME OneLifecycle PROVE Spec => []SessionInv
<1>1. Init => SessionInv
  BY InitType, InitOwners, InitPlacesRequests, InitLeases DEF SessionInv
<1>2. SessionInv /\ [Next]_vars => SessionInv'
  BY StepType, StepOwners, StepPlaces, StepRequests, StepLeases DEF SessionInv
<1> QED
  BY <1>1, <1>2, PTL DEF Spec

\* A controller never forgets a request that the robot may still obey: exit_external
\* clears its session only when the robot is free of it (controller.py:296-322).
THEOREM OwnedKnown == ASSUME OneLifecycle PROVE Spec => []OwnedIsKnown
<1>1. SessionInv => OwnedIsKnown
  BY DEF SessionInv, RequestsInv
<1> QED
  BY <1>1, AlwaysSession, PTL

\* A controller with a lease knows the lease of the robot it owns.
LEMMA OwnersLease ==
  ASSUME SessionInv, NEW c \in Controllers, robot.client = c, RP!External(robot)
  PROVE  robot.lease = ctl[c].lease
<1>1. ctl[c].lease \in RP!Generations \ {0} /\ ctl[c].request # 0
  BY LeaseTypes DEF SessionInv, LeasesInv, OwnersTookLease, PlacesAgree, FieldsAgree
<1>2. LeaseIsKnown(c, ctl[c].lease)
  BY <1>1 DEF SessionInv, LeasesInv, KnownLeases, Knows
<1> QED
  BY <1>2 DEF LeaseIsKnown

\* A session a controller has and has not cancelled is the robot's: what the return of
\* enter_external promises holds until exit or close (controller.py:149-206, 446-469).
THEOREM SessionGranted == ASSUME OneLifecycle PROVE Spec => []SessionIsGranted
<1>1. SessionInv => SessionIsGranted
  BY SameExternal
  DEF SessionInv, LeasesInv, SessionsRun, Runs, RequestsInv, OwnedIsKnown, SessionIsGranted,
      OwnedBy, Owned
<1> QED
  BY <1>1, AlwaysSession, PTL

\* A CANCEL of the request that owns the robot carries the lease the robot wants, so
\* that it is obeyed (controller.py:325-341, 424-443; protocol.cpp:254-263).
THEOREM CancelsCarryLease == ASSUME OneLifecycle PROVE Spec => []CancelCarriesLease
<1>1. ASSUME SessionInv, NEW m \in RequestsOut, m.operation = "CANCEL",
             Robot!External(robot), Robot!SameRequest(robot, m)
      PROVE  m.lease = robot.lease
  <2>1. RP!External(robot) /\ robot.client = m.client /\ robot.request = m.request
    BY <1>1, SameExternal DEF Robot!SameRequest
  <2>2. CASE m \in Range(requests)
    <3>1. m.client \in Controllers /\ RequestIsKnown(m)
      BY <1>1, <2>2, RequestFields DEF SessionInv, RequestsInv
    <3>2. m.request = ctl[m.client].request
      BY <1>1, <2>1, <3>1 DEF SessionInv, RequestsInv, OwnedIsKnown, OwnedBy
    <3>3. m.lease = ctl[m.client].lease
      BY <1>1, <3>1, <3>2 DEF RequestIsKnown
    <3> QED
      BY <1>1, <2>1, <3>1, <3>3, OwnersLease
  <2>3. CASE m \notin Range(requests)
    <3>1. PICK t \in Threads : /\ m = thread[t].message
                               /\ thread[t].pc \in RequestCarriers
      BY <1>1, <2>3 DEF RequestsOut, Carried, RequestCarriers, CancelCarriers
    <3>2. ThreadAgrees(t) /\ Of(t) \in Controllers
      BY <1>1, ThreadTypes DEF SessionInv, PlacesAgree
    <3>3. thread[t].pc \in CancelCarriers
      BY <1>1, <3>1, <3>2 DEF ThreadAgrees, ControlRequest, RequestCarriers
    <3>4. m = ControlRequest(Of(t), "CANCEL")
      BY <3>1, <3>2, <3>3 DEF ThreadAgrees
    <3>5. m.client = Of(t) /\ m.lease = ctl[Of(t)].lease
      BY <3>4 DEF ControlRequest
    <3> QED
      BY <1>1, <2>1, <3>2, <3>5, OwnersLease
  <2> QED
    BY <2>2, <2>3
<1>2. SessionInv => CancelCarriesLease
  BY <1>1 DEF CancelCarriesLease
<1> QED
  BY <1>2, AlwaysSession, PTL

-----------------------------------------------------------------------------
(* One thread uses a controller: the numbers of its commands *)

OneRole == \A r, s \in Roles : r = s

\* Someone holds that lease l of client c has session g.
Named(l, g, c) ==
  \/ \E s \in AllStatuses : /\ ExternalStatus(s)
                            /\ s.lease = l /\ s.generation = g /\ s.client = c
  \/ Runs(c, l, g)
  \/ ctl[c].session = g /\ g # 0 /\ ctl[c].lease = l
  \/ \E t \in Threads : /\ Of(t) = c /\ At(t, "adopt")
                        /\ thread[t].generation = g /\ ctl[c].lease = l

\* A lease is numbered before its session, and once the session runs it is never ARMED
\* again; the commands of the session are its client's.
SessionsNamed ==
  \A c \in Controllers, l, g \in RP!Generations :
    Named(l, g, c) => /\ 0 < l /\ l < g /\ g <= robot.issued
                      /\ robot.lease = l => RP!External(robot)
                      /\ \A m \in CommandsOut : m.key.session = g => m.client = c

\* A lease has one session, and a session one client.
SessionsDiffer ==
  \A c, d \in Controllers, l, n, g, h \in RP!Generations :
    Named(l, g, c) /\ Named(n, h, d) => (l = n => g = h) /\ (g = h => c = d)

\* A command on its way has a number its controller has gone past, or a session older
\* than any lease the controller knows of.
KeyIsBehind(m) ==
  LET k == ctl[m.client] IN
  /\ m.key.session = k.session => m.key.sequence < k.next
  /\ m.key.session # k.session =>
       \A l \in RP!Generations \ {0} : Knows(m.client, l) => m.key.session < l
KeysBehind == \A m \in CommandsOut : KeyIsBehind(m)

\* So has the last command the robot accepted.
AcceptedBehind ==
  \A c \in Controllers :
    RP!External(robot) /\ robot.client = c =>
      /\ robot.generation = ctl[c].session => robot.accepted < ctl[c].next
      /\ robot.generation # ctl[c].session => robot.accepted = 0

\* The thread publishes nothing while it enters, and numbers start at 1.
NumbersStart ==
  /\ \A t \in Threads : thread[t].pc \in PreparePlaces \cup CommitPlaces
                        => ctl[Of(t)].session = 0
  /\ \A c \in Controllers : ctl[c].next > 0

KeysInv == SessionsNamed /\ SessionsDiffer /\ KeysBehind /\ AcceptedBehind /\ NumbersStart

LEMMA OneThread ==
  ASSUME OneRole
  PROVE  OneLifecycle /\ \A t, u \in Threads : Of(t) = Of(u) => t = u
<1>1. OneLifecycle
  BY RolesAssumption DEF OneRole, OneLifecycle
<1>2. \A t, u \in Threads : Of(t) = Of(u) => t = u
  BY DEF OneRole, Threads, Of
<1> QED
  BY <1>1, <1>2

LEMMA CallStatuses ==
  ASSUME NEW t \in Threads, Frame(t), CallStep(t)
  PROVE  /\ AllStatuses' = AllStatuses
         /\ \A c \in Controllers : ctl'[c].latest = ctl[c].latest
<1>1. \A c \in Controllers : ctl'[c].latest = ctl[c].latest
  BY DEF Frame, CallStep, Entering, Building, Delivering, Walking, Leasing, Adopting,
     Cancelling, Publishing, Sending, Clearing, Closing, SameFields, SameRest
<1> QED
  BY <1>1 DEF Frame, AllStatuses

\* A status that lets its controller publish names a session.
LEMMA PublishNamed ==
  ASSUME TypeInv, NEW c \in Controllers, StatusAllowsPublish(c)
  PROVE  /\ Named(ctl[c].lease, ctl[c].latest.generation, c)
         /\ ctl[c].latest.generation \in RP!Generations
         /\ ctl[c].lease \in RP!Generations \ {0} /\ ctl[c].request # 0
         /\ Knows(c, ctl[c].lease)
<1>1. /\ ExternalStatus(ctl[c].latest) /\ ctl[c].latest.client = c
      /\ ctl[c].latest.lease = ctl[c].lease /\ ctl[c].lease # 0 /\ ctl[c].request # 0
  BY DEF StatusAllowsPublish, NoLease, NoRequest
<1>2. ctl[c].latest \in AllStatuses /\ ctl[c].latest \in Status
  BY StatusFields
<1> QED
  BY <1>1, <1>2 DEF Named, Status, Knows

\* No call names a session that no status has named.
LEMMA CallNamed ==
  ASSUME OneRole, TypeInv, PlacesAgree, NumbersStart,
         NEW t \in Threads, Frame(t), CallStep(t), robot' = robot
  PROVE  \A c \in Controllers, l, g \in RP!Generations : Named(l, g, c)' => Named(l, g, c)
<1> SUFFICES ASSUME NEW c \in Controllers, NEW l \in RP!Generations, NEW g \in RP!Generations,
                    Named(l, g, c)'
             PROVE  Named(l, g, c)
  OBVIOUS
<1>1. AllStatuses' = AllStatuses /\ (Runs(c, l, g)' <=> Runs(c, l, g))
  BY CallStatuses DEF Runs
<1>2. CASE \/ \E s \in AllStatuses' : /\ ExternalStatus(s)
                                      /\ s.lease = l /\ s.generation = g /\ s.client = c
           \/ Runs(c, l, g)'
  BY <1>1, <1>2 DEF Named
<1>3. CASE ctl'[c].session = g /\ g # 0 /\ ctl'[c].lease = l
  <2>1. CASE c # Of(t)
    BY <1>3, <2>1 DEF Frame, Named
  <2>2. CASE c = Of(t) /\ (Entering(t) \/ Clearing(t))
    BY <1>3, <2>2 DEF Entering, Clearing
  <2>3. CASE c = Of(t) /\ Leasing(t)
    <3>1. thread[t].pc \in PreparePlaces
      BY <2>3 DEF Leasing, From, At, PreparePlaces
    <3>2. ctl'[c].session = 0
      BY <2>3, <3>1 DEF Leasing, NumbersStart
    <3> QED
      BY <1>3, <3>2
  <2>4. CASE c = Of(t) /\ Adopting(t)
    BY <1>3, <2>4 DEF Adopting, From, Named
  <2>5. CASE c = Of(t) /\ Publishing(t)
    <3>1. g = ctl[c].latest.generation /\ l = ctl[c].lease /\ StatusAllowsPublish(c)
      BY <1>3, <2>5 DEF Publishing, NextKey
    <3> QED
      BY <3>1, PublishNamed
  <2>6. CASE /\ c = Of(t)
             /\ Building(t) \/ Delivering(t) \/ Walking(t) \/ Sending(t) \/ Cancelling(t) \/ Closing(t)
    <3>1. ctl'[c].session = ctl[c].session /\ ctl'[c].lease = ctl[c].lease
      BY <2>6 DEF Building, Delivering, Walking, Sending, Cancelling, Closing, SameFields
    <3> QED
      BY <1>3, <3>1 DEF Named
  <2> QED
    BY <2>1, <2>2, <2>3, <2>4, <2>5, <2>6 DEF CallStep
<1>4. CASE \E u \in Threads : /\ Of(u) = c /\ At(u, "adopt")'
                              /\ thread'[u].generation = g /\ ctl'[c].lease = l
  <2>1. PICK u \in Threads : /\ Of(u) = c /\ At(u, "adopt")'
                             /\ thread'[u].generation = g /\ ctl'[c].lease = l
    BY <1>4
  <2>2. CASE u # t
    <3>1. Of(u) # Of(t) /\ thread'[u] = thread[u]
      BY <2>2, OneThread DEF Frame
    <3>2. ctl'[c] = ctl[c]
      BY <2>1, <3>1 DEF Frame
    <3> QED
      BY <2>1, <3>1, <3>2 DEF Named, At
  <2>3. CASE u = t
    <3>1. /\ ctl' = ctl /\ StatusAllowsPublish(c)
          /\ thread'[t].generation = ctl[c].latest.generation
      BY <2>1, <2>3 DEF CallStep, Entering, Building, Delivering, Walking, Leasing, Adopting,
           Cancelling, Publishing, Sending, Clearing, Closing, From, At
    <3> QED
      BY <2>1, <2>3, <3>1, PublishNamed
  <2> QED
    BY <2>2, <2>3
<1> QED
  BY <1>2, <1>3, <1>4 DEF Named

\* Nor does hearing of one.
LEMMA ListeningNamed ==
  ASSUME robot' = robot, thread' = thread, \A s \in AllStatuses' : s \in AllStatuses,
         \A c \in Controllers : ctl'[c].lease = ctl[c].lease /\ ctl'[c].session = ctl[c].session
  PROVE  \A c \in Controllers, l, g \in RP!Generations : Named(l, g, c)' => Named(l, g, c)
  BY DEF Named, Runs, At

\* The robot names the session it runs.
LEMMA WorkingNamed ==
  ASSUME TypeInv, Working
  PROVE  \A c \in Controllers, l, g \in RP!Generations : Named(l, g, c)' => Named(l, g, c)
<1>1. /\ ctl' = ctl /\ thread' = thread
      /\ published' \in {published, StatusOf(robot')}
      /\ RP!External(robot') => SameLease(robot', robot)
  BY DEF Working, clientVars, Quiet, Freed
<1>2. \A c, l, g : Runs(c, l, g)' => Runs(c, l, g)
  BY <1>1 DEF Runs, SameLease
<1>3. \A s \in AllStatuses' : s \in AllStatuses \/ s = StatusOf(robot')
  BY <1>1 DEF AllStatuses
<1>4. ASSUME NEW s, s = StatusOf(robot'), ExternalStatus(s)
      PROVE  Runs(s.client, s.lease, s.generation)
  <2>1. /\ RP!External(robot') /\ robot'.client = s.client
        /\ robot'.lease = s.lease /\ robot'.generation = s.generation
    BY <1>4 DEF StatusOf, ExternalStatus, RP!External
  <2> QED
    BY <1>1, <2>1 DEF Runs, SameLease
<1>5. ASSUME NEW s \in AllStatuses', ExternalStatus(s)
      PROVE  s \in AllStatuses \/ Runs(s.client, s.lease, s.generation)
  BY <1>3, <1>4, <1>5
<1> QED
  BY <1>1, <1>2, <1>5 DEF Named, At

\* A COMMIT gives its lease a new session.
Begins(r, w, a, l, g, c) ==
  /\ Committing(robot', w, r, a) /\ ~RP!External(robot)
  /\ c = w.client /\ l = w.lease /\ l = robot.lease /\ g = robot.issued + 1
LEMMA AnsweringNamed ==
  ASSUME TypeInv, NEW r, NEW w, NEW a, Answering(r, w, a)
  PROVE  \A c \in Controllers, l, g \in RP!Generations :
            Named(l, g, c)' => Named(l, g, c) \/ Begins(r, w, a, l, g, c)
<1>1. /\ AllStatuses' = AllStatuses /\ ctl' = ctl /\ thread' = thread
      /\ Quiet(w, robot) /\ RequestStep(robot', w, r, a)
  BY DEF Answering, clientVars, AllStatuses
<1>2. ASSUME NEW c \in Controllers, NEW l, NEW g, Runs(c, l, g)'
      PROVE  Runs(c, l, g) \/ Begins(r, w, a, l, g, c)
  <2>1. CASE Committing(robot', w, r, a)
    <3>1. w.client = c /\ w.lease = l /\ g = w.issued + 1 /\ c # NoId /\ ~RP!External(w)
      BY <1>2, <2>1, RequestFields DEF Runs, Committing
    <3>2. SameLease(w, robot)
      BY <1>1, <3>1 DEF Quiet, Freed
    <3> QED
      BY <2>1, <3>1, <3>2 DEF Begins, SameLease
  <2>2. CASE ~Committing(robot', w, r, a)
    <3>1. robot' = w /\ RP!External(w)
      BY <1>1, <1>2, <2>2 DEF RequestStep, Preparing, Releasing, Freed, Runs
    <3>2. SameLease(w, robot)
      BY <1>1, <3>1 DEF Quiet, Freed
    <3> QED
      BY <1>2, <3>1, <3>2 DEF Runs, SameLease
  <2> QED
    BY <2>1, <2>2
<1> QED
  BY <1>1, <1>2 DEF Named, At

\* The robot and its numbers: a session it has named goes on, or is over for good.
LEMMA NamedKept ==
  ASSUME TypeInv', NEW l \in RP!Generations, l # 0, robot.lease = l => RP!External(robot),
         Quiet(robot', robot)
  PROVE  robot'.lease = l => RP!External(robot')
<1>1. RP!GoodState(robot)'
  BY DEF TypeInv
<1> QED
  BY <1>1 DEF Quiet, SameLease, Freed, RP!GoodState, RP!OwnershipConsistent

LEMMA NamedAnswered ==
  ASSUME TypeInv, TypeInv', NEW r, NEW w, NEW a, Answering(r, w, a),
         NEW l \in RP!Generations, l # 0, l <= robot.issued,
         robot.lease = l => RP!External(robot)
  PROVE  robot'.lease = l => RP!External(robot')
<1>1. /\ RP!GoodState(robot') /\ RP!GoodState(w) /\ robot.issued \in Nat
      /\ Quiet(w, robot) /\ RequestStep(robot', w, r, a)
  BY AnsweringBelongs DEF TypeInv, Answering, Quiet
<1>2. w.issued = robot.issued /\ l \in Nat
  BY <1>1 DEF Quiet, SameLease, Freed, RP!Generations
<1>3. w.lease = l => RP!External(w)
  BY <1>1 DEF Quiet, SameLease, Freed, RP!GoodState, RP!OwnershipConsistent
<1> QED
  BY <1>1, <1>2, <1>3
  DEF RequestStep, Preparing, Committing, Releasing, Freed, RP!GoodState, RP!OwnershipConsistent

\* A step that names no new session.
LEMMA SameNames ==
  ASSUME TypeInv, TypeInv', SessionsNamed, SessionsDiffer, Quiet(robot', robot),
         \A c \in Controllers, l, g \in RP!Generations : Named(l, g, c)' => Named(l, g, c),
         \A m \in CommandsOut' : \/ m \in CommandsOut
                                 \/ /\ m.client \in Controllers
                                    /\ \E n \in RP!Generations :
                                         Named(n, m.key.session, m.client)
  PROVE  SessionsNamed' /\ SessionsDiffer'
<1>1. SessionsDiffer'
  BY DEF SessionsDiffer
<1>2. robot'.issued = robot.issued
  BY DEF Quiet, SameLease, Freed
<1>3. ASSUME NEW c \in Controllers, NEW l \in RP!Generations, NEW g \in RP!Generations,
             Named(l, g, c)
      PROVE  /\ 0 < l /\ l < g /\ g <= robot'.issued
             /\ robot'.lease = l => RP!External(robot')
             /\ \A m \in CommandsOut' : m.key.session = g => m.client = c
  <2>1. /\ 0 < l /\ l < g /\ g <= robot.issued
        /\ robot.lease = l => RP!External(robot)
        /\ \A m \in CommandsOut : m.key.session = g => m.client = c
    BY <1>3 DEF SessionsNamed
  <2>2. l # 0
    BY <2>1 DEF RP!Generations
  <2>3. ASSUME NEW m \in CommandsOut', m.key.session = g PROVE m.client = c
    <3>1. CASE m \in CommandsOut
      BY <2>1, <2>3, <3>1
    <3>2. CASE /\ m.client \in Controllers
               /\ \E n \in RP!Generations : Named(n, m.key.session, m.client)
      BY <1>3, <2>3, <3>2 DEF SessionsDiffer
    <3> QED
      BY <2>3, <3>1, <3>2
  <2> QED
    BY <1>2, <2>1, <2>2, <2>3, NamedKept
<1>4. SessionsNamed'
  BY <1>3 DEF SessionsNamed
<1> QED
  BY <1>1, <1>4

\* A COMMIT names one that no status, command or controller can have named.
LEMMA AnsweringNames ==
  ASSUME TypeInv, TypeInv', OwnersInv, SessionsNamed, SessionsDiffer,
         NEW r, NEW w, NEW a, Answering(r, w, a)
  PROVE  SessionsNamed' /\ SessionsDiffer'
<1>1. /\ CommandsOut' = CommandsOut
      /\ robot.issued \in Nat /\ robot'.issued \in Nat /\ robot'.issued >= robot.issued
  BY AnsweringBelongs DEF Answering, clientVars, CommandsOut, Carried
<1>2. \A m \in CommandsOut : m.key.session <= robot.issued /\ m.key.session \in Nat
  BY StatusFields DEF OwnersInv, CommandIsOwners, Belongs, CommandMessage, RP!Keys, RP!Generations
<1>3. RP!Generations \subseteq Nat
  BY DEF RP!Generations
<1>4. ASSUME NEW c \in Controllers, NEW l \in RP!Generations, NEW g \in RP!Generations,
             Begins(r, w, a, l, g, c)
      PROVE  /\ 0 < l /\ l < g /\ g = robot'.issued /\ g = robot.issued + 1
             /\ RP!External(robot') /\ ~RP!External(robot) /\ l = robot.lease
  <2>1. RP!GoodState(robot) /\ RP!GoodState(robot') /\ w.issued = robot.issued
    BY DEF TypeInv, Answering, Quiet, SameLease, Freed
  <2>2. l <= robot.issued /\ g = robot'.issued /\ RP!External(robot') /\ l = robot'.lease
    BY <1>4, <2>1 DEF Begins, Committing, RP!GoodState, RP!OwnershipConsistent
  <2>3. l # 0
    BY <2>1, <2>2 DEF RP!GoodState, RP!OwnershipConsistent, RP!External
  <2> QED
    BY <1>1, <1>3, <1>4, <2>2, <2>3 DEF Begins
<1>5. ASSUME NEW c \in Controllers, NEW l \in RP!Generations, NEW g \in RP!Generations,
             Named(l, g, c)
      PROVE  /\ 0 < l /\ l < g /\ g <= robot.issued /\ l # 0 /\ l <= robot.issued
             /\ robot.lease = l => RP!External(robot)
             /\ \A m \in CommandsOut : m.key.session = g => m.client = c
  BY <1>1, <1>3, <1>5 DEF SessionsNamed
<1>6. ASSUME NEW c \in Controllers, NEW l \in RP!Generations, NEW g \in RP!Generations,
             Named(l, g, c)'
      PROVE  /\ 0 < l /\ l < g /\ g <= robot'.issued
             /\ robot'.lease = l => RP!External(robot')
             /\ \A m \in CommandsOut : m.key.session = g => m.client = c
  <2>1. CASE Named(l, g, c)
    <3>1. g <= robot'.issued
      BY <1>1, <1>3, <1>5, <2>1
    <3> QED
      BY <1>5, <2>1, <3>1, NamedAnswered
  <2>2. CASE Begins(r, w, a, l, g, c)
    BY <1>1, <1>2, <1>4, <2>2
  <2> QED
    BY <1>6, <2>1, <2>2, AnsweringNamed
<1>7. ASSUME NEW c \in Controllers, NEW l \in RP!Generations, NEW g \in RP!Generations,
             NEW d \in Controllers, NEW n \in RP!Generations, NEW h \in RP!Generations,
             Named(l, g, c)', Named(n, h, d)'
      PROVE  (l = n => g = h) /\ (g = h => c = d)
  <2>1. /\ Named(l, g, c) \/ Begins(r, w, a, l, g, c)
        /\ Named(n, h, d) \/ Begins(r, w, a, n, h, d)
    BY <1>7, AnsweringNamed
  <2>2. CASE Named(l, g, c) /\ Named(n, h, d)
    BY <2>2 DEF SessionsDiffer
  <2>3. CASE Begins(r, w, a, l, g, c) /\ Begins(r, w, a, n, h, d)
    BY <2>3 DEF Begins
  <2>4. CASE Named(l, g, c) /\ Begins(r, w, a, n, h, d)
    BY <1>1, <1>3, <1>4, <1>5, <2>4
  <2>5. CASE Begins(r, w, a, l, g, c) /\ Named(n, h, d)
    BY <1>1, <1>3, <1>4, <1>5, <2>5
  <2> QED
    BY <2>1, <2>2, <2>3, <2>4, <2>5
<1>8. SessionsNamed'
  BY <1>1, <1>6 DEF SessionsNamed
<1>9. SessionsDiffer'
  BY <1>7 DEF SessionsDiffer
<1> QED
  BY <1>8, <1>9

\* The robot accepts a command of its session, or the count starts again.
LEMMA AcceptedStep ==
  ASSUME TypeInv, [Next]_vars, RP!External(robot')
  PROVE  \/ robot'.accepted = 0
         \/ robot'.accepted = robot.accepted /\ SameLease(robot', robot)
         \/ /\ SameLease(robot', robot)
            /\ \E m \in CommandsOut : /\ m.key.session = robot.generation
                                      /\ robot'.accepted = m.key.sequence
<1> DEFINE w == RP!Watchdog(robot)
<1>1. RP!GoodState(robot) /\ Quiet(w, robot) /\ RP!GoodState(w) /\ w \in RP!ProtocolState
  BY WatchdogQuiet DEF TypeInv, Quiet, RP!GoodState
<1>2. RP!External(w) => w.accepted = robot.accepted /\ SameLease(w, robot)
  <2>1. RP!External(w) => w.accepted = robot.accepted
    BY <1>1, RP!WatchdogCases, RP!ClearFields, RP!HoldFields DEF RP!GoodState, RP!Empty, RP!External
  <2> QED
    BY <1>1, <2>1 DEF Quiet, Freed
<1>3. CASE ReceiveRequest
  <2>1. Answering(Head(requests), w, RP!ReplyTo(w, Head(requests)))
    BY <1>3, ReceiveRequestStep
  <2>2. robot' = RP!AfterRequest(w, Head(requests)) /\ Head(requests) \in RP!Request
    BY <1>3, <2>1, SameWatchdog, SameRequestControl DEF ReceiveRequest, Answering
  <2>3. CASE RP!Commits(w, Head(requests))
    <3>1. robot' = RP!Committed(w) /\ RP!CanIssue(w) /\ ~RP!External(w)
      BY <2>2, <2>3 DEF RP!AfterRequest, RP!Prepares, RP!Commits, RP!Cancels, RP!External
    <3>2. w.accepted = 0
      BY <1>1, <3>1 DEF RP!GoodState
    <3> QED
      BY <1>1, <3>1, <3>2, RP!CommittedFields
  <2>4. CASE ~RP!Commits(w, Head(requests))
    <3>1. robot' = w
      BY <1>1, <2>2, <2>4, RP!PreparedFields, RP!ClearFields
      DEF RP!AfterRequest, RP!Prepares, RP!Empty, RP!External
    <3> QED
      BY <1>2, <3>1
  <2> QED
    BY <2>3, <2>4
<1>4. CASE ReceiveCommand
  <2>1. commands # <<>> /\ robot' = RP!AfterCommand(w, Head(commands))
    BY <1>4, SameWatchdog, SameCommands DEF ReceiveCommand
  <2>2. Head(commands) \in CommandMessage /\ Head(commands) \in CommandsOut
    <3>1. commands \in Seq(CommandMessage)
      BY DEF TypeInv
    <3> QED
      BY <2>1, <3>1, HeadOf DEF CommandsOut
  <2> HIDE DEF w
  <2>3. PICK cmd \in RP!Command : /\ cmd.key = Head(commands).key
                                  /\ RP!AfterCommand(w, Head(commands)) = RP!AfterCommand(w, cmd)
    BY <2>2, CommandAlone
  <2>4. CASE RP!Admits(w, cmd)
    <3>1. robot' = RP!Admitted(w, cmd) /\ RP!External(w) /\ cmd.key.session = w.generation
      BY <2>1, <2>3, <2>4 DEF RP!AfterCommand, RP!Admits
    <3>2. SameLease(robot', w) /\ robot'.accepted = cmd.key.sequence
      BY <1>1, <3>1, RP!AdmittedFields DEF SameLease, RP!External
    <3> QED
      BY <1>2, <2>2, <2>3, <3>1, <3>2 DEF SameLease
  <2>5. CASE ~RP!Admits(w, cmd)
    <3>1. robot' = RP!Rejected(w)
      BY <2>1, <2>3, <2>5 DEF RP!AfterCommand
    <3>2. SameLease(robot', w) /\ robot'.accepted = w.accepted
      BY <1>1, <3>1, RP!RejectedFields DEF SameLease, RP!SameSession, RP!External
    <3> QED
      BY <1>2, <3>2 DEF SameLease
  <2> QED
    BY <2>4, <2>5
<1>5. CASE PublishStatus
  <2>1. robot' = w
    BY <1>5, SameWatchdog DEF PublishStatus
  <2> QED
    BY <1>2, <2>1
<1>6. CASE TimePasses
  <2>1. robot' = [robot EXCEPT !.age = @ + 1] /\ robot \in RP!ProtocolState
    BY <1>1, <1>6 DEF TimePasses, RP!GoodState
  <2> QED
    BY <2>1, RP!AgedFields DEF SameLease, RP!SameSession, RP!External
<1>7. CASE robot' = robot
  BY <1>7 DEF SameLease
<1>8. robot' = robot \/ RobotNext
  BY DEF Next, vars
<1> QED
  BY <1>3, <1>4, <1>5, <1>6, <1>7, <1>8 DEF RobotNext

\* What the commands' numbers are compared with.
LEMMA KeyTypes ==
  ASSUME TypeInv, OwnersInv
  PROVE  /\ \A m \in CommandsOut : /\ m.client \in Controllers
                                   /\ m.key.session \in RP!Generations \ {0}
                                   /\ m.key.session \in Nat /\ m.key.sequence \in Nat
                                   /\ m.key.session <= robot.issued
         /\ \A c \in Controllers : ctl[c].next \in Nat /\ ctl[c].session \in RP!Generations
         /\ \A g \in RP!Generations : g \in Nat
         /\ \A t \in Threads : thread[t].generation \in RP!Generations
         /\ robot.accepted \in Nat /\ robot.generation \in RP!Generations
         /\ RP!External(robot) => robot.generation # 0
<1>1. \A m \in CommandsOut : m \in CommandMessage /\ Belongs(m.key.session, m.client)
  BY StatusFields DEF OwnersInv, CommandIsOwners
<1>2. \A c \in Controllers : ctl[c].next \in Nat /\ ctl[c].session \in RP!Generations
  BY DEF TypeInv, Fields
<1>3. \A t \in Threads : thread[t].generation \in RP!Generations
  BY DEF TypeInv, Locals
<1>4. /\ robot.accepted \in Nat /\ robot.generation \in RP!Generations
      /\ RP!External(robot) => robot.generation # 0
  <2>1. RP!GoodState(robot)
    BY DEF TypeInv
  <2> QED
    BY <2>1, Numbers DEF RP!GoodState, RP!ProtocolState, RP!OwnershipConsistent
<1>5. \A g \in RP!Generations : g \in Nat
  BY DEF RP!Generations
<1>6. \A k \in RP!Keys : k.session \in RP!Generations /\ k.sequence \in Nat
  BY DEF RP!Keys, RP!Sequences
<1> QED
  BY <1>1, <1>2, <1>3, <1>4, <1>5, <1>6 DEF CommandMessage, Belongs

\* A step that numbers nothing.
LEMMA SameKeys ==
  ASSUME TypeInv, OwnersInv, KeysBehind,
         \A m \in CommandsOut' : m \in CommandsOut,
         \A c \in Controllers : ctl'[c].session = ctl[c].session /\ ctl'[c].next = ctl[c].next,
         \A c \in Controllers, l \in RP!Generations \ {0} :
            Knows(c, l)' => Knows(c, l) \/ l > robot.issued
  PROVE  KeysBehind'
<1>1. SUFFICES ASSUME NEW m \in CommandsOut PROVE KeyIsBehind(m)'
  BY DEF KeysBehind
<1>2. m.client \in Controllers /\ m.key.session \in Nat /\ m.key.session <= robot.issued
  BY KeyTypes
<1>3. KeyIsBehind(m)
  BY DEF KeysBehind
<1>4. ASSUME NEW l \in RP!Generations \ {0}, Knows(m.client, l)',
             Knows(m.client, l) => m.key.session < l
      PROVE  m.key.session < l
  <2>1. l \in Nat /\ robot.issued \in Nat
    BY Numbers DEF TypeInv, RP!Generations
  <2> QED
    BY <1>2, <1>4, <2>1
<1> QED
  BY <1>2, <1>3, <1>4 DEF KeyIsBehind

\* A thread's session and numbers while it enters, and when it has entered.
LEMMA CallNumbers ==
  ASSUME OneRole, TypeInv, OwnersInv, PlacesAgree, KeysInv, NEW t \in Threads, Frame(t), CallStep(t)
  PROVE  NumbersStart'
<1> DEFINE c == Of(t)
<1>1. /\ c \in Controllers /\ ThreadAgrees(t)
      /\ \A d \in Controllers \ {c} : ctl'[d] = ctl[d]
      /\ \A u \in Threads \ {t} : thread'[u] = thread[u] /\ Of(u) # c /\ Of(u) \in Controllers
  BY ThreadTypes, OneThread DEF PlacesAgree, Frame
<1>2. ctl'[c].next > 0
  <2>1. CASE Publishing(t)
    <3>1. ctl'[c].next = NextKey(c).sequence + 1 /\ NextKey(c).sequence \in Nat
      BY <2>1 DEF Publishing, RP!Keys, RP!Sequences
    <3> HIDE DEF c
    <3> QED
      BY <3>1
  <2>2. CASE ~Publishing(t)
    <3>1. ctl'[c].next \in {1, ctl[c].next}
      BY <2>2 DEF CallStep, Entering, Building, Delivering, Walking, Leasing, Adopting,
           Cancelling, Sending, Clearing, Closing, SameFields
    <3> QED
      BY <1>1, <3>1 DEF KeysInv, NumbersStart
  <2> QED
    BY <2>1, <2>2
<1>3. thread'[t].pc \in PreparePlaces \cup CommitPlaces => ctl'[c].session = 0
  <2>1. CASE Entering(t)
    BY <2>1 DEF Entering
  <2>2. CASE Adopting(t) \/ Publishing(t) \/ Clearing(t) \/ Sending(t) \/ Cancelling(t) \/ Closing(t)
    BY <2>2 DEF Adopting, Publishing, Clearing, Sending, Cancelling, Closing, From, At,
         PreparePlaces, CommitPlaces
  <2>3. CASE Building(t) \/ Delivering(t) \/ Walking(t) \/ Leasing(t)
    <3>1. ctl'[c].session = ctl[c].session
      BY <2>3 DEF Building, Delivering, Walking, Leasing
    <3>2. thread'[t].pc \in PreparePlaces \cup CommitPlaces
            => thread[t].pc \in PreparePlaces \cup CommitPlaces
      BY <2>3 DEF Building, Delivering, Walking, Leasing, From, At, PreparePlaces, CommitPlaces
    <3> QED
      BY <3>1, <3>2 DEF KeysInv, NumbersStart
  <2> QED
    BY <2>1, <2>2, <2>3 DEF CallStep
<1> QED
  BY <1>1, <1>2, <1>3 DEF KeysInv, NumbersStart

\* The key of a command is the controller's next in the session its statuses name.
LEMMA PublishingKey ==
  ASSUME TypeInv, KeysInv, NEW c \in Controllers, StatusAllowsPublish(c)
  PROVE  LET g == ctl[c].latest.generation IN
         /\ NextKey(c).session = g /\ ctl[c].lease < g
         /\ \/ ctl[c].session = g /\ NextKey(c).sequence = ctl[c].next
            \/ ctl[c].session = 0 /\ g # 0 /\ NextKey(c).sequence = 1
<1> DEFINE g == ctl[c].latest.generation
           l == ctl[c].lease
<1>1. Named(l, g, c) /\ g \in RP!Generations /\ l \in RP!Generations
  BY PublishNamed
<1>2. l < g /\ 0 < l
  BY <1>1 DEF KeysInv, SessionsNamed
<1>3. g # 0
  BY <1>1, <1>2 DEF RP!Generations
<1>4. ctl[c].session # 0 => ctl[c].session = g
  <2>1. SUFFICES ASSUME ctl[c].session # 0 PROVE ctl[c].session = g
    OBVIOUS
  <2>2. Named(l, ctl[c].session, c) /\ ctl[c].session \in RP!Generations
    BY <2>1 DEF Named, TypeInv, Fields
  <2> QED
    BY <1>1, <2>2 DEF KeysInv, SessionsDiffer
<1> QED
  BY <1>2, <1>3, <1>4 DEF NextKey

\* A session begins after every command its client has on its way.
LEMMA AdoptingKey ==
  ASSUME TypeInv, OwnersInv, PlacesAgree, KeysInv, NEW t \in Threads, Adopting(t)
  PROVE  /\ ctl[Of(t)].session = 0 /\ ctl[Of(t)].lease < thread[t].generation
         /\ ctl[Of(t)].lease \in RP!Generations \ {0} /\ Knows(Of(t), ctl[Of(t)].lease)
<1>1. /\ Of(t) \in Controllers /\ ThreadAgrees(t) /\ At(t, "adopt")
      /\ thread[t].pc \in CommitPlaces
  BY ThreadTypes DEF PlacesAgree, Adopting, From, At, CommitPlaces
<1>2. ctl[Of(t)].session = 0 /\ ctl[Of(t)].lease # 0 /\ ctl[Of(t)].request # 0
  BY <1>1 DEF KeysInv, NumbersStart, ThreadAgrees
<1>3. /\ Named(ctl[Of(t)].lease, thread[t].generation, Of(t))
      /\ ctl[Of(t)].lease \in RP!Generations /\ thread[t].generation \in RP!Generations
  BY <1>1, KeyTypes, LeaseTypes DEF Named
<1>4. ctl[Of(t)].lease < thread[t].generation
  BY <1>1, <1>3 DEF KeysInv, SessionsNamed
<1> QED
  BY <1>2, <1>3, <1>4 DEF Knows

LEMMA CallKeys ==
  ASSUME OneRole, TypeInv, OwnersInv, PlacesAgree, RequestsInv, KeysInv,
         NEW t \in Threads, Frame(t), CallStep(t)
  PROVE  KeysBehind'
<1> DEFINE c == Of(t)
           k == ctl[Of(t)]
           k2 == ctl'[Of(t)]
<1>1. /\ c \in Controllers /\ OneLifecycle
      /\ \A d \in Controllers \ {c} : ctl'[d] = ctl[d]
  BY ThreadTypes, OneThread DEF Frame
<1>2. SUFFICES ASSUME NEW m \in CommandsOut' PROVE KeyIsBehind(m)'
  BY DEF KeysBehind
<1>3. m \in CommandsOut \/ (Publishing(t) /\ m = thread'[t].message)
  BY <1>2, CallCommands, CallAtSend
<1>4. CASE m \in CommandsOut /\ m.client # c
  <2>1. m.client \in Controllers /\ KeyIsBehind(m)
    BY <1>4, KeyTypes DEF KeysInv, KeysBehind
  <2>2. \A l : Knows(m.client, l)' <=> Knows(m.client, l)
    BY <1>4, <2>1, OthersKnow
  <2> QED
    BY <1>1, <1>4, <2>1, <2>2 DEF KeyIsBehind
<1>5. CASE m \in CommandsOut /\ m.client = c
  <2>1. /\ KeyIsBehind(m) /\ m.key.session # 0 /\ m.key.session \in Nat
        /\ m.key.sequence \in Nat /\ k.next \in Nat
        /\ \A g \in RP!Generations : g \in Nat
    BY <1>1, <1>5, KeyTypes DEF KeysInv, KeysBehind
  <2>2. CASE Entering(t) \/ Clearing(t)
    <3>1. k2.session = 0 /\ \A l \in RP!Generations \ {0} : ~Knows(c, l)'
      BY <1>1, <2>2, ForgetKnows DEF Entering, Clearing
    <3> QED
      BY <1>5, <2>1, <3>1 DEF KeyIsBehind
  <2>3. \/ Entering(t) \/ Clearing(t)
        \/ \A l : Knows(c, l)' => Knows(c, l)
    BY <1>1, CallKnows
  <2>4. CASE Adopting(t)
    <3>1. /\ k.session = 0 /\ k.lease < thread[t].generation
          /\ k.lease \in RP!Generations \ {0} /\ Knows(c, k.lease)
          /\ k2.session = thread[t].generation
          /\ ~Entering(t) /\ ~Clearing(t) /\ thread[t].generation \in Nat
      BY <2>1, <2>4, AdoptingKey, KeyTypes DEF Adopting, Entering, Clearing, From, At
    <3>2. m.key.session < k.lease
      BY <1>5, <2>1, <3>1 DEF KeyIsBehind
    <3>3. m.key.session # k2.session
      <4> HIDE DEF c, k, k2
      <4> QED
        BY <2>1, <3>1, <3>2
    <3> QED
      BY <1>5, <2>1, <2>3, <3>1, <3>3 DEF KeyIsBehind
  <2>5. CASE Publishing(t)
    <3>1. /\ k2.session = NextKey(c).session /\ k2.next = NextKey(c).sequence + 1
          /\ StatusAllowsPublish(c) /\ ~Entering(t) /\ ~Clearing(t)
      BY <2>5 DEF Publishing, Entering, Clearing, From, At
    <3>2. /\ k.lease < k2.session
          /\ \/ k2.session = k.session /\ k2.next = k.next + 1
             \/ k.session = 0 /\ k2.session # 0
      BY <1>1, <3>1, PublishingKey
    <3>3. /\ Knows(c, k.lease) /\ k.lease \in RP!Generations \ {0} /\ k2.session \in Nat
      BY <1>1, <2>1, <3>1, PublishNamed, PublishingKey
    <3>4. CASE k2.session = k.session /\ k2.next = k.next + 1
      <4>1. m.key.session = k.session => m.key.sequence < k2.next
        <5>1. m.key.session = k.session => m.key.sequence < k.next
          BY <1>5, <2>1 DEF KeyIsBehind
        <5> HIDE DEF c, k, k2
        <5> QED
          BY <2>1, <3>4, <5>1
      <4> QED
        BY <1>5, <2>1, <2>3, <3>1, <3>4, <4>1 DEF KeyIsBehind
    <3>5. CASE k.session = 0
      <4>1. m.key.session < k.lease
        BY <1>5, <2>1, <3>3, <3>5 DEF KeyIsBehind
      <4>2. m.key.session # k2.session
        <5> HIDE DEF c, k, k2
        <5> QED
          BY <2>1, <3>2, <3>3, <4>1
      <4> QED
        BY <1>5, <2>1, <2>3, <3>1, <3>5, <4>2 DEF KeyIsBehind
    <3> QED
      BY <3>2, <3>4, <3>5
  <2>6. CASE /\ ~Entering(t) /\ ~Clearing(t) /\ ~Adopting(t) /\ ~Publishing(t)
    <3>1. k2.session = k.session /\ k2.next = k.next
      BY <2>6 DEF CallStep, Building, Delivering, Walking, Leasing, Cancelling, Sending,
           Closing, SameFields
    <3> QED
      BY <1>5, <2>1, <2>3, <2>6, <3>1 DEF KeyIsBehind
  <2> QED
    BY <2>2, <2>4, <2>5, <2>6
<1>6. CASE Publishing(t) /\ m = thread'[t].message
  <2>1. /\ m = [key |-> NextKey(c), wellFormed |-> TRUE, client |-> c]
        /\ k2.session = NextKey(c).session /\ k2.next = NextKey(c).sequence + 1
        /\ NextKey(c).sequence \in Nat
    BY <1>6 DEF Publishing, RP!Keys, RP!Sequences
  <2>2. m.client = c /\ m.key.session = k2.session /\ m.key.sequence < k2.next
    <3>1. PICK n \in Nat : n = NextKey(c).sequence
      BY <2>1
    <3>2. n < n + 1
      BY <3>1
    <3>3. m.key = NextKey(c) /\ m.client = c
      BY <2>1
    <3> QED
      BY <2>1, <3>1, <3>2, <3>3
  <2> QED
    BY <2>2 DEF KeyIsBehind
<1> QED
  BY <1>3, <1>4, <1>5, <1>6

\* While the robot does nothing.
LEMMA CallAccepted ==
  ASSUME OneRole, TypeInv, OwnersInv, PlacesAgree, RequestsInv, KeysInv,
         NEW t \in Threads, Frame(t), CallStep(t), robot' = robot
  PROVE  AcceptedBehind'
<1> DEFINE c == Of(t)
           k == ctl[Of(t)]
           k2 == ctl'[Of(t)]
<1>1. /\ c \in Controllers /\ OneLifecycle
      /\ \A d \in Controllers \ {c} : ctl'[d] = ctl[d]
  BY ThreadTypes, OneThread DEF Frame
<1>2. SUFFICES ASSUME RP!External(robot), robot.client = c
               PROVE  /\ robot.generation = k2.session => robot.accepted < k2.next
                      /\ robot.generation # k2.session => robot.accepted = 0
  BY <1>1 DEF KeysInv, AcceptedBehind
<1>3. /\ robot.generation = k.session => robot.accepted < k.next
      /\ robot.generation # k.session => robot.accepted = 0
      /\ robot.generation # 0 /\ robot.accepted \in Nat /\ k.next \in Nat
  BY <1>1, <1>2, KeyTypes DEF KeysInv, AcceptedBehind
<1>4. ~Entering(t) /\ ~Clearing(t)
  BY <1>1, <1>2, ForgetKnows
<1>5. CASE Adopting(t)
  <2>1. k.session = 0 /\ k2.next = 1
    BY <1>5, AdoptingKey DEF Adopting
  <2> QED
    BY <1>3, <2>1
<1>6. CASE Publishing(t)
  <2>1. /\ k2.session = NextKey(c).session /\ k2.next = NextKey(c).sequence + 1
        /\ StatusAllowsPublish(c)
    BY <1>6 DEF Publishing
  <2>2. \/ k2.session = k.session /\ k2.next = k.next + 1
        \/ k.session = 0 /\ k2.next = 1 + 1
    BY <1>1, <2>1, PublishingKey
  <2> HIDE DEF c, k, k2
  <2> QED
    BY <1>3, <2>2
<1>7. CASE ~Adopting(t) /\ ~Publishing(t)
  <2>1. k2.session = k.session /\ k2.next = k.next
    BY <1>4, <1>7 DEF CallStep, Building, Delivering, Walking, Leasing, Cancelling, Sending,
         Closing, SameFields
  <2> QED
    BY <1>3, <2>1
<1> QED
  BY <1>5, <1>6, <1>7

\* What the robot accepts is a command of its owner, which numbered it.
LEMMA RobotAccepted ==
  ASSUME TypeInv, OwnersInv, PlacesAgree, LeasesInv, KeysInv, [Next]_vars, ctl' = ctl
  PROVE  AcceptedBehind'
<1> SUFFICES ASSUME NEW c \in Controllers, RP!External(robot'), robot'.client = c
             PROVE  /\ robot'.generation = ctl[c].session => robot'.accepted < ctl[c].next
                    /\ robot'.generation # ctl[c].session => robot'.accepted = 0
  BY DEF AcceptedBehind
<1>1. ctl[c].next \in Nat /\ ctl[c].next > 0
  BY KeyTypes DEF KeysInv, NumbersStart
<1>2. CASE robot'.accepted = 0
  BY <1>1, <1>2
<1>3. CASE robot'.accepted = robot.accepted /\ SameLease(robot', robot)
  BY <1>3 DEF SameLease, KeysInv, AcceptedBehind
<1>4. CASE /\ SameLease(robot', robot)
           /\ \E m \in CommandsOut : /\ m.key.session = robot.generation
                                     /\ robot'.accepted = m.key.sequence
  <2>1. PICK m \in CommandsOut : /\ m.key.session = robot.generation
                                 /\ robot'.accepted = m.key.sequence
    BY <1>4
  <2>2. /\ RP!External(robot) /\ robot.client = c /\ robot'.generation = robot.generation
    BY <1>4 DEF SameLease
  <2>3. m.client = c /\ KeyIsBehind(m) /\ m.key.session \in Nat
    BY <2>1, <2>2, KeyTypes DEF OwnersInv, CommandIsOwners, Belongs, KeysInv, KeysBehind
  <2>4. CASE m.key.session = ctl[c].session
    BY <2>1, <2>2, <2>3, <2>4 DEF KeyIsBehind
  <2>5. CASE m.key.session # ctl[c].session
    <3>1. /\ ctl[c].lease \in RP!Generations \ {0} /\ Knows(c, ctl[c].lease)
      BY <2>2, LeaseTypes DEF LeasesInv, OwnersTookLease, PlacesAgree, FieldsAgree, Knows
    <3>2. robot.lease = ctl[c].lease
      BY <2>2, <3>1 DEF LeasesInv, KnownLeases, LeaseIsKnown
    <3>3. robot.lease < robot.generation
      BY <2>2 DEF TypeInv, RP!GoodState, RP!OwnershipConsistent
    <3>4. m.key.session < ctl[c].lease
      BY <2>3, <2>5, <3>1 DEF KeyIsBehind
    <3>5. ctl[c].lease \in Nat
      BY <3>1, KeyTypes
    <3> QED
      BY <2>1, <2>3, <3>2, <3>3, <3>4, <3>5
  <2> QED
    BY <2>4, <2>5
<1> QED
  BY <1>2, <1>3, <1>4, AcceptedStep

\* A lease a controller is told of is newer than every session so far.
LEMMA AnsweringLearns ==
  ASSUME TypeInv, RequestsInv, NEW r, NEW w, NEW a, Answering(r, w, a),
         NEW c \in Controllers, NEW l \in RP!Generations \ {0}, Knows(c, l)'
  PROVE  Knows(c, l) \/ l > robot.issued
<1>1. /\ requests \in Seq(RP!Request) /\ requests # <<>> /\ r = Head(requests)
      /\ ctl' = ctl /\ thread' = thread
      /\ Quiet(w, robot) /\ RequestStep(robot', w, r, a)
      /\ acks[c] \in Seq(RP!Ack) /\ a \in RP!Ack
      /\ robot.issued \in Nat /\ w.issued = robot.issued
  BY Numbers DEF TypeInv, Answering, clientVars, RequestStep, Quiet, SameLease, Freed
<1>2. SUFFICES ASSUME ~Knows(c, l) PROVE l > robot.issued
  OBVIOUS
<1>3. PICK b \in AcksOf(c)' : Grants(c, b) /\ b.lease = l /\ b \notin AcksOf(c)
  BY <1>1, <1>2 DEF Knows, Grants, At
<1>4. b \in Range(acks'[c]) /\ b \notin Range(acks[c])
  BY <1>1, <1>3 DEF AcksOf
<1>5. acks'[c] = Append(acks[c], a) /\ c = r.client
  BY <1>4 DEF Answering
<1>6. b = a
  BY <1>1, <1>4, <1>5, RangeAppend
<1>7. /\ r.operation = "PREPARE" /\ r.request = ctl[c].request
      /\ robot'.client = c /\ robot'.lease = l
  BY <1>1, <1>3, <1>5, <1>6 DEF Grants, RequestStep, Answers
<1>8. robot.client # c
  <2>1. r \in Range(requests)
    BY <1>1, HeadOf
  <2> QED
    BY <1>5, <1>7, <2>1 DEF RequestsInv, RequestIsKnown
<1>9. robot' # w
  BY <1>1, <1>7, <1>8, RequestFields DEF Quiet, SameLease, Freed
<1>10. Preparing(robot', w, r, a)
  BY <1>1, <1>7, <1>9 DEF RequestStep, Committing, Releasing
<1> QED
  BY <1>1, <1>7, <1>10 DEF Preparing

LEMMA WorkingCommands ==
  ASSUME TypeInv, Working
  PROVE  \A m \in CommandsOut' : m \in CommandsOut
<1>1. commands \in Seq(CommandMessage)
  BY DEF TypeInv
<1>2. \A m \in Range(commands') : m \in Range(commands)
  BY <1>1, HeadOf DEF Working
<1> QED
  BY <1>2 DEF Working, clientVars, CommandsOut, Carried

LEMMA StepKeys ==
  OneRole /\ SessionInv /\ KeysInv /\ [Next]_vars => KeysInv'
<1> SUFFICES ASSUME OneRole, SessionInv, KeysInv, [Next]_vars PROVE KeysInv'
  OBVIOUS
<1>0. /\ TypeInv /\ TypeInv' /\ OwnersInv /\ PlacesAgree /\ RequestsInv /\ LeasesInv
      /\ SessionsNamed /\ SessionsDiffer /\ KeysBehind /\ NumbersStart
      /\ SessionStep
  BY StepType, AllSteps DEF SessionInv, KeysInv
<1>1. robot' = robot => Quiet(robot', robot)
  BY <1>0 DEF TypeInv, Quiet, SameLease
<1>2. ASSUME NEW t \in Threads, Frame(t), CallStep(t), robot' = robot
      PROVE  KeysInv'
  <2>1. \A c \in Controllers, l, g \in RP!Generations : Named(l, g, c)' => Named(l, g, c)
    BY <1>0, <1>2, CallNamed
  <2>2. ASSUME NEW m \in CommandsOut', m \notin CommandsOut
        PROVE  /\ m.client \in Controllers
               /\ \E n \in RP!Generations : Named(n, m.key.session, m.client)
    <3>1. Publishing(t) /\ m = thread'[t].message /\ Of(t) \in Controllers
      BY <1>0, <1>2, <2>2, CallCommands, CallAtSend, ThreadTypes
    <3>2. /\ m = [key |-> NextKey(Of(t)), wellFormed |-> TRUE, client |-> Of(t)]
          /\ StatusAllowsPublish(Of(t))
      BY <3>1 DEF Publishing
    <3>3. m.client = Of(t) /\ m.key.session = ctl[Of(t)].latest.generation
      BY <1>0, <3>1, <3>2, PublishingKey
    <3>4. /\ Named(ctl[Of(t)].lease, ctl[Of(t)].latest.generation, Of(t))
          /\ ctl[Of(t)].lease \in RP!Generations
      BY <1>0, <3>1, <3>2, PublishNamed
    <3> QED
      BY <3>1, <3>3, <3>4
  <2>3. SessionsNamed' /\ SessionsDiffer'
    BY <1>0, <1>1, <1>2, <2>1, <2>2, SameNames
  <2>4. KeysBehind' /\ AcceptedBehind' /\ NumbersStart'
    BY <1>0, <1>2, CallKeys, CallAccepted, CallNumbers
  <2> QED
    BY <2>3, <2>4 DEF KeysInv
<1>3. ASSUME robot' = robot, thread' = thread, commands' = commands,
             \A s \in AllStatuses' : s \in AllStatuses,
             \A c \in Controllers : /\ ctl'[c].lease = ctl[c].lease
                                    /\ ctl'[c].request = ctl[c].request
                                    /\ ctl'[c].session = ctl[c].session
                                    /\ ctl'[c].next = ctl[c].next
                                    /\ \A a \in AcksOf(c)' : a \in AcksOf(c)
      PROVE  KeysInv'
  <2>1. CommandsOut' = CommandsOut
    BY <1>3 DEF CommandsOut, Carried
  <2>2. \A c \in Controllers, l \in RP!Generations \ {0} : Knows(c, l)' => Knows(c, l)
    BY <1>3 DEF Knows, Grants, At
  <2>3. \A c \in Controllers, l, g \in RP!Generations : Named(l, g, c)' => Named(l, g, c)
    BY <1>3, ListeningNamed
  <2>4. SessionsNamed' /\ SessionsDiffer'
    BY <1>0, <1>1, <1>3, <2>1, <2>3, SameNames
  <2>5. KeysBehind'
    BY <1>0, <1>3, <2>1, <2>2, SameKeys
  <2>6. AcceptedBehind' /\ NumbersStart'
    BY <1>0, <1>3, ThreadTypes DEF KeysInv, AcceptedBehind, NumbersStart
  <2> QED
    BY <2>4, <2>5, <2>6 DEF KeysInv
<1>4. ASSUME NEW c \in Controllers, Hearing(c), robot' = robot
      PROVE  KeysInv'
  <2>1. \A d \in Controllers : \A a \in AcksOf(d)' : a \in AcksOf(d)
    BY <1>0, <1>4, HearingAcks
  <2>2. /\ thread' = thread /\ commands' = commands /\ published' = published
        /\ \A d \in Controllers : /\ ctl'[d].lease = ctl[d].lease
                                  /\ ctl'[d].request = ctl[d].request
                                  /\ ctl'[d].session = ctl[d].session
                                  /\ ctl'[d].next = ctl[d].next
                                  /\ ctl'[d].latest = ctl[d].latest
    BY <1>4 DEF Hearing
  <2>3. AllStatuses' = AllStatuses
    BY <2>2 DEF AllStatuses
  <2> QED
    BY <1>3, <1>4, <2>1, <2>2, <2>3
<1>5. ASSUME NEW c \in Controllers, Seeing(c), robot' = robot
      PROVE  KeysInv'
  <2>1. /\ thread' = thread /\ commands' = commands /\ published' = published /\ acks' = acks
        /\ \A d \in Controllers : /\ ctl'[d].lease = ctl[d].lease
                                  /\ ctl'[d].request = ctl[d].request
                                  /\ ctl'[d].session = ctl[d].session
                                  /\ ctl'[d].next = ctl[d].next
                                  /\ ctl'[d].acks = ctl[d].acks
                                  /\ ctl'[d].latest \in {ctl[d].latest, published}
    BY <1>5 DEF Seeing, topics
  <2>2. \A s \in AllStatuses' : s \in AllStatuses
    BY <2>1 DEF AllStatuses
  <2>3. \A d \in Controllers : \A a \in AcksOf(d)' : a \in AcksOf(d)
    BY <2>1 DEF AcksOf
  <2> QED
    BY <1>3, <1>5, <2>1, <2>2, <2>3
<1>6. CASE Idling
  <2>1. UNCHANGED <<ctl, thread, commands, acks, published, robot>>
    BY <1>6 DEF Idling, vars, clientVars, topics
  <2>2. AllStatuses' = AllStatuses /\ \A c \in Controllers : AcksOf(c)' = AcksOf(c)
    BY <2>1 DEF AllStatuses, AcksOf
  <2> QED
    BY <1>3, <2>1, <2>2
<1>7. ASSUME NEW r, NEW w, NEW a, Answering(r, w, a)
      PROVE  KeysInv'
  <2>1. /\ ctl' = ctl /\ thread' = thread /\ commands' = commands /\ CommandsOut' = CommandsOut
    BY <1>7 DEF Answering, clientVars, CommandsOut, Carried
  <2>2. SessionsNamed' /\ SessionsDiffer'
    BY <1>0, <1>7, AnsweringNames
  <2>3. ASSUME NEW c \in Controllers, NEW l \in RP!Generations \ {0}, Knows(c, l)'
        PROVE  Knows(c, l) \/ l > robot.issued
    BY <1>0, <1>7, <2>3, AnsweringLearns
  <2>4. KeysBehind'
    BY <1>0, <2>1, <2>3, SameKeys
  <2>5. AcceptedBehind'
    BY <1>0, <2>1, RobotAccepted
  <2>6. NumbersStart'
    BY <1>0, <2>1 DEF NumbersStart
  <2> QED
    BY <2>2, <2>4, <2>5, <2>6 DEF KeysInv
<1>8. CASE Working
  <2>1. /\ ctl' = ctl /\ thread' = thread /\ acks' = acks /\ Quiet(robot', robot)
    BY <1>8 DEF Working, clientVars
  <2>2. \A m \in CommandsOut' : m \in CommandsOut
    BY <1>0, <1>8, WorkingCommands
  <2>3. \A c, l : Knows(c, l)' <=> Knows(c, l)
    BY <2>1 DEF Knows, Grants, AcksOf, At
  <2>4. \A c \in Controllers, l, g \in RP!Generations : Named(l, g, c)' => Named(l, g, c)
    BY <1>0, <1>8, WorkingNamed
  <2>5. SessionsNamed' /\ SessionsDiffer'
    BY <1>0, <2>1, <2>2, <2>4, SameNames
  <2>6. KeysBehind'
    BY <1>0, <2>1, <2>2, <2>3, SameKeys
  <2>7. AcceptedBehind' /\ NumbersStart'
    BY <1>0, <2>1, RobotAccepted DEF NumbersStart
  <2> QED
    BY <2>5, <2>6, <2>7 DEF KeysInv
<1> QED
  BY <1>0, <1>2, <1>4, <1>5, <1>6, <1>7, <1>8 DEF SessionStep

LEMMA InitKeys == Init => KeysInv
<1> SUFFICES ASSUME Init PROVE KeysInv
  OBVIOUS
<1>1. /\ \A c \in Controllers : ctl[c].session = 0 /\ ctl[c].next = 1
      /\ \A t \in Threads : thread[t].pc = "ready"
      /\ commands = <<>> /\ ~RP!External(robot)
  BY SameValues DEF Init, ClientInit, RP!Fresh, Opened, Resting, RP!External
<1>2. \A s \in AllStatuses : ~ExternalStatus(s)
  BY DEF Init, ClientInit, AllStatuses, Opened, NoStatus, ExternalStatus
<1>3. CommandsOut = {}
  <2>1. Range(commands) = {}
    BY <1>1 DEF Range
  <2> QED
    BY <1>1, <2>1 DEF CommandsOut, Carried
<1>4. \A c \in Controllers, l, g \in RP!Generations : ~Named(l, g, c)
  BY <1>1, <1>2 DEF Named, Runs, At
<1>5. SessionsNamed /\ SessionsDiffer /\ KeysBehind
  BY <1>3, <1>4 DEF SessionsNamed, SessionsDiffer, KeysBehind
<1>6. AcceptedBehind /\ NumbersStart
  BY <1>1 DEF AcceptedBehind, NumbersStart, PreparePlaces, CommitPlaces
<1> QED
  BY <1>5, <1>6 DEF KeysInv

\* The key publish gives a command is new: its number is larger than that of every
\* command of the session on its way or accepted.  The controller must be used by one
\* thread: a thread that publishes while another ends enter_external gets a key that the
\* next publish gets again (controller.py:196-206, 254-281; run session_duplicate).
THEOREM KeysAreNew == ASSUME OneRole PROVE Spec => []NextKeyIsUnused
<1>1. Init => SessionInv /\ KeysInv
  BY InitType, InitOwners, InitPlacesRequests, InitLeases, InitKeys DEF SessionInv
<1>2. SessionInv /\ KeysInv /\ [Next]_vars => (SessionInv /\ KeysInv)'
  BY OneThread, StepType, StepOwners, StepPlaces, StepRequests, StepLeases, StepKeys
  DEF SessionInv
<1>3. SessionInv /\ KeysInv => NextKeyIsUnused
  <2> SUFFICES ASSUME SessionInv, KeysInv, NEW c \in Controllers, StatusAllowsPublish(c)
               PROVE  /\ \A m \in CommandsOut : m.key.session = NextKey(c).session
                                               => m.key.sequence < NextKey(c).sequence
                      /\ robot.generation = NextKey(c).session
                           => robot.accepted < NextKey(c).sequence
    BY DEF NextKeyIsUnused
  <2> DEFINE k == ctl[c]
             g == k.latest.generation
             n == NextKey(c).sequence
  <2>1. TypeInv /\ OwnersInv
    BY DEF SessionInv
  <2>2. /\ NextKey(c).session = g /\ k.lease < g
        /\ \/ k.session = g /\ n = k.next
           \/ k.session = 0 /\ g # 0 /\ n = 1
    BY <2>1, PublishingKey
  <2>3. /\ Named(k.lease, g, c) /\ g \in RP!Generations /\ g \in Nat /\ k.lease \in Nat
        /\ k.lease \in RP!Generations \ {0} /\ Knows(c, k.lease)
    BY <2>1, PublishNamed, KeyTypes
  <2>4. /\ k.next \in Nat /\ k.next > 0 /\ robot.accepted \in Nat
    BY <2>1, KeyTypes DEF KeysInv, NumbersStart
  <2>5. ASSUME NEW m \in CommandsOut, m.key.session = g PROVE m.key.sequence < n
    <3>1. m.client = c /\ m.key.session # 0
      BY <2>1, <2>3, <2>5, KeyTypes DEF KeysInv, SessionsNamed
    <3>2. KeyIsBehind(m)
      BY DEF KeysInv, KeysBehind
    <3>3. k.session = g
      <4>1. k.session # g => g < k.lease
        BY <2>3, <2>5, <3>1, <3>2 DEF KeyIsBehind
      <4> HIDE DEF k, g
      <4> QED
        BY <2>2, <2>3, <4>1
    <3>4. m.key.sequence < k.next
      BY <2>5, <3>1, <3>2, <3>3 DEF KeyIsBehind
    <3>5. n = k.next
      BY <2>2, <2>5, <3>1, <3>3
    <3> QED
      BY <3>4, <3>5
  <2>6. ASSUME robot.generation = g PROVE robot.accepted < n
    <3>1. CASE RP!External(robot)
      <4>1. robot.client = c
        BY <2>1, <2>3, <2>6, <3>1, StatusFields
        DEF OwnersInv, StatusIsTrue, Belongs, StatusAllowsPublish
      <4>2. /\ robot.generation = k.session => robot.accepted < k.next
            /\ robot.generation # k.session => robot.accepted = 0
        BY <3>1, <4>1 DEF KeysInv, AcceptedBehind
      <4> HIDE DEF k, g, n
      <4> QED
        BY <2>2, <2>6, <4>2
    <3>2. CASE ~RP!External(robot)
      <4>1. robot.accepted = 0
        BY <2>1, <3>2 DEF TypeInv, RP!GoodState
      <4> HIDE DEF k, g, n
      <4> QED
        BY <2>2, <2>4, <4>1
    <3> QED
      BY <3>1, <3>2
  <2> HIDE DEF g, n
  <2> QED
    BY <2>2, <2>5, <2>6 DEF n
<1> QED
  BY <1>1, <1>2, <1>3, PTL DEF Spec
=============================================================================
