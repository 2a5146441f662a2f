-------------------------- MODULE ExternalController --------------------------
(***************************************************************************)
(* The client end of the EXTERNAL control contract: class                  *)
(* ExternalController of python/locomotion_aorta/controller.py, as run by  *)
(* the threads of one or more client processes.                            *)
(*                                                                         *)
(* Every `with self._condition` block is one step; so is every transport   *)
(* call and every read made outside the lock.  A thread keeps the locals   *)
(* of the call it is in and the place it has reached; "ready" means no     *)
(* call.  A call that raises at once (closed, no request, no session)      *)
(* changes nothing and is not a step.  A wait may time out only when what  *)
(* it waits for is absent: _wait_for looks before it checks the deadline.  *)
(*                                                                         *)
(* Abstracted: request UUIDs are numbers in the order they are drawn, a    *)
(* status is stamped by its status_seq, and commands are well formed, with *)
(* nothing of their joints but the (session, sequence) key they are given. *)
(***************************************************************************)
EXTENDS Naturals, Sequences, FiniteSets

CONSTANTS
  Controllers,    \* client identities, one controller each
  Roles,          \* the threads that use a controller
  Lifecycle,      \* the roles that call enter_external, exit_external and close
  MaxRequests,    \* bound: enter_external calls, over all controllers
  MaxSequence,    \* _MAX_UINT64 for sequences
  Lossy,          \* a published request or command, and an ACK, may be lost
  Failing         \* transport.publish may raise

ASSUME RolesAssumption == Lifecycle \subseteq Roles
ASSUME BoundAssumption == MaxRequests \in Nat /\ MaxSequence \in Nat
ASSUME FaultAssumption == Lossy \in BOOLEAN /\ Failing \in BOOLEAN

VARIABLES
  ctl,        \* each controller's fields
  thread,     \* each thread's place and locals
  uuids,      \* request identities drawn so far
  requests,   \* topic control/request: messages on their way to the robot
  commands,   \* topic body_cmd: messages on their way to the robot
  acks,       \* topic control/ack, as each controller will receive it
  published   \* topic control/status: the last status published

clientVars == <<ctl, thread, uuids>>
topics == <<requests, commands, acks, published>>

Threads == Controllers \X Roles
Of(t) == t[1]                         \* the controller a thread uses

-----------------------------------------------------------------------------
(* Data *)

NoRequest == 0
NoLease == 0
NoMessage == [operation |-> "NONE"]

\* No status seen yet.
NoStatus == [seq |-> 0, phase |-> "NONE", client |-> "none", lease |-> NoLease,
             generation |-> 0]

\* A controller as __init__ leaves it, and as _clear_session leaves its session.
Opened == [request |-> NoRequest, lease |-> NoLease, session |-> 0, next |-> 1,
           cancelSent |-> FALSE, acks |-> {}, latest |-> NoStatus,
           closed |-> FALSE, detached |-> FALSE]

SessionCleared(k) == [k EXCEPT !.request = NoRequest, !.lease = NoLease, !.session = 0,
                               !.next = 1, !.cancelSent = FALSE]

Resting == [pc |-> "ready", request |-> NoRequest, lease |-> NoLease, before |-> 0,
            generation |-> 0, message |-> NoMessage]

\* current_action is "EXTERNAL" exactly in these phases (protocol.cpp:64-65).
ExternalStatus(s) == s.phase \in {"RUNNING", "TIMEOUT_HOLD"}
Newer(s, seq) == s.seq > seq

-----------------------------------------------------------------------------
(* What the methods look at *)

\* Faults the checks must notice are named Faulty...; nothing uses them.
FaultyControlRequest(c, op) ==
  [operation |-> op, client |-> c, request |-> ctl[c].request,
   lease |-> IF op = "COMMIT" THEN ctl[c].lease ELSE NoLease, wellFormed |-> TRUE]

ControlRequest(c, op) ==
  [operation |-> op, client |-> c, request |-> ctl[c].request, lease |-> ctl[c].lease,
   wellFormed |-> TRUE]

AckFor(c, request, op) ==
  {a \in ctl[c].acks : a.request = request /\ a.operation = op}

FaultyStatusAllowsAnyLease(c) ==
  LET k == ctl[c] IN
  k.request # NoRequest /\ k.lease # NoLease /\ ExternalStatus(k.latest)

StatusAllowsPublish(c) ==
  LET k == ctl[c] IN
  /\ k.request # NoRequest
  /\ k.lease # NoLease
  /\ ExternalStatus(k.latest)
  /\ k.latest.client = c
  /\ k.latest.lease = k.lease

OwnedRunningAfter(c, before) == /\ StatusAllowsPublish(c)
                                /\ Newer(ctl[c].latest, before)
                                /\ ctl[c].latest.phase = "RUNNING"
                                /\ ctl[c].latest.generation # 0

-----------------------------------------------------------------------------
(* Steps of a thread *)

At(t, place) == thread[t].pc = place

\* A call that ends, by returning or raising, leaves no locals behind.
Goto(t, place) ==
  thread' = [thread EXCEPT ![t] = IF place = "ready" THEN Resting
                                  ELSE [@ EXCEPT !.pc = place, !.message = NoMessage]]
Carrying(t, place, message) ==
  thread' = [thread EXCEPT ![t].pc = place, ![t].message = message]

\* transport.publish: the message reaches the topic, is lost, or the call raises.
Outcomes(topic, m) == {Append(topic, m)} \cup IF Lossy THEN {topic} ELSE {}

PublishesRequest(t, then, otherwise) ==
  /\ \/ /\ ~ctl[Of(t)].detached
        /\ requests' \in Outcomes(requests, thread[t].message)
        /\ Goto(t, then)
     \/ /\ ctl[Of(t)].detached \/ Failing
        /\ Goto(t, otherwise)
        /\ UNCHANGED requests
  /\ UNCHANGED <<ctl, uuids, commands, acks, published>>

\* A step that only moves the thread on.
Moves(t, place) == Goto(t, place) /\ UNCHANGED <<ctl, uuids, topics>>

\* A step that builds a message outside the lock, to be published next.
Builds(t, op, then, otherwise) ==
  LET c == Of(t) IN
  /\ IF ctl[c].request = NoRequest
     THEN Goto(t, otherwise)
     ELSE Carrying(t, then, ControlRequest(c, op))
  /\ UNCHANGED <<ctl, uuids, topics>>

\* _best_effort_cancel up to its publish: at most one CANCEL per request.
Cancels(t, then, otherwise) ==
  LET c == Of(t) IN
  /\ IF ctl[c].request = NoRequest \/ ctl[c].cancelSent
     THEN Goto(t, otherwise) /\ UNCHANGED ctl
     ELSE /\ ctl' = [ctl EXCEPT ![c].cancelSent = TRUE]
          /\ Carrying(t, then, ControlRequest(c, "CANCEL"))
  /\ UNCHANGED <<uuids, topics>>

-----------------------------------------------------------------------------
(* enter_external *)

EnterBegin(t) ==
  LET c == Of(t) IN
  /\ At(t, "ready") /\ t[2] \in Lifecycle
  /\ ~ctl[c].closed /\ ctl[c].request = NoRequest
  /\ uuids < MaxRequests
  /\ uuids' = uuids + 1
  /\ ctl' = [ctl EXCEPT ![c] = [SessionCleared(@) EXCEPT !.request = uuids', !.acks = {}]]
  /\ thread' = [thread EXCEPT ![t].pc = "prepare", ![t].request = uuids']
  /\ UNCHANGED topics

BuildPrepare(t) == At(t, "prepare") /\ Builds(t, "PREPARE", "sendPrepare", "fail")

SendPrepare(t) == At(t, "sendPrepare") /\ PublishesRequest(t, "awaitPrepare", "fail")

\* The ACK is there, was refused, or will not come in time.
AwaitPrepare(t) ==
  LET c == Of(t)
      answer == AckFor(c, thread[t].request, "PREPARE")
  IN /\ At(t, "awaitPrepare")
     /\ \/ /\ ~ctl[c].closed
           /\ \E a \in answer : /\ a.accepted /\ a.lease # NoLease
                                /\ thread' = [thread EXCEPT ![t].pc = "lease",
                                                            ![t].lease = a.lease]
        \/ /\ ctl[c].closed \/ answer = {} \/ \E a \in answer : ~a.accepted \/ a.lease = NoLease
           /\ Goto(t, "fail")
     /\ UNCHANGED <<ctl, uuids, topics>>

TakeLease(t) ==
  LET c == Of(t) IN
  /\ At(t, "lease")
  /\ ctl' = [ctl EXCEPT ![c].lease = thread[t].lease]
  /\ thread' = [thread EXCEPT ![t].pc = "commit", ![t].before = ctl[c].latest.seq]
  /\ UNCHANGED <<uuids, topics>>

BuildCommit(t) == At(t, "commit") /\ Builds(t, "COMMIT", "sendCommit", "fail")

SendCommit(t) == At(t, "sendCommit") /\ PublishesRequest(t, "awaitCommit", "fail")

AwaitCommit(t) ==
  LET c == Of(t)
      answer == AckFor(c, thread[t].request, "COMMIT")
      good == {a \in answer : a.accepted /\ a.lease \in {NoLease, ctl[c].lease}}
  IN /\ At(t, "awaitCommit")
     /\ \/ ~ctl[c].closed /\ good # {} /\ Moves(t, "awaitRunning")
        \/ (ctl[c].closed \/ good = {}) /\ Moves(t, "fail")

AwaitRunning(t) ==
  LET c == Of(t)
      owned == ~ctl[c].closed /\ OwnedRunningAfter(c, thread[t].before)
  IN /\ At(t, "awaitRunning")
     /\ thread' = IF owned
                  THEN [thread EXCEPT ![t].pc = "adopt",
                                      ![t].generation = ctl[c].latest.generation]
                  ELSE [thread EXCEPT ![t].pc = "fail"]
     /\ UNCHANGED <<ctl, uuids, topics>>

AdoptSession(t) ==
  /\ At(t, "adopt")
  /\ ctl' = [ctl EXCEPT ![Of(t)].session = thread[t].generation, ![Of(t)].next = 1]
  /\ Goto(t, "ready")
  /\ UNCHANGED <<uuids, topics>>

FaultyFailEnter(t) ==
  LET c == Of(t) IN
  /\ At(t, "fail")
  /\ ctl' = [ctl EXCEPT ![c] = SessionCleared(@)]
  /\ Carrying(t, "sendFail", ControlRequest(c, "CANCEL"))
  /\ UNCHANGED <<uuids, topics>>

\* Any failure cancels, best effort, and raises; the request stays active.
FailEnter(t) == At(t, "fail") /\ Cancels(t, "sendFail", "ready")

FaultySendFailCancel(t) == At(t, "sendFail") /\ Moves(t, "ready")

SendFailCancel(t) == At(t, "sendFail") /\ PublishesRequest(t, "ready", "ready")

Enter(t) == \/ EnterBegin(t) \/ BuildPrepare(t) \/ SendPrepare(t) \/ AwaitPrepare(t)
            \/ TakeLease(t) \/ BuildCommit(t) \/ SendCommit(t) \/ AwaitCommit(t)
            \/ AwaitRunning(t) \/ AdoptSession(t) \/ FailEnter(t) \/ SendFailCancel(t)

-----------------------------------------------------------------------------
(* publish *)

FaultyNextKey(c) ==
  [session |-> ctl[c].latest.generation,
   sequence |-> IF ctl[c].latest.phase = "RUNNING" THEN 1 ELSE ctl[c].next]

\* The session the next command goes to, and its sequence there: a RUNNING status
\* of another generation starts that session's numbering.
NextKey(c) ==
  LET k == ctl[c] IN
  [session |-> k.latest.generation,
   sequence |-> IF k.latest.generation = k.session THEN k.next ELSE 1]

PublishBegin(t) ==
  LET c == Of(t)
      key == NextKey(c)
  IN /\ At(t, "ready")
     /\ ~ctl[c].closed
     /\ StatusAllowsPublish(c)
     /\ \/ ctl[c].latest.phase = "RUNNING" /\ key.session # 0
        \/ ctl[c].latest.phase = "TIMEOUT_HOLD" /\ key.session = ctl[c].session
     /\ key.sequence <= MaxSequence
     /\ ctl' = [ctl EXCEPT ![c].session = key.session, ![c].next = key.sequence + 1]
     /\ Carrying(t, "sendCommand", [key |-> key, wellFormed |-> TRUE, client |-> c])
     /\ UNCHANGED <<uuids, topics>>

SendCommand(t) ==
  /\ At(t, "sendCommand")
  /\ \/ ~ctl[Of(t)].detached /\ commands' \in Outcomes(commands, thread[t].message)
     \/ (ctl[Of(t)].detached \/ Failing) /\ UNCHANGED commands
  /\ Goto(t, "ready")
  /\ UNCHANGED <<ctl, uuids, requests, acks, published>>

-----------------------------------------------------------------------------
(* exit_external *)

ExitBegin(t) ==
  LET c == Of(t) IN
  /\ At(t, "ready") /\ t[2] \in Lifecycle
  /\ ~ctl[c].closed /\ ctl[c].request # NoRequest
  /\ thread' = [thread EXCEPT ![t].pc = "exit", ![t].request = ctl[c].request]
  /\ UNCHANGED <<ctl, uuids, topics>>

ExitCancel(t) == At(t, "exit") /\ Cancels(t, "sendExit", "awaitCancel")

SendExitCancel(t) == At(t, "sendExit") /\ PublishesRequest(t, "awaitCancel", "awaitCancel")

AwaitCancel(t) ==
  LET c == Of(t)
      good == {a \in AckFor(c, thread[t].request, "CANCEL") : a.accepted}
  IN /\ At(t, "awaitCancel")
     /\ \/ ~ctl[c].closed /\ good # {} /\ Moves(t, "awaitIdle")
        \/ (ctl[c].closed \/ good = {}) /\ Moves(t, "ready")

AwaitIdle(t) ==
  LET c == Of(t)
      idle == /\ ~ctl[c].closed
              /\ ~ExternalStatus(ctl[c].latest)
              /\ ctl[c].latest.phase \in {"IDLE", "EMERGENCY"}
  IN
  /\ At(t, "awaitIdle")
  /\ Moves(t, IF idle THEN "clear" ELSE "ready")

ClearSession(t) ==
  /\ At(t, "clear")
  /\ ctl' = [ctl EXCEPT ![Of(t)] = SessionCleared(@)]
  /\ Goto(t, "ready")
  /\ UNCHANGED <<uuids, topics>>

Exit(t) == \/ ExitBegin(t) \/ ExitCancel(t) \/ SendExitCancel(t)
           \/ AwaitCancel(t) \/ AwaitIdle(t) \/ ClearSession(t)

-----------------------------------------------------------------------------
(* close *)

CloseBegin(t) ==
  LET c == Of(t)
      cancels == ctl[c].request # NoRequest /\ ~ctl[c].cancelSent
  IN /\ At(t, "ready") /\ t[2] \in Lifecycle
     /\ ~ctl[c].closed
     /\ ctl' = [ctl EXCEPT ![c].closed = TRUE, ![c].cancelSent = @ \/ cancels]
     /\ IF cancels THEN Carrying(t, "sendClose", ControlRequest(c, "CANCEL"))
                   ELSE Goto(t, "detach")
     /\ UNCHANGED <<uuids, topics>>

SendCloseCancel(t) == At(t, "sendClose") /\ PublishesRequest(t, "detach", "detach")

\* The subscriptions and the transport are closed.
Detach(t) == /\ At(t, "detach")
             /\ ctl' = [ctl EXCEPT ![Of(t)].detached = TRUE]
             /\ Goto(t, "ready")
             /\ UNCHANGED <<uuids, topics>>

Close(t) == CloseBegin(t) \/ SendCloseCancel(t) \/ Detach(t)

-----------------------------------------------------------------------------
(* The transport's callbacks *)

\* _on_ack keeps the first answer to each operation of the active request.
OnAck(c) ==
  LET a == Head(acks[c])
      k == ctl[c]
  IN /\ acks[c] # <<>>
     /\ acks' = [acks EXCEPT ![c] = Tail(@)]
     /\ ctl' = IF /\ ~k.closed /\ a.request = k.request
                  /\ AckFor(c, a.request, a.operation) = {}
               THEN [ctl EXCEPT ![c].acks = @ \cup {a}]
               ELSE ctl
     /\ UNCHANGED <<thread, uuids, requests, commands, published>>

\* _on_status keeps the newest status.
OnStatus(c) ==
  /\ ~ctl[c].closed
  /\ Newer(published, ctl[c].latest.seq)
  /\ ctl' = [ctl EXCEPT ![c].latest = published]
  /\ UNCHANGED <<thread, uuids, topics>>

-----------------------------------------------------------------------------

ClientInit == /\ ctl = [c \in Controllers |-> Opened]
              /\ thread = [t \in Threads |-> Resting]
              /\ uuids = 0

\* A call starts at any time in a thread that is in none.
Call(t) == Enter(t) \/ PublishBegin(t) \/ SendCommand(t) \/ Exit(t) \/ Close(t)

ClientNext == \/ \E t \in Threads : Call(t)
              \/ \E c \in Controllers : OnAck(c) \/ OnStatus(c)
=============================================================================
