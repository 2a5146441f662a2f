# Humanoid SDK: a TLA+ verification project

This directory holds TLA+ models of the humanoid SDK (Python client library
`python/locomotion_aorta/`, robot stand-in `tools/production_topic_mock/`), TLC
configurations that check them on small instances, and proofs checked by TLAPS.
`PROJECT.json` is the machine-readable index: components, runs, mutants (a fault
for every checked property, which must break it), the map from every definition
to source lines, findings, hazards and theorems.

## 1. The system

The SDK drives the upper or whole body of a humanoid robot over the Aorta
publish/subscribe library. A client **leases** the robot (`PREPARE`), starts a
**command session** (`COMMIT`), streams numbered `BodyCmd`s, and gives the robot
back (`CANCEL`). The robot answers requests with ACKs, publishes a versioned
`ControlStatus` and a `BodyState` that names the last command it applied.

```
  client process                          topics                 robot process
  ExternalController  --- request --->  control/request  --->  Context / Protocol
   lifecycle thread   <---- ACK ------  control/ack      <---   ReceiveRequest
   publishing threads <--- status ----  control/status   <---   main loop (status)
   callback thread    --- BodyCmd --->  body_cmd         --->   ReceiveCommand
                      <-- BodyState --  body_state       <---   main loop (apply, state)
  PullController      (the same topics, polled instead of called back)
  JoyReader           <--- Joy -------  joystick publishers
  Hand/GripperClient  <-- info, state - end effectors
   users, callbacks   --- command --->
  capture, log        ---> evidence files
  example programs    use all of these
```

### Components

| Component (source) | State | Operations | Hard behaviour | What makes it correct |
|---|---|---|---|---|
| Robot protocol (`protocol.cpp/.h`) | owner (client, request, lease), phase, session number, admitted sequence, pending command, applied key, counters, two time stamps | `RequestControl`, `Accept`, `Tick`, `CheckWatchdog` | requests repeated, stale or from others in any order; watchdog runs first in every call; hold and resume; uint64 limits | one owner; numbers never reused; a RUNNING lease ends only by its owner; nothing of an old session is applied; evidence is current, by the mock's own rule; every visible change has a new `status_seq` |
| Mock endpoint (`mock.cpp`) | `Context` under a mutex: the protocol, pending tick, counters; the loop's place, `endpoint_rc` | three callbacks, loop with apply/state/status branches, close, verdict | callbacks between the loop's locked blocks; publish outside the lock; copy-publish-commit of a request; failures while shutting down | no lease without a published ACK; counters add up; evidence never contradicts a newer status of the mock; exit code 0 only if nothing failed; commands are applied |
| External controller (`controller.py`) | active request, lease, session, next sequence, `_cancel_sent`, ACKs, newest status, closed | `enter_external`, `publish`, `exit_external`, `close`, `_on_ack`, `_on_status`, `wait_body_state`, `get_robot_info` | several threads between `with self._condition` blocks; stale status; timeouts; lost messages; publish that raises; best-effort cancel | the session it believes in is granted; a key names one call; an owned robot is never forgotten; a cancel releases |
| Transport (`transport.py`) | node, publishers, subscriptions | `publish`, subscribe, service call, `close` | a publish may raise or be lost | (I/O; modelled as what the client sees) |
| Joystick stream (`joy.py`) | last buttons and source, last number per source, counts since the last read | `read` (drain), `_accept`, `close` | lost, late, duplicated, malformed, unidentified frames; eviction; restart; a drain that raises | counted edges and gaps happened; `event_history_complete` is to be believed |
| Pull wrappers (`pull.py`) | the newest frame and its two decoded views, one lock per topic | `wait_state`, `wait_native_body_state`, `poll_control_status`, `PullController.publish` and its waits, `close` | a lock held while waiting for a frame and while callbacks run; polls outside the controller's lock; two views of one frame | no call goes back in time; a status that had arrived is acted on; every call ends |
| Body state source (`state.py`) | newest snapshot, closed | callback, `snapshot`, `close` | close and news while a thread waits or is about to | never the snapshot the caller has, never one after close; no lost wake-up |
| Hand and gripper clients (`hand.py`, `_gripper_lifecycle.py`, `gripper.py`, `_ee_pull.py`) | info, state, kept error, sequence, publish and poll lock | `publish`, `publish_target`, waits, `set_touch`, feedback callbacks or polls, `close` | info and state of different devices in any order; a sequence consumed before a publish that may fail; `close` against callbacks that publish | all of one device; sequences only grow; nothing after close; no call hangs |
| BrainCo capture (`brainco_capture.py`) | bounded queue, accepting flag, drops, failure | callbacks, loop, drain, verdict; `export_mcap` | full queue, failure during close or drain, callbacks that still come | what is lost is counted; only a whole trace is called complete |
| Log of the WBC program (`Recorder`) | bounded queue, summary slot, counts, error | `write`, `write_summary`, writer thread, `close` | the writer fails with rows queued and one in hand | every submitted row is counted once; the summary tells the file's counts |
| Example programs (`examples/*/*.py`) | place in the program, what is open, timers, session | opening, waiting for rest, frames, cleanup, closing | stop signals, interrupts, errors and lost sessions in every place; delayed loops | rest is measured; no input is commanded on for too long; `CANCEL` and closing on every path |
| WBC policy, codecs, group check, test bench, latency bench, ONNX demo | none or numerical | | | not modelled: see section 7 |

## 2. Modules

| Module | Models | Composes |
|---|---|---|
| `ExternalLease` | abstract specification: what the control contract promises of the lease, with the mock's rule for evidence | |
| `RobotProtocol` | class `Protocol` | implements `ExternalLease` (`LeasePromise`) |
| `RobotProtocolProofs` | theorems about `RobotProtocol` | extends `RobotProtocol`, `TLAPS` |
| `ExternalController` | class `ExternalController`, its threads and callbacks | |
| `ExternalSession` | controllers and robot over the four control topics | `ExternalController` + `RobotProtocol` (`Robot`) |
| `ExternalSessionProofs` | theorems about `ExternalSession` | extends `ExternalSession`, `TLAPS`; `RobotProtocolProofs` (`RP`) |
| `MockEndpoint` | the robot process: callbacks, loop, clock, shutdown | `RobotProtocol` (`Robot`) |
| `MockEndpointProofs` | theorems about `MockEndpoint` | extends `MockEndpoint`, `TLAPS`; `RobotProtocolProofs` (`RP`) |
| `JoyStream` | `JoyReader`, with publishers, network and ring as environment | |
| `JoyStreamProofs` | theorems about `JoyStream` | extends `JoyStream`, `TLAPS` |
| `BodyFeedback` | `PullTransport`, `PullController`, `BodyStateSource` with several threads | |
| `BodyFeedbackProofs` | theorems about `BodyFeedback` | extends `BodyFeedback`, `TLAPS` |
| `EndEffector` | `HandClient`, `GripperClient`, `FeedbackPulls` with users and workers | |
| `EndEffectorProofs` | theorems about `EndEffector` | extends `EndEffector`, `TLAPS` |
| `Recorder` | class `Recorder` of the WBC program | |
| `BraincoCapture` | `capture_live` and `export_mcap` | |
| `MotionPrograms` | the seven programs of `examples/` that move the robot | |
| `MotionProgramsProofs` | theorems about `MotionPrograms` | extends `MotionPrograms`, `TLAPS` |
| `MCClientIO` | `BodyFeedback`, `EndEffector`, `Recorder`, `BraincoCapture`, one at a time | the four |
| `EvidenceProofs` | theorems about `Recorder`, `BraincoCapture` and `MCClientIO` | extends `MCClientIO`, `TLAPS` |
| `MCRobotProtocol`, `MCExternalSession`, `MCJoyStream` | bounds and symmetry for TLC | |

The parts of a client that `MCClientIO` gathers share no state in the code, so a
behaviour of it moves one of them, chosen at the start, while the others rest.
`MotionPrograms` does not compose `ExternalController`: it takes from it what
`enter_external`, `publish` and `exit_external` may come to, and checks what the
programs make of that.

### Correspondence

**`RobotProtocol`.** The object is one record `protocol`, because `mock.cpp`
copies it as a whole. Each method first runs the watchdog (`Watchdog`), then
works on the state `w` that it left: `RequestControl` is `AfterRequest` and
`ReplyTo`, `Accept` is `AfterCommand`, `Tick` is `AfterTick`. The guards of
`Prepares`, `Commits`, `Cancels`, `Repeats`, `Admits` and `Applies` are the
code's conditions in positive form; every other path is a refusal, which leaves
`w`. The two time stamps are one `age`, the time since the stamp that the
watchdog looks at in the current phase. Requests range over all well-formed and
malformed combinations; error codes and reasons are one bit.

**`ExternalController`.** A thread is a place (`pc`) and the locals of the call
it is in. Each `with self._condition` block is one step; each `transport.publish`
and each read made outside the lock is a step of its own. `_wait_for` evaluates
its predicate before its deadline, so a wait succeeds when its condition holds
and may time out only when it does not. A call that raises at once changes
nothing and is not a step. `_best_effort_cancel` is `Cancels` followed by a
`Send...Cancel` step; `_cancel_sent` is set in the first.

**`ExternalSession`.** The robot's `ReceiveRequest`, `ReceiveCommand` and status
branch use the operators of `RobotProtocol`. The topics are sequences (Aorta keeps
order per topic); the status topic keeps its last message, so a subscriber may see
statuses late or skip them. With `Lossy` a published message may vanish, with
`Failing` `transport.publish` may raise.

**`MockEndpoint`.** A block under `ctx.mutex` is one step, a publish outside it
another. Time counts in parts of the apply period: `phase` is the part since the
last point of the wall-clock grid, and the loop's own schedule looks `LoopOffset`
parts after a grid point, since it starts when the process does
(`mock.cpp:358`). `pending_tick_ns` is abstracted to none, waiting or due.

**`JoyStream`.** A `read` is as many steps as it drains frames, since publishers
go on meanwhile. Numbers wrap at `Modulus`, standing for 2^64, and half of it is
the boundary between a gap and a step back. The frames carry, for the properties
only, how often the publisher had pressed and released when it sent them. A publisher
that restarts may go on at the number that comes next, which no reader can notice: `base`
holds the lives of all frames accepted since the last snapshot, and `CompleteIsTrue`
compares counts when they are one. It does not suffice that the first and the last frame
are of one life, since a late frame of the old life may follow one of the new.

**`BodyFeedback`.** A frame is its number and the decoders that understand it;
`pull.latest` is the one received frame of which `pull.arrays` and `pull.native` are
the views decoded so far. A wait takes the topic's lock, receives (or gives up at its
deadline), decodes and stores, a step each; `poll_control_status` runs the
controller's callback while it has the status lock. A `BodyStateSource` is its
snapshot; `notify_all` is `Woken`. `floor`, `late` and `got` of a call are what the
properties compare.

**`EndEffector`.** One module for both makes: they differ in `make` (only hands compare
the two messages and have touch; grippers read info again when they stamp) and in
`mode`, whether workers store feedback and run the user's callback or the caller polls.
`publish` is lock, read or poll, look (checks under `_condition`), reserve (the sequence)
and transmit, with the publish lock held throughout. A device is its type; limits are
those of the info a command was `checked` against.

**`Recorder` and `BraincoCapture`.** Each is a record with the place of its writer;
`accepted`, `taken` and `arrived` are history. Rows and messages are numbered. The disk,
the node and a payload may fail at each use. An export reads one record of the recording
per step and is sound only if its container is.

**`MotionPrograms`.** An opening, and a frame, is a sequence of the places where a
program opens, reads or writes something that others share, in the order of its
source; an action is what happens at such a place. Stop signals, interrupts, errors, lost
sessions and the robot's silence come between any two. `clock` holds ages in ticks:
of the body state, of the time since one, of rest, and of how late a frame is.
What depends on numbers (has the body come to rest, does feedback allow output, is the
stage over) is chosen when it is read. What a program has open is a set. It is closed one by one
against the order of opening, or of `velocity`'s own list (`ClosedNext`), and the transport with its
controller (`ClosedWith`). All programs but `velocity` compare the session with what
`enter_external` returned. `velocity` compares it with what its first `require_running` finds
(`TakeBaseline`, `velocity_mode.py:112`), after two reads of feedback: a hold ends it there,
counters that moved since the entry are absorbed, and a session that is another's by then passes
this check and the later ones (`foreign`) and is noticed only by `publish`, which refuses it.

### Applied evidence: the mock and the robot

The mock withdraws the applied key at once when a session is held, cancelled or expires
(`InvalidateApplied`, `protocol.cpp:209-213`, called at 207 and 221), and says why:
"invalidating evidence of a current command". `README.md:86-91` says of the *robot* that the
association records the last successful send, that pauses, send failures and the time until the
first successful TRACKING send retain it, and that it "is not cleared by the action name". The two
contradict each other in exactly these cases. `AppliedEvidence`, `EvidenceFollowsStatus` and the
`Withhold` and `Free` steps of `ExternalLease` state the mock's rule: they are properties of the
code under `tools/production_topic_mock`, and a client must not take them for the robot's.
What `README.md:86-91` promises is false of the mock: a program tested against it sees the key
vanish at a hold, where the documented robot keeps it, and no key after a `CANCEL`,
where the documented robot shows it until its first TRACKING send.

## 3. Runs

| Run | Instance | What it shows |
|---|---|---|
| `robot` | 2 clients × 2 requests, 2 sequences, timeouts of 2 ticks, 4 leases/sessions, callers stop at `status_seq` 8 | All safety properties of the robot, the refinement of `ExternalLease`, and that a lease is not ARMED and a silent session not RUNNING for ever |
| `session_solo` | 1 controller, 1 thread, 2 requests, lossy and failing | No failure leaves controller and robot disagreeing |
| `session_threads` | 1 controller, lifecycle and publishing thread, 1 request, delivering transport | Concurrent publishing does not disturb the lease; every cancel releases |
| `session_pair` | 2 controllers, 2 requests | No command of a controller that does not own the robot belongs to the running session. No second session follows a first within these bounds: that a *former* owner's commands do not either is the theorem `OwnersCommand` |
| `session_duplicate` | as `session_threads` | **Violation**: one key for two publishes |
| `session_cancel` | 1 controller, lossy | **Violation**: `exit_external` sends no `CANCEL` |
| `mock` | 1 client, period of 2 parts, any publish/reply/free may fail | Counters, evidence, leases and exit code are honest; failures end the process |
| `mock_starved` | period of 3 parts, look 2 parts after the grid, loop that never lags | **Violation**: a steady stream is never applied |
| `joy` | 2 sources, ring of 2, 4 frames, 1 trouble of any kind | Edges, gaps and completeness are true |
| `joy_older` | 1 source, 3 frames, 1 late | **Violation**: an older frame replaces a newer one |
| `client_io` | 2 threads with 2 calls each and 2 frames per topic; 2 users with 2 calls in all, 3 messages of 2 devices; queues of 2 with 4 rows or messages | Feedback goes forward, commands are of one device, in sequence and before close, evidence files are true, and every call ends |
| `programs` | all seven programs; window of 5 ticks, period 2, settling 7, 2 interrupts | Rest is measured before entry, inputs are not repeated, what is lost is not sent on, the end is clean and comes |

The type invariant that a run checks is the robot's; those of `EndEffector` and
`Recorder` are theorems (section 5).

### Bounds, and why they are enough

* *Robot.* Two clients with two requests each contain every relation between the
  owner and a caller that the code can test (same client or not, same request or
  not). Five lease and session numbers allow two whole lease–session pairs and
  then meet the uint64 limit at both `PREPARE` and `COMMIT`; two sequences reach a
  stale, a next and a last command. `MaxStatusSeq` (8) lets a lease be offered,
  lapse, be offered again, committed, held, resumed and cancelled. It bounds the
  callers only: the clock, the watchdog and the apply tick go on. The proofs of
  section 5 do not need these bounds.
* *Session.* `MaxRequests` bounds `enter_external` calls over all controllers; two
  are the least in which an old request meets a new one. Timeouts of one tick
  let every watchdog fire at any moment, as `TimePasses` is free. `session_pair`
  also uses `OneAtATime` (one message per topic on its way to the robot, no close,
  `status_seq` at most 5, and of the two threads at most one is between two
  places where a call waits): it explores two controllers' calls interleaved at
  the waits of the calls, and not two controllers in the middle of a step. With `status_seq`
  at most 5 it ends before a second session could follow the first.
  One thread per controller there; several threads are in `session_threads`.
* *Mock.* One client suffices as the properties relate one process's parts; three
  generations allow one lease and one session and then refuse. `MaxStatusSeq` 6
  allows lease, session, two commands, a hold and a reject. A period of two parts
  has the look on the grid and off it by lagging; `mock_starved` uses three
  parts so that a command fits between the grid point and the look.
* *Joy.* `Depth` 2 with four frames evicts. `Modulus` 12 with a first number of 11
  wraps at the second frame, and gaps of up to three are far from the half (6) that
  separates a gap from a step back, as in the code where it is 2^63
  (`WidthAssumption`: a run of the model is shorter than half the numbers).
  `MaxTroubles` 1 puts one frame or publisher in trouble at any place; evictions,
  failing reads and alternating sources come on top and are not bounded by it.
* *Client parts.* Two threads are the least that can hold one lock each, hand over a
  frame, or publish at once, and the workers of the two topics come on top of the users.
  Two frames per topic are an older and a newer one, three messages let a device change
  after both were known. Sequences run out at 1 or 2. A queue of 2
  with 4 arrivals fills, drops, and goes on after it was drained. Two wanted topics let an
  export find one and miss the other. `EndEffector!Send` sends nothing to a client that
  refuses everything. The theorems of section 5 need none of the bounds of
  `EndEffector`, `Recorder`, `BraincoCapture`, `BodyFeedback` and `MotionPrograms`.
* *Programs.* A window of 5 ticks with a period of 2 lets a frame be on time, late by less
  than a period, and late beyond the window. Settling after 7 takes longer than the window, as in
  the source (`ENDPOINT_SETTLE_S` .5 s, `LOWSTATE_WINDOW_S` .2 s, `external_control.py:26,31`), so
  that feedback may be missing for a whole window while the endpoint settles. Two interrupts are
  one in the run and one in its cleanup. The age of the body state stops growing at the window and
  the times at rest at the longer of window and settling (`Longest`): no comparison in the
  code looks further.

`CHECK_DEADLOCK FALSE` is given where the system may really stop: the mock's
process ends, the joystick's reader is closed, calls and frames are used up, and
programs end.

### Fairness

* `RobotProtocol!Fairness` — weak fairness of `Tick`, `CheckWatchdog` and
  `TimePasses`: the loop of `mock.cpp` (357-400) applies and publishes statuses
  periodically, and the clock runs. No fairness of requests or commands.
* `ExternalSession!Fairness` — a thread that is *inside* a call goes on (every
  wait of `controller.py` has a deadline), the transport calls back, the robot
  reads its topics and its loop runs. Nobody has to start a call. With
  `Lossy = FALSE`: nothing could release a robot whose only `CANCEL` is lost.
* `MockEndpoint!Fairness` — the loop and the clock go on; no signal has to come.
* `BodyFeedback!PullFairness` — a thread that is inside a call takes its next step; a
  `recv` and a `_wait_for` come to their deadline, so the end of such a
  wait is strongly fair. A `snapshot` may wait for ever, and no frame has to come.
* `EndEffector!EndFairness` — threads in a call go on; no message has to come and no
  deadline is assumed to pass, so `ClientCallsEnd` asks nothing of a wait for what is not there.
* `Recorder!RecorderFairness` — the writer thread runs, and the program closes its
  recorder in a `finally` block. `BraincoCapture!CaptureFairness` — the caller runs and
  the duration of the capture passes.
* `MotionPrograms!ProgramFairness` — the program's thread runs, time passes, what waits
  with a deadline gives up at it, and an opening that keeps waiting for something that
  does not come ends by its own timeout. No error, signal or feedback has to come.

## 4. Findings

1. **`session_duplicate`** (`controller.py:201`). `enter_external` reads the owned
   RUNNING status in one locked block and sets `_session_id` and `_next_sequence = 1`
   in a later one. A `publish` of another thread in between sees the same status,
   takes sequence 1, and after the reset the next `publish` returns the key
   `(session, 1)` again; the robot refuses it as stale. `README.md:78` and
   `examples/velocity_mode/README.md:138` say the key identifies a call.
   `session_solo` shows the property holds with one thread, failures included.
2. **`session_cancel`** (`controller.py:437`). `_cancel_sent` makes the one `CANCEL`
   of a request the only one: if it was lost, a second `exit_external` sends
   nothing, waits and times out, and the robot stays EXTERNAL. `README.md:171`
   says `exit_external` sends `CANCEL`.
3. **`mock_starved`** (`mock.cpp:121`). Each accepted command moves
   `pending_tick_ns` to the next grid point. The loop, whose schedule has another
   phase, applies only when that point has passed, so a stream with one command
   between each grid point and the loop's look is accepted and never applied.
   `tools/production_topic_mock/README.md:52` says the latest accepted command is
   applied. `PendingIsTransient` (in `mock`) shows that when the stream pauses
   the command does leave.
4. **`joy_older`** (`joy.py:127`). A frame with an older number is diagnosed and then
   accepted as the new baseline. `examples/velocity_mode/README.md:112` says older
   sequences do not overwrite; line 103 of that page says that a reset establishes
   a new baseline, and the code cannot tell the two apart.

A fifth disagreement needs no run, since the code states its rule: the mock withdraws applied
evidence at once (`protocol.cpp:207,221`), where `README.md:86-91` lets the robot retain it.
See *Applied evidence* in section 2.

## 5. Proofs

### The robot

`RobotProtocolProofs` proves, for every set of clients and requests, every limit,
timeout and scripted rejection (`IdAssumption`: the empty identity is no
identity; `LimitAssumption`: the limits are naturals, the timeouts positive, the
seed between 1 and the limit, the rejected operation an operation or none):

| Theorem | States |
|---|---|
| `TypeCorrect` | `[]TypeOK`: no number passes the limit the code tests it against |
| `OwnershipHolds` | `[]Ownership`: identity, lease and session agree with the phase |
| `PendingHolds` | `[]PendingBelongsToSession` |
| `EvidenceHolds` | `[]AppliedEvidence`, the mock's own rule (section 2) |
| `ImplementsLease` | `LeasePromise`: `Protocol` implements `ExternalLease` |
| `StatusSeqVersions` | `StatusSeqVersionsStatus` |
| `OnlyOwnerEnds` | `OnlyOwnerEndsSession` |
| `IdentitiesFresh` | `FreshIdentities` |
| `AcksAreTrue` | `AckMatchesState` |
| `DeadlinesHold` | `DeadlinesNotExtended` |

**Argument.** No property is inductive alone. `COMMIT` starts a session without
resetting the admitted sequence, so that a pending command or applied key of a
new session is right only because both, and the sequence, were empty while the
lease was ARMED. The invariant `GoodState` is the conjunction of the four state
properties and `~External(p) => p.accepted = 0`. It is stated of a *state*
rather than of the variable, because every method is a composition of operators
on the record. For each operator (`Clear`, `Hold`, `Prepared`, `Committed`,
`Admitted`, `Rejected`, `Applied`, ageing) a `...Fields` lemma says once what it does to
every field, so that nothing later unfolds an EXCEPT; a `...Good` lemma says that it
keeps `GoodState`; `StepGood` puts them together, one step per method.

*Refinement.* `WatchdogRefines`, `RequestRefines`, `CommandRefines` and `TickRefines`
show for each method which step of `ExternalLease` it is. A method call is the
watchdog followed by an operation and yet must be one abstract step: `PREPARE`
over a lapsed offer is one `Offer`, a command that resumes a stream held in the
same call is one `Admit` that also withdraws the evidence.

*Action properties.* `Later` (counters do not go back, new numbers exceed the
old ones, visible changes move `status_seq`) is transitive and holds of each
operator, hence of the watchdog followed by an operation. `OnlyOwnerEnds` uses that
the watchdog never ends a session, so an end is due to the request itself.
`AcksAreTrue` compares the answer with the state of the same call; `DeadlinesHold`
uses that the watchdog leaves a deadline alone unless it ends its phase, and that an
admitted sequence is larger than the one before.

### The robot process

`MockEndpointProofs` proves, for every set of clients and requests, every limit, timeout,
period and offset of the loop, and every choice of what may fail or lag:

| Theorem | States |
|---|---|
| `AlwaysMock` | `[]MockInv`, below |
| `PendingTicks` | `[]PendingHasTick` |
| `CommandsCount` | `[]CommandsAddUp` |
| `LeasesAnnounced` | `[]LeaseWasAnnounced` |
| `EvidenceFollows` | `[]EvidenceFollowsStatus`, the mock's own rule (section 2) |
| `VerdictHonest` | `[]VerdictIsHonest` |
| `MockImplementsLease` | `Robot!LeasePromise`: the process implements `ExternalLease` |

The assumptions are `RobotAssumption`, that the constants the process passes on are ones
`RobotProtocol` accepts, and those of `MockEndpoint` itself.

**Argument.** The lemmas of `RobotProtocolProofs` about the object are instantiated (`RP`)
and used, not proved again. `MockInv` has four parts: types; `RobotAgrees`, that the
object, its pending tick, the counters and the announced leases are consistent;
`TopicsAgree`; and `FaultsAreKnown`. `EvidenceFollowsStatus` needs `TopicsAgree`,
which speaks of the *future*: once a status that is not RUNNING has been copied, the object
that comes after it (`ComesAfter`) can pend, apply or show only keys that are newer than all
the status knew of (`NewerThan`), which is kept by every call of the class (`Follows`) and
passes from the object to the copy and from the copy to the topic. That a number once
issued is never issued again is where it comes from. `MockImplementsLease` maps a
callback that keeps its copy to the method's own step, and one that drops it to none.

### The session

`ExternalSessionProofs` proves, for every set of controllers and of threads, every number of
requests, every limit and timeout, topics that lose messages and publishes that raise:

| Theorem | States |
|---|---|
| `AlwaysTyped` | `[](TypeInv /\ OwnersInv)`, below |
| `OwnersCommand` | `[]CommandsAreOwners` |
| `AlwaysSession` | `OneLifecycle => []SessionInv`, below |
| `OwnedKnown` | `OneLifecycle => []OwnedIsKnown` |
| `SessionGranted` | `OneLifecycle => []SessionIsGranted` |
| `CancelsCarryLease` | `OneLifecycle => []CancelCarriesLease` |
| `KeysAreNew` | `OneRole => []NextKeyIsUnused` |

`OneLifecycle` says that `Lifecycle` has at most one role: one thread of a controller calls
`enter_external`, `exit_external` and `close`, and any number of others publish. The first
two theorems do without it. The others would be false without it (section 7). Every run
satisfies it. `OneRole` says that a controller is used by one thread, which also publishes,
as in the runs `session_solo` and `session_pair`; without it `NextKeyIsUnused` is false, as
`session_duplicate` shows. The remaining assumptions are those of `ExternalController` and
`RobotAssumption`, that the constants passed on are ones `RobotProtocol` accepts.

**Argument.** Every step is first shown to be of one of a few kinds (`SessionStep`), from
`Entering` to `Answering`, each of which says what changes and no more; the invariants are
then kept kind by kind, so that no later proof unfolds an action. The lemmas about the
object come from `RobotProtocolProofs` (`RP`), and `Quiet` and `RequestStep` say what a
call of it can do to owner, lease and session.

* `OwnersInv` holds of every status and of every command, wherever it waits: the session it
  names was given out, and if it runs now its owner is the client named. Numbers are never
  given out again, so what was true of an old status stays true of it.
* `PlacesAgree` relates the place of the lifecycle thread to the fields it has set.
* `RequestsInv` is about order. A `PREPARE` on its way is ahead of all else of its request
  (`PrepareComesFirst`), is the controller's own of now, and its client does not own the
  robot yet. An accepted answer to a `CANCEL` means that the request is `Gone`: it does
  not own the robot, and nothing on its way can make it. This is why `exit_external` may forget it.
* `LeasesInv` follows a lease number through the answer, the thread's local and the
  field (`Knows`). A lease the controller knows is the one it owns the robot by, and no
  `PREPARE` of it is on its way; a status that names a known lease is of a session
  that runs until the controller cancels it (`StatusesTell`), however old the
  status. `SessionIsGranted` is what remains of it once a session is adopted or published in.
* `KeysInv` is about numbers, and holds after a cancel too, when `LeasesInv` says no more
  of a session. Leases and sessions are numbered by one counter: whoever holds that a lease
  has a session (`Named`: a status, the robot, a controller or a thread about to adopt)
  holds that it has the same one, whose number is larger than the lease's
  (`SessionsNamed`, `SessionsDiffer`). So a command on its way (`KeysBehind`) is either of
  its controller's session, below the next number, or of a session older than any lease the
  controller knows of, which is why starting again from 1 repeats no key; and so is
  the last command the robot accepted (`AcceptedBehind`). The thread has no session while
  it enters (`NumbersStart`): a second thread that publishes takes this away.

### End-effector clients

`EndEffectorProofs` proves, for every set of threads and device types, both makes and
modes, every limit and any number of messages and calls (`ThreadAssumption`: users are
not workers; `ShapesAssumption` and `EndBoundAssumption`: the shapes and bounds are
what they are called):

| Theorem | States |
|---|---|
| `EndInvariant` | `[]EndInv`, below |
| `EndTypesHold` | `[]EndTypeOK`: the counter within its limit, the lock held exactly by those who publish |
| `SequencesOnlyGrow` | `[]SequencesGrow` |
| `CloseIsLast` | `NothingAfterClose` |
| `CommandsAreOfOneDevice` | `[]OneDevice` |

**Argument.** `SequencesGrow` speaks of the past; what keeps it true is who may write
next. `EndInv` says that the publish lock is held by a thread exactly when it is between
taking and giving it back (`LockIsHeld`), hence by at most one (`OneHolder`), that every
command already given to the transport is at most at the counter, and that the one on its
way is *at* the counter while all others are strictly behind it (`KeysAreBehind`). A
failing publish gives the lock back without moving the counter back. `close` takes the
same lock before it marks the client closed, so that the lock is free for good
afterwards, and `NothingAfterClose` follows from `LockIsHeld`. For `OneDevice` a second
invariant (`Gathered`) says what a publish holds so far: nothing, or a pair of which each
message was compared with the other when it was stored, at every place between looking
and transmitting.

### Evidence files

`EvidenceProofs` proves, for every capacity, any number of rows and messages and every set
of wanted topics:

| Theorem | States |
|---|---|
| `RecordAccounts` | `RecorderSpec => []RecordIsAccounted` |
| `RecorderTypesHold` | `RecorderSpec => []RecorderTypeOK`: the queue stays within its capacity |
| `TraceIsHonest` | `CaptureSpec => []CaptureIsHonest` |
| `EvidenceIsTrue` | `MCSpec => []EvidenceIsHonest`, as the run `client_io` has it |

**Argument.** Both properties compare the file with what was taken, so that the invariant
has to say where the difference is at each place of the writer. `RecorderInv`: as long as
nothing failed, *accepted = file, then the row in hand, then the queue* (`Filed`),
*submitted = accepted + dropped + summary*, and *written* is one behind the file exactly
between a write and its count; once something failed, the queue is empty and *written +
dropped* make up what was submitted. `Fails` is the lemma in between: whatever place the
writer was in, what is queued or in hand becomes dropped. `CaptureInv` is of the same
shape (`Held`), with `Begins`, that the file is a beginning of what was taken, as what
remains after a failure, also when the end row or its flush fails and buffered rows are lost (`ShorterBegins`).

### Pulled and stored feedback

`BodyFeedbackProofs` proves, for every set of threads, every mix of calls and any number of
frames, decodable by either reader or not:

| Theorem | States |
|---|---|
| `AlwaysInOrder` | `[]AllInv`, below |
| `ForwardOnly` | `[]StatesGoForward` |
| `PublishIsCurrent` | `[]PublishSeesArrived` |

`SubscriptionAssumption` says that a process pulls the body state or has a callback for it
and not both; `PullTransport.subscribe` refuses the other one (`pull.py:50-51`).

**Argument.** That states go forward is a matter of who may show the next one. `ShownInv`:
both decoded views are of the latest frame or empty, and whoever has received a later
frame holds the lock until it has shown or lost it, so that nobody shows another one in
between; what calls counted on (`floor`) and what they returned lies below what is shown.
`LateInv` says that a call begun after `close` is stopped before it receives. For
`PublishSeesArrived`, `HandedInv` says that with the status lock free the controller knows
the newest status received, and `CountedInv` follows the status a `publish` may count
on: it is still in the topic, or received and about to be handed on by the thread that has
the lock, or known, or a frame that nobody understands has replaced it. The newest frame
is `Max` of a set of numbers; that a bounded set of naturals has a greatest element
(`MaxIsGreatest`) is itself proved, from the library's well-founded order of the naturals.

### The joystick

`JoyStreamProofs` proves, for every set of publishers, every depth of the ring, every
modulus and first number, and any loss, doubling, delay, malformation and restart:

| Theorem | States |
|---|---|
| `AlwaysJoy` | `[]JoyInv`, below |
| `EdgesCounted` | `EdgesAreReal` |
| `CompleteBelieved` | `CompleteIsTrue` |
| `MissingCounted` | `[]MissingIsExact` |

The assumptions are that no publisher is `NoSource`, that the first numbers are numbers, and
`WidthAssumption`: fewer than half as many frames are sent as there are numbers (2^63
in the code), since the reader tells older from newer by the distance.

**Argument.** Both properties compare what the reader did with what publishers had done, so
that the invariant has to speak of the frames anywhere between them (`Known`: ring, network
and the accepted ones that are remembered). `FramesInv`: each was sent by its publisher, whose
next frame comes after it, and of two frames of one life the later shows as many presses and
releases and at most one more edge per frame between them (`After`), with numbers
as far apart as the frames, up to one wrap (`Spaced`). `Ahead` is the arithmetic: with
distances below half of the numbers a frame ahead is a later one, and the next
number is the next frame. `LastInv` ties the reader's fields to the last frame accepted,
and `CountsInv` says that while nothing is in doubt the counts are exactly the
publisher's since the last snapshot. The step that matters is `Undoubted`: a frame accepted
without a doubt is of the same publisher, the next of its life if it is of the same life,
and differs from the last one by at most the edge that is counted.

`MissingIsExact` compares one cumulative number with the frames missed over all publishers, a
set (`Missed`). `OrderlyInv` says why the number needs no memory of which they were:
while the stream is orderly the ring holds the frames of each publisher's one life in the order sent
(`OrderInv`; a full ring drops its oldest frames and a doubled frame follows itself, which
keep the order, `PutInOrder`), and the number the reader holds of a source is that of the newest
frame it accepted of it, behind all that are still in the ring (`SeenInv`). So each frame
accepted is ahead of all accepted before, its number by exactly as much as its place
(`DistanceIs`), and the frames passed over are new to `Missed` and as many as the gap
(`MissedAdds`, `SkippedCount`). The other fates and a restart end `orderly`, after which the
number is a lower bound at best and nothing is claimed.

### The programs

`MotionProgramsProofs` proves, for every window, period and settling time and every number of
interrupts:

| Theorem | States |
|---|---|
| `EndsAreClean` | `[]EndIsClean` |
| `ChecksComeFirst` | `[]SendsFollowChecks` |
| `RestIsMeasured` | `[]StillnessIsMeasured` |
| `StatesAreNotWorn` | `[]RepeatsAreBounded` |

`WindowAssumption`: the period is positive and shorter than the window (.02 s and .2 s in the
sources); `SettleAssumption`: the settling time is a natural number, shorter or longer than the
window (.5 s in the source); `InterruptAssumption`: the number of
interrupts is a natural number. Which programs there are, and the places of their frames, are the
model's definitions.

**Argument.** Four inductive invariants over the same types (`Typed`), since the properties are
about different parts of a run.

* `EndInv`. Each step is first shown to be one of twelve `Moves`, which name what it does to the
  session and to what is open and no more, so that errors and interrupts, which may come anywhere,
  are one move each. A session that was begun and not cancelled still has its request in a controller that is open
  (`SessionOutstanding`), so that closing it cancels; a good end has tried to exit and then seen the
  robot leave EXTERNAL (`Promised`), with every gripper target accepted (`AllAccepted`); and a
  program that enters has opened all that it must have (`OpenedInOrder`), its log included.
* `SendInv`. A session that was lost while a policy computed is still lost when it looks at the status
  again, behind which no such frame comes (`LossIsKnown`). For `velocity` this begins with
  `TakeBaseline`, the only step that makes a session with moved counters the expected one; if that
  session is already another's, it stays so (`ForeignIsGone`), every later check passes and `publish`
  ends the program. A policy remembers its preflight
  only until it is reset (`WarmIsErased`); and a leg that is past its reads has seen every
  side enabled (`LegIsEnabled`).
* `RestInv`. Nothing is timed outside the two places that time (`TimedHere`); the time there began
  after the last state that moved, but between the read of such a state and the step that
  takes note of it (`RestIsTimed`, `DwellIsTimed`); and an opening that is past its wait has seen a
  whole window of rest (`RestIsSeen`).
* `RepeatInv`. Each command on a state takes a period, save one that is late: `FitsWindow` says
  that the commands sent on this state, times the period, are less than its age
  and what is still due, with a credit for one late command; `KeepsUp` bounds how far the
  next publish may be behind, `OncePerState` is for the programs that send once.

The last one corrected the model: the bound stated at first, `Window \div Period + 1`, is
met by the code's numbers but is not a consequence of its rules. With a window of 5 and a period of 3
ticks and a frame that is late, TLC finds one command more. What holds for every window is
`(Window - 2) \div Period + 2` (`MostRepeats`); both are 11 for the .2 s and .02 s of the code.

### Only model-checked

Liveness under fairness (`ArmedIsTransient`, `SilenceIsHeld`, `CancelReleases`,
`PendingIsTransient`, `FailureEnds`, `ClientCallsEnd`, `ProgramEnds`), which, like ENABLED,
is beyond the prover. Every other property of the passing runs is stated by a theorem of this
section. The violations of the other runs are counterexamples that TLC finds.

## 6. Plan

Done: the robot and its abstract specification, the controller and the session, the robot
process, the joystick, the pulled and stored feedback, the end-effector clients, log and
captures, and the lifecycles of the programs; proofs of the robot, the robot process, the
session, the end-effector clients, the evidence files, the pulled feedback, the joystick and the
programs.

Next, in this order:

1. The dry-run, shadow, replay and observe modes of the programs; the mock's runner
   (`run.py`) and its child process.
2. The rest of the transport (`transport.py`): `subscribe` and `close` against each other.
3. An abstract specification of a client's feedback, which `BodyFeedback` and `EndEffector`
   both implement.

## 7. Not modelled, and why

* **Numerical code**: the WBC tracking policy (`wbc_tracking_policy.py`,
  `_policy_state.py`) and the ONNX demo are networks over floating-point vectors; the
  examples' trajectories are functions of time, and only their stages are modelled.
* **Codecs** (`_body_codec.py` and its siblings): stateless field-by-field
  FlatBuffers conversions. Models work on decoded messages; a message that does
  not decode is counted and dropped (`mock.cpp`), logged (`controller.py`), kept as an
  error (`hand.py`) or makes a capture fail.
* **Group check** (`_group.py`): a string test at start-up.
* **Process management and measurement** (`run.py`, auxiliary publisher, latency
  bench): spawn, scripted values and statistics over recorded stamps.
* **Of the robot and its process**: joint values and limits (a command is admissible
  or not), error codes and texts, publication rates, adjustments of the wall clock.
* **Robot restart**: statuses are ordered by `stamp_monotonic_ns` and then `status_seq`
  (`controller.py:519-524`), and nothing in them names a boot; what that does over a restart needs
  a robot that restarts and keeps or loses what its own software decides; the code that
  plays the robot here has no restart.
* **A second lifecycle thread.** Calling `enter_external`, `exit_external` or `close`
  concurrently on one controller is outside the models: the clear at
  `controller.py:322` could wipe a newer request, and a `close` could overtake the
  publish of a `CANCEL` already marked as sent (439). The documents promise
  nothing for such use; it is listed as a hazard without a property.
* **Of the clients**: read-only end-effector clients, which only refuse; callbacks of a client
  that polls; a message that does not decode on a client already closed; the decoding of a
  snapshot after it was returned. A call of `wait_state` with timeout 0 waits for the thread that
  has the lock, although `pull.py:86` calls it nonblocking: the model does what the code does.
* **Of the programs**: dry runs, shadow, replay and observe modes, which lease nothing;
  `SIGTERM`, which `external_control` does not handle and which ends it at once; an
  interrupt inside a `close`, or between the parts of a `with` statement, which enters in
  one step. A gripper leg is taken to send at least one target. The two subscriptions of a
  trace are one. `close` of a resource may fail but returns.
