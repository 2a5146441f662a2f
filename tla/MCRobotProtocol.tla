-------------------------- MODULE MCRobotProtocol --------------------------
(* RobotProtocol with its two unbounded counters kept small: callers stop  *)
(* when status_seq reaches MaxStatusSeq.  The clock, the watchdog and the  *)
(* apply tick are not bounded, so fairness of them stays meaningful.       *)
EXTENDS RobotProtocol

CONSTANT MaxStatusSeq

Bounded == protocol.statusSeq < MaxStatusSeq

MCNext == \/ Bounded /\ \E r \in Request : RequestControl(r)
          \/ Bounded /\ \E cmd \in Command : Accept(cmd)
          \/ Tick
          \/ CheckWatchdog
          \/ TimePasses

MCSpec == Init /\ [][MCNext]_vars
MCFairSpec == MCSpec /\ Fairness
=============================================================================
