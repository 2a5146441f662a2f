--------------------------- MODULE MCExternalSession ---------------------------
(* ExternalSession with its numbers kept small by the constants.             *)
EXTENDS ExternalSession, TLC

\* Controllers are interchangeable: nothing compares them but =.
Symmetry == Permutations(Controllers)

\* For two controllers: neither closes, one message at a time is on its way to the
\* robot on each topic, the robot stops being driven at a status_seq that two leases
\* and a session reach, and while one thread is between two places where it waits
\* the other is at rest, waits or is about to commit.
OneAtATime ==
  /\ \A c \in Controllers : ~ctl[c].closed
  /\ Len(requests) <= 1 /\ Len(commands) <= 1
  /\ robot.statusSeq <= 5
  /\ Cardinality({t \in Threads : thread[t].pc \notin
                    {"ready", "awaitPrepare", "commit", "sendCommit", "awaitCommit",
                     "awaitRunning", "awaitCancel", "awaitIdle"}}) <= 1
=============================================================================
