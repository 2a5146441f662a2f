--------------------------- MODULE ExternalLease ---------------------------
(***************************************************************************)
(* What the EXTERNAL control contract promises, whatever requests,         *)
(* commands and clock ticks arrive and in whatever order:                  *)
(*   - one holder at a time;                                               *)
(*   - an offer may lapse, a granted lease may not: its holder gives it up;*)
(*   - every lease and every session has a number never used before;       *)
(*   - a session admits commands in increasing order, applies only the     *)
(*     last one admitted, at most once, and may drop it instead;           *)
(*   - the evidence of what was applied names a command of this session.   *)
(* When evidence is withdrawn (Empty, Admit, Withhold) is no promise of    *)
(* the contract but the rule of the mock robot (protocol.cpp:209-213):     *)
(* README.md:86-91 says that the robot retains its association over pauses *)
(* and until TRACKING output was sent.                                     *)
(***************************************************************************)
EXTENDS Naturals

CONSTANTS Clients, RequestIds, NoId, Seed

VARIABLES
  standing,   \* "free", "offered" or "granted"
  holder,     \* <<client, request>>, or Nobody
  lease,      \* number of the lease offered or granted, or 0
  session,    \* number of the command session, or 0
  used,       \* largest number given to a lease or session
  watermark,  \* largest sequence admitted in the session
  live,       \* the command at the watermark may still be applied
  evidence    \* sequence of the command the output shows, or 0

vars == <<standing, holder, lease, session, used, watermark, live, evidence>>

Nobody == <<NoId, NoId>>

Init == /\ standing = "free" /\ holder = Nobody
        /\ lease = 0 /\ session = 0 /\ used = Seed
        /\ watermark = 0 /\ live = FALSE /\ evidence = 0

Empty == /\ watermark' = 0 /\ live' = FALSE /\ evidence' = 0

\* A new holder, possibly in place of one whose offer lapsed.
Offer == /\ standing # "granted"
         /\ standing' = "offered"
         /\ holder' \in Clients \X RequestIds
         /\ lease' > used /\ used' = lease'
         /\ session' = 0
         /\ Empty

Grant == /\ standing = "offered"
         /\ standing' = "granted"
         /\ session' > used /\ used' = session'
         /\ watermark = 0 /\ ~live /\ evidence = 0
         /\ UNCHANGED <<holder, lease, watermark, live, evidence>>

\* The offer lapses, or the holder gives up an offer or a granted lease; the mock
\* withdraws the evidence with it.
Free == /\ standing # "free"
        /\ standing' = "free" /\ holder' = Nobody
        /\ lease' = 0 /\ session' = 0
        /\ Empty
        /\ UNCHANGED used

\* A command is admitted.  The stream may have been held just before, on which the
\* mock withdraws the evidence.
Admit == /\ standing = "granted"
         /\ watermark' > watermark
         /\ live'
         /\ evidence' \in {evidence, 0}
         /\ UNCHANGED <<standing, holder, lease, session, used>>

Apply == /\ standing = "granted"
         /\ live
         /\ ~live'
         /\ evidence' = watermark
         /\ UNCHANGED <<standing, holder, lease, session, used, watermark>>

\* The stream is held: the admitted command is dropped and, by the mock's rule, the
\* evidence withdrawn.
Withhold == /\ standing = "granted"
            /\ ~live' /\ evidence' = 0
            /\ UNCHANGED <<standing, holder, lease, session, used, watermark>>

Next == Offer \/ Grant \/ Free \/ Admit \/ Apply \/ Withhold

Spec == Init /\ [][Next]_vars
=============================================================================
