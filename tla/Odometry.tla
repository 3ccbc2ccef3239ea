------------------------------ MODULE Odometry ------------------------------
(***************************************************************************)
(* What the node promises on /odom, whatever its threads do.  The LiDAR    *)
(* side supplies posteriors; every message extrapolates one of them.       *)
(***************************************************************************)
EXTENDS Integers, Sequences

CONSTANTS Horizon,  \* how far a message may run ahead of accepted LiDAR data
          Times     \* sensor times

VARIABLES posteriors,  \* [stamp, accepted] of each posterior, by number
          odom,        \* [stamp, base]: the messages, base a posterior number
          phase        \* "live", "closing" with a message in flight, "closed"

odomVars == <<posteriors, odom, phase>>

OdometryInit == posteriors = <<>> /\ odom = <<>> /\ phase = "live"

\* A posterior is newer than the last one, and the LiDAR data it rests on
\* neither newer than itself nor older than before.
Correct(stamp, acc) ==
  /\ acc <= stamp
  /\ posteriors # <<>> => /\ stamp > posteriors[Len(posteriors)].stamp
                          /\ acc >= posteriors[Len(posteriors)].accepted
  /\ posteriors' = Append(posteriors, [stamp |-> stamp, accepted |-> acc])
  /\ UNCHANGED <<odom, phase>>

\* Messages move forward in time, never fall back to an older posterior, and
\* stay within the horizon of the LiDAR data behind their posterior.
Emit(stamp, base) ==
  /\ phase # "closed"
  /\ odom # <<>> => /\ stamp > odom[Len(odom)].stamp
                    /\ base >= odom[Len(odom)].base
  /\ stamp >= posteriors[base].stamp
  /\ stamp - posteriors[base].accepted <= Horizon
  /\ odom' = Append(odom, [stamp |-> stamp, base |-> base])
  /\ phase' = IF phase = "closing" THEN "closed" ELSE phase
  /\ UNCHANGED posteriors

\* A fault is final; at most the message already in flight still goes out.
Close ==
  /\ phase = "live"
  /\ phase' \in {"closing", "closed"}
  /\ UNCHANGED <<posteriors, odom>>

OdometryNext ==
  \/ \E t, a \in Times : Correct(t, a)
  \/ \E t \in Times, b \in DOMAIN posteriors : Emit(t, b)
  \/ Close

OdometrySpec == OdometryInit /\ [][OdometryNext]_odomVars
=============================================================================
