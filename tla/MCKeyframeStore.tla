-------------------------- MODULE MCKeyframeStore --------------------------
(***************************************************************************)
(* A robot that moves and turns in steps below the thresholds and above    *)
(* them, turns on the spot and comes back; a queue of one, so that frames  *)
(* are dropped; one restart, so that an old database is met.               *)
(***************************************************************************)
EXTENDS KeyframeStore, TLC

At(x, yaw) == [x |-> x, yaw |-> yaw]
MCPoses == {At(0, 0), At(2, 2), At(2, 4), At(4, 6)}

AnySaver == Permutations(Savers)
=============================================================================
