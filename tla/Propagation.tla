---------------------------- MODULE Propagation ----------------------------
(***************************************************************************)
(* The integration convention both filters share (PropagateInterval in     *)
(* algo/imu_odom_predictor.h, ESKF::Predict in algo/eskf.hpp).  A leg      *)
(* advances a filter from one time to another inside the raw interval      *)
(* between two samples; the state at its end is interpolated.              *)
(***************************************************************************)
EXTENDS Integers, Sequences

CONSTANT Gap   \* longest raw interval (50 ms); also ESKF::Predict's 5*imu_dt_

ASSUME PropagationAssumption == Gap \in Nat \ {0}

Leg(left, right, from, to) ==
  [left |-> left, right |-> right, from |-> from, to |-> to]

\* PropagateInterval accepts the leg.
LegOk(l) ==
  /\ l.right > l.left
  /\ l.left <= l.from /\ l.from < l.to /\ l.to <= l.right
  /\ l.right - l.left <= Gap

Earlier(a, b) == IF a <= b THEN a ELSE b

\* The legs that integrate the samples `run` from time t, cut at `end`, when
\* `left` is the raw sample before them.
LegsAlong(run, left, t, end) ==
  [i \in 1..Len(run) |->
     Leg(IF i = 1 THEN left ELSE run[i-1], run[i],
         IF i = 1 THEN t ELSE run[i-1], Earlier(run[i], end))]

AllLegsOk(legs) == \A i \in DOMAIN legs : LegOk(legs[i])

\* The legs form one unbroken path from time a to time b.
Path(legs, a, b) ==
  IF legs = <<>> THEN a = b
  ELSE /\ legs[1].from = a
       /\ legs[Len(legs)].to = b
       /\ \A i \in 2..Len(legs) : legs[i].from = legs[i-1].to

\* The two samples of a leg are neighbours in the stream.
Adjacent(stream, l) ==
  \E i \in 2..Len(stream) : stream[i-1] = l.left /\ stream[i] = l.right
=============================================================================
