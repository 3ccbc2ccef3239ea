---------------------------- MODULE CloudConvert ----------------------------
(***************************************************************************)
(* How a message of a LiDAR becomes the scans that are pushed              *)
(* (preprocess/cloud_convert/cloud_convert2.cc and the three callbacks of  *)
(* apps/main_ada.cpp): one handler per kind of sensor, which filters the   *)
(* points, times them and cuts the sweep into equal segments.              *)
(*                                                                         *)
(* A message has a header stamp and points; a point has the time its       *)
(* driver gave it, the voxel of the down-sampling it falls into, and       *)
(* whether the tests on its coordinates, range and tag let it through.     *)
(* Messages without points or of no duration, and points so late that the  *)
(* segment would not exist, are undefined behaviour in all handlers but    *)
(* the Livox ones; those messages are left out.                            *)
(***************************************************************************)
EXTENDS Integers, Sequences, FiniteSets, SequencesExt

CONSTANTS Cuts,        \* sweep_cut_num
          PointFilter, \* point_filter_num
          MaxSpan      \* 0.1 s, beyond which points are dropped

ASSUME ConvertAssumption ==
  Cuts \in Nat \ {0} /\ PointFilter \in Nat \ {0} /\ MaxSpan \in Nat \ {0}

Sorted == {"velodyne", "robosense", "pandar"}
OwnClock == {"robosense", "pandar"}

\* The time the points of a message are counted from.
Origin(kind, ps) == IF kind \in OwnClock THEN ps[1].t ELSE 0

\* Some drivers' points are sorted, and lose those beyond a sweep.
Arranged(kind, ps) ==
  LET byTime == SortSeq(ps, LAMBDA p, q : p.t < q.t)
      inSweep(p) == p.t - Origin(kind, byTime) < MaxSpan
  IN IF kind \in Sorted THEN SelectSeq(byTime, inSweep) ELSE ps

Span(kind, ps) == Last(ps).t - Origin(kind, ps)

\* Slip: every point is taken to lie within the sweep.
AnyTime(kind, p, span) == TRUE

\* A Livox point later than the last one of its message is dropped.
InTime(kind, p, span) == kind = "avia" => p.t <= span

Kept(kind, ps, i) ==
  /\ ps[i].good /\ InTime(kind, ps[i], Span(kind, ps))
  /\ kind = "robosense" \/ (i - 1) % PointFilter = 0

\* Relative to the sweep's origin, except that one driver's times are stamps.
Stamp(kind, header, p, origin) ==
  IF kind = "robosense" THEN p.t ELSE header + p.t - origin

\* The segment of a point, 0 for the first.  The sweep's end is in the last
\* one: the Livox handler clamps, the others step back by one.
CutOf(t, span) ==
  LET id == (t * Cuts) \div span IN IF id >= Cuts THEN Cuts - 1 ELSE id

\* The points a segment starts out with, before the down-sampling.
Collected(kind, header, ps, id) ==
  LET origin == Origin(kind, ps)
      mine == {i \in DOMAIN ps : /\ Kept(kind, ps, i)
                                 /\ CutOf(ps[i].t - origin, Span(kind, ps)) = id}
  IN {[stamp |-> Stamp(kind, header, ps[i], origin), cell |-> ps[i].cell] : i \in mine}

SegmentBegin(header, delta, id) == header + id * delta

\* What Process hands to the callback: nothing for a message without extent.
Segments(kind, msg) ==
  LET ps == Arranged(kind, msg.points)
      delta == Span(kind, ps) \div Cuts
  IN IF ps = <<>> THEN <<>>
     ELSE IF Span(kind, ps) <= 0 THEN <<>>
     ELSE [n \in 1..Cuts |->
             [begin |-> SegmentBegin(msg.header, delta, n - 1),
              end |-> SegmentBegin(msg.header, delta, n - 1) + delta,
              points |-> Collected(kind, msg.header, ps, n - 1)]]

\* sub_sample_frame after a shuffle: any one point of every voxel.
SubSamples(points) ==
  {S \in SUBSET points : \A p \in points :
     Cardinality({q \in S : q.cell = p.cell}) = 1}

\* AuxAviaHandler: one segment for the whole message.
AuxSegments(msg) ==
  LET ps == msg.points
      kept == {i \in DOMAIN ps : ps[i].good /\ (i - 1) % PointFilter = 0}
  IN IF ps = <<>> THEN <<>>
     ELSE IF Last(ps).t <= 0 THEN <<>>
     ELSE <<[begin |-> msg.header, end |-> msg.header + Last(ps).t,
             points |-> {[stamp |-> msg.header + ps[i].t, cell |-> ps[i].cell] : i \in kept}]>>

\* SortFinitePoints, which pushData applies to what is left of it: the stamps
\* in order.
SortFinitePoints(points) ==
  LET stamps == {p.stamp : p \in points}
  IN CHOOSE s \in [1..Cardinality(stamps) -> stamps] :
       \A i, j \in DOMAIN s : i < j => s[i] < s[j]
=============================================================================
