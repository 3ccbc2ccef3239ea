----------------------------- MODULE MCLioIntake -----------------------------
(***************************************************************************)
(* Sweeps of two segments that follow each other, overlap, arrive late or  *)
(* out of order, with points of one voxel, points that a handler drops or  *)
(* sorts, and a header that one driver's points do not count from;         *)
(* auxiliary messages whose points straddle the scans, one of them of a    *)
(* single instant; samples every tick or with one missing.                 *)
(***************************************************************************)
EXTENDS LioIntake

Pt(t, cell) == [t |-> t, cell |-> cell, good |-> TRUE]
Bad(t) == [t |-> t, cell |-> 0, good |-> FALSE]
Msg(header, points) == [header |-> header, points |-> points]

Sweep == Msg(1, <<Pt(0, 1), Bad(1), Pt(1, 1), Pt(2, 2), Pt(4, 3)>>)
Late == Msg(4, <<Pt(0, 1), Pt(4, 2)>>)
Unordered == Msg(2, <<Pt(0, 1), Pt(6, 2), Pt(1, 3), Pt(4, 4)>>)
Stamped == Msg(1, <<Pt(5, 1), Pt(1, 2), Pt(3, 3), Pt(7, 4)>>)

MCMessages ==
  [avia |-> {Sweep, Unordered, Late, Msg(3, <<Pt(0, 1)>>)},
   ouster |-> {Sweep, Late},
   velodyne |-> {Unordered, Late},
   robosense |-> {Stamped, Msg(4, <<Pt(4, 1), Pt(8, 1)>>)},
   pandar |-> {Stamped, Msg(4, <<Pt(9, 1), Pt(13, 2)>>)}]

MCAuxMessages ==
  {Msg(1, <<Pt(1, 1), Pt(0, 2), Pt(2, 3)>>),
   Msg(3, <<Pt(0, 1), Pt(1, 2), Pt(2, 3), Bad(3), Pt(3, 4)>>),
   Msg(6, <<Pt(0, 1)>>)}

MCStamps == 1..6
=============================================================================
