------------------------------ MODULE MCTimeline ------------------------------
(***************************************************************************)
(* The instance of PositionTimeline and AdmTracks for TLC: two objects, of *)
(* which the second may become a bed channel, and updates that move one or *)
(* both, at offsets on, off and beyond the frame's own grid.  The updates  *)
(* of an ADM task also ramp over a part of a block and reach back behind   *)
(* those of the frame before; positions are far enough apart for every     *)
(* ramp to interpolate exactly.                                            *)
(***************************************************************************)
EXTENDS AdmTracks

TwoMoves == {<<16, None>>, <<32, 32>>, <<None, 16>>}

SomeUpdates ==
    {[offset |-> offset, ramp |-> ramp, moves |-> moves] :
        offset \in {0, 5, 17}, ramp \in {0, 16}, moves \in TwoMoves} \cup {None}

FarMoves == {<<48, None>>, <<96, 96>>}

SomeAdmUpdates ==
    {[offset |-> offset, ramp |-> ramp, moves |-> moves] :
        offset \in {0, 23}, ramp \in {0, 6, 16}, moves \in FarMoves} \cup {None}

=============================================================================
