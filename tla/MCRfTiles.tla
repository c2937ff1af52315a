----------------------------- MODULE MCRfTiles -----------------------------
(***************************************************************************)
(* RfTiles on a small instance.  The bounds keep the relations the code's  *)
(* own constants have: 10 buffers are 4 on the display, 2 of margin and a  *)
(* window of 4; here 5 are 1, 2 and 2, so that the skew and the backlog    *)
(* the gate allows are 1 frame each.  A decoder holds two AUs, one more    *)
(* than the margin covers.  The first session has six frames, a key frame  *)
(* first and in its middle: enough to fill the pool and the decoder ahead  *)
(* of a tile 1 that lags.  The second falls behind the first by more than  *)
(* the slack with its first frame.                                         *)
(***************************************************************************)
EXTENDS RfTiles

MCLastFid == <<5, 0>>

=============================================================================
