------------------------------ MODULE MCAirRate ------------------------------
(* A small instance of AirRate: three indexes; no link, the two sides of the *)
(* 100 kbps quantum, a middle rate, one over the maximum and a reading that  *)
(* is negative as an int; no cap, one that bites and one under the fallback. *)
EXTENDS AirRate

MCThroughputs == {-1, 0, 99, 100, 10000, 40000}
=============================================================================
