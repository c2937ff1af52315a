------------------------------ MODULE AirSocket ------------------------------
(***************************************************************************)
(* The air role's reference-counted handle on the AR8030 control node      *)
(* (ml-linkd/ml-air-bb.c).  A handle is [open, users]; the operators give  *)
(* the handle a call leaves behind.  One process must never open the node  *)
(* twice, so the rate governor, the power controller and the pair window   *)
(* share this one handle.                                                  *)
(*                                                                         *)
(* Abstracted: frame contents and sequence numbers, and the 5 s cadence    *)
(* that throttles an open after a failed one (whether an open succeeds is  *)
(* a choice of the caller's model either way).                             *)
(***************************************************************************)
EXTENDS Naturals

Handle == [open : BOOLEAN, users : Nat]

Closed == [open |-> FALSE, users |-> 0]

(* air_bb_acquire that succeeds: the node was open already or open() worked. *)
Acquired(b) == [open |-> TRUE, users |-> b.users + 1]

(* air_bb_release: the last counted user closes the node.                  *)
Released(b) ==
  LET left == IF b.users > 0 THEN b.users - 1 ELSE 0
  IN  [open |-> b.open /\ left > 0, users |-> left]

(* What one air_bb_send can return: the frame went out, it stayed refused  *)
(* for the whole EAGAIN budget, or the write failed hard.  On a closed     *)
(* handle nothing is written.                                              *)
Outcomes(b) == IF b.open THEN {"ok", "busy", "broken"} ELSE {"closed"}

(* The handle after a write: a hard error closes the node and forgets every
   reference, a refused frame leaves it alone.                             *)
Written_KeepsCount(b, w) == IF w = "broken" THEN [b EXCEPT !.open = FALSE] ELSE b

Written(b, w) == IF w = "broken" THEN Closed ELSE b
=============================================================================
