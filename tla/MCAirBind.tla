------------------------------ MODULE MCAirBind ------------------------------
(* A small instance of AirBind: two ground units, both governors enabled.   *)
EXTENDS AirBind
=============================================================================
