----------------------------- MODULE MCAirPower -----------------------------
(* A small instance of AirPower: the minimum and one other power.          *)
EXTENDS AirPower
=============================================================================
