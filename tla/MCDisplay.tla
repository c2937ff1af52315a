----------------------------- MODULE MCDisplay -----------------------------
(* Four frames, of the five a pool starts with at least: one in each slot of *)
(* a running display (next, pending, front, prev), so that the pool runs dry *)
(* and the mailbox displaces; the two sleeps as the code has them at 60 Hz;  *)
(* the driver refuses a flip once two completions wait to be read.           *)
EXTENDS Display
=============================================================================
