----------------------------- MODULE MCRxSession -----------------------------
(* The goggle's media session with the parts of its environment a run needs. *)
EXTENDS RxSession
=============================================================================
