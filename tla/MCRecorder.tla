----------------------------- MODULE MCRecorder -----------------------------
(***************************************************************************)
(* Recorder on a small instance.  Two composites let one be pinned by the  *)
(* encoder, the mailbox or the worker while the next is offered; a queue   *)
(* of one frame (rec_qmax) is full and empty within a few steps, and one   *)
(* frame may be inside the encoder unseen by it.  One fault, of a start or *)
(* of a running encoder, meets every stage of the main loop.               *)
(***************************************************************************)
EXTENDS Recorder

=============================================================================
