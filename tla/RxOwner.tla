------------------------------- MODULE RxOwner -------------------------------
(***************************************************************************)
(* The goggle's control node (ml-linkd/ml-linkd.c, ml-rx-reader.c): the    *)
(* main thread is its only sender, the reader thread hands on the replies. *)
(* A reply may come after its poll has stopped waiting, or never; a frame  *)
(* the chip's queue does not take within 100 ms is dropped, and no caller  *)
(* looks at what send_frame returned.                                      *)
(***************************************************************************)
EXTENDS Integers, Sequences

CONSTANT MaxReplies \* bound: replies on their way at once

ASSUME RepliesAssumption == MaxReplies \in Nat \ {0}

VARIABLES
  pc,      \* next stage of the main thread
  replies, \* what the chip has answered and the reader has not read, in order
  air      \* the air unit: "gone", "heard" (telemetry), "session" (3-way done)

Airs == {"gone", "heard", "session"}

Stage(from, to) == pc = from /\ pc' = to

(* send_frame of a GET: the frame and its reply get through, or do not.    *)
Ask(reply) ==
  \/ UNCHANGED replies
  \/ Len(replies) < MaxReplies /\ replies' = Append(replies, reply)

(* rx_reader_thread: the oldest reply goes to the module that owns it.     *)
Read(kind) ==
  /\ replies # <<>>
  /\ Head(replies).kind = kind
  /\ replies' = Tail(replies)
  /\ UNCHANGED <<pc, air>>

(* The air unit comes and goes (ml-rx-udp.c).                              *)
AirChanges ==
  /\ air' \in Airs \ {air}
  /\ UNCHANGED <<pc, replies>>
=============================================================================
