------------------------------ MODULE RxSession ------------------------------
(***************************************************************************)
(* The goggle's media session (ml-linkd/ml-rx-udp.c, rx_udp_thread): the   *)
(* 3-way hello, the READY-gated params handshake that starts video, the    *)
(* two watches that restart it (no telemetry for 5 s, no video for 6 s),   *)
(* and the camera settings that ride on it.                                *)
(* One pass of `pc' is one pass of the thread; the air unit, the radio and *)
(* the consumer (ml-pipeline) are its environment.                         *)
(*                                                                         *)
(* Time: a pass is one at which every send interval has elapsed (a pass at *)
(* which it has not only drains, and a datagram may stay in flight over    *)
(* any number of passes).  `telem', `readyOld' and `pktsOld' say which of  *)
(* the three windows have run out.  Abstracted: lazy binding, the identity *)
(* echo, SetTranParm, the status LED, OSD and status republishing, RF      *)
(* commands.                                                               *)
(***************************************************************************)
EXTENDS Naturals

CONSTANTS NoGate,   \* --no-gate
          Levered,  \* the HUD has commanded a power or a bitrate
          Menu      \* the HUD commands camera settings

ASSUME SessionAssumption ==
  /\ NoGate \in BOOLEAN /\ Levered \in BOOLEAN
  /\ Menu \in BOOLEAN

VARIABLES
  pc,          \* next stage of the thread
  steady,      \* g_steady, set by the main thread
  hsDone,      \* g_hs_done
  acked,       \* g_params_acked
  confirmed,   \* g_video_confirmed
  airLost,     \* g_air_lost
  ready,       \* g_ready
  counting,    \* g_rx_counting
  telem,       \* g_last_telem_ms: "none", "fresh", "old" (5 s)
  readyOld,    \* g_last_ready_ms is 6 s old
  pktsOld,     \* g_rx_pkts_change_ms is 6 s old
  camCommanded,\* g_cam_commanded or g_scale_aspect is set
  camPending,  \* g_cam_pending or g_scale_pending is set
  camSince,    \* history: pushed since it last changed and since SetLdCfg
  up,          \* the radio passes datagrams
  streaming,   \* the air: sends video
  identity,    \* an identity (type 1) is on its way here
  reply,       \* a params reply (0x02) is on its way here
  alive,       \* the consumer runs
  framesSeen,  \* the consumer: has composed a frame
  newPkts      \* the consumer: its counter moved since its last heartbeat

session == <<hsDone, acked, confirmed, airLost>>
watch == <<counting, readyOld, pktsOld>>
camera == <<camCommanded, camPending, camSince>>
radio == <<up, streaming, identity, reply>>
consumer == <<alive, framesSeen, newPkts>>
vars == <<pc, steady, session, ready, watch, telem, camera, radio,
          consumer>>

TypeOK ==
  /\ pc \in {"link", "hello", "ident", "params", "tail"}
  /\ telem \in {"none", "fresh", "old"}
  /\ steady \in BOOLEAN /\ ready \in BOOLEAN
  /\ session \in BOOLEAN \X BOOLEAN \X BOOLEAN \X BOOLEAN
  /\ watch \in BOOLEAN \X BOOLEAN \X BOOLEAN
  /\ camera \in BOOLEAN \X BOOLEAN \X BOOLEAN
  /\ radio \in BOOLEAN \X BOOLEAN \X BOOLEAN \X BOOLEAN
  /\ consumer \in BOOLEAN \X BOOLEAN \X BOOLEAN

Init ==
  /\ pc = "link"
  /\ steady = FALSE
  /\ hsDone = FALSE /\ acked = FALSE /\ confirmed = FALSE /\ airLost = FALSE
  /\ ready = FALSE /\ counting = FALSE
  /\ telem = "none" /\ readyOld = TRUE /\ pktsOld = TRUE
  /\ camCommanded = FALSE /\ camPending = FALSE /\ camSince = FALSE
  /\ up = FALSE
  /\ streaming = FALSE /\ identity = FALSE /\ reply = FALSE
  /\ alive = FALSE /\ framesSeen = FALSE /\ newPkts = FALSE

Stage(from, to) == pc = from /\ pc' = to

(* The type-1 poll runs from the 3-way on, and before the params ack only
   while a consumer is ready.                                              *)
Polls_TillConfirmed == hsDone /\ ~confirmed /\ (NoGate \/ ready \/ acked)

Polls == hsDone /\ (NoGate \/ ready \/ acked)

(* A datagram sent to the air arrives or is lost. *)
Arrives == IF up THEN BOOLEAN ELSE {FALSE}

-----------------------------------------------------------------------------
(* link.sock. *)

(* One READY heartbeat (handle_ready): it confirms video only in an acked
   session, and an advance of the consumer's counter feeds the stall watch. *)
Heartbeat ==
  /\ pc = "link"
  /\ alive
  /\ ready' = TRUE
  /\ readyOld' = FALSE
  /\ confirmed' = (confirmed \/ (framesSeen /\ acked))
  /\ newPkts' = FALSE
  /\ IF newPkts THEN pktsOld' = FALSE /\ counting' = TRUE
                ELSE UNCHANGED <<pktsOld, counting>>
  /\ UNCHANGED <<pc, steady, hsDone, acked, airLost, telem, camera, radio,
                 alive, framesSeen>>

(* The HUD commands a camera or scale setting. *)
SetCamera ==
  /\ Menu
  /\ pc = "link"
  /\ camCommanded' = TRUE
  /\ camPending' = TRUE
  /\ camSince' = FALSE
  /\ UNCHANGED <<pc, steady, session, ready, watch, telem, radio,
                 consumer>>

(* The video-stall watch, then the READY window. *)
Stalled == acked /\ confirmed /\ counting /\ ~airLost /\ pktsOld

Watches ==
  /\ Stage("link", "hello")
  /\ IF Stalled THEN /\ acked' = FALSE
                     /\ confirmed' = FALSE
                     /\ counting' = FALSE
                ELSE UNCHANGED <<acked, confirmed, counting>>
  /\ ready' = (ready /\ ~readyOld)
  /\ UNCHANGED <<steady, hsDone, airLost, telem, readyOld, pktsOld,
                 camera, radio, consumer>>

-----------------------------------------------------------------------------
(* :20001.  Until the 3-way is done a hello goes out, and the air answers it
   with its identity (external).                                           *)
Hello_NotWhileLost ==
  /\ Stage("hello", "ident")
  /\ \E arrives \in Arrives : identity' = (identity \/ (~hsDone /\ ~airLost /\ arrives))
  /\ UNCHANGED <<steady, session, ready, watch, telem, camera, up,
                 streaming, reply, consumer>>

Hello ==
  /\ Stage("hello", "ident")
  /\ \E arrives \in Arrives : identity' = (identity \/ (~hsDone /\ arrives))
  /\ UNCHANGED <<steady, session, ready, watch, telem, camera, up,
                 streaming, reply, consumer>>

RecvIdentity ==
  /\ pc = "ident"
  /\ up /\ identity
  /\ identity' = FALSE
  /\ hsDone' = TRUE
  /\ UNCHANGED <<pc, steady, acked, confirmed, airLost, ready, watch, telem,
                 camera, up, streaming, reply, consumer>>

(* :10000.  The type-1 request; the air answers each with 0x02 (external).  *)
Request ==
  /\ Stage("ident", "params")
  /\ \E arrives \in Arrives : reply' = (reply \/ (Polls /\ arrives))
  /\ UNCHANGED <<steady, session, ready, watch, telem, camera, up,
                 streaming, identity, consumer>>

(* Any datagram on :10000 is a sign of life: it ends an air loss first.  *)
SignOfLife ==
  /\ pc = "params"
  /\ up
  /\ telem' = "fresh"
  /\ airLost' = FALSE

RecvTelemetry ==
  /\ SignOfLife
  /\ UNCHANGED <<pc, steady, hsDone, acked, confirmed, ready, watch, camera, up,
                 streaming, identity, reply, consumer>>

(* A params reply: SetLdCfg first (once a session), then the IDR request
   that starts video unless frames are confirmed, then the ack.  The air
   resets its camera at SetLdCfg, so the commanded settings are armed anew. *)
Acks_NoRearm == /\ acked' = TRUE
                /\ camSince' = (camSince /\ (acked \/ ~Levered))
                /\ UNCHANGED camPending

Acks ==
  /\ acked' = TRUE
  /\ camSince' = (camSince /\ (acked \/ ~Levered))
  /\ camPending' = IF acked THEN camPending ELSE camCommanded

RecvReply ==
  /\ SignOfLife
  /\ reply
  /\ reply' = FALSE
  /\ \E arrives \in Arrives : streaming' = (streaming \/ (~confirmed /\ arrives))
  /\ Acks
  /\ UNCHANGED <<pc, steady, hsDone, confirmed, ready, watch, camCommanded,
                 up, identity, consumer>>

(* The air-loss watch forgets the whole session. *)
LossWatch_KeepsAck ==
  /\ Stage("params", "tail")
  /\ IF steady /\ ~airLost /\ telem = "old"
       THEN /\ airLost' = TRUE
            /\ hsDone' = FALSE
            /\ confirmed' = FALSE
            /\ UNCHANGED acked
       ELSE UNCHANGED session
  /\ UNCHANGED <<steady, ready, watch, telem, camera, radio, consumer>>

LossWatch ==
  /\ Stage("params", "tail")
  /\ IF steady /\ ~airLost /\ telem = "old"
       THEN /\ airLost' = TRUE
            /\ hsDone' = FALSE
            /\ acked' = FALSE
            /\ confirmed' = FALSE
       ELSE UNCHANGED session
  /\ UNCHANGED <<steady, ready, watch, telem, camera, radio, consumer>>

(* Pending camera settings are pushed in an established session.           *)
Push ==
  IF acked /\ ~airLost
    THEN /\ camSince' = (camSince \/ camPending)
         /\ camPending' = FALSE
    ELSE UNCHANGED <<camSince, camPending>>

Tail ==
  /\ Stage("tail", "link")
  /\ Push
  /\ UNCHANGED <<steady, session, ready, watch, telem, camCommanded, radio, consumer>>

-----------------------------------------------------------------------------
(* The main thread reaches its steady cadence. *)
BringUpDone ==
  /\ ~steady
  /\ steady' = TRUE
  /\ UNCHANGED <<pc, session, ready, watch, telem, camera, radio, consumer>>

(* The windows run out: the READY window when no heartbeat comes, the stall
   window when no video arrives, the telemetry window when the radio is down
   or nobody asks the air anything (an air in reach answers a hello or a
   request within 5 s).                                                    *)
Untouched == UNCHANGED <<pc, steady, session, ready, counting, camera,
                         radio, consumer>>

AgeReady ==
  /\ ~alive /\ ~readyOld
  /\ readyOld' = TRUE
  /\ Untouched
  /\ UNCHANGED <<pktsOld, telem>>

AgePackets ==
  /\ ~(up /\ streaming /\ alive) /\ ~pktsOld
  /\ pktsOld' = TRUE
  /\ Untouched
  /\ UNCHANGED <<readyOld, telem>>

AgeTelemetry ==
  /\ telem = "fresh"
  /\ ~up \/ (hsDone /\ ~Polls)
  /\ telem' = "old"
  /\ Untouched
  /\ UNCHANGED <<readyOld, pktsOld>>

(* The radio drops or returns; the air's video path may not survive it, nor
   what was in flight.                                                     *)
RadioDrop ==
  /\ up
  /\ up' = FALSE
  /\ streaming' \in {streaming, FALSE}
  /\ identity' \in {identity, FALSE}
  /\ reply' \in {reply, FALSE}
  /\ UNCHANGED <<pc, steady, session, ready, watch, telem, camera, consumer>>

RadioReturn ==
  /\ ~up
  /\ up' = TRUE
  /\ UNCHANGED <<pc, steady, session, ready, watch, telem, camera,
                 streaming, identity, reply, consumer>>

(* A link bounce on the air's side rebuilds its video path and does not
   silence its telemetry.                                                  *)
AirBounce ==
  /\ up /\ streaming
  /\ streaming' = FALSE
  /\ UNCHANGED <<pc, steady, session, ready, watch, telem, camera, up, identity,
                 reply, consumer>>

(* Video reaches the consumer (ml-pipeline: rf_rx, composed). *)
Video ==
  /\ up /\ streaming /\ alive
  /\ newPkts' = TRUE
  /\ framesSeen' \in {framesSeen, TRUE}
  /\ UNCHANGED <<pc, steady, session, ready, watch, telem, camera, radio,
                 alive>>

ConsumerStops ==
  /\ alive
  /\ alive' = FALSE
  /\ UNCHANGED <<pc, steady, session, ready, watch, telem, camera, radio,
                 framesSeen, newPkts>>

(* A new consumer counts from 0, which is an advance unless the last count
   reported was 0 too.                                                     *)
ConsumerStarts ==
  /\ ~alive
  /\ alive' = TRUE
  /\ framesSeen' = FALSE
  /\ newPkts' \in BOOLEAN
  /\ UNCHANGED <<pc, steady, session, ready, watch, telem, camera, radio>>

-----------------------------------------------------------------------------
Thread ==
  \/ Watches
  \/ Hello
  \/ Request
  \/ LossWatch
  \/ Tail

Arrivals ==
  \/ Heartbeat
  \/ SetCamera
  \/ RecvIdentity
  \/ RecvTelemetry
  \/ RecvReply

Environment ==
  \/ BringUpDone
  \/ AgeReady
  \/ AgePackets
  \/ AgeTelemetry
  \/ RadioDrop
  \/ RadioReturn
  \/ AirBounce
  \/ Video
  \/ ConsumerStops
  \/ ConsumerStarts

Next == Thread \/ Arrivals \/ Environment

(* The thread runs on, a living consumer keeps its heartbeat and gets the
   video that is sent, windows that nothing refreshes run out, and of the
   hellos, requests and IDR requests that keep being sent not all are lost. *)
Fairness ==
  /\ WF_vars(Thread)
  /\ WF_vars(BringUpDone)
  /\ WF_vars(AgeReady)
  /\ WF_vars(AgePackets)
  /\ WF_vars(AgeTelemetry)
  /\ SF_vars(Heartbeat)
  /\ SF_vars(Hello /\ (~hsDone => identity'))
  /\ SF_vars(RecvIdentity)
  /\ SF_vars(Request /\ (Polls => reply'))
  /\ SF_vars(RecvReply /\ (confirmed \/ streaming'))

Spec == Init /\ [][Next]_vars
FairSpec == Spec /\ Fairness

-----------------------------------------------------------------------------
(* Properties.                                                             *)

(* Nothing of a session survives its loss: while the air is reported lost no
   session is acked, and frames are confirmed only for an acked session, so
   a heartbeat that arrives late, or in the middle of a restart, confirms
   nothing (handle_ready, the two watches).                                *)
LossForgets ==
  /\ airLost => ~acked
  /\ confirmed => acked

(* A camera setting the HUD commanded is, in every acked session, either
   still to be pushed or was pushed after the last SetLdCfg, which resets
   the air's camera (handle_params, push_camera_scale).                    *)
CameraCarried == acked /\ camCommanded => camPending \/ camSince

(* While the radio holds and a consumer runs, a session is established again
   after every restart, whichever watch caused it (rx_udp_thread).         *)
SessionReturns ==
  <>[](up /\ alive) => []<>(hsDone /\ acked /\ ~airLost)

(* ... and it holds: the goggle does not report a loss, or restart a session,
   of an air that keeps sending video to it (the poll that runs for the whole
   session, the two watches).                                              *)
SessionHolds ==
  <>[](up /\ alive /\ streaming) => <>[](hsDone /\ acked /\ ~airLost)

(* What the comment on the IDR request says: "requests resume by themselves
   whenever video needs repairing", so the video of a stable link with a
   running consumer always comes back.                                     *)
VideoReturns == <>[](up /\ alive) => []<>streaming
=============================================================================
