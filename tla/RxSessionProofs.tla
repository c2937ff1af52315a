-------------------------- MODULE RxSessionProofs --------------------------
(***************************************************************************)
(* What the goggle's session never keeps over a loss and never forgets     *)
(* over a restart, whatever the HUD, the air and the consumer do.          *)
(***************************************************************************)
EXTENDS RxSession, TLAPS

(* The daemon starts with its state in its types.                          *)
LEMMA TypeInit == Init => TypeOK
BY DEF Init, TypeOK, session, watch, camera, radio, consumer

(* Every step of the thread keeps the types.                               *)
LEMMA TypeThread == TypeOK /\ Thread => TypeOK'
<1> SUFFICES ASSUME TypeOK, Thread PROVE TypeOK'
  OBVIOUS
<1> USE SessionAssumption DEF SessionAssumption, TypeOK, session, watch,
          camera, radio, consumer, Stage
<1>1. CASE Watches
  BY <1>1 DEF Watches, Stalled
<1>2. CASE Hello
  BY <1>2 DEF Hello, Arrives
<1>3. CASE Request
  BY <1>3 DEF Request, Arrives, Polls
<1>4. CASE LossWatch
  BY <1>4 DEF LossWatch
<1>5. CASE Tail
  BY <1>5 DEF Tail, Push
<1> QED
  BY <1>1, <1>2, <1>3, <1>4, <1>5 DEF Thread

(* So does every datagram that arrives.                                    *)
LEMMA TypeArrivals == TypeOK /\ Arrivals => TypeOK'
<1> SUFFICES ASSUME TypeOK, Arrivals PROVE TypeOK'
  OBVIOUS
<1> USE SessionAssumption DEF SessionAssumption, TypeOK, session, watch,
          camera, radio, consumer
<1>1. CASE Heartbeat
  BY <1>1 DEF Heartbeat
<1>2. CASE SetCamera
  BY <1>2 DEF SetCamera
<1>3. CASE RecvIdentity
  BY <1>3 DEF RecvIdentity
<1>4. CASE RecvTelemetry
  BY <1>4 DEF RecvTelemetry, SignOfLife
<1>5. CASE RecvReply
  BY <1>5 DEF RecvReply, SignOfLife, Acks, Arrives
<1> QED
  BY <1>1, <1>2, <1>3, <1>4, <1>5 DEF Arrivals

(* So does everything outside the thread.                                  *)
LEMMA TypeEnvironment == TypeOK /\ Environment => TypeOK'
BY DEF TypeOK, session, watch, camera, radio, consumer, Environment,
       BringUpDone, AgeReady, AgePackets, AgeTelemetry, Untouched, RadioDrop,
       RadioReturn, AirBounce, Video, ConsumerStops, ConsumerStarts

(* The types hold in every behaviour of the thread and its environment
   (rx_udp_thread).                                                        *)
THEOREM TypeCorrect == Spec => []TypeOK
<1>1. TypeOK /\ UNCHANGED vars => TypeOK'
  BY DEF TypeOK, vars, session, watch, camera, radio, consumer
<1>2. TypeOK /\ [Next]_vars => TypeOK'
  BY <1>1, TypeThread, TypeArrivals, TypeEnvironment DEF Next
<1> QED
  BY <1>2, TypeInit, PTL DEF Spec

Kept == LossForgets /\ CameraCarried

(* The stall watch, the loss watch and the push of the camera settings keep
   what a session owes and forget what a loss must forget.                 *)
LEMMA KeptByThread == TypeOK /\ Kept /\ Thread => Kept'
<1> SUFFICES ASSUME TypeOK, Kept, Thread PROVE Kept'
  OBVIOUS
<1> USE DEF Kept, LossForgets, CameraCarried, Stage, session, watch, camera
<1>1. CASE Watches
  BY <1>1 DEF Watches
<1>2. CASE Hello
  BY <1>2 DEF Hello
<1>3. CASE Request
  BY <1>3 DEF Request
<1>4. CASE LossWatch
  BY <1>4 DEF LossWatch
<1>5. CASE Tail
  BY <1>5 DEF Tail, Push, TypeOK
<1> QED
  BY <1>1, <1>2, <1>3, <1>4, <1>5 DEF Thread

(* A reply that acks a session arms every commanded setting anew.          *)
LEMMA KeptByArrivals == TypeOK /\ Kept /\ Arrivals => Kept'
<1> SUFFICES ASSUME TypeOK, Kept, Arrivals PROVE Kept'
  OBVIOUS
<1> USE DEF Kept, LossForgets, CameraCarried, session, watch, camera
<1>1. CASE Heartbeat
  BY <1>1 DEF Heartbeat
<1>2. CASE SetCamera
  BY <1>2 DEF SetCamera
<1>3. CASE RecvIdentity
  BY <1>3 DEF RecvIdentity
<1>4. CASE RecvTelemetry
  BY <1>4 DEF RecvTelemetry, SignOfLife
<1>5. CASE RecvReply
  BY <1>5 DEF RecvReply, SignOfLife, Acks
<1> QED
  BY <1>1, <1>2, <1>3, <1>4, <1>5 DEF Arrivals

(* Neither the radio, the consumer nor time touches what a session owes.   *)
LEMMA EnvironmentApart == Environment => UNCHANGED <<session, camera>>
BY DEF session, camera, Environment, BringUpDone, AgeReady, AgePackets, AgeTelemetry,
       Untouched, RadioDrop, RadioReturn, AirBounce, Video, ConsumerStops,
       ConsumerStarts

(* Both invariants hold in every behaviour.                                *)
LEMMA KeptAlways == Spec => []Kept
<1>1. Init => Kept
  BY DEF Init, Kept, LossForgets, CameraCarried
<1>2. Kept /\ UNCHANGED <<session, camera>> => Kept'
  BY DEF Kept, LossForgets, CameraCarried, session, camera
<1>3. UNCHANGED vars => UNCHANGED <<session, camera>>
  BY DEF vars
<1>4. TypeOK /\ Kept /\ [Next]_vars => Kept'
  BY <1>2, <1>3, KeptByThread, KeptByArrivals, EnvironmentApart DEF Next
<1> QED
  BY <1>1, <1>4, TypeCorrect, PTL DEF Spec

(* Nothing of a session survives the loss of the air (handle_ready, the two
   watches of rx_udp_thread).                                              *)
THEOREM LossAlwaysForgets == Spec => []LossForgets
<1>1. Kept => LossForgets
  BY DEF Kept
<1> QED
  BY <1>1, KeptAlways, PTL

(* No re-association loses a camera setting on the goggle's side
   (handle_params, push_camera_scale).                                     *)
THEOREM CameraAlwaysCarried == Spec => []CameraCarried
<1>1. Kept => CameraCarried
  BY DEF Kept
<1> QED
  BY <1>1, KeptAlways, PTL
=============================================================================
