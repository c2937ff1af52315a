--------------------------- MODULE AirPowerProofs ---------------------------
(***************************************************************************)
(* What the air unit's power controller remembers of the chip is true of   *)
(* the chip, for every power range and every report limit.                 *)
(***************************************************************************)
EXTENDS AirPower, TLAPS

(* The strengthening the report bound needs: a change of mode that has not
   been reported yet has a fresh count.                                    *)
FreshCount == workMode # reported => reports = 0

Inv == TypeOK /\ FreshCount /\ BeliefIsReal

(* The daemon's fresh state satisfies the invariant whatever the chip has. *)
LEMMA InvInit == Init => Inv
<1>1. Init => reports \in 0..ReportMax
  BY PowerAssumption DEF PowerAssumption, Init
<1>2. Init => TypeOK
  BY <1>1, PowerAssumption
  DEF PowerAssumption, Init, TypeOK, Stages, Modes, Slow, Full
<1>3. Init => FreshCount /\ BeliefIsReal
  BY DEF Init, FreshCount, BeliefIsReal
<1> QED
  BY <1>2, <1>3 DEF Inv

(* A target power is a power of the range once the goggle has commanded one. *)
LEMMA TargetInRange ==
  ASSUME TypeOK, commanded # NoDbm
  PROVE  TargetDbm \in Dbm
  BY PowerAssumption DEF PowerAssumption, TypeOK, TargetDbm

(* Every step of the loop keeps the invariant: the refused, half-done and
   skipped writes, the hand-back after silence and the bounded reports.    *)
LEMMA LoopStep ==
  ASSUME Inv, Loop
  PROVE  Inv'
<1> USE PowerAssumption DEF PowerAssumption, Inv, TypeOK, FreshCount, BeliefIsReal, Stages, Stage,
          command, fc, mode, applied, chip, rate, Modes, Normal, Standby, Slow, Full
<1>1. CASE SampleFc
  BY <1>1 DEF SampleFc
<1>2. CASE NoSocket
  BY <1>2 DEF NoSocket
<1>3. CASE GoggleLost
  <2>1. /\ commanded' \in Dbm \cup {NoDbm} /\ appliedDbm' \in Dbm \cup {NoDbm}
        /\ contact' \in {"none", "fresh", "silent"}
    BY <1>3 DEF GoggleLost
  <2>2. autoOff' \in BOOLEAN /\ chipAuto' \in BOOLEAN
    BY <1>3 DEF GoggleLost, HandBack
  <2>3. BeliefIsReal'
    BY <1>3 DEF GoggleLost, HandBack
  <2> QED
    BY <1>3, <2>1, <2>2, <2>3 DEF GoggleLost
<1>4. CASE TrackMode
  <2>1. reports' \in 0..ReportMax /\ (workMode' # reported' => reports' = 0)
    BY <1>4 DEF TrackMode
  <2>2. workMode' \in Modes /\ acked' \in BOOLEAN
    BY <1>4 DEF TrackMode, WantedMode
  <2> QED
    BY <1>4, <2>1, <2>2 DEF TrackMode
<1>5. CASE Report
  BY <1>5 DEF Report, ReportDue
<1>6. CASE NoReport
  BY <1>6 DEF NoReport
<1>7. CASE ApplyNothing
  BY <1>7 DEF ApplyNothing
<1>8. CASE ApplyDone \/ ApplyFailed
  <2>1. TargetDbm \in Dbm
    BY <1>8, TargetInRange DEF ApplyDone, ApplyFailed, Apply, Written
  <2>2. PICK offOk \in BOOLEAN, setOk \in BOOLEAN : Apply(offOk, setOk)
    BY <1>8 DEF ApplyDone, ApplyFailed
  <2> QED
    BY <2>1, <2>2 DEF Apply, WritePower
<1>9. CASE PushFps
  BY <1>9 DEF PushFps, TargetFps
<1>10. CASE PushUnanswered
  BY <1>10 DEF PushUnanswered, TargetFps
<1>11. CASE NoFps
  BY <1>11 DEF NoFps
<1>12. CASE EndPass
  BY <1>12 DEF EndPass
<1> QED
  BY <1>1, <1>2, <1>3, <1>4, <1>5, <1>6, <1>7, <1>8, <1>9, <1>10, <1>11, <1>12
  DEF Loop

(* So does everything that comes from outside, a restart included.         *)
LEMMA OutsideStep ==
  ASSUME Inv, Arrivals \/ Environment
  PROVE  Inv'
<1> USE PowerAssumption DEF PowerAssumption, Inv, TypeOK, FreshCount, BeliefIsReal, Stages,
          command, fc, mode, applied, chip, rate, Modes, Normal, Standby, Slow, Full
<1>1. CASE \E dbm \in Dbm \cup {NoDbm}, standby \in BOOLEAN : Command(dbm, standby)
  BY <1>1 DEF Command
<1>2. CASE OtherDatagram
  BY <1>2 DEF OtherDatagram
<1>3. CASE StbAck
  BY <1>3 DEF StbAck
<1>4. CASE FallSilent
  BY <1>4 DEF FallSilent
<1>5. CASE Restart
  <2>1. reports' \in 0..ReportMax /\ (workMode' # reported' => reports' = 0)
    BY <1>5 DEF Restart
  <2> QED
    BY <1>5, <2>1 DEF Restart
<1> QED
  BY <1>1, <1>2, <1>3, <1>4, <1>5 DEF Arrivals, Environment

(* The invariant holds in every state of every run.                        *)
THEOREM Invariant == Spec => []Inv
<1>1. Inv /\ [Next]_vars => Inv'
  <2> SUFFICES ASSUME Inv, [Next]_vars PROVE Inv'
    OBVIOUS
  <2>1. CASE Next
    BY <2>1, LoopStep, OutsideStep DEF Next
  <2>2. CASE UNCHANGED vars
    BY <2>2 DEF vars, command, fc, mode, applied, chip, rate, Inv, TypeOK,
              FreshCount, BeliefIsReal
  <2> QED
    BY <2>1, <2>2
<1> QED
  BY <1>1, InvInit, PTL DEF Spec

(* Every variable keeps its type; in particular the controller never sends
   more than ReportMax reports of one standby entry.                       *)
THEOREM TypeCorrect == Spec => []TypeOK
  BY Invariant, PTL DEF Inv

(* Whatever the controller believes it wrote, the chip has.                *)
THEOREM BeliefAlwaysReal == Spec => []BeliefIsReal
  BY Invariant, PTL DEF Inv

(* No power is written while the chip's own closed loop may change it.     *)
THEOREM AlwaysWrittenInManual == Spec => WrittenOnlyInManual
<1>1. Inv /\ [Next]_vars => [chipDbm' # chipDbm => ~chipAuto']_vars
  <2> SUFFICES ASSUME Inv, Next, chipDbm' # chipDbm
               PROVE  ~chipAuto'
    OBVIOUS
  <2>1. CASE Loop
    <3>1. ApplyDone \/ ApplyFailed
      BY <2>1 DEF Loop, SampleFc, NoSocket, GoggleLost, TrackMode, Report,
        NoReport, ApplyNothing, PushFps, PushUnanswered, NoFps,
        EndPass, chip
    <3>2. PICK offOk \in BOOLEAN, setOk \in BOOLEAN : Apply(offOk, setOk)
      BY <3>1 DEF ApplyDone, ApplyFailed
    <3> QED
      BY <3>2 DEF Apply, WritePower, Inv, BeliefIsReal, TypeOK
  <2>2. CASE Arrivals \/ Environment
    BY <2>2 DEF Arrivals, Environment, Command, OtherDatagram, StbAck, FallSilent,
      Restart, chip
  <2> QED
    BY <2>1, <2>2 DEF Next
<1> QED
  BY <1>1, Invariant, PTL DEF Spec, WrittenOnlyInManual
=============================================================================
