------------------------------ MODULE AirPower ------------------------------
(***************************************************************************)
(* TX power and standby on the air unit (ml-linkd/ml-air-power.c, enabled  *)
(* mode): radiated power follows the flight controller's arm state, frame  *)
(* rate follows the goggle's standby.  One pass of the service loop is one *)
(* pass of `pc'; the chip and the camera feeder are modelled with it, and  *)
(* so is a stop and a new start of the daemon.                             *)
(*                                                                         *)
(* Abstracted: the GET_POWER read-back (it decides nothing), every clock   *)
(* but the 120 s of goggle silence, which `contact' records, and the       *)
(* reference on the shared handle (module AirBind has it).                 *)
(***************************************************************************)
EXTENDS Naturals

CONSTANTS Dbm,       \* powers the chip's range accepts
          IdleDbm,   \* AIR_POWER_IDLE_DBM
          NoDbm,     \* -1: nothing commanded, nothing applied
          ReportMax, \* AIR_POWER_REPORT_MAX
          MayRestart \* whether ml-linkd is stopped and started again

ASSUME PowerAssumption ==
  /\ IdleDbm \in Dbm
  /\ NoDbm \notin Dbm
  /\ ReportMax \in Nat \ {0}
  /\ MayRestart \in BOOLEAN

VARIABLES
  pc,          \* next stage of the loop
  commanded,   \* commanded_dbm
  standbyCmd,  \* standby_cmd
  fcPresent,   \* fc_present
  armed,       \* armed
  contact,     \* last_rx_ms: "none" (0), "fresh", "silent" (120 s old)
  workMode,    \* work_mode
  reported,    \* reported_mode
  acked,       \* acked
  reports,     \* reports
  appliedDbm,  \* applied_dbm
  appliedFps,  \* applied_fps
  autoOff,     \* auto_disabled
  chipAuto,    \* the chip: closed loop on
  chipDbm,     \* the chip: power last written
  feeder       \* ml-air-video: capture feeder rate

command == <<commanded, standbyCmd, contact>>
fc == <<fcPresent, armed>>
mode == <<workMode, reported, acked, reports>>
applied == <<appliedDbm, autoOff>>
chip == <<chipAuto, chipDbm>>
rate == <<appliedFps, feeder>>
vars == <<pc, command, fc, mode, applied, chip, rate>>

Normal == "normal"
Standby == "standby"
Modes == {Normal, Standby}
Full == 60  \* AIR_POWER_FPS_NORMAL
Slow == 15  \* AIR_POWER_FPS_STANDBY

Stages == {"fc", "lost", "mode", "report", "apply", "fps", "rx"}

TypeOK ==
  /\ pc \in Stages
  /\ commanded \in Dbm \cup {NoDbm}
  /\ appliedDbm \in Dbm \cup {NoDbm}
  /\ chipDbm \in Dbm
  /\ standbyCmd \in BOOLEAN /\ fcPresent \in BOOLEAN /\ armed \in BOOLEAN
  /\ acked \in BOOLEAN /\ autoOff \in BOOLEAN /\ chipAuto \in BOOLEAN
  /\ contact \in {"none", "fresh", "silent"}
  /\ workMode \in Modes /\ reported \in Modes
  /\ reports \in 0..ReportMax
  /\ appliedFps \in {0, Slow, Full}
  /\ feeder \in {Slow, Full}

Init ==
  /\ pc = "fc"
  /\ commanded = NoDbm
  /\ standbyCmd = FALSE
  /\ fcPresent = FALSE
  /\ armed = FALSE
  /\ contact = "none"
  /\ workMode = Normal
  /\ reported = Normal
  /\ acked = FALSE
  /\ reports = 0
  /\ appliedDbm = NoDbm
  /\ appliedFps = 0
  /\ autoOff = FALSE
  /\ chipAuto = TRUE
  /\ chipDbm \in Dbm
  /\ feeder = Full

Stage(from, to) == pc = from /\ pc' = to

-----------------------------------------------------------------------------
(* The flight controller is sampled every pass; with no fresh telemetry its
   arm flag means nothing.                                                 *)
SampleFc ==
  /\ Stage("fc", "lost")
  /\ fcPresent' \in BOOLEAN
  /\ armed' \in BOOLEAN
  /\ UNCHANGED <<command, mode, applied, chip, rate>>

(* The control node is not there this pass: the service does nothing.      *)
NoSocket ==
  /\ Stage("lost", "rx")
  /\ UNCHANGED <<command, fc, mode, applied, chip, rate>>

(* air_power_goggle_lost.  Whatever becomes of the one write that hands the
   radio back, the contact and the commanded power are forgotten.          *)
HandBack_KeepsFlag(sent) ==
  /\ chipAuto' = (chipAuto \/ sent)
  /\ UNCHANGED autoOff

HandBack(sent) ==
  /\ chipAuto' = (chipAuto \/ sent)
  /\ autoOff' = (autoOff /\ ~sent)

GoggleLost ==
  /\ Stage("lost", "mode")
  /\ IF contact = "silent"
       THEN /\ contact' = "none"
            /\ commanded' = NoDbm
            /\ appliedDbm' = NoDbm
            /\ \E sent \in IF autoOff THEN BOOLEAN ELSE {FALSE} : HandBack(sent)
       ELSE UNCHANGED <<contact, commanded, applied, chipAuto>>
  /\ UNCHANGED <<standbyCmd, fc, mode, chipDbm, rate>>

(* Arming cancels a commanded standby. *)
WantedMode_IgnoresArm == IF standbyCmd THEN Standby ELSE Normal

WantedMode == IF standbyCmd /\ ~(fcPresent /\ armed) THEN Standby ELSE Normal

TrackMode ==
  /\ Stage("mode", "report")
  /\ workMode' = WantedMode
  /\ IF WantedMode # workMode THEN acked' = FALSE /\ reports' = 0
                              ELSE UNCHANGED <<acked, reports>>
  /\ UNCHANGED <<command, fc, reported, applied, chip, rate>>

(* air_power_report: a change is due at once, an unacked standby entry is
   due again (after 500 ms) a bounded number of times.                     *)
ReportDue_Unbounded ==
  workMode # reported \/ (workMode = Standby /\ ~acked)

ReportDue ==
  workMode # reported \/ (workMode = Standby /\ ~acked /\ reports < ReportMax)

Report ==
  /\ Stage("report", "apply")
  /\ ReportDue
  /\ reported' = workMode
  /\ reports' = reports + 1
  /\ UNCHANGED <<command, fc, workMode, acked, applied, chip, rate>>

(* Nothing is due, the 500 ms have not passed, or sendto failed.           *)
NoReport ==
  /\ Stage("report", "apply")
  /\ UNCHANGED <<command, fc, mode, applied, chip, rate>>

-----------------------------------------------------------------------------
(* The power policy: a disarmed aircraft holds the minimum, an absent flight
   controller leaves the goggle in charge.                                 *)
TargetDbm == IF fcPresent /\ ~armed THEN IdleDbm ELSE commanded

(* air_power_apply writes only a change, and only after the closed loop is
   off; either write may fail and is tried again on the next pass.         *)
Written == commanded = NoDbm \/ TargetDbm = appliedDbm

ApplyNothing ==
  /\ Stage("apply", "fps")
  /\ Written
  /\ UNCHANGED <<command, fc, mode, applied, chip, rate>>

(* Both writes, in that order; the first is skipped once it has succeeded. *)
WritePower_Unchecked(offOk, setOk) ==
  /\ autoOff' = TRUE
  /\ chipAuto' = (chipAuto /\ ~(offOk /\ ~autoOff))
  /\ IF setOk
       THEN chipDbm' = TargetDbm /\ appliedDbm' = TargetDbm
       ELSE UNCHANGED <<chipDbm, appliedDbm>>

WritePower(offOk, setOk) ==
  /\ autoOff' = (autoOff \/ offOk)
  /\ chipAuto' = (chipAuto /\ ~(offOk /\ ~autoOff))
  /\ IF (autoOff \/ offOk) /\ setOk
       THEN chipDbm' = TargetDbm /\ appliedDbm' = TargetDbm
       ELSE UNCHANGED <<chipDbm, appliedDbm>>

Apply(offOk, setOk) ==
  /\ Stage("apply", "fps")
  /\ ~Written
  /\ WritePower(offOk, setOk)
  /\ UNCHANGED <<command, fc, mode, rate>>

ApplyDone == Apply(TRUE, TRUE)
ApplyFailed == Apply(FALSE, FALSE) \/ Apply(TRUE, FALSE)

(* air_power_frame_rate: the feeder is told of a change, never before the
   first standby.  A command that got no answer is tried again on the next
   pass if a change is still due then; ml-air-video may have obeyed it and
   only answered too late.                                                 *)
TargetFps == IF workMode = Standby THEN Slow ELSE Full
FpsDue == appliedFps # TargetFps /\ ~(appliedFps = 0 /\ workMode = Normal)

PushFps ==
  /\ Stage("fps", "rx")
  /\ FpsDue
  /\ appliedFps' = TargetFps
  /\ feeder' = TargetFps
  /\ UNCHANGED <<command, fc, mode, applied, chip>>

PushUnanswered ==
  /\ Stage("fps", "rx")
  /\ FpsDue
  /\ feeder' \in {feeder, TargetFps}
  /\ UNCHANGED <<command, fc, mode, applied, chip, appliedFps>>

NoFps ==
  /\ Stage("fps", "rx")
  /\ ~FpsDue
  /\ UNCHANGED <<command, fc, mode, applied, chip, rate>>

-----------------------------------------------------------------------------
(* The goggle's datagrams, drained at the end of a pass.  Every one of them
   renews the contact.                                                     *)

(* SetTranParm and SetLdCfg carry the same pair; a power out of range
   (NoDbm here) leaves the last one in place and does not block the standby
   bit, as the comment at air_power_command has it.                        *)
Command(dbm, standby) ==
  /\ pc = "rx"
  /\ contact' = "fresh"
  /\ commanded' = IF dbm \in Dbm THEN dbm ELSE commanded
  /\ standbyCmd' = standby
  /\ UNCHANGED <<pc, fc, mode, applied, chip, rate>>

(* A keyframe, parameter or camera request: contact and nothing else here. *)
OtherDatagram ==
  /\ pc = "rx"
  /\ contact' = "fresh"
  /\ UNCHANGED <<pc, commanded, standbyCmd, fc, mode, applied, chip, rate>>

(* The goggle's ack may be late by any time, so it is not tied to the last
   report; outside a standby it is stray.                                  *)
StbAck ==
  /\ pc = "rx"
  /\ contact' = "fresh"
  /\ acked' = (acked \/ workMode = Standby)
  /\ UNCHANGED <<pc, commanded, standbyCmd, fc, workMode, reported, reports,
                 applied, chip, rate>>

EndPass ==
  /\ Stage("rx", "fc")
  /\ UNCHANGED <<command, fc, mode, applied, chip, rate>>

-----------------------------------------------------------------------------
(* 120 s pass without a datagram. *)
FallSilent ==
  /\ contact = "fresh"
  /\ contact' = "silent"
  /\ UNCHANGED <<pc, commanded, standbyCmd, fc, mode, applied, chip, rate>>

(* ml-linkd is stopped (or dies) and is started again: nothing of its power
   state is put back on the way out or read back on the way in.            *)
Restart ==
  /\ MayRestart
  /\ pc' = "fc"
  /\ commanded' = NoDbm
  /\ standbyCmd' = FALSE
  /\ fcPresent' = FALSE
  /\ armed' = FALSE
  /\ contact' = "none"
  /\ workMode' = Normal
  /\ reported' = Normal
  /\ acked' = FALSE
  /\ reports' = 0
  /\ appliedDbm' = NoDbm
  /\ appliedFps' = 0
  /\ autoOff' = FALSE
  /\ UNCHANGED <<chip, feeder>>

-----------------------------------------------------------------------------
Loop ==
  \/ SampleFc
  \/ NoSocket
  \/ GoggleLost
  \/ TrackMode
  \/ Report
  \/ NoReport
  \/ ApplyNothing
  \/ ApplyDone
  \/ ApplyFailed
  \/ PushFps
  \/ PushUnanswered
  \/ NoFps
  \/ EndPass

Arrivals ==
  \/ \E dbm \in Dbm \cup {NoDbm}, standby \in BOOLEAN : Command(dbm, standby)
  \/ OtherDatagram
  \/ StbAck

Environment ==
  \/ FallSilent
  \/ Restart

Next == Loop \/ Arrivals \/ Environment

(* The loop runs on; and a retried write, command or report that keeps being
   tried is not refused for ever (the chip's queue drains, ml-air-video
   answers, the link is up).                                               *)
Fairness ==
  /\ WF_vars(Loop)
  /\ SF_vars(EndPass)
  /\ SF_vars(GoggleLost)
  /\ SF_vars(ApplyDone)
  /\ SF_vars(PushFps)
  /\ SF_vars(Report)

Spec == Init /\ [][Next]_vars
FairSpec == Spec /\ Fairness

-----------------------------------------------------------------------------
(* Properties.                                                             *)

(* What the controller remembers having written is what the chip has, so a
   write it skips as already applied really is: through refused writes, a
   half-done pair of them, the hand-back after silence and a restart
   (air_power_apply, air_power_goggle_lost).                               *)
BeliefIsReal ==
  /\ autoOff => ~chipAuto
  /\ appliedDbm # NoDbm => autoOff /\ chipDbm = appliedDbm

(* A power is only ever written to a chip whose closed loop is off: the two
   are mutually exclusive (air_power_apply).                               *)
WrittenOnlyInManual == [][chipDbm' # chipDbm => ~chipAuto']_vars

Inputs == <<fcPresent, armed, commanded, standbyCmd>>
TableDbm == IF fcPresent /\ ~armed THEN IdleDbm ELSE commanded
TableMode == IF standbyCmd /\ ~(fcPresent /\ armed) THEN Standby ELSE Normal

(* Once the flight controller and the goggle stop changing their minds, the
   radiated power and the reported work mode settle where the table of
   ml-air-power.h puts them, whatever writes were refused on the way: armed
   means the commanded power and no standby, disarmed means the minimum, an
   absent controller leaves the goggle in charge (air_power_service).  A
   goggle that falls silent has changed its mind about the power, which is
   forgotten, and not about the standby, which the unit stays in for ever
   (air_power_goggle_lost).  What is settled is what the unit reports; a
   report may still get lost on its way to the goggle.                     *)
SettlesOnTable ==
  <>[][FALSE]_Inputs => <>[](/\ commanded # NoDbm => chipDbm = TableDbm
                             /\ reported = TableMode)

(* The same of the other lever, as the table in ml-air-power.h has it: 15
   frames a second in standby and 60 otherwise (air_power_frame_rate).     *)
FeederSettlesOnTable ==
  <>[][FALSE]_Inputs => <>[](feeder = IF TableMode = Standby THEN Slow ELSE Full)
=============================================================================
