------------------------------ MODULE Recorder ------------------------------
(***************************************************************************)
(* The recorder of the goggle's video pipeline (ml-pipeline): mlp-record.c *)
(* with the parts of mlp-rtsp.c and mlp-playback.c that start and stop the *)
(* encoder.  One encoder bin serves the DVR file, the RTSP restream, or    *)
(* both.  Four threads meet here:                                          *)
(*                                                                         *)
(*   the main loop starts and stops the bin, for the record button, the    *)
(*     restream setting, playback and an encoder error.  A stop blocks it  *)
(*     (thread join, EOS wait), so `at' says where inside a handler it is  *)
(*     and `cont' what follows the stop it is in;                          *)
(*   the compositor (a decoder's thread, under comp_lock) offers every     *)
(*     finished composite to the recorder and hands it on to the display;  *)
(*   the scale worker shrinks composites out of a mailbox of one frame;    *)
(*   the encoder holds what it was given until it is coded.                *)
(*                                                                         *)
(* Nothing orders the compositor's look at enc_on with the main loop's     *)
(* stop.  What the compositor offers is a counted reference to a buffer of *)
(* the display's pool: `ref' is GStreamer's count, Held counts the         *)
(* pointers that stand for it.                                             *)
(*                                                                         *)
(* Left out: the copy and videoscale paths (bench environment only), the   *)
(* SRT and OSD side data, the file name, RTSP's own media and clients, the *)
(* recording that ML_DVR starts with the process and the stop at its end.  *)
(***************************************************************************)
EXTENDS Integers, FiniteSets

CONSTANTS Buf,          \* the composite pool
          RecPool,      \* scaled destination buffers (REC_POOL)
          QMax,         \* rec_qmax: frames waiting before the encoder
          EncDepth,     \* frames inside the encoder
          MaxFaults     \* bound: failed starts and binds, encoder errors

ASSUME RecorderAssumption ==
  /\ RecPool \in Nat /\ RecPool >= 2
  /\ QMax \in Nat \ {0}
  /\ EncDepth \in Nat
  /\ MaxFaults \in Nat

NoBuf == "nobuf"
ASSUME NoBufAssumption == NoBuf \notin Buf

VARIABLES
  at, cont,     \* main loop: where it is, what follows the stop it is in
  bin,          \* rec_bin and rec_src: "none", or what the bin was built for
  encOn, recOn, \* enc_on, rec_on
  mode,         \* rec_hwscale or rec_import
  rtspOn,       \* rtsp_on
  pb, live,     \* pb_active; the RF decode graph is up
  errs, idle,   \* an error waits on the bin's bus; rec_stop_idle is queued
  dead,         \* the bin has failed and codes no more
  want,         \* the HUD's setting, dvr.rtsp_stream
  push,         \* compositor: where in rec_push, with which buffer
  mailbox,      \* rec_scale_buf
  run, worker,  \* rec_scale_run, the scale worker's thread
  work,         \* the composite the worker is scaling
  enc, scaled,  \* composites, scaled buffers the encoder holds
  shown,        \* composites the display holds
  ref,          \* the pool buffers' reference counts
  risk,         \* history: buffers touched by a put that crossed a stop
  faults        \* bound counter

main == <<at, cont>>
flags == <<encOn, recOn>>
play == <<pb, live>>
bus == <<errs, idle, dead>>
thread == <<run, worker>>
pins == <<push, mailbox, work, enc, scaled, shown, ref, risk>>
vars == <<main, bin, flags, mode, rtspOn, play, bus, want, thread, pins, faults>>

-----------------------------------------------------------------------------
One(P) == IF P THEN 1 ELSE 0

(* rec_stop has released the mailbox and not yet cleared the pointer. *)
Dangling == at = "clear"

HasSrc == bin # "none"

(* The references to b the program will give back. *)
Held(b) ==
  One(push.at # "idle" /\ push.buf = b) + One(mailbox = b /\ ~Dangling)
    + One(work = b) + One(b \in enc) + One(b \in shown)

(* One reference less; GStreamer refuses to go below none. *)
Unref(r, B) == [b \in Buf |-> IF b \in B /\ r[b] > 0 THEN r[b] - 1 ELSE r[b]]
RefOf(r, b) == [r EXCEPT ![b] = @ + 1]

NotPushing == [at |-> "idle", buf |-> NoBuf, stale |-> FALSE]

(* What the encoder still has on its queue, of all it holds. *)
Levels ==
  LET held == Cardinality(enc) + scaled
  IN  {n \in 0..held : held - n <= EncDepth}

(* What follows a start of either kind, done or failed. *)
AfterStart(kind) == IF kind = "file" THEN "restream" ELSE "poll"

Fault == faults < MaxFaults /\ faults' = faults + 1

Init ==
  /\ at = "poll" /\ cont = "poll"
  /\ bin = "none"
  /\ encOn = FALSE /\ recOn = FALSE
  /\ mode = "import"
  /\ rtspOn = FALSE
  /\ pb = FALSE /\ live = TRUE
  /\ errs = FALSE /\ idle = FALSE /\ dead = FALSE
  /\ want = FALSE
  /\ push = NotPushing
  /\ mailbox = NoBuf
  /\ run = FALSE /\ worker = FALSE
  /\ work = NoBuf
  /\ enc = {} /\ scaled = 0
  /\ shown = {}
  /\ ref = [b \in Buf |-> 0]
  /\ risk = {}
  /\ faults = 0

-----------------------------------------------------------------------------
(* Main loop: starting the bin *)

StopThen(next) == at' = "stop" /\ cont' = next
Goto(next) == at' = next /\ UNCHANGED cont

(* rec_start up to the bin: at is the kind of start, "file" or "stream". *)
BuildBin ==
  /\ at \in {"file", "stream"}
  /\ UNCHANGED <<flags, rtspOn, play, want, thread, pins>>
  /\ \/ /\ bin # "none"
        /\ Goto(AfterStart(at))
        /\ UNCHANGED <<bin, mode, bus, faults>>
     \/ /\ bin = "none"
        /\ mode' \in {"import", "scale"}
        /\ \/ /\ Fault
              /\ Goto(AfterStart(at))
              /\ UNCHANGED <<bin, bus>>
           \/ /\ bin' = at
              /\ Goto("go")
              /\ dead' = FALSE
              /\ UNCHANGED <<errs, idle, faults>>

(* PLAYING, the scale worker, and the flags that let the compositor in. *)
StartBin ==
  /\ at = "go"
  /\ UNCHANGED <<bin, mode, rtspOn, play, bus, want, push, work, enc, scaled,
                 shown, ref, risk>>
  /\ \/ /\ Fault
        /\ StopThen(AfterStart(bin))
        /\ mailbox' \in IF mode = "scale" THEN {mailbox, NoBuf} ELSE {mailbox}
        /\ UNCHANGED <<flags, thread>>
     \/ /\ mailbox' = IF mode = "scale" THEN NoBuf ELSE mailbox
        /\ run' = (mode = "scale")
        /\ worker' = (mode = "scale")
        /\ encOn' = TRUE
        /\ recOn' = (bin = "file")
        /\ Goto(AfterStart(bin))
        /\ UNCHANGED faults

(* Main loop: stopping it *)

StopBegins ==
  /\ at = "stop"
  /\ UNCHANGED <<cont, bin, mode, rtspOn, play, bus, want, worker, mailbox, work,
                 enc, scaled, shown, ref, risk, faults>>
  /\ \/ /\ bin = "none"
        /\ at' = cont
        /\ UNCHANGED <<flags, run, push>>
     \/ /\ bin # "none"
        /\ recOn' = FALSE
        /\ encOn' = FALSE
        /\ run' = FALSE
        /\ push' = [push EXCEPT !.stale = push.at # "idle"]
        /\ at' = IF run THEN "join" ELSE "drain"

(* The worker is gone: what it left in the mailbox is dropped, unlocked. *)
StopJoins ==
  /\ at = "join"
  /\ ~worker
  /\ IF mailbox = NoBuf
       THEN Goto("drain") /\ UNCHANGED ref
       ELSE Goto("clear") /\ ref' = Unref(ref, {mailbox})
  /\ UNCHANGED <<bin, flags, mode, rtspOn, play, bus, want, thread, push, mailbox,
                 work, enc, scaled, shown, risk, faults>>

StopClears ==
  /\ at = "clear"
  /\ mailbox' = NoBuf
  /\ Goto("drain")
  /\ UNCHANGED <<bin, flags, mode, rtspOn, play, bus, want, thread, push, work, enc,
                 scaled, shown, ref, risk, faults>>

(* Watch off, EOS, at most 3 s of waiting, then NULL takes everything back. *)
StopDrains ==
  /\ at = "drain"
  /\ ref' = Unref(ref, enc)
  /\ enc' = {}
  /\ scaled' = 0
  /\ bin' = "none"
  /\ errs' = FALSE
  /\ dead' = FALSE
  /\ Goto(cont)
  /\ UNCHANGED <<flags, mode, rtspOn, play, idle, want, thread, push, mailbox, work,
                 shown, risk, faults>>

-----------------------------------------------------------------------------
(* Main loop: what starts and stops it *)

Up == rtspOn /\ encOn

Toggle ==
  /\ at = "poll"
  /\ CASE recOn            -> StopThen("restream")
       [] ~recOn /\ encOn  -> StopThen("file")
       [] ~recOn /\ ~encOn -> Goto("file")
  /\ UNCHANGED <<bin, flags, mode, rtspOn, play, bus, want, thread, pins, faults>>

(* rec_toggle's end: the restream outlives the recording either way. *)
Restream ==
  /\ at = "restream"
  /\ Goto(IF ~encOn /\ rtspOn /\ ~pb THEN "stream" ELSE "poll")
  /\ UNCHANGED <<bin, flags, mode, rtspOn, play, bus, want, thread, pins, faults>>

(* What every assertion of the setting tries again, not the first one only. *)
EncoderMissing_FirstTime == ~encOn /\ ~pb /\ ~rtspOn
EncoderMissing_Playing == ~encOn
EncoderMissing == ~encOn /\ ~pb

(***************************************************************************)
(* rtsp_set.  The HUD repeats its setting while the state reported to it   *)
(* differs; the report may be old, so it may also repeat it in vain.  A    *)
(* server that cannot bind changes nothing here, as a lost command.        *)
(***************************************************************************)
RtspOn ==
  /\ at = "poll" /\ want
  /\ rtspOn' = TRUE
  /\ Goto(IF EncoderMissing THEN "stream" ELSE "poll")
  /\ UNCHANGED <<bin, flags, mode, play, bus, want, thread, pins, faults>>

RtspOff ==
  /\ at = "poll" /\ ~want
  /\ rtspOn' = FALSE
  /\ IF rtspOn /\ encOn /\ ~recOn THEN StopThen("poll") ELSE Goto("poll")
  /\ UNCHANGED <<bin, flags, mode, play, bus, want, thread, pins, faults>>

Play ==
  /\ at = "poll"
  /\ pb' = FALSE
  /\ live' = FALSE
  /\ Goto(IF pb THEN "open" ELSE "leave")
  /\ UNCHANGED <<bin, flags, mode, rtspOn, bus, want, thread, pins, faults>>

(* rf_decode_stop waits for the decoder threads; a stream-only encoder yields. *)
LeaveLive ==
  /\ at = "leave"
  /\ push.at = "idle"
  /\ IF encOn /\ ~recOn THEN StopThen("open") ELSE Goto("open")
  /\ UNCHANGED <<bin, flags, mode, rtspOn, play, bus, want, thread, pins, faults>>

(* The clip's pipeline, or a clip it cannot be built for. *)
OpenClip ==
  /\ at = "open"
  /\ \/ pb' = TRUE /\ Goto("poll")
     \/ pb' = FALSE /\ Goto("live")
  /\ UNCHANGED <<bin, flags, mode, rtspOn, live, bus, want, thread, pins, faults>>

(* The user's stop, or an error on the clip's own bus. *)
StopPlay ==
  /\ at = "poll" /\ pb
  /\ pb' = FALSE
  /\ Goto("live")
  /\ UNCHANGED <<bin, flags, mode, rtspOn, live, bus, want, thread, pins, faults>>

ResumeLive ==
  /\ at = "live"
  /\ live' = TRUE
  /\ Goto(IF rtspOn /\ ~encOn THEN "stream" ELSE "poll")
  /\ UNCHANGED <<bin, flags, mode, rtspOn, pb, bus, want, thread, pins, faults>>

(* rec_bus_cb queues rec_stop_idle, for whatever bin there is by then. *)
BusWatch ==
  /\ at = "poll" /\ errs
  /\ errs' = FALSE
  /\ idle' = TRUE
  /\ UNCHANGED <<main, bin, flags, mode, rtspOn, play, dead, want, thread, pins, faults>>

(* Idle sources run when no other source is ready. *)
StopIdle ==
  /\ at = "poll" /\ idle /\ ~errs
  /\ idle' = FALSE
  /\ StopThen("poll")
  /\ UNCHANGED <<bin, flags, mode, rtspOn, play, errs, dead, want, thread, pins, faults>>

SetWant ==
  /\ want' = ~want
  /\ UNCHANGED <<main, bin, flags, mode, rtspOn, play, bus, thread, pins, faults>>

-----------------------------------------------------------------------------
(* The compositor *)

(* A finished composite; without an encoder it goes straight to the display. *)
Compose(b) ==
  /\ live /\ push.at = "idle"
  /\ ref[b] = 0 /\ Held(b) = 0
  /\ ref' = RefOf(ref, b)
  /\ IF encOn /\ HasSrc
       THEN push' = [at |-> "checked", buf |-> b, stale |-> FALSE] /\ UNCHANGED shown
       ELSE shown' = shown \cup {b} /\ UNCHANGED push
  /\ risk' = risk \ {b}
  /\ UNCHANGED <<main, bin, flags, mode, rtspOn, play, bus, want, thread, mailbox,
                 work, enc, scaled, faults>>

Submit == shown' = shown \cup {push.buf} /\ push' = NotPushing

(* The level check; without rec_src the library answers the largest number. *)
PushLevel ==
  /\ push.at = "checked"
  /\ \/ /\ ~HasSrc \/ \E n \in Levels : n >= QMax
        /\ Submit
     \/ /\ HasSrc
        /\ \E n \in Levels : n < QMax
        /\ push' = [push EXCEPT !.at = "room"]
        /\ UNCHANGED shown
  /\ UNCHANGED <<main, bin, flags, mode, rtspOn, play, bus, want, thread, mailbox,
                 work, enc, scaled, ref, risk, faults>>

(* A put that crosses a stop answers for its own frame, and for the mailbox's *)
(* where rec_stop has already released that one.                              *)
Risked(B) == IF push.stale THEN risk \cup (B \ {NoBuf}) ELSE risk

(* The mailbox holds one frame: the newest, whose predecessor is let go. *)
Deposit_KeepsOlder(b) == RefOf(ref, b)
Deposit(b) == RefOf(Unref(ref, {mailbox}), b)

(* Scaled recording: newest wins the mailbox, unless the 30 fps gate skips. *)
PushMailbox ==
  /\ push.at = "room" /\ mode = "scale"
  /\ Submit
  /\ \/ UNCHANGED <<mailbox, ref, risk>>
     \/ /\ mailbox' = push.buf
        /\ ref' = Deposit(push.buf)
        /\ risk' = Risked({push.buf} \cup IF Dangling THEN {mailbox} ELSE {})
  /\ UNCHANGED <<main, bin, flags, mode, rtspOn, play, bus, want, thread, work, enc,
                 scaled, faults>>

(* Native recording: the encoder's frame pins the composite.  An appsrc past *)
(* EOS or failed refuses the frame and releases it; no appsrc keeps it.      *)
PushImport ==
  /\ push.at = "room" /\ mode = "import"
  /\ Submit
  /\ \/ /\ HasSrc
        /\ enc' = enc \cup {push.buf}
        /\ ref' = RefOf(ref, push.buf)
        /\ UNCHANGED risk
     \/ /\ HasSrc /\ (push.stale \/ dead)
        /\ UNCHANGED <<enc, ref, risk>>
     \/ /\ ~HasSrc
        /\ ref' = RefOf(ref, push.buf)
        /\ risk' = Risked({push.buf})
        /\ UNCHANGED enc
  /\ UNCHANGED <<main, bin, flags, mode, rtspOn, play, bus, want, thread, mailbox,
                 work, scaled, faults>>

(* The display gives a composite back after its flips. *)
Shown(b) ==
  /\ b \in shown
  /\ shown' = shown \ {b}
  /\ ref' = Unref(ref, {b})
  /\ UNCHANGED <<main, bin, flags, mode, rtspOn, play, bus, want, thread, push,
                 mailbox, work, enc, scaled, risk, faults>>

-----------------------------------------------------------------------------
(* The scale worker *)

WorkerTake ==
  /\ worker /\ run /\ work = NoBuf /\ mailbox # NoBuf
  /\ work' = mailbox
  /\ mailbox' = NoBuf
  /\ UNCHANGED <<main, bin, flags, mode, rtspOn, play, bus, want, thread, push, enc,
                 scaled, shown, ref, risk, faults>>

(* No destination, a failed scale or a full queue drops the frame. *)
WorkerScale ==
  /\ work # NoBuf
  /\ ref' = Unref(ref, {work})
  /\ work' = NoBuf
  /\ scaled' \in {scaled, scaled + 1} \cap (0..RecPool)
  /\ UNCHANGED <<main, bin, flags, mode, rtspOn, play, bus, want, thread, push,
                 mailbox, enc, shown, risk, faults>>

WorkerExit ==
  /\ worker /\ ~run /\ work = NoBuf
  /\ worker' = FALSE
  /\ UNCHANGED <<main, bin, flags, mode, rtspOn, play, bus, want, run, pins, faults>>

-----------------------------------------------------------------------------
(* The encoder *)

Coded ==
  /\ \/ \E b \in enc : enc' = enc \ {b} /\ ref' = Unref(ref, {b}) /\ UNCHANGED scaled
     \/ scaled > 0 /\ scaled' = scaled - 1 /\ UNCHANGED <<enc, ref>>
  /\ UNCHANGED <<main, bin, flags, mode, rtspOn, play, bus, want, thread, push,
                 mailbox, work, shown, risk, faults>>

EncoderFails ==
  /\ bin # "none"
  /\ Fault
  /\ dead' = TRUE
  /\ errs' = TRUE
  /\ UNCHANGED <<main, bin, flags, mode, rtspOn, play, idle, want, thread, pins>>

MainStep ==
  \/ BuildBin \/ StartBin \/ StopBegins \/ StopJoins \/ StopClears \/ StopDrains
  \/ Restream \/ LeaveLive \/ OpenClip \/ ResumeLive

WorkerStep == WorkerTake \/ WorkerScale \/ WorkerExit

PushStep == PushLevel \/ PushMailbox \/ PushImport

Next ==
  \/ MainStep \/ Toggle \/ RtspOn \/ RtspOff \/ Play \/ StopPlay
  \/ BusWatch \/ StopIdle \/ SetWant
  \/ PushStep \/ WorkerStep \/ Coded \/ EncoderFails
  \/ \E b \in Buf : Compose(b) \/ Shown(b)

(***************************************************************************)
(* Handlers and threads run on, and the EOS wait ends after 3 s.  The main *)
(* loop comes back to each of its sources, whatever it serves in between.  *)
(* The pipeline reports Up every second and the HUD repeats its setting    *)
(* every second while the report differs, so in the end a command gets     *)
(* through, and finds the port free.  Nothing is assumed of the user, the  *)
(* video, the encoder or the display.                                      *)
(***************************************************************************)
Fairness ==
  /\ WF_vars(MainStep) /\ WF_vars(PushStep) /\ WF_vars(WorkerStep)
  /\ SF_vars(BusWatch) /\ SF_vars(StopIdle)
  /\ SF_vars(~Up /\ RtspOn) /\ SF_vars(Up /\ RtspOff)

Spec == Init /\ [][Next]_vars /\ Fairness

-----------------------------------------------------------------------------
(* Properties *)

(* Every variable has its type: the bin, its threads, every pin and its count. *)
TypeOK ==
  /\ at \in {"poll", "file", "stream", "go", "stop", "join", "clear", "drain",
             "restream", "leave", "open", "live"}
  /\ cont \in {"file", "restream", "poll", "open"}
  /\ bin \in {"none", "file", "stream"}
  /\ encOn \in BOOLEAN /\ recOn \in BOOLEAN
  /\ mode \in {"import", "scale"}
  /\ rtspOn \in BOOLEAN
  /\ pb \in BOOLEAN /\ live \in BOOLEAN
  /\ errs \in BOOLEAN /\ idle \in BOOLEAN /\ dead \in BOOLEAN
  /\ want \in BOOLEAN
  /\ push \in [at : {"idle", "checked", "room"}, buf : Buf \cup {NoBuf}, stale : BOOLEAN]
  /\ push.at # "idle" => push.buf \in Buf
  /\ mailbox \in Buf \cup {NoBuf}
  /\ run \in BOOLEAN /\ worker \in BOOLEAN
  /\ work \in Buf \cup {NoBuf}
  /\ enc \subseteq Buf /\ shown \subseteq Buf /\ risk \subseteq Buf
  /\ scaled \in 0..RecPool
  /\ ref \in [Buf -> Nat]
  /\ faults \in 0..MaxFaults

(* Every reference counted on a composite is one somebody will give back, and *)
(* nobody gives back one he has not: whatever is dropped, refused, scaled,    *)
(* coded, stopped or failed, the display's pool neither shrinks nor hands out *)
(* a buffer in use.  Excepted are the buffers of a put that crosses rec_stop. *)
PinsAccounted == \A b \in Buf \ risk : ref[b] = Held(b)

(* While a clip plays, no encoder runs for the restream alone: the decoder of *)
(* the clip needs its codec memory (playback_play, rtsp_set, rec_toggle).     *)
StreamYields == pb => (encOn => recOn)

(* The restream follows its setting: with the setting on and no clip playing, *)
(* whatever failed or was torn down, an encoder that works is up again and    *)
(* again; with it off, the restream does not stay up.                         *)
RestreamFollows ==
  /\ <>[](want /\ ~pb) => []<>(Up /\ ~dead)
  /\ <>[]~want => []<>~Up
=============================================================================
