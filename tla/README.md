# Formal models of ml-userspace

The daemons in this repository run a digital FPV video link: an air unit (camera, encoder, AR8030
radio) and a goggle (decoder, compositor, HUD). They are small C programs, but what they promise is
promised across threads, two processes per side, a radio chip that refuses or loses commands, and a
lossy link. The modules here are TLA+ models of that control logic, checked with TLC on small
instances and, where it matters most, proved with TLAPS for every value of their constants.

Contents: [the system](#the-system), [module by module](#module-by-module), [what the runs
check](#what-the-runs-check), [what is proved](#what-is-proved),
[divergences](#where-the-code-and-its-comments-differ), [what is left out](#what-is-left-out),
[the plan](#the-plan).

## The system

All paths are under `src/`.

| component | state it keeps | operations | hard part |
|---|---|---|---|
| **Shared control-node handle** `ml-linkd/ml-air-bb.c` | one fd, a user count | acquire, release, send, drain | three users in one thread; a write error closes the fd under all of them |
| **Bind button, pair window** `ml-linkd/ml-air-bind.c` | phase, deadline, candidate hits, saved peer | button gesture, start, poll, commit, restore, stop, abort | every step is a write that may fail, halfway through a change of the chip's address |
| **Rate governor** `ml-linkd/ml-air-rate.c` | index in force, pending rise, cap, rate applied | sample, menu cap, push | hysteresis, numeric edges, a push that is refused or answered late |
| **Power and standby** `ml-linkd/ml-air-power.c` | goggle's command, arm state, work mode, what was written | goggle command, FC sample, report and ack, apply, frame rate, silence | memory of a chip it cannot read, restarts, reports over a lossy link |
| **Air loop** `ml-linkd/ml-linkd-air.c` | hello episodes, IDR rate limit | dispatch of datagrams, order of services | one thread that every service can stall |
| **Camera settings** `ml-linkd/ml-air-cam.c` | persisted profile | apply, persist | partial persist |
| **Goggle session** `ml-linkd/ml-rx-udp.c` | 3-way done, params acked, video confirmed, air lost, two watches, camera settings | heartbeat, hello, request, reply, telemetry, watches | four actors (HUD, pipeline, air, radio) and three timeouts around a handful of flags |
| **Channel, MCS, sweep** `ml-linkd/ml-rx-chan.c` | channel table, current index, sweep state | select, MCS, scan, 1V1 reports | three threads, a sweep that must restore what it changed |
| **Goggle bind** `ml-linkd/ml-rx-bind.c` | request, last pair reply | request, service, run | unchecked writes on the owner thread |
| **Reader, frame codecs** `ml-linkd/ml-rx-reader.c`, `bb-cmd.h`, `mp-cmd.h` | none of their own | decode, build | byte layouts |
| **RF receive and tile pairing** `gstreamer/src/ml-pipeline/mlp-rf.c`, `mlp-compose.c` | PTS epoch, stagger holds, decoder queues, pairing slots, composition pool | receive, hold, gate, flush, drain, pair, evict, swap | a receive thread and two decoder threads; frame numbers that restart; a pool that runs dry |
| **Display** `mlp-display.c`, `mlp-pace.c` | mailbox, flip in flight, two frames behind it, splash | submit, flip, retire, splash, shut down, restart | a scanout that latches at its own time, completions that come early, late or never, sleeps without the lock |
| **Recorder, restream, playback** `mlp-record.c`, `mlp-rtsp.c`, `mlp-playback.c` | encoder bin, flags, scale mailbox, setting, clip | start, stop, toggle, push, scale, play, resume, error | the compositor looks without a lock at what the main loop stops; one encoder serves two masters and yields to a third |
| **Air video** `gstreamer/src/ml-air-video/` | capture buffers, encoders, transmit sequence, two rates | capture, encode, restart, `bitrate`, `capfps`, `session-reset` | bounded restart with frames in flight |
| **HUD** `ml-hud/` | link state, settings, menu | poll, assert on an edge, menu | several records with their own timeouts |
| **LED, auto exposure, tools** `ml-ledd/`, `ml-aed/`, `ml-ltm/`, `ml-rfcmd/` ... | last LED record, exposure | mostly one-shot | little of its own |

How they talk: `ml-linkd` and the chip exchange frames over the AR8030 control node; the two units
exchange UDP datagrams over the radio (`:20001` the 3-way hello, `:10000` params, telemetry and
settings, a video stream per tile); on each unit the daemons exchange fixed records over local
sockets (`ml-shared/mlm.h`): on the goggle the pipeline sends READY heartbeats and the HUD sends RF
commands to `ml-linkd`, on the air `ml-linkd` sends text commands to `ml-air-video` and waits at
most 200 ms for the answer (`ml-air-ctrl.c`).

What makes each component correct:

* *handle*: open exactly while a user holds it; no reference lost or counted twice over an error.
* *pair window*: it closes; it never leaves the unit on the broadcast address or in pair mode
  without a reason outside its control; the disk gets only a peer the chip was given.
* *rate governor*: down at once, up only after a steady wait, never over the menu's cap, never zero.
* *power*: what it believes written is written; power is written only with the closed loop off;
  the levers settle where the table in `ml-air-power.h` puts them.
* *goggle session*: a loss forgets everything, a session comes back and holds, video comes back,
  no camera setting is forgotten.
* *channel, sweep, bind*: every sweep restores what it changed; the published table is a consistent one.
* *tiles*: a composed frame has both halves of one frame, in the air's order; one decoder's lead
  costs no more halves their buffer than the decoders hold beyond the margin of the pool.
* *display*: every composition buffer is in the pool or in one slot; none is written while the panel
  fetches it; the newest frame never stays parked.
* *recorder*: every reference to a composite has one holder; playback gets the codec memory; the
  restream runs whenever its setting stands.
* *air video*: every captured buffer is returned; restarts are bounded; a reset reaches both tiles.

`PROJECT.json` lists the hazards at their lines, each with the property that would catch it or the
reason none does yet.

## Module by module

### AirSocket, AirBind, PairWindow

`AirSocket` has the handle as a value `[open, users]` and the four calls of `ml-air-bb.c` as
operators. `AirBind` is the service loop of `ml-linkd-air.c` as the handle and the pair window see
it. `pc` is the next service: the rate governor and the power controller (reduced to what they do to
the handle: acquire, notice a closed node, write), the button (`NoPress`, `StartRefused`,
`StartNoBroadcast`, `StartNoPairMode`, `StartWindow`, one action per way out of `air_bind_start`),
the pair service (one action per branch of `air_bind_pair_service`: socket lost, commit, restore,
found, expired, poll) and the drain that delivers replies. The chip is `chipMac`, `chipPair` and the
number of polls it may still answer, so a reply to a poll of an earlier window is a behaviour.
Every write is "ok", "busy" (refused for its whole retry budget) or "broken" (closes the node under
all users). `Shutdown` is the `SIGTERM` path, with `air_bind_abort`.

`PairWindow` is the abstract specification: a window opens, collects sightings, and closes; on
closing it may bind to a peer it sighted often enough. `AirBind` implements it under the mapping
`open <- phase # "IDLE"`, `sighted <- heard`, `sightings <- hits`, `bound <- cfg` (property
`KeepsPromise`).

History variables: `heard` (candidates of this window), `stranded` (no address could be put back),
`offLost` (the pair-off write did not get through).

### AirPower

One pass of `air_power_service` is one round of `pc`: sample the flight controller, hand the radio
back after silence, track the work mode, report it, write power, push the frame rate, take
datagrams. `chipAuto` and `chipDbm` are the chip, `feeder` is the rate `ml-air-video` runs at; the
module relates the daemon's memory (`autoOff`, `appliedDbm`, `appliedFps`) to them. Writes may be
refused one by one, a frame-rate command may be obeyed and answered too late, and the daemon may be
restarted over a chip and a feeder that keep their state. `SettlesOnTable` is stated of what the unit
reports and of the command it goes by: a commanded standby outlives the goggle's silence, as the code
has it and two documents do not (see below), and a report that is lost is not part of it.

### AirRate

`air_rate_sample` as one action per branch: `Baseline`, `Drop`, `Level`, `RiseSeen`, `RiseWaits`,
`Rise`, `DropSample`; `SetCap` is the menu's ceiling; `Total` is `air_rate_total_kbps`. A push is
answered, refused, or obeyed and answered late. History: the last rate derived, whether a push is
unanswered, the last index seen and how long samples have shown it.

### RxSession

`rx_udp_thread`, one pass of the thread per round of `pc` (link socket and watches, hello, identity,
params, tail). The flags are the code's (`g_hs_done`, `g_params_acked`, `g_video_confirmed`,
`g_air_lost`, `g_ready`, `g_rx_counting`, camera pending and commanded); `telem`, `readyOld` and
`pktsOld` say which of the three windows (5 s of telemetry, 6 s of READY, 6 s of packets) has run out.
The environment is the radio, the air (streaming or not; answers hellos and requests), the pipeline
(its latched `frames_seen` and its packet counter) and the HUD.

### RxOwner, RxChan, RxBind, RxControl

The goggle's control node has one sender, the main thread. `RxOwner` has what its two users share:
the thread's next stage `pc`, the chip's replies on their way in order, and whether an air unit is
gone, heard or in session. `Ask` is `send_frame` of a question (frame or answer may be lost), `Read`
the reader thread.

`RxChan` is `ml-rx-chan.c`: the UDP thread's three requests, `rx_chan_open` (`AskBand`, `OpenBand`,
`OpenUnknown`, which is also the way out in a band without a channel), `rx_chan_service` (`TakeSelect` and `Tune` are two steps, so that a request can
arrive between the exchange and the select) and `sweep_run` with one action per poll, wait and way
out of `sweep_measure`. A reading is represented by the channel the chip took it on, and the chip
follows a select only after a while (`Follow`), so that what the gate on the reply's channel is for
can go wrong. `RxBind` is `ml-rx-bind.c`; the reply a hit was seen in and the MAC copied for it are
read in two steps (`PairHit`, `PairCopy`), with the reader free to run in between. `RxControl`
composes the two: the passes of `rx_steady`, the HUD, the reader and the air.

History variables: `asked` (the last retune accepted), `blind` (an index off the band was accepted
before the band was known), `late` and `pairLate` (a select or reply of this sweep or window was late
or lost), `pinned` (a pin was served in this pass).

### Display

`mlp-display.c` in composite mode. The five places a frame can be are the code's (`next_it`,
`pending_it`, `front_it`, `prev_it`, and the display thread's local in its first modeset); `free` is
the pool's queue. Three threads act: the compositor (`Park`, then `SubmitParked`), the display
thread (`pc`: one action per branch of a pass of `drm_disp_run`, with the splash in two steps around
its sleep, and the first modeset in three), and the main thread (`life`: `Stop`, `ParkCrtc`,
`StopDecoders`, `RemoveFbs`, `ReleaseAll`, `Open`, `Restart`). `TrySubmit` is `disp_try_submit`, with
a flip the driver refuses; `Retire` is the event handler.

The display controller is external and modelled from what the source's comments say of it: an
address written is latched at the next frame edge (`Edge`), and the edge's interrupt (`Interrupt`)
completes whatever flip is in flight by then, even one written after the edge; `LoseEvent` loses a
completion. The two sleeps end after a number of edges, not of interrupts. The modeset to the splash
before each sleep may fail, which the code does not let change anything: the sleep and the release of
the slots follow all the same.

History: `crossed` (a flip was issued during a sleep, or the modeset before it failed), `lost` (frames
a restart forgot).

### RfTiles

`rf_rx` with `push_au`, the two decoders and `on_tile`, in composite mode. A frame number becomes a
PTS in `Receive` (`Epoch`, with the slack a fall may have), and the access unit is then `Unusable`,
held by the stagger (`Stagger`) or the skew and backlog gate (`Gate`, `GateShut`), or goes `Straight`.
What is released is flushed, pushed and drained one unit per action, so the decoder threads may run in
between. Behind its appsrc a decoder is external (`appsrc ! h265parse ! v4l2h265dec ! appsink`,
`ml-pipeline.c:134-158`): it takes units from its input queue (`Take`) until it holds `Depth` of them
in parser, driver, hardware and appsink, in order, and for the oldest puts out nothing (`NoPicture`) or
calls `OnTile`, which pairs it with the parked half of the same PTS, parks it in a buffer of the pool,
or evicts the oldest half for it. The gate sees the level of the input queue and the last PTS put out,
and none of what is in between. How many buffers the display has given back is open, so a pool may be
dry or not in the same state (`MayBeDry`, `MayHaveFree`). A push that fails is left out: it fails only
while the pipeline goes down, and the receive thread is joined before. The main thread takes the decoders down and up around playback (`StopRx`,
`StopDecoders`, `StartDecoders`).

The environment sends the tiles of each frame close together (`Sends`), loses units (`Lose`) and
starts a new session with frame number 0 (`AirRestart`).

History: `shown` (the last composite), `evicted` (the PTSs that lost their buffer and that decoder 1 is
not past yet), `top`, and `waived`, which records the two ways in
which a session may begin that the code misjudges ("pts": a session begun unseen, or an epoch built
on a frame number that was not the highest) and what takes the gate's measure away ("gate": tile 1
comes in below a stale `out_pts`, tile 0 is past the stagger while tile 1 is not released, or tile 0's
hold overflows). A property that excepts them says so.

### Recorder

`mlp-record.c` with the parts of `mlp-rtsp.c` and `mlp-playback.c` that start and stop the encoder.
The main loop's handlers are cut where another thread may run: `at` is where in one it is and `cont`
what follows the `rec_stop` it is in. `BuildBin` and `StartBin` are `rec_start` before and after
`PLAYING`; `StopBegins`, `StopJoins`, `StopClears` and `StopDrains` are `rec_stop` (the flags, the
join of the scale worker with the release of what it left, the clearing of that pointer, the drain of
the bin). `Toggle` with `Restream` is the record button, `RtspOn` and `RtspOff` the setting, `Play`,
`LeaveLive`, `OpenClip`, `StopPlay` and `ResumeLive` the clip, `BusWatch` and `StopIdle` an encoder
error. The compositor looks at the flags (`Compose`), then at the queue (`PushLevel`), then deposits
or queues its frame (`PushMailbox`, `PushImport`), all without a lock against the stop. The scale
worker takes, scales and exits; the encoder codes and fails.

`ref` is GStreamer's count of each composite, `Held` counts the places that stand for it. History:
`risk`, the buffers that a push crossing a stop may leave behind or release twice.

## What the runs check

| run | states | result |
|---|---|---|
| `AirBind_safety` | 541,708 | invariants, persistence, refinement of `PairWindow`, every window closes |
| `AirBind_refcount` | | violated, see below |
| `AirPower_safety` | 137,244 | memory of the chip is true, power only in manual, settles on the table |
| `AirPower_feeder` | | violated, see below |
| `AirRate_safety` | 110,892 | drop at once, steady rise, cap in force, range |
| `RxSession_safety` | 190,800 | loss forgets, camera settings carried, sessions return and hold |
| `RxSession_video` | | violated, see below |
| `RxControl_safety` | 890,835 | on the channel asked for, within the band, index handed back, readings of their own channel, out of pair mode, the locked MAC was hit, the thread comes back |
| `Display_safety` | 1,865,500 | the pool is whole, scanned-out buffers are held, the mailbox drains |
| `Display_retire` | | violated, see below |
| `RfTiles_safety` | 6,121,144 | bounded holds and pool, one frame per composite, in order, no more halves evicted before their partner than the decoders' depth explains |
| `Recorder_safety` | 436,376 | references and holders agree, playback gets the encoder's memory, the restream follows its setting |

**Bounds.** `AirBind`: two peers (a third behaves as the second: the code compares only with the
last one), both governors, the code's own 6 hits and 10 restore tries, one hit over the threshold
(`HitsCap` 7: hits past 6 in the same window change nothing), two unanswered polls (enough for one of
this window and one of the last). `AirPower`: the minimum and one other power, which are all the table
tells apart; `ReportMax` 2 instead of 10 (the re-send counter only compares with its bound).
`AirRate`: three indexes (a drop, a level and two different rises exist), throughputs on both sides of
every boundary of the derivation (no link, 99, 100, a middle rate, one over the maximum, negative as
an int), a cap that bites and one under the fallback, three ticks of settling time. `RxSession` has no
numeric bound: all its state is Boolean or a window that has or has not run out. `NoGate` (a bench
option) is FALSE and `Levered` (a power or bitrate was commanded, so SetLdCfg is sent) TRUE in its
runs; the proofs hold for all values.

`RxControl`: three channels of which two are the band's (a swept channel that is the active one, one
that is not, and one off the band), two hits instead of 6 (one hit already copied while the next is
awaited), two replies on their way (one late and the one in turn) and `MaxRequests` 2, which bounds
the HUD's requests in a behaviour: every property is about one request meeting another (a retune
during a tune or a sweep, a pin and a sweep, a bind after either), and the invariants are also proved
without the bound.

`Display`: four frames, one for each slot of a running display, so that the pool runs dry and the
mailbox displaces a frame; the sleeps of 2 and 4 edges are the code's 34 ms and 4 frames at 60 Hz; two
completions fit the driver's event space before it refuses a flip.

`RfTiles`: the relations between the code's numbers are kept and the numbers reduced. Ten buffers are
four for the display, two of margin and a window of four; here five are one, two and two, which
makes both bounds of the gate 1. The slack is 1 instead of 8, the holds 2, a queue 3. A decoder holds
two units, one more than the margin covers, so that the excess is 1 and is reached. Two sessions of six
frames and of one, a key frame first and in the middle, one lost unit and one playback swap: the air may
restart at any point of the first, so that the frame number falls by more than the slack, by less or not
at all; a decoder is ahead, behind or skips, and the pool runs dry. The proofs are for all of these numbers.

`Recorder`: two composites (one is pinned while the next is offered), a queue of one frame, one more
inside the encoder, and one fault, of a start or of a running encoder, which meets every stage of the
main loop. Safety was also checked with three composites and with two faults, and is proved for any
number of both.

**Fairness.** `AirBind` and `AirRate`: the loop runs and time passes, and of the samples that keep
coming some find `ml-air-video` answering; no write need ever succeed. `AirPower`: a write, command
or report that is retried for ever is not refused for ever; nothing else could make a controller
settle, and the code retries each of them from its own loop. `RxSession`: the thread runs, a living
pipeline keeps its heartbeat (`rf_ready_tick` is a 1 s timer), windows nothing refreshes run out, and
of the hellos, requests and IDR requests that keep being sent not all are lost. `RxControl`: the main
thread runs, and the two loops it waits in (500 ms for a swept channel, 30 s for a pair window) are
left in the end, as both compare a clock; no frame or reply need ever get through. `Display`: the
display thread, the compositor inside a submit and the main thread inside a shutdown run, and the
panel is refreshed, with an interrupt after each edge; stopping the decoders waits for the compositor
to be out of its submit, which happens again and again (strong fairness). `Recorder`: handlers that
have begun, the push and the worker go on (the wait for EOS ends after 3 s); the main loop comes back
to the bus watch and, when nothing else is ready, to the idle source, and of the commands the HUD
repeats each second while the reported state differs one gets through (strong fairness, because the
loop serves others in between). `RfTiles` has safety properties only. A promise that needs
more than that (a radio that holds, a pipeline that runs, inputs that stop changing) states it in the
property.

## What is proved

| module | theorems | inductive invariant |
|---|---|---|
| `AirBindProofs` | `TypeCorrect`, `SocketAlwaysCounted`, `WindowAlwaysConsistent`, `BroadcastAlwaysExplained`, `PairModeAlwaysLeft`, `PersistsOnlyCommitted`, `LoopKeepsPromise` | `TypeOK`, `Earned` and `Counted` |
| `AirPowerProofs` | `TypeCorrect`, `BeliefAlwaysReal`, `AlwaysWrittenInManual` | `TypeOK`, `FreshCount` and `BeliefIsReal` |
| `AirRateProofs` | `TypeCorrect`, `AlwaysDropsAtOnce`, `RateAlwaysInRange`, `CapAlwaysInForce`, `RiseAlwaysSteady` | `Inv` |
| `RxSessionProofs` | `LossAlwaysForgets`, `CameraAlwaysCarried` | `TypeOK` and `Kept` |
| `RxControlProofs` | `TypeAlwaysOK`, `RateAlwaysHandedBack`, `AlwaysTunedAsAsked`, `PairModeAlwaysLeft`, `AlwaysStaysInBand`, `LockedPeerAlwaysHit`, `AlwaysMeasuredOnItsChannel` | `TypeInv`, `RateInv`, `TuneInv`, `PairInv`, `BandInv`, `PeerInv`, `MeasInv` |
| `DisplayProofs` | `TypesKept`, `PoolAlwaysWhole`, `ScanoutAlwaysHeld` | `IInv` |
| `RfTilesProofs` | `TypesKept`, `AlwaysBounded`, `AlwaysSameFrame`, `AlwaysShownInOrder`, `FewPairsEverLost` | `Swapped`, `Together`, `OneEpoch`; `HoldsBounded`, `QueuesBounded`, `SlotsBounded`; `Staged`, `OwnTile`, `InOrder`; `Waiting`, `Outs`, `Gated`, `Gone`, `Survive` |
| `RecorderProofs` | `TypesKept`, `PinsAlwaysAccounted`, `StreamAlwaysYields` | `IInv` |

The proofs assume only the modules' named assumptions on their constants (the addresses are
distinct, bounds are positive): any number of peers, powers, indexes and throughputs, any settling
time and retry bounds, any pool of buffers, any depth of the decoders, any number of sessions and losses. `FewPairsEverLost` alone
has a hypothesis of its own, `Ample`: a margin and a least window of two at least, a pool that yields
the window without the clamp of `mlp-compose.c:213`, and a stagger that, with the air's lead, fits into
the window and one. It bounds the evictions by `Excess`, what the decoders' depth and the unit let
through exceed the margin by. It does not say that the code's pool loses no pair: the code's margin is
two, which covers one unit in decoder 0, and how many the real pipeline holds is not in the sources. A
pool of five to nine buffers, which the code accepts, is outside `Ample`, see below. The numbers of the
run satisfy it.

* **AirBind.** `SocketCounted` alone is not inductive: after a broken write and a reopen some users
  hold references the handle has forgotten. `Sound` says how many counted references are covered by
  believers, `WindowConsistent` ties the window's claim to its phase, and both are carried together.
  The refinement needs `Earned`: a peer about to be committed was heard in this window, often enough.
* **AirPower.** `BeliefIsReal` needs the type invariant and nothing else of the controller; the type
  invariant needs `FreshCount` (the re-send counter restarts with every change of mode), or the
  counter's bound could be passed.
* **AirRate.** `RiseTracked` relates the code's own timer to the time samples have really shown the
  pending index; `RatesAgree` relates the rate derived, pushed and running while pushes are answered;
  `TotalInRange` is the arithmetic of the derivation for every integer.
* **RxSession.** `Kept` is the two invariants together; a reply acks and arms the camera in one step,
  and both watches take the ack away.
* **RxControl.** `TuneInv` says where the last retune may be (waiting, taken, carried out, or in what
  the sweep will put back). `BandInv` carries the band through every place a channel waits in; that a
  sweep's next channel is one it has left rests on `Least`, a smallest member of a set of naturals,
  from the library's theorem on well-founded relations. `PeerInv` counts the pair replies on their
  way: in a window without a late one, a poll has at most its own, and none is left when a hit is
  copied. `MeasInv` does the same for the sweep: at most the reply in turn is on its way (`InTurn`),
  from the gate on the chip shows the channel being visited (`OnChannel`), so the sample and the
  held reading are of it, and the channels already left have readings of their own (`Measures`).

* **Display.** That a buffer in the pool is not fetched needs to know, for every stage of the display
  thread and of the shutdown, which slot holds what the controller fetches and what it latches next
  (`Shown`), that at most one flip is in flight (`OneFlip`), and what the splash and the park have
  already put on the panel when they release the slots (`Blanking`, `Parking`). All of it but the
  pool's accounts is conditional on no flip having crossed a sleep and no modeset before one having
  failed, which `CrossedStays` carries.
* **RfTiles.** A composite is two halves of one PTS, so the work is to show that a PTS names one
  frame: within a session it is the epoch plus the frame number, and every earlier session lies below
  the epoch (`OneEpoch`, of every unit held, queued, in a decoder or in a slot). That the epoch only
  moves when a session begins rests on `Together`: the tiles of the air stay together, so within a
  session no number falls by more than the slack. A swap leaves nothing to pair (`Swapped`).

  Order: the units of a tile stand in one line, from the panel and the slots through the decoder, the
  queue and the hand of the receive thread to the hold, and their PTSs rise along it (`InOrder`). A
  line keeps its order because the holds are flushed before anything is pushed past them (`Staged`);
  one lemma, `LineSteps`, says what a step can do to a line. A composite takes a half out of both
  lines, so what comes later in either is later.

  Pairs: `Gated` counts the frames above a unit that decoder 1 has still to put out: those of which
  tile 0 was admitted (in a slot, in its decoder, in its queue or on the way there) and those that were
  evicted already. They are at most the window and `Depth`. Past the gate that is the skew, the
  backlog, what the decoder holds and the one let through; before the release of tile 1 it is the
  stagger and the lead; and a unit that arrives has only the lead above it. It is one more for a unit
  of the PTS that stands in `out_pts`, which happens only while decoder 1 has put nothing out since
  its start; then nothing is with the display either (`Outs`). A half is evicted when the others fill
  the pool, so of what `Gated` admits no more than `Excess` is left to have been evicted (`Survive`).
  The PTS of a half that was evicted does not come again in tile 0, and has no slot (`Gone`), so an
  eviction is counted once. That needed the exception of a stale `out_pts` to be exact: it is taken
  when a unit of tile 1 comes in below `out_pts`, not whenever a session is young. The invariants were
  checked with TLC on small instances before they were proved.
* **Recorder.** `Order` says how the flags follow the main loop's stages. `Fresh` has the frame in a
  push nowhere else yet, and marks it when a stop has begun; `Leftover` has a frame in the mailbox
  outside a scaled recording only by such a push, or while the stop is about to sweep it. With both,
  every step moves a reference together with its holder. `Yield` carries `StreamYields` through the
  stages in which a clip is opened.

Only model-checked: every liveness property (`WindowCloses`, `SettlesOnTable`, `SessionReturns`,
`SessionHolds`, `CadenceReturns`, `MailboxDrains`, `RestreamFollows`), because neither fairness nor
`ENABLED` is within the prover's reach. Every invariant and every action property of a passing run is
proved. Only proved, without a run of their own: the type invariants of `AirRate`,
`RxSession` and `Recorder`.

## Where the code and its comments differ

Shown by a run, each with a counterexample of a few seconds:

* `AirBind_refcount` (`ml-air-bb.c:110`): a hard write error forgets all references, and the release
  after a commit can then close the node under a user who still holds it.
* `AirPower_feeder` (`ml-air-power.c:259`): an obeyed but late `capfps` leaves the feeder at 15 fps
  after the mode has returned to normal.
* `RxSession_video` (`ml-rx-udp.c:433`): a latched `frames_seen` confirms video right after a restart,
  so a single lost IDR request leaves video away.
* `Display_retire` (`mlp-display.c:388`): the forced retirement of a flip whose completion was lost is
  dropped by the handler's own check of the token (line 160), so the panel keeps the old frame; the
  comment at 376-379 says the flip is retired as if the event had come.

Noticed while modelling, read from the code and not given a run:

* `ml-air-bind.c:503`: `air_bind_abort` does not restore the address in the commit phase, although
  lines 491-494 describe leaving the chip on the broadcast address as what it prevents.
* `ml-air-power.c:339`: the hand-back of the radio after silence is one write that is not retried
  (lines 308-309 promise the hand-back).
* `ml-air-power.c:327-334`: silence of the goggle gives back the radio and keeps the commanded standby,
  with it the reduced frame rate, until the next goggle says otherwise. `ml-air-power.h:56-58` and
  `ml-linkd/README.md:87` have silence discard the commanded state and restore the full frame rate; the
  latter also has it after 5 s, where `AIR_POWER_LOST_MS` is 120 s. `SettlesOnTable` follows the code:
  in a standby commanded before the silence, the reported mode settles on standby.
* `ml-air-power.c:25-44`: a commanded power out of range does not keep the standby bit of the same
  message from being taken (the comment at 16-19 says so too); `ml-linkd/README.md:81` has it leave the
  standby bit alone.
* `ml-air-power.c:404-410` drops the frame rate at the command; `ml-air-power.h:26-28` and
  `ml-rx-udp.c:528-529` say it waits for the goggle's ack.
* `ml-air-power.c:285`: the report of a return to normal is sent once; lost, it leaves the goggle
  showing a standby the air does not honour (lines 388-389).
* `ml-air-rate.c:242`: a cap is applied to the throughput of the last sample, acted on or not, so one
  that does not bite can still move the rate (lines 212-213).
* `ml-air-rate.c:187`: a failed push is not retried by the next equal sample, but by the next change of
  index or cap (line 102 and `tests/air-rate-governor.c:21-22` say the next sample retries).
* `ml-rx-udp.c:471`: after the stall watch or a short loss, SetLdCfg goes to an air that may be
  streaming (lines 464-470 say it is sent before video because mid-stream it wedged the air).
* `ml-rx-udp.c:672`: without a ready consumer and without an ack nothing polls, so telemetry goes
  quiet and a loss is declared on a radio that did not drop (lines 662-667).
* `ml-rx-udp.c:504`: a reply in flight when the loss was declared acks the next session before its
  3-way hello (`ml-linkd/README.md`, "TX loss").
* `ml-rx-bind.c:136`: with a reply later than its 40 ms poll, two replies can be on their way at once
  and the reader may overwrite the MAC between the check of the hit and the copy, so a MAC without a
  candidate can be locked (lines 37-38 and 171 have the sequence number order the two); the same
  property without its condition on late replies is violated.
* `ml-rx-bind.c:150`: an air unit that comes up during the 30 s window is not looked for again before
  the lock (lines 45-48 gate only the start).
* `ml-rx-bind.c:215`: how a bind was asked for is read after its request was cleared, and may be how
  the next one was.
* `ml-rx-chan.c:645`: that every exit of a sweep restores the channel and the index holds of what is
  sent; a restoring frame the chip's queue does not take in 100 ms is dropped, `g_cur_chnidx` says
  otherwise, and a sweep that starts from there takes the active channel for tuned (lines 620-621).
* `ml-rx-chan.c:489`: after the gate the sample's own channel is not checked, so a late reply can put
  the reading of another channel in the table.
* `ml-rx-chan.c:537`: after a skipped sweep `g_scan_ready` stays 0, so the table is no longer
  published although it was seeded once (lines 297-298).
* `ml-linkd/README.md:102` has the goggle open on channel index 5; `rx_chan_open` (`ml-rx-chan.c:409-413`)
  takes the saved channel of the band, or the band's first.
* `ml-rx-bind.c:151`: a successful bind is reported although the pair-lock write is not checked
  (`ml-shared/mlm.h:103`).
* `ml-rx-chan.c:774`: a pin served in the same pass as a sweep is undone by the sweep's hand-back of the
  index; lines 758-759 and 704 give the order of the two as what prevents that.
* `mlp-display.c:349`: the splash sleeps two frames without the lock and then releases every slot; a
  flip the compositor issues meanwhile puts a buffer on the panel that is then released (lines 320-322
  have the sleep prevent that). The shutdown's four frames at 723-724 are crossed the same way (lines
  719-721). `NeverFreesScanout`, checked instead of `ScanoutHeld`, shows both.
* `mlp-display.c:342` and `mlp-display.c:723`: a modeset to the splash that fails is reported (the
  first) or not looked at (the second), and the slots are released all the same, the buffer on the
  panel with them (lines 320-322 and 719-721). `ScanoutHeld` excepts it.
* `mlp-display.c:658`: a frame parked after the shutdown of a display that never lit is forgotten by
  the next `memset` of the slots, and its buffer with it.
* `ml-pipeline.h:469`: `idle_shown` is said to be the display thread's alone; the compositor's submit
  writes it as well, so that a later request for the splash can be ignored.
* `mlp-rf.c:444-456`: the input queue's "hard cap" does not bind key frames: over it they are still
  queued, so a decoder that stalls grows the queue by a key frame per interval.
* `mlp-rf.c:589`: the epoch of a new session is built on the last frame number received, not the highest,
  and a session that begins within the slack of the old one is not seen: PTSs are then used twice, and
  halves of two frames may pair.
* `mlp-rf.c:644`: `rf_decode_start` does not reset `out_pts`, so after an air restart during playback the
  skew gate compares with a PTS of the old session until decoder 1 puts out its first frame; before
  tile 1 is released, tile 0 is not gated at all.
* `mlp-rf.c:644-668`: "overshoot = skew + in-flight must stay under the backable slot window"
  (`mlp-rf.c:639-640`, `ml-pipeline.h:497-499`) is not all of the overshoot. What is in decoder 0, between
  the level of its appsrc and its output, is in neither term; the margin of two makes up for one such
  unit and the one let through. With more in the decoder halves are evicted before their partner lands,
  `Excess` of them at a time: in the run's instance, with two units in a decoder, one is.
  `ml-pipeline.h:172-177` asks for about twelve usable buffers and `gstreamer/README.md:29` observes
  evictions under a cap of the pool (`mlp-compose.c:165` has it at ten), which agrees with that.
* `mlp-compose.c:207-223`: the pool is accepted with 5 buffers, although the least window of 4 needs 10;
  the buffers an encoder holds are not in the window either.
* `mlp-record.c:607-610`: rec_stop sweeps the mailbox once, after the join. A compositor that passed the
  check at 668 before the flags fell deposits its frame after the sweep; nobody takes it, and the next
  scaled recording forgets it (line 565), so a buffer of the pool is gone (lines 598-599 say an
  undelivered mailbox frame is dropped). The sweep itself reads and releases without the mailbox's
  lock, so a deposit between the two releases the frame twice. The model has
  both, and `PinsAccounted` excepts the buffers concerned.
* `mlp-record.c:746`: a native push that crosses the end of rec_stop gives its frame to an appsrc that is
  gone; the frame and its reference to the composite are never released.
* `mlp-record.c:55`: the queued `rec_stop_idle` is not tied to the bin that failed. When the record button
  is served first, as its source has the higher priority, the idle stops the new recording.
* `mlp-record.c:812`: a record command during playback starts an encoder beside the clip's decoder,
  although `mlp-rtsp.c:313` has playback own the codec's budget.

## What is left out

Byte layouts, parsing and decoding (covered by the repository's own tests), rendering, LEDs, logging,
exact clocks (each timeout is a state that has or has not run out), bench programs and vendored code.
Inside the modelled components: the control node's open throttle; the probe mode of the rate
governor; the GET_POWER read-back, which decides nothing; the goggle's lazy binding, identity echo,
SetTranParm, LED and OSD republishing; the cadence's table publishes, the OSD metrics and whether an
index order reached the chip; the pipeline's plane mode and its pacing servo, a panel without a splash
buffer, seams and blits, the slot table's own eviction (the pool is smaller than the table in
composite mode), `rf_do_rebuild` (unused) and `discard_before` (always 0); the recorder's bench paths
(copy, `videoscale`), its SRT and OSD data, RTSP's media and clients, the recording that `ML_DVR` starts
with the process and the stop at its end. The release of `rec_src` between a compositor's check and its
use is a use after free and has no state to go on from. The components marked *not modelled* in `PROJECT.json` are
the plan.

## The plan

1. `AirSocket`, `AirBind`, `PairWindow`: **done**, proved.
2. `AirPower`, `AirRate`: **done**, safety proved.
3. `RxSession`: **done**, safety proved.
4. `RxControl`: **done**, its invariants proved.
5. `Display`: **done** for composite mode, safety proved.
6. `RfTiles`: **done** for composite mode, safety proved.
7. `Recorder`: **done**, safety proved.
8. `AirVideo`: capture buffers, the bounded encoder restart with frames in flight
   (`mav-encoder.c:551`), session reset.
9. `HudLink`: the HUD's idea of connected over several timed records (`linkstate.c:225`) and the settings
   re-asserted on its edges.
10. `AirLoop`, `AirCam`, `AutoExposure`: hello episodes, partial persists, the settling of the decision.
11. Compositions: `RfTiles` with `Display` and `Recorder` over one pool, whose buffers today are a number
    of free ones to each; `RxSession` with `AirPower`, for the latched work mode of a restarted air.
