------------------------------- MODULE RxChan -------------------------------
(***************************************************************************)
(* The goggle's RF channel (ml-linkd/ml-rx-chan.c): the channel the chip   *)
(* is tuned to, the HUD's requests to retune, to pin the modulation index  *)
(* and to sweep, and the sweep, which tunes to every channel of the band,  *)
(* measures it and puts back what it changed.  The UDP thread queues the   *)
(* requests, the main thread serves them, the reader delivers replies.     *)
(*                                                                         *)
(* A reading is the channel the chip took it on, so that a reading of the  *)
(* wrong channel shows.  A value nobody can read again is forgotten: the   *)
(* table once published, a 1v1 reply no poll waits for.                    *)
(*                                                                         *)
(* Abstracted: the value of a reading and of the pinned index, whether an  *)
(* index order reached the chip, frequencies, the cadence's table          *)
(* publishes, the metrics for the OSD, --scan-probe.                       *)
(***************************************************************************)
EXTENDS RxOwner

CONSTANTS Count, \* size of the chip's channel table
          Valid, \* valid_bmp: the indexes of the band the chip is in
          Saved  \* ML_OPEN_CHNIDX, Unset if it is not given

Channels == 0..(Count - 1)
Unset == -1  \* no channel, no request, MLM_SCAN_RAW_NONE
NoLock == -2 \* MLM_SCAN_RAW_NOLOCK

ASSUME BandAssumption ==
  /\ Count \in Nat \ {0}
  /\ Valid \subseteq Channels
  /\ Saved \in Channels \cup {Unset}

VARIABLES
  wantChan, \* g_pending_chnidx
  wantMcs,  \* g_pending_mcs: "none", "auto", "pin"
  wantScan, \* g_pending_scan
  cur,      \* g_cur_chnidx
  tune,     \* rx_chan_service: the select it took
  rate,     \* the modulation index as last ordered: "auto", "pin", "sweep"
  band,     \* g_valid_bmp is not 0: never, if the chip's band is empty
  ready,    \* g_scan_ready
  table,    \* g_scan: [channel of the band -> its reading]
  sample,   \* the 1v1 reply since the last poll: the channel it shows
  restore,  \* sweep_run: the channel to put back
  left,     \* sweep_run: the channels still to visit
  held,     \* sweep_measure: the low sample it reads again
  chan,     \* the chip: the channel it is tuned to
  shown,    \* the chip: the channel its 1v1 replies show
  asked,    \* history: the last retune accepted from the HUD
  blind,    \* history: one off the band was, before the band was known
  late,     \* history: a select or a reply of this sweep was late or lost
  pinned    \* history: a pin was served in this pass

wants == <<wantChan, wantMcs, wantScan>>
seen == <<band, ready, table>>
sweep == <<restore, left, held>>
chip == <<chan, shown>>
hist == <<asked, blind, late, pinned>>
cvars == <<wants, cur, tune, rate, seen, sample, sweep, chip, hist>>

Some == Channels \cup {Unset}

PlacesOK ==
  /\ wantChan \in Some /\ cur \in Some /\ tune \in Some /\ asked \in Some
  /\ sample \in Some /\ held \in Some /\ restore \in Some
  /\ left \subseteq Valid
  /\ table \in [Valid -> Some \cup {NoLock}]
  /\ chan \in Channels /\ shown \in Channels

FlagsOK ==
  /\ wantScan \in BOOLEAN /\ band \in BOOLEAN /\ ready \in BOOLEAN
  /\ blind \in BOOLEAN /\ late \in BOOLEAN /\ pinned \in BOOLEAN
  /\ wantMcs \in {"none", "auto", "pin"} /\ rate \in {"auto", "pin", "sweep"}

ChanTypeOK == PlacesOK /\ FlagsOK

Unread == [c \in Valid |-> Unset]

ChanInit ==
  /\ wantChan = Unset /\ wantMcs = "none" /\ wantScan = FALSE
  /\ cur = Unset /\ tune = Unset /\ rate = "auto"
  /\ band = FALSE /\ ready = FALSE /\ table = Unread
  /\ sample = Unset
  /\ restore = Unset /\ left = {} /\ held = Unset
  /\ chan \in Channels /\ shown = chan
  /\ asked = Unset /\ blind = FALSE /\ late = FALSE /\ pinned = FALSE

ScanReply == [kind |-> "scan", of |-> Unset]
LinkReply == [kind |-> "1v1", of |-> shown]

(* A select is issued: the goggle takes the chip to be tuned there, whether
   or not the frame was accepted.                                          *)
Select(c) == cur' = c /\ chan' \in {chan, c}

-----------------------------------------------------------------------------
(* The UDP thread: the HUD's requests.  A retune off the band is refused
   once the band is known.                                                 *)
RequestSelect_Unchecked(c) ==
  /\ wantChan' = c
  /\ asked' = c
  /\ UNCHANGED <<pc, replies, air, wantMcs, wantScan, cur, tune, rate, seen, sample,
                 sweep, chip, blind, late, pinned>>

RequestSelect(c) ==
  /\ ~band \/ c \in Valid
  /\ wantChan' = c
  /\ asked' = c
  /\ blind' = (blind \/ c \notin Valid)
  /\ UNCHANGED <<pc, replies, air, wantMcs, wantScan, cur, tune, rate, seen, sample,
                 sweep, chip, late, pinned>>

RequestMcs(how) ==
  /\ wantMcs' = how
  /\ UNCHANGED <<pc, replies, air, wantChan, wantScan, cur, tune, rate, seen, sample,
                 sweep, chip, hist>>

RequestScan ==
  /\ wantScan' = TRUE
  /\ UNCHANGED <<pc, replies, air, wantChan, wantMcs, cur, tune, rate, seen, sample,
                 sweep, chip, hist>>

-----------------------------------------------------------------------------
(* The reader.  A table seeds the cache anew, whoever asked for it.        *)
ReadScan ==
  /\ Read("scan")
  /\ band' = (Valid # {})
  /\ ready' = TRUE
  /\ table' = Unread
  /\ UNCHANGED <<wants, cur, tune, rate, sample, sweep, chip, hist>>

ReadLink ==
  /\ Read("1v1")
  /\ sample' = IF pc \in {"gated", "sampled", "last"} THEN Head(replies).of ELSE Unset
  /\ UNCHANGED <<wants, cur, tune, rate, seen, sweep, chip, hist>>

(* The air follows a retune after a while, and only then do the chip's link
   replies show the new channel.                                           *)
Follow ==
  /\ shown # chan
  /\ shown' = chan
  /\ UNCHANGED <<pc, replies, air, wants, cur, tune, rate, seen, sample, sweep, chan, hist>>

-----------------------------------------------------------------------------
(* rx_chan_open: the band is read, then the saved channel is set if it is in
   the band, else the band's first; without an answer, or in a band that
   has no channel, none is set.                                            *)
AskBand ==
  /\ Stage("open", "band")
  /\ ready' = FALSE
  /\ Ask(ScanReply)
  /\ UNCHANGED <<air, wants, cur, tune, rate, band, table, sample, sweep, chip, hist>>

FirstValid == CHOOSE c \in Valid : \A d \in Valid : c <= d

OpenBand ==
  /\ Stage("band", "select")
  /\ ready /\ Valid # {}
  /\ Select(IF Saved \in Valid THEN Saved ELSE FirstValid)
  /\ UNCHANGED <<replies, air, wants, tune, rate, seen, sample, sweep, shown, hist>>

OpenUnknown ==
  /\ Stage("band", "select")
  /\ ready => Valid = {}
  /\ UNCHANGED <<replies, air, cvars>>

-----------------------------------------------------------------------------
(* rx_chan_service.  A request is cleared before its select goes out.      *)
TakeSelect ==
  /\ Stage("select", "tune")
  /\ tune' = wantChan
  /\ wantChan' = Unset
  /\ UNCHANGED <<replies, air, wantMcs, wantScan, cur, rate, seen, sample, sweep, chip,
                 hist>>

Tune_ClearsLast ==
  /\ Stage("tune", "mcs")
  /\ tune # Unset
  /\ Select(tune)
  /\ tune' = Unset
  /\ wantChan' = Unset
  /\ UNCHANGED <<replies, air, wantMcs, wantScan, rate, seen, sample, sweep, shown, hist>>

Tune ==
  /\ Stage("tune", "mcs")
  /\ tune # Unset
  /\ Select(tune)
  /\ tune' = Unset
  /\ UNCHANGED <<replies, air, wants, rate, seen, sample, sweep, shown, hist>>

NoTune ==
  /\ Stage("tune", "mcs")
  /\ tune = Unset
  /\ UNCHANGED <<replies, air, cvars>>

ServeMcs_Always ==
  /\ Stage("mcs", "scan")
  /\ wantMcs' = "none"
  /\ rate' = wantMcs
  /\ pinned' = (wantMcs = "pin")
  /\ UNCHANGED <<replies, air, wantChan, wantScan, cur, tune, seen, sample, sweep, chip,
                 asked, blind, late>>

ServeMcs ==
  /\ Stage("mcs", "scan")
  /\ wantMcs' = "none"
  /\ rate' = IF wantMcs = "none" THEN rate ELSE wantMcs
  /\ pinned' = (wantMcs = "pin")
  /\ UNCHANGED <<replies, air, wantChan, wantScan, cur, tune, seen, sample, sweep, chip,
                 asked, blind, late>>

NoScan ==
  /\ Stage("scan", "bind")
  /\ ~wantScan
  /\ UNCHANGED <<replies, air, cvars>>

-----------------------------------------------------------------------------
(* sweep_run.  The table is seeded anew; a sweep whose seed does not come in
   300 ms is skipped.                                                      *)
AskTable ==
  /\ Stage("scan", "seed")
  /\ wantScan
  /\ wantScan' = FALSE
  /\ restore' = cur
  /\ ready' = FALSE
  /\ late' = (replies # <<>> \/ cur \notin {Unset, chan})
  /\ Ask(ScanReply)
  /\ UNCHANGED <<air, wantChan, wantMcs, cur, tune, rate, band, table, sample, left, held,
                 chip, asked, blind, pinned>>

SkipSweep_Asks ==
  /\ Stage("seed", "scan")
  /\ ~ready
  /\ wantScan' = TRUE
  /\ restore' = Unset /\ late' = FALSE
  /\ UNCHANGED <<replies, air, wantChan, wantMcs, cur, tune, rate, seen, sample, left, held,
                 chip, asked, blind, pinned>>

SkipSweep ==
  /\ Stage("seed", "bind")
  /\ ~ready
  /\ restore' = Unset /\ late' = FALSE
  /\ UNCHANGED <<replies, air, wants, cur, tune, rate, seen, sample, left, held, chip,
                 asked, blind, pinned>>

(* Without an air unit every channel is reported unlocked at once.         *)
SweepDeaf_AfterPin ==
  /\ Stage("seed", "published")
  /\ ready /\ air # "session"
  /\ table' = [c \in Valid |-> NoLock]
  /\ rate' = "sweep"
  /\ UNCHANGED <<replies, air, wants, cur, tune, band, ready, sample, sweep, chip, hist>>

SweepDeaf ==
  /\ Stage("seed", "published")
  /\ ready /\ air # "session"
  /\ table' = [c \in Valid |-> NoLock]
  /\ UNCHANGED <<replies, air, wants, cur, tune, rate, band, ready, sample, sweep, chip,
                 hist>>

SweepBegins ==
  /\ Stage("seed", "visit")
  /\ ready /\ air = "session"
  /\ left' = Valid
  /\ rate' = "sweep"
  /\ UNCHANGED <<replies, air, wants, cur, tune, seen, sample, restore, held, chip, hist>>

(* The valid channels in table order, from the active one on and around.   *)
Distance(c) == (c - (IF restore = Unset THEN 0 ELSE restore)) % Count
Idx == CHOOSE c \in left : \A d \in left : Distance(c) <= Distance(d)

Visit ==
  /\ Stage("visit", "gate")
  /\ left # {}
  /\ IF Idx = cur THEN UNCHANGED <<cur, chan, late>>
                  ELSE Select(Idx) /\ late' = (late \/ chan' # Idx)
  /\ UNCHANGED <<replies, air, wants, tune, rate, seen, sample, sweep, shown, asked, blind,
                 pinned>>

(* v1v1_poll: a Get1V1Info, then a wait for any reply.                     *)
Poll(from, to) ==
  /\ Stage(from, to)
  /\ sample' = Unset
  /\ Ask(LinkReply)
  /\ UNCHANGED <<air, wants, cur, tune, rate, seen, sweep, chip, hist>>

(* sweep_measure: polled until a reply shows the channel, then sampled, and
   a low sample is read again and the better one kept.                     *)
PollGate == Poll("gate", "gated")
PollSample == Poll("sample", "sampled")
PollAgain == Poll("again", "last")

GateMatches_Unchecked ==
  /\ Stage("gated", "sample")
  /\ sample # Unset
  /\ UNCHANGED <<replies, air, cvars>>

GateMatches ==
  /\ Stage("gated", "sample")
  /\ sample = Idx
  /\ UNCHANGED <<replies, air, cvars>>

GateAgain ==
  /\ Stage("gated", "gate")
  /\ sample \notin {Unset, Idx}
  /\ UNCHANGED <<replies, air, cvars>>

Measured(reading) ==
  /\ pc' = "visit"
  /\ table' = [table EXCEPT ![Idx] = reading]
  /\ left' = left \ {Idx}
  /\ held' = Unset /\ sample' = Unset
  /\ UNCHANGED <<replies, air, wants, cur, tune, rate, band, ready, restore, chip, asked,
                 blind, pinned>>

GateOver ==
  /\ pc = "gate"
  /\ Measured(NoLock)
  /\ UNCHANGED late

NoReply ==
  /\ pc \in {"gated", "sampled"} /\ sample = Unset
  /\ Measured(Unset)
  /\ late' = TRUE

SampleDone ==
  /\ pc = "sampled" /\ sample # Unset
  /\ Measured(sample)
  /\ UNCHANGED late

SampleLow ==
  /\ Stage("sampled", "again")
  /\ sample # Unset
  /\ held' = sample /\ sample' = Unset
  /\ UNCHANGED <<replies, air, wants, cur, tune, rate, seen, restore, left, chip, hist>>

SampleAgain ==
  /\ pc = "last"
  /\ \E better \in {held, sample} \ {Unset} : Measured(better)
  /\ late' = (late \/ sample = Unset)

(* What the sweep changed is put back, and the result is published.        *)
Restore ==
  /\ Stage("visit", "published")
  /\ left = {}
  /\ IF restore \in {Unset, cur} THEN UNCHANGED <<cur, chan>> ELSE Select(restore)
  /\ rate' = "auto"
  /\ UNCHANGED <<replies, air, wants, tune, seen, sample, sweep, shown, hist>>

SweepEnds ==
  /\ Stage("published", "bind")
  /\ restore' = Unset /\ late' = FALSE /\ table' = Unread
  /\ UNCHANGED <<replies, air, wants, cur, tune, rate, band, ready, sample, left, held,
                 chip, asked, blind, pinned>>

(* The steady cadence polls the link, and waits for no reply.              *)
Cadence ==
  /\ Stage("cadence", "select")
  /\ pinned' = FALSE
  /\ Ask(LinkReply)
  /\ UNCHANGED <<air, wants, cur, tune, rate, seen, sample, sweep, chip, asked, blind, late>>

-----------------------------------------------------------------------------
Open == AskBand \/ OpenBand \/ OpenUnknown

Serve == TakeSelect \/ Tune \/ NoTune \/ ServeMcs \/ NoScan

Sweep ==
  \/ AskTable
  \/ SkipSweep
  \/ SweepDeaf
  \/ SweepBegins
  \/ Visit
  \/ PollGate
  \/ PollSample
  \/ PollAgain
  \/ GateMatches
  \/ GateAgain
  \/ GateOver
  \/ NoReply
  \/ SampleDone
  \/ SampleLow
  \/ SampleAgain
  \/ Restore
  \/ SweepEnds

ChanOwner == Open \/ Serve \/ Sweep \/ Cadence

ChanRequests ==
  \/ \E c \in Channels : RequestSelect(c)
  \/ \E how \in {"auto", "pin"} : RequestMcs(how)
  \/ RequestScan
=============================================================================
