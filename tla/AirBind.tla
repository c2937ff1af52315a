------------------------------- MODULE AirBind -------------------------------
(***************************************************************************)
(* The air unit's service loop as its pair window sees it: the rate        *)
(* governor, the power controller and the bind button run in that order    *)
(* in one thread and share the control node (ml-linkd/ml-air-bind.c,       *)
(* ml-air-bb.c, the loop of ml-linkd-air.c).                               *)
(*                                                                         *)
(* The pair window broadcasts the peer address, puts the chip in pair      *)
(* mode, counts candidate replies, and then either commits the candidate   *)
(* or puts the saved peer back.  Any write may be refused or may break the *)
(* node under all three users.                                             *)
(*                                                                         *)
(* Time: `deadline' says whether the window's 30 s have passed; nothing    *)
(* else of the clock matters here.                                         *)
(***************************************************************************)
EXTENDS Naturals, AirSocket

CONSTANTS Macs,         \* peers that may answer a pair poll
          Broadcast,    \* the ff:ff:ff:ff address
          NoMac,        \* no address (nothing saved)
          Governors,    \* which of rate and power are enabled
          HitsNeeded,   \* AIR_BIND_HITS
          HitsCap,      \* bound: candidate replies counted in one window
          RestoreTries, \* AIR_BIND_RESTORE_TRIES
          MaxAsked      \* bound: pair polls whose reply is still to come

ASSUME BindAssumption ==
  /\ Broadcast \notin Macs
  /\ NoMac \notin Macs \cup {Broadcast}
  /\ Governors \subseteq {"rate", "power"}
  /\ HitsNeeded \in Nat \ {0}
  /\ HitsCap \in Nat /\ HitsCap >= HitsNeeded
  /\ RestoreTries \in Nat \ {0}
  /\ MaxAsked \in Nat \ {0}

VARIABLES
  bb,           \* the shared handle
  holding,      \* [user -> believes it holds a reference]
  phase,        \* enum air_pair_phase
  deadline,     \* window_until_ms: "none" (0), "running", "passed"
  hits,         \* candidate hits in this window
  peer,         \* the last candidate
  saved,        \* the address to restore, NoMac when have_saved is 0
  restoreTries, \* failed restores of this window
  pc,           \* the next service of the loop
  chipMac,      \* the chip: its ap_mac
  chipPair,     \* the chip: in pair mode
  asked,        \* the chip: polls it may still answer
  cfg,          \* the peer recorded on disk
  heard,        \* history: candidates of this window
  stranded,     \* history: no address could be put back over the broadcast
  offLost       \* history: the last window's pair-off never reached the chip

chip == <<chipMac, chipPair, asked>>
window == <<phase, deadline, hits, peer, saved, restoreTries>>
history == <<heard, stranded, offLost>>
vars == <<bb, holding, window, pc, chip, cfg, history>>

Users == {"rate", "power", "bind"}
Phases == {"IDLE", "POLL", "COMMIT", "RESTORE"}
Services == {"rate", "power", "button", "pair", "drain"}

TypeOK ==
  /\ bb \in Handle
  /\ holding \in [Users -> BOOLEAN]
  /\ phase \in Phases
  /\ deadline \in {"none", "running", "passed"}
  /\ hits \in 0..HitsCap
  /\ peer \in Macs \cup {NoMac}
  /\ saved \in Macs \cup {NoMac}
  /\ restoreTries \in 0..RestoreTries
  /\ pc \in Services \cup {"stopped"}
  /\ chipMac \in Macs \cup {Broadcast}
  /\ chipPair \in BOOLEAN
  /\ asked \in 0..MaxAsked
  /\ cfg \in Macs \cup {NoMac}
  /\ heard \subseteq Macs
  /\ stranded \in BOOLEAN
  /\ offLost \in BOOLEAN

Init ==
  /\ bb = Closed
  /\ holding = [u \in Users |-> FALSE]
  /\ phase = "IDLE"
  /\ deadline = "none"
  /\ hits = 0
  /\ peer = NoMac
  /\ saved = NoMac
  /\ restoreTries = 0
  /\ pc = "rate"
  /\ cfg \in Macs \cup {NoMac}
  /\ chipMac = IF cfg = NoMac THEN Broadcast ELSE cfg
  /\ chipPair = FALSE
  /\ asked = 0
  /\ heard = {}
  /\ stranded = (cfg = NoMac)
  /\ offLost = FALSE

-----------------------------------------------------------------------------
(* The rate governor and the power controller, reduced to what they do to
   the handle: take a reference when they have none, notice a node that
   went away under them, and write (any of their writes may break it).     *)

Service(u, next) ==
  /\ pc = u
  /\ pc' = next
  /\ \/ /\ u \notin Governors \/ (~holding[u] /\ ~bb.open)
        /\ UNCHANGED <<bb, holding>>
     \/ /\ u \in Governors /\ ~holding[u]
        /\ holding' = [holding EXCEPT ![u] = TRUE]
        /\ bb' \in {Acquired(bb), Closed}
     \/ /\ u \in Governors /\ holding[u] /\ ~bb.open
        /\ holding' = [holding EXCEPT ![u] = FALSE]
        /\ UNCHANGED bb
     \/ /\ u \in Governors /\ holding[u] /\ bb.open
        /\ bb' \in {bb, Closed}
        /\ UNCHANGED holding
  /\ UNCHANGED <<window, chip, cfg, history>>

RateService == Service("rate", "power")
PowerService == Service("power", "button")

-----------------------------------------------------------------------------
(* The button: nothing to do (no press, a hold outside 0..2 s, a window
   open already, or the node not openable), or a press that starts a
   window.  Each start takes its reference first and gives it back on
   every failure.                                                          *)

NoPress ==
  /\ pc = "button"
  /\ pc' = "pair"
  /\ UNCHANGED <<bb, holding, window, chip, cfg, history>>

Pressed ==
  /\ pc = "button"
  /\ phase = "IDLE"
  /\ pc' = "pair"

(* The link gate could not be sent, found a link, or got no answer.        *)
StartRefused ==
  /\ Pressed
  /\ \E w \in Outcomes(Acquired(bb)) : bb' = Released(Written(Acquired(bb), w))
  /\ UNCHANGED <<holding, window, chip, cfg, history>>

(* air_bind_saved_mac finds the recorded peer, or cannot read it.          *)
ReadSaved == saved' \in {cfg, NoMac}

StartNoBroadcast ==
  /\ Pressed
  /\ ReadSaved
  /\ \E w \in {"busy", "broken"} : bb' = Released(Written(Acquired(bb), w))
  /\ UNCHANGED <<holding, phase, deadline, hits, peer, restoreTries, chip, cfg,
                 history>>

ResetWindow_KeepsHits ==
  /\ hits' = hits
  /\ peer' = NoMac
  /\ restoreTries' = 0
  /\ heard' = {}

ResetWindow ==
  /\ hits' = 0
  /\ peer' = NoMac
  /\ restoreTries' = 0
  /\ heard' = {}

(* The broadcast went out and pair mode was refused: undo it at once.      *)
StartNoPairMode ==
  /\ Pressed
  /\ ReadSaved
  /\ ResetWindow
  /\ \E off \in {"busy", "broken"} :
       LET b == Written(Acquired(bb), off)
       IN  IF saved' = NoMac
             THEN /\ bb' = Released(b)
                  /\ chipMac' = Broadcast
                  /\ stranded' = TRUE
             ELSE \E w \in Outcomes(b) :
                    /\ bb' = Released(Written(b, w))
                    /\ chipMac' = IF w = "ok" THEN saved' ELSE Broadcast
                    /\ stranded' = (w # "ok")
  /\ UNCHANGED <<holding, phase, deadline, chipPair, asked, cfg, offLost>>

StartWindow ==
  /\ Pressed
  /\ ReadSaved
  /\ ResetWindow
  /\ bb' = Acquired(bb)
  /\ holding' = [holding EXCEPT !["bind"] = TRUE]
  /\ phase' = "POLL"
  /\ deadline' = "running"
  /\ chipMac' = Broadcast
  /\ chipPair' = TRUE
  /\ stranded' = FALSE
  /\ offLost' = FALSE
  /\ UNCHANGED <<asked, cfg>>

-----------------------------------------------------------------------------
(* The pair sequence, one step a tick (air_bind_pair_service).             *)

InPair(p) ==
  /\ pc = "pair"
  /\ phase = p
  /\ pc' = "drain"

(* air_bind_stop, from handle b and holding the reference or not.          *)
Stop_KeepsClaim(b, held) ==
  /\ deadline' = "none"
  /\ phase' = "IDLE"
  /\ bb' = b
  /\ UNCHANGED holding

Stop(b, held) ==
  /\ deadline' = "none"
  /\ phase' = "IDLE"
  /\ bb' = IF held THEN Released(b) ELSE b
  /\ holding' = [holding EXCEPT !["bind"] = FALSE]

PairIdle ==
  /\ InPair("IDLE")
  /\ UNCHANGED <<bb, holding, window, chip, cfg, history>>

(* The node went away under the window: the flag is dropped, not released. *)
PairSocketLost ==
  /\ pc = "pair"
  /\ phase # "IDLE"
  /\ ~bb.open
  /\ pc' = "drain"
  /\ Stop(bb, FALSE)
  /\ stranded' = TRUE
  /\ offLost' = (offLost \/ phase = "POLL")
  /\ UNCHANGED <<hits, peer, saved, restoreTries, chip, cfg, heard>>

(* The candidate is written to the chip and then, only if the chip took it,
   recorded on disk (the helper may fail).                                 *)
CommitTaken ==
  /\ chipMac' = peer
  /\ cfg' \in {cfg, peer}
  /\ Stop(bb, holding["bind"])

CommitRefused_Closes(w) ==
  /\ Stop(Written(bb, w), holding["bind"])
  /\ UNCHANGED <<chipMac, cfg>>

CommitRefused_Persists(w) ==
  /\ cfg' \in {cfg, peer}
  /\ Stop(Written(bb, w), holding["bind"])
  /\ UNCHANGED chipMac

CommitRefused(w) ==
  /\ phase' = "RESTORE"
  /\ bb' = Written(bb, w)
  /\ UNCHANGED <<chipMac, cfg, deadline, holding>>

PairCommit ==
  /\ InPair("COMMIT")
  /\ bb.open
  /\ \E w \in Outcomes(bb) : IF w = "ok" THEN CommitTaken ELSE CommitRefused(w)
  /\ UNCHANGED <<hits, peer, saved, restoreTries, chipPair, asked, history>>

(* The saved address is written back, a refused write is retried on later
   ticks, and after RestoreTries of them the window closes without it.     *)
RestoreTaken ==
  /\ chipMac' = saved
  /\ Stop(bb, holding["bind"])
  /\ stranded' = FALSE
  /\ UNCHANGED restoreTries

RestoreRefused_Uncounted(w) ==
  /\ bb' = Written(bb, w)
  /\ UNCHANGED <<restoreTries, phase, deadline, holding, stranded, chipMac>>

RestoreRefused_OneMore(w) ==
  /\ restoreTries' = restoreTries + 1
  /\ IF restoreTries' <= RestoreTries
       THEN /\ bb' = Written(bb, w)
            /\ UNCHANGED <<phase, deadline, holding, stranded>>
       ELSE /\ Stop(Written(bb, w), holding["bind"])
            /\ stranded' = TRUE
  /\ UNCHANGED chipMac

RestoreRefused(w) ==
  /\ restoreTries' = restoreTries + 1
  /\ IF restoreTries' < RestoreTries
       THEN /\ bb' = Written(bb, w)
            /\ UNCHANGED <<phase, deadline, holding, stranded>>
       ELSE /\ Stop(Written(bb, w), holding["bind"])
            /\ stranded' = TRUE
  /\ UNCHANGED chipMac

PairRestore ==
  /\ InPair("RESTORE")
  /\ bb.open
  /\ IF saved = NoMac
       THEN /\ Stop(bb, holding["bind"])
            /\ stranded' = TRUE
            /\ UNCHANGED <<chipMac, restoreTries>>
       ELSE \E w \in Outcomes(bb) : IF w = "ok" THEN RestoreTaken ELSE RestoreRefused(w)
  /\ UNCHANGED <<hits, peer, saved, chipPair, asked, cfg, heard, offLost>>

(* Pair mode is left, whether or not the write gets through, and the next
   write waits a tick.                                                     *)
LeavePairMode_Unsent(next) ==
  /\ InPair("POLL")
  /\ bb.open
  /\ phase' = next
  /\ offLost' = FALSE
  /\ UNCHANGED <<bb, holding, deadline, hits, peer, saved, restoreTries, chip, cfg,
                 heard, stranded>>

LeavePairMode(next) ==
  /\ InPair("POLL")
  /\ bb.open
  /\ phase' = next
  /\ \E w \in Outcomes(bb) :
       /\ bb' = Written(bb, w)
       /\ chipPair' = (chipPair /\ w # "ok")
       /\ offLost' = (w # "ok")
  /\ UNCHANGED <<holding, deadline, hits, peer, saved, restoreTries, chipMac,
                 asked, cfg, heard, stranded>>

PairFound == hits >= HitsNeeded /\ LeavePairMode("COMMIT")
PairExpired == hits < HitsNeeded /\ deadline = "passed" /\ LeavePairMode("RESTORE")

(* One GET_PAIR poll, or none while the last is less than 20 ms old.       *)
PairPoll ==
  /\ InPair("POLL")
  /\ bb.open
  /\ hits < HitsNeeded
  /\ deadline = "running"
  /\ \/ UNCHANGED <<bb, asked>>
     \/ \E w \in Outcomes(bb) :
          /\ bb' = Written(bb, w)
          /\ asked' = IF w = "ok" /\ asked < MaxAsked THEN asked + 1 ELSE asked
  /\ UNCHANGED <<holding, window, chipMac, chipPair, cfg, history>>

PairService ==
  \/ PairIdle
  \/ PairSocketLost
  \/ PairCommit
  \/ PairRestore
  \/ PairFound
  \/ PairExpired
  \/ PairPoll

-----------------------------------------------------------------------------
(* The shared drain.  A reply may be late by any number of ticks, so it may
   answer a poll of an earlier window; outside PAIR_POLL it is dropped, and
   one without a candidate (or too short) counts for nothing.              *)

ReplyIgnored ==
  /\ pc = "drain"
  /\ bb.open
  /\ asked > 0
  /\ asked' = asked - 1
  /\ UNCHANGED <<bb, holding, window, pc, chipMac, chipPair, cfg, history>>

ReplyCandidate(m) ==
  /\ pc = "drain"
  /\ bb.open
  /\ asked > 0
  /\ phase = "POLL"
  /\ hits < HitsCap
  /\ asked' = asked - 1
  /\ hits' = hits + 1
  /\ peer' = m
  /\ heard' = heard \cup {m}
  /\ UNCHANGED <<bb, holding, phase, deadline, saved, restoreTries, pc, chipMac,
                 chipPair, cfg, stranded, offLost>>

DrainEnd ==
  /\ pc = "drain"
  /\ pc' = "rate"
  /\ UNCHANGED <<bb, holding, window, chip, cfg, history>>

-----------------------------------------------------------------------------
(* The window's 30 s pass. *)
Expire ==
  /\ deadline = "running"
  /\ deadline' = "passed"
  /\ UNCHANGED <<bb, holding, phase, hits, peer, saved, restoreTries, pc, chip,
                 cfg, history>>

(* The loop ends at its head.  An open window is torn down in one go
   (air_bind_abort): pair mode is left from PAIR_POLL, the saved address is
   put back except in PAIR_COMMIT; then every descriptor is closed.        *)
Abort ==
  \E off \in IF phase = "POLL" THEN Outcomes(bb) ELSE {"none"} :
    LET b == Written(bb, off)
        restore == phase # "COMMIT" /\ saved # NoMac
    IN  \E w \in IF restore THEN Outcomes(b) ELSE {"none"} :
          /\ chipPair' = (chipPair /\ off # "ok")
          /\ offLost' = (offLost \/ off \in {"busy", "broken", "closed"})
          /\ chipMac' = IF w = "ok" THEN saved ELSE chipMac
          /\ stranded' = (stranded \/ saved = NoMac \/ (restore /\ w # "ok"))

Shutdown ==
  /\ pc = "rate"
  /\ pc' = "stopped"
  /\ IF deadline # "none" THEN Abort
                          ELSE UNCHANGED <<chipMac, chipPair, stranded, offLost>>
  /\ bb' = Closed
  /\ holding' = [u \in Users |-> FALSE]
  /\ phase' = "IDLE"
  /\ deadline' = "none"
  /\ UNCHANGED <<hits, peer, saved, restoreTries, asked, cfg, heard>>

(* The process is gone. *)
Stopped == pc = "stopped" /\ UNCHANGED vars

-----------------------------------------------------------------------------
Loop ==
  \/ RateService
  \/ PowerService
  \/ NoPress
  \/ StartRefused
  \/ StartNoBroadcast
  \/ StartNoPairMode
  \/ StartWindow
  \/ PairService
  \/ ReplyIgnored
  \/ \E m \in Macs : ReplyCandidate(m)
  \/ DrainEnd

Next == Loop \/ Expire \/ Shutdown \/ Stopped

(* The loop keeps running and time keeps passing; nothing else is assumed:
   no write need ever succeed and no peer need ever answer.                *)
Fairness == WF_vars(Loop) /\ WF_vars(Expire)

Spec == Init /\ [][Next]_vars
FairSpec == Spec /\ Fairness

-----------------------------------------------------------------------------
(* Properties.                                                             *)

One(b) == IF b THEN 1 ELSE 0
Holders == One(holding["rate"]) + One(holding["power"]) + One(holding["bind"])

(* The node is open exactly while a reference is counted, and a reference
   is never counted that no user would give back: a broken write that
   forgets all references, followed by a reopen, must neither leak the node
   nor underflow the count (ml-air-bb.c).                                  *)
SocketCounted ==
  /\ bb.open <=> bb.users > 0
  /\ bb.users <= Holders

(* The pair window's three records of being open never disagree: its phase,
   its deadline (which sets the loop's cadence and the shutdown's abort) and
   its claim on the socket (ml-air-bind.c).                                *)
WindowConsistent ==
  /\ phase = "IDLE" <=> deadline = "none"
  /\ phase = "IDLE" <=> ~holding["bind"]

(* Outside a window of a running daemon the chip is on the broadcast address
   only if there was no address to put back or putting it back failed: every
   other way out of a window restores or commits (ml-air-bind.c).          *)
BroadcastExplained ==
  phase = "IDLE" /\ pc # "stopped" /\ chipMac = Broadcast => stranded

(* The chip stays in pair mode past the polling phase only if the write that
   leaves pair mode did not get through (ml-air-bind.c).                   *)
PairModeLeft == chipPair /\ phase # "POLL" => offLost

(* The disk records a peer only when the chip has just been given it, and
   only one this window saw and counted often enough: a failed commit must
   not record a binding the unit does not have (ml-air-bind.c).            *)
PersistOnlyCommitted ==
  [][cfg' # cfg => /\ phase = "COMMIT" /\ phase' = "IDLE"
                   /\ cfg' = chipMac'
                   /\ cfg' \in heard
                   /\ hits >= HitsNeeded]_vars

(* Every pair window closes, whatever the radio does to its writes
   (ml-air-bind.c).                                                        *)
WindowCloses == phase # "IDLE" ~> phase = "IDLE"

(* The loop implements the promise of the bind button.                     *)
PW == INSTANCE PairWindow WITH
  open <- phase # "IDLE",
  sighted <- IF phase = "IDLE" THEN {} ELSE heard,
  sightings <- IF phase = "IDLE" THEN 0 ELSE hits,
  bound <- cfg
KeepsPromise == PW!WSpec

(* What ml-air-bb.h says of the handle ("-1 while no user holds it", one
   reference-counted fd): the release that ends a successful commit closes
   the node only if no other user holds it.                                *)
ClosedOnlyUnheld ==
  [][phase = "COMMIT" /\ phase' = "IDLE" /\ bb.open /\ ~bb'.open /\ pc = "pair"
       => \A u \in Users \ {"bind"} : ~holding[u]]_vars
=============================================================================
