------------------------------ MODULE RxControl ------------------------------
(***************************************************************************)
(* The goggle's control node: the main thread's steady loop serves the     *)
(* channel requests (RxChan) and then the bind (RxBind), one after the     *)
(* other, and no other thread sends to the chip.                           *)
(***************************************************************************)
EXTENDS RxChan, RxBind

CONSTANT MaxRequests \* bound: requests of the HUD in a behaviour

ASSUME RequestsAssumption == MaxRequests \in Nat

VARIABLE requests \* bookkeeping: requests so far

vars == <<pc, replies, air, requests, cvars, bvars>>

Init ==
  /\ pc = "open" /\ replies = <<>> /\ air = "gone" /\ requests = 0
  /\ ChanInit
  /\ BindInit

Owner ==
  /\ UNCHANGED requests
  /\ \/ ChanOwner /\ UNCHANGED bvars
     \/ BindOwner /\ UNCHANGED cvars

Request ==
  /\ requests < MaxRequests
  /\ requests' = requests + 1
  /\ \/ ChanRequests /\ UNCHANGED bvars
     \/ BindRequests /\ UNCHANGED cvars

Outside ==
  /\ UNCHANGED requests
  /\ \/ (ReadScan \/ ReadLink \/ Follow) /\ UNCHANGED bvars
     \/ ReadPair /\ UNCHANGED cvars
     \/ AirChanges /\ UNCHANGED <<cvars, bvars>>

Next == Owner \/ Request \/ Outside

(* The main thread runs on; the lock wait of a swept channel (500 ms) and the
   pair window (30 s) are measured on the clock and do end.                *)
Fairness ==
  /\ WF_vars(Owner)
  /\ SF_vars(GateOver /\ UNCHANGED <<requests, bvars>>)
  /\ SF_vars(WindowOver /\ UNCHANGED <<requests, cvars>>)

Spec == Init /\ [][Next]_vars

FairSpec == Spec /\ Fairness

-----------------------------------------------------------------------------
SweepStages == {"visit", "gate", "gated", "sample", "sampled", "again", "last"}

ReplyOK(r) ==
  \/ r.kind = "scan" /\ r.of = Unset
  \/ r.kind = "1v1" /\ r.of \in Channels
  \/ r.kind = "pair" /\ r.of \in Peers

TypeOK ==
  /\ pc \in {"open", "band", "select", "tune", "mcs", "scan", "seed", "published",
             "bind", "cadence"} \cup SweepStages \cup BindStages
  /\ Len(replies) <= MaxReplies
  /\ \A i \in DOMAIN replies : ReplyOK(replies[i])
  /\ air \in Airs /\ requests \in 0..MaxRequests
  /\ ChanTypeOK
  /\ BindTypeOK

(* Between two passes with no retune waiting the goggle has tuned to the
   channel the HUD asked for last, whatever was swept since.               *)
TunedAsAsked == pc = "cadence" /\ wantChan = Unset /\ asked # Unset => cur = asked

(* The goggle only ever tunes within the chip's band, unless it was asked
   to leave it before the band was known.                                  *)
StaysInBand == cur # Unset /\ ~blind => cur \in Valid

(* A published sweep holds for each channel a reading taken on that channel
   or none, if no select and no reply of the sweep was late or lost.        *)
MeasuredOnItsChannel ==
  pc = "published" /\ ~late => \A c \in Valid : table[c] \in {c, NoLock}

(* The chip is handed the modulation index back after every sweep.          *)
RateHandedBack == rate = "sweep" => pc \in SweepStages

(* Outside a bind the chip is out of pair mode, unless the frame was lost.  *)
PairModeLeft == pairing = "on" => pc \in BindStages

(* What is locked is a MAC that came with a hit, if every reply of the
   window came in its own poll.                                             *)
LockedPeerHit == pc = "lock" /\ ~pairLate => mac # NoMac

(* Neither a sweep nor a bind keeps the main thread from its cadence.       *)
CadenceReturns == []<>(pc = "cadence")
=============================================================================
