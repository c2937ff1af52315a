--------------------------- MODULE RxControlProofs ---------------------------
(***************************************************************************)
(* Proofs about RxControl, for every size of the channel table, every band *)
(* and saved channel, every set of candidates and every number of hits.    *)
(***************************************************************************)
EXTENDS RxControl, WellFoundedInduction, TLAPS

(* The actions of the main thread by what they serve, for the case splits.  *)
OpenStep == Open /\ UNCHANGED <<requests, bvars>>
ServeStep == (Serve \/ Cadence) /\ UNCHANGED <<requests, bvars>>
SweepStep == Sweep /\ UNCHANGED <<requests, bvars>>
BindStep == BindOwner /\ UNCHANGED <<requests, cvars>>

(* Next is the disjunction of these steps. *)
LEMMA Steps ==
  ASSUME [Next]_vars
  PROVE  OpenStep \/ ServeStep \/ SweepStep \/ BindStep \/ Request \/ Outside
         \/ UNCHANGED vars
BY DEF Next, vars, Owner, ChanOwner, OpenStep, ServeStep, SweepStep, BindStep

-----------------------------------------------------------------------------
(* A set of natural numbers has a least member: the well-foundedness of <
   stands in for an induction.                                              *)
LEMMA Least ==
  ASSUME NEW S, S \subseteq Nat, S # {}
  PROVE  \E x \in S : \A y \in S : x <= y
<1> DEFINE R == OpToRel(<, Nat)
<1>1. PICK x \in S : \A y \in S : ~ (<<y, x>> \in R)
  <2>1. IsWellFoundedOn(R, Nat)
    BY NatLessThanWellFounded
  <2> HIDE DEF R
  <2>. QED
    BY <2>1, WFMin
<1>2. \A y \in S : ~ (y < x)
  BY <1>1 DEF OpToRel
<1>. QED
  BY <1>2

(* A band that is not empty has a first channel. *)
LEMMA FirstIsValid == ASSUME Valid # {} PROVE FirstValid \in Valid
<1>1. Valid \subseteq Nat /\ Valid # {}
  BY BandAssumption DEF Channels
<1>2. \E c \in Valid : \A d \in Valid : c <= d
  BY <1>1, Least
<1>. QED
  BY <1>2 DEF FirstValid

(* The next channel of a sweep is one it has still to visit. *)
LEMMA NextIsLeft ==
  ASSUME left \subseteq Valid, left # {}, restore \in Some
  PROVE  Idx \in left
<1> DEFINE D == {Distance(c) : c \in left}
<1>1. \A c \in left : Distance(c) \in Nat
  BY BandAssumption DEF Distance, Some, Channels, Unset
<1>2. D \subseteq Nat /\ D # {}
  BY <1>1
<1>3. PICK n \in D : \A m \in D : n <= m
  <2> HIDE DEF D
  <2>. QED
    BY <1>2, Least
<1>4. \E c \in left : \A d \in left : Distance(c) <= Distance(d)
  BY <1>3
<1>. QED
  BY <1>4 DEF Idx

-----------------------------------------------------------------------------
(* The replies the chip sends. *)
Replies ==
  [kind : {"scan"}, of : {Unset}] \cup [kind : {"1v1"}, of : Channels]
    \cup [kind : {"pair"}, of : Peers]

RepliesTyped == replies \in Seq(Replies) /\ Len(replies) <= MaxReplies

(* A question adds at most its own reply to those on their way. *)
LEMMA AskTyped ==
  ASSUME RepliesTyped, NEW r \in Replies, Ask(r)
  PROVE  RepliesTyped'
BY RepliesAssumption DEF RepliesTyped, Ask

(* The reader takes a reply of the kind it hands on. *)
LEMMA ReadTyped ==
  ASSUME RepliesTyped, NEW kind, Read(kind)
  PROVE  RepliesTyped' /\ Head(replies) \in Replies /\ Head(replies).kind = kind
BY RepliesAssumption DEF RepliesTyped, Read

(* What keeps the hits in range and gives each copied MAC a reply to be of.  *)
TypeInv ==
  /\ RepliesTyped
  /\ pc \in {"open", "band", "select", "tune", "mcs", "scan", "seed", "published", "bind",
             "cadence"} \cup SweepStages \cup BindStages
  /\ air \in Airs /\ requests \in 0..MaxRequests
  /\ ChanTypeOK
  /\ BindTypeOK
  /\ pc = "wait" => hits < HitsNeeded
  /\ pc = "copy" => pair # NoReplyYet

(* A step of one half leaves the other half's types alone. *)
LEMMA BindKept == TypeInv /\ UNCHANGED bvars => BindTypeOK' /\ UNCHANGED <<hits, pair>>
BY DEF TypeInv, BindTypeOK, bvars

LEMMA ChanKept == TypeInv /\ UNCHANGED cvars => ChanTypeOK'
BY DEF TypeInv, ChanTypeOK, PlacesOK, FlagsOK, cvars, wants, seen, sweep, chip, hist

(* The channel's flags stay flags. *)
LEMMA FlagsKept == FlagsOK /\ [Next]_vars => FlagsOK'
<1> SUFFICES ASSUME FlagsOK, [Next]_vars PROVE FlagsOK'
  OBVIOUS
<1> USE DEF FlagsOK, cvars, wants, seen, hist
<1>1. CASE OpenStep
  BY <1>1 DEF OpenStep, Open, AskBand, OpenBand, OpenUnknown
<1>2. CASE ServeStep
  <2>1. CASE TakeSelect \/ Tune \/ NoTune
    BY <2>1 DEF TakeSelect, Tune, NoTune
  <2>2. CASE ServeMcs \/ NoScan \/ Cadence
    BY <2>2 DEF ServeMcs, NoScan, Cadence
  <2>. QED
    BY <1>2, <2>1, <2>2, Zenon DEF ServeStep, Serve
<1>3. CASE SweepStep
  <2>1. CASE AskTable
    BY <2>1, Zenon DEF AskTable
  <2>2. CASE Visit
    <3>1. late' \in BOOLEAN
      BY <2>2 DEF Visit
    <3>. QED
      BY <2>2, <3>1 DEF Visit
  <2>3. CASE SampleAgain
    <3>1. late' \in BOOLEAN
      BY <2>3, Zenon DEF SampleAgain
    <3>2. UNCHANGED <<wantMcs, wantScan, rate, band, ready, blind, pinned>>
      BY <2>3 DEF SampleAgain, Measured
    <3>. QED
      BY <3>1, <3>2, Zenon
  <2>4. CASE GateOver \/ NoReply \/ SampleDone
    <3>1. CASE GateOver
      BY <3>1 DEF GateOver, Measured
    <3>2. CASE NoReply
      <4>1. late'
        BY <3>2 DEF NoReply
      <4>2. UNCHANGED <<wantMcs, wantScan, rate, band, ready, blind, pinned>>
        BY <3>2 DEF NoReply, Measured
      <4>. QED
        BY <4>1, <4>2
    <3>3. CASE SampleDone
      BY <3>3 DEF SampleDone, Measured
    <3>. QED
      BY <2>4, <3>1, <3>2, <3>3
  <2>5. CASE PollGate \/ PollSample \/ PollAgain \/ SampleLow \/ GateMatches \/ GateAgain
    BY <2>5 DEF PollGate, PollSample, PollAgain, Poll, SampleLow, GateMatches, GateAgain
  <2>6. CASE SkipSweep \/ SweepDeaf \/ SweepBegins \/ Restore \/ SweepEnds
    <3>1. CASE SkipSweep \/ SweepDeaf \/ SweepBegins
      BY <3>1 DEF SkipSweep, SweepDeaf, SweepBegins
    <3>2. CASE Restore \/ SweepEnds
      BY <3>2 DEF Restore, SweepEnds
    <3>. QED
      BY <2>6, <3>1, <3>2
  <2>. QED
    BY <1>3, <2>1, <2>2, <2>3, <2>4, <2>5, <2>6 DEF SweepStep, Sweep
<1>4. CASE BindStep
  BY <1>4 DEF BindStep
<1>5. CASE Request
  BY <1>5 DEF Request, ChanRequests, RequestSelect, RequestMcs, RequestScan
<1>6. CASE Outside
  <2>1. CASE ReadScan \/ ReadLink
    BY <2>1 DEF ReadScan, ReadLink
  <2>. QED
    BY <1>6, <2>1 DEF Outside, Follow
<1>7. CASE UNCHANGED vars
  BY <1>7 DEF vars
<1>. QED
  BY <1>1, <1>2, <1>3, <1>4, <1>5, <1>6, <1>7, Steps

(* The strengthened type invariant holds in every reachable state. *)
LEMMA TypeInvariant == Spec => []TypeInv
<1>1. Init => TypeInv
  <2> SUFFICES ASSUME Init PROVE TypeInv
    OBVIOUS
  <2>1. RepliesTyped
    BY RepliesAssumption DEF Init, RepliesTyped
  <2>2. ChanTypeOK
    BY DEF Init, ChanInit, ChanTypeOK, PlacesOK, FlagsOK, Some, Unread
  <2>3. BindTypeOK
    <3>1. hits \in 0..HitsNeeded
      BY BindAssumption DEF Init, BindInit
    <3>. QED
      BY <3>1, Zenon DEF Init, BindInit, BindTypeOK, Peers
  <2>. QED
    BY <2>1, <2>2, <2>3, RequestsAssumption DEF Init, TypeInv, Airs
<1>2. TypeInv /\ [Next]_vars => TypeInv'
  <2> SUFFICES ASSUME TypeInv, [Next]_vars PROVE TypeInv'
    OBVIOUS
  <2>0. /\ Valid \subseteq Channels /\ Saved \in Some /\ ScanReply \in Replies
        /\ LinkReply \in Replies
    BY BandAssumption DEF Some, ScanReply, LinkReply, Replies, TypeInv, ChanTypeOK, PlacesOK
  <2>f. FlagsOK'
    BY FlagsKept DEF TypeInv, ChanTypeOK
  <2> USE DEF TypeInv, Stage
  <2>1. CASE OpenStep
    <3>0. BindTypeOK' /\ UNCHANGED <<hits, pair, requests>>
      BY <2>1, BindKept DEF OpenStep
    <3>1. RepliesTyped'
      BY <2>0, <2>f, <2>1, AskTyped
      DEF OpenStep, Open, AskBand, OpenBand, OpenUnknown, RepliesTyped
    <3>2. ChanTypeOK'
      BY <2>0, <2>f, <2>1, FirstIsValid
      DEF OpenStep, Open, AskBand, OpenBand, OpenUnknown, Select, ChanTypeOK, PlacesOK, Some, cvars,
          wants, seen, sweep, chip, hist
    <3>. QED
      BY <2>1, <3>0, <3>1, <3>2 DEF OpenStep, Open, AskBand, OpenBand, OpenUnknown
  <2>2. CASE ServeStep
    <3>0. BindTypeOK' /\ UNCHANGED <<hits, pair, requests>>
      BY <2>2, BindKept DEF ServeStep
    <3>1. RepliesTyped'
      BY <2>0, <2>f, <2>2, AskTyped
      DEF ServeStep, Serve, TakeSelect, Tune, NoTune, ServeMcs, NoScan, Cadence, RepliesTyped
    <3>2. ChanTypeOK'
      BY <2>0, <2>f, <2>2
      DEF ServeStep, Serve, TakeSelect, Tune, NoTune, ServeMcs, NoScan, Cadence, Select,
          ChanTypeOK, PlacesOK, Some, cvars, wants, seen, sweep, chip, hist
    <3>. QED
      BY <2>2, <3>0, <3>1, <3>2
      DEF ServeStep, Serve, TakeSelect, Tune, NoTune, ServeMcs, NoScan, Cadence
  <2>3. CASE SweepStep
    <3>0. BindTypeOK' /\ UNCHANGED <<hits, pair, requests>>
      BY <2>3, BindKept DEF SweepStep
    <3>a. pc' \in {"visit", "gate", "gated", "sample", "sampled", "again", "last", "seed",
                   "published", "bind"} /\ air' = air
      BY <2>3
      DEF SweepStep, Sweep, AskTable, SkipSweep, SweepDeaf, SweepBegins, Visit, Poll,
          PollGate, PollSample, PollAgain, GateMatches, GateAgain, Measured, GateOver,
          NoReply, SampleDone, SampleLow, SampleAgain, Restore, SweepEnds
    <3>b. RepliesTyped'
      BY <2>0, <2>f, <2>3, AskTyped
      DEF SweepStep, Sweep, AskTable, SkipSweep, SweepDeaf, SweepBegins, Visit, Poll,
          PollGate, PollSample, PollAgain, GateMatches, GateAgain, Measured, GateOver,
          NoReply, SampleDone, SampleLow, SampleAgain, Restore, SweepEnds, RepliesTyped
    <3> USE DEF ChanTypeOK, PlacesOK, Some, cvars, wants, seen, sweep, chip, hist
    <3>1. CASE Visit
      <4>1. left # {} => Idx \in Channels
        BY <2>0, <2>f, NextIsLeft
      <4>. QED
        BY <2>0, <2>f, <3>0, <3>a, <3>b, <3>1, <4>1 DEF Visit, Select, SweepStages
    <3>2. CASE GateOver \/ NoReply \/ SampleDone \/ SampleAgain
      BY <2>0, <2>f, <3>0, <3>a, <3>b, <3>2
      DEF GateOver, NoReply, SampleDone, SampleAgain, Measured, SweepStages
    <3>3. CASE Restore
      BY <2>0, <2>f, <3>0, <3>a, <3>b, <3>3 DEF Restore, Select, SweepStages
    <3>4. CASE PollGate \/ PollSample \/ PollAgain
      BY <2>f, <3>0, <3>a, <3>b, <3>4 DEF Poll, PollGate, PollSample, PollAgain, SweepStages
    <3>5. CASE AskTable
      BY <2>f, <3>0, <3>a, <3>b, <3>5 DEF AskTable, SweepStages
    <3>. QED
      BY <2>0, <2>f, <2>3, <3>0, <3>a, <3>b, <3>1, <3>2, <3>3, <3>4, <3>5
      DEF SweepStep, Sweep, SkipSweep, SweepDeaf, SweepBegins, GateMatches, GateAgain,
          SampleLow, SweepEnds, SweepStages, Unread
  <2>4. CASE BindStep
    <3>0. ChanTypeOK' /\ requests' = requests
      BY <2>4, ChanKept DEF BindStep
    <3>1. CASE PairPoll
      <4>1. PICK who \in Peers : Ask(PairReply(who))
        BY <3>1 DEF PairPoll, Peers
      <4>2. RepliesTyped'
        BY <4>1, AskTyped DEF PairReply, Replies
      <4>. QED
        BY <3>0, <3>1, <4>2 DEF PairPoll, BindTypeOK, BindStages
    <3>2. CASE TakeBind
      <4>1. save' \in BOOLEAN
        BY <3>2 DEF TakeBind
      <4>. QED
        BY <3>0, <3>2, <4>1 DEF TakeBind, BindTypeOK, BindStages, RepliesTyped
    <3>3. CASE BindArg
      <4>1. save' \in BOOLEAN
        BY <3>3 DEF BindArg, BindTypeOK
      <4>. QED
        BY <3>0, <3>3, <4>1 DEF BindArg, BindTypeOK, BindStages, RepliesTyped
    <3>4. CASE PairHit
      <4>1. NoReplyYet \notin Macs /\ hits' \in 0..HitsNeeded
        BY <3>4, BindAssumption DEF PairHit, BindTypeOK
      <4>. QED
        BY <3>0, <3>4, <4>1 DEF PairHit, BindTypeOK, BindStages, RepliesTyped
    <3>5. CASE PairCopy
      BY <3>0, <3>5 DEF PairCopy, BindTypeOK, BindStages, RepliesTyped
    <3>6. CASE PairOffFails \/ Persist
      <4>1. hits' \in 0..HitsNeeded /\ saved' \in Peers
        BY <3>6, BindAssumption DEF PairOffFails, Persist, BindOver, BindTypeOK
      <4>. QED
        BY <3>0, <3>6, <4>1
        DEF PairOffFails, Persist, LeavePairMode, BindOver, BindTypeOK, RepliesTyped, Peers
    <3>7. CASE PairOn \/ PairMiss \/ PairOff \/ PairLock
      BY <3>0, <3>7
      DEF PairOn, PairMiss, LeavePairMode, PairOff, PairLock, BindTypeOK, BindStages,
          RepliesTyped
    <3>. QED
      BY <2>4, <3>0, <3>1, <3>2, <3>3, <3>4, <3>5, <3>6, <3>7
      DEF BindStep, BindOwner, NoBind, BindRefused, WindowOver, EnoughHits, BindTypeOK,
          BindStages, RepliesTyped, bvars
  <2>5. CASE Request
    <3>1. CASE ChanRequests /\ UNCHANGED bvars
      BY <2>0, <2>f, <2>5, <3>1, BindKept, RequestsAssumption
      DEF Request, ChanRequests, RequestSelect, RequestMcs, RequestScan, ChanTypeOK, PlacesOK, Some,
          RepliesTyped, seen, sweep, chip, hist
    <3>2. CASE BindRequests /\ UNCHANGED cvars
      BY <2>5, <3>2, ChanKept, RequestsAssumption
      DEF Request, BindRequests, RequestBind, BindTypeOK, RepliesTyped
    <3>. QED
      BY <2>5, <3>1, <3>2 DEF Request
  <2>6. CASE Outside
    <3> USE DEF ChanTypeOK, PlacesOK, Some, cvars, wants, seen, sweep, chip, hist
    <3>1. CASE ReadScan /\ UNCHANGED <<requests, bvars>>
      BY <2>0, <2>f, <3>1, ReadTyped, BindKept DEF ReadScan, Read, Unread
    <3>2. CASE ReadLink /\ UNCHANGED <<requests, bvars>>
      <4>1. Head(replies).of \in Channels
        BY <3>2, ReadTyped DEF ReadLink, Replies
      <4>. QED
        BY <2>f, <3>2, <4>1, ReadTyped, BindKept DEF ReadLink, Read
    <3>3. CASE ReadPair /\ UNCHANGED <<requests, cvars>>
      <4>1. Head(replies).of \in Peers
        BY <3>3, ReadTyped DEF ReadPair, Replies
      <4>2. NoReplyYet \notin Peers
        BY BindAssumption DEF Peers, NoMac, NoReplyYet
      <4>3. /\ pair' \in Peers \cup {NoReplyYet}
            /\ pc = "copy" => pair' # NoReplyYet
        BY <3>3, <4>1, <4>2, Zenon DEF ReadPair
      <4>4. BindTypeOK'
        BY <3>3, <4>3 DEF ReadPair, BindTypeOK
      <4>. QED
        BY <3>3, <4>3, <4>4, ReadTyped, ChanKept DEF ReadPair, Read
    <3>4. CASE Follow /\ UNCHANGED <<requests, bvars>>
      BY <2>f, <3>4, BindKept DEF Follow, RepliesTyped
    <3>5. CASE AirChanges /\ UNCHANGED <<requests, cvars, bvars>>
      BY <3>5, BindKept, ChanKept DEF AirChanges, RepliesTyped
    <3>. QED
      BY <2>6, <3>1, <3>2, <3>3, <3>4, <3>5 DEF Outside
  <2>7. CASE UNCHANGED vars
    BY <2>7, BindKept, ChanKept DEF vars, RepliesTyped
  <2>. QED
    BY <2>1, <2>2, <2>3, <2>4, <2>5, <2>6, <2>7, Steps
<1>. QED
  BY <1>1, <1>2, PTL DEF Spec

(* Every variable keeps its type and every counter its bound.               *)
THEOREM TypeAlwaysOK == Spec => []TypeOK
<1>1. TypeInv => TypeOK
  BY DEF TypeInv, TypeOK, RepliesTyped, Replies, ReplyOK
<1>. QED
  BY <1>1, TypeInvariant, PTL

-----------------------------------------------------------------------------
(* The index is the sweep's only while the sweep runs, and no request can
   make it so.                                                              *)
RateInv == RateHandedBack /\ wantMcs # "sweep"

(* The chip is handed the modulation index back after every sweep.          *)
THEOREM RateAlwaysHandedBack == Spec => []RateHandedBack
<1>1. Init => RateInv
  BY DEF Init, ChanInit, RateInv, RateHandedBack
<1>2. RateInv /\ [Next]_vars => RateInv'
  <2> SUFFICES ASSUME RateInv, [Next]_vars PROVE RateInv'
    OBVIOUS
  <2> USE DEF RateInv, RateHandedBack, SweepStages, Stage, cvars, wants
  <2>1. CASE OpenStep
    BY <2>1 DEF OpenStep, Open, AskBand, OpenBand, OpenUnknown
  <2>2. CASE ServeStep
    BY <2>2 DEF ServeStep, Serve, TakeSelect, Tune, NoTune, ServeMcs, NoScan, Cadence
  <2>3. CASE SweepStep
    BY <2>3 DEF SweepStep, Sweep, AskTable, SkipSweep, SweepDeaf, SweepBegins, Visit, Poll,
                PollGate, PollSample, PollAgain, GateMatches, GateAgain, Measured, GateOver,
                NoReply, SampleDone, SampleLow, SampleAgain, Restore, SweepEnds
  <2>4. CASE BindStep
    BY <2>4 DEF BindStep, BindOwner, NoBind, TakeBind, BindArg, BindRefused, PairOn,
                PairPoll, PairMiss, PairHit, PairCopy, WindowOver, EnoughHits, PairOffFails,
                PairOff, PairLock, Persist
  <2>5. CASE Request
    BY <2>5 DEF Request, ChanRequests, RequestSelect, RequestMcs, RequestScan,
                BindRequests, RequestBind
  <2>6. CASE Outside
    BY <2>6 DEF Outside, Read, ReadScan, ReadLink, ReadPair, Follow, AirChanges
  <2>7. CASE UNCHANGED vars
    BY <2>7 DEF vars
  <2>. QED
    BY <2>1, <2>2, <2>3, <2>4, <2>5, <2>6, <2>7, Steps
<1>3. RateInv => RateHandedBack
  BY DEF RateInv
<1>. QED
  BY <1>1, <1>2, <1>3, PTL DEF Spec

-----------------------------------------------------------------------------
(* Where a retune the HUD asked for last may be: waiting, taken, or carried
   out; while a sweep is away from it, in what the sweep will put back.     *)
TuneInv ==
  /\ tune # Unset => pc = "tune"
  /\ wantChan # Unset => wantChan = asked
  /\ pc = "seed" => restore = cur
  /\ pc \in {"open", "band"} /\ asked # Unset => wantChan = asked
  /\ asked # Unset /\ wantChan = Unset =>
       \/ tune = asked
       \/ tune = Unset /\ (IF pc \in SweepStages THEN restore ELSE cur) = asked

(* Whatever is swept, bound or lost, with no retune waiting the goggle has
   tuned to the channel the HUD asked for last when it is back in its
   cadence.                                                                 *)
THEOREM AlwaysTunedAsAsked == Spec => []TunedAsAsked
<1>1. Init => TuneInv
  BY DEF Init, ChanInit, TuneInv, SweepStages
<1>2. TuneInv /\ [Next]_vars => TuneInv'
  <2> SUFFICES ASSUME TuneInv, [Next]_vars PROVE TuneInv'
    OBVIOUS
  <2> USE DEF TuneInv, SweepStages, Stage, cvars, wants, sweep, hist, Select, Channels, Unset
  <2>1. CASE OpenStep
    BY <2>1 DEF OpenStep, Open, AskBand, OpenBand, OpenUnknown
  <2>2. CASE ServeStep
    BY <2>2 DEF ServeStep, Serve, TakeSelect, Tune, NoTune, ServeMcs, NoScan, Cadence
  <2>3. CASE SweepStep
    BY <2>3 DEF SweepStep, Sweep, AskTable, SkipSweep, SweepDeaf, SweepBegins, Visit, Poll,
                PollGate, PollSample, PollAgain, GateMatches, GateAgain, Measured, GateOver,
                NoReply, SampleDone, SampleLow, SampleAgain, Restore, SweepEnds
  <2>4. CASE BindStep
    BY <2>4 DEF BindStep, BindOwner, NoBind, TakeBind, BindArg, BindRefused, PairOn,
                PairPoll, PairMiss, PairHit, PairCopy, WindowOver, EnoughHits, PairOffFails,
                PairOff, PairLock, Persist
  <2>5. CASE Request
    BY <2>5 DEF Request, ChanRequests, RequestSelect, RequestMcs, RequestScan,
                BindRequests, RequestBind
  <2>6. CASE Outside
    BY <2>6 DEF Outside, Read, ReadScan, ReadLink, ReadPair, Follow, AirChanges
  <2>7. CASE UNCHANGED vars
    BY <2>7 DEF vars
  <2>. QED
    BY <2>1, <2>2, <2>3, <2>4, <2>5, <2>6, <2>7, Steps
<1>3. TuneInv => TunedAsAsked
  BY DEF TuneInv, TunedAsAsked, SweepStages
<1>. QED
  BY <1>1, <1>2, <1>3, PTL DEF Spec

-----------------------------------------------------------------------------
(* Pair mode is on only from PairOn to the frame that ends it.              *)
PairInv == pairing = "on" => pc \in {"poll", "wait", "copy", "pairoff"}

(* Outside a bind the chip is out of pair mode, unless the frame was lost.  *)
THEOREM PairModeAlwaysLeft == Spec => []PairModeLeft
<1>1. Init => PairInv
  BY DEF Init, BindInit, PairInv
<1>2. PairInv /\ [Next]_vars => PairInv'
  <2> SUFFICES ASSUME PairInv, [Next]_vars PROVE PairInv'
    OBVIOUS
  <2> USE DEF PairInv, Stage, bvars, LeavePairMode
  <2>1. CASE OpenStep
    BY <2>1 DEF OpenStep, Open, AskBand, OpenBand, OpenUnknown
  <2>2. CASE ServeStep
    BY <2>2 DEF ServeStep, Serve, TakeSelect, Tune, NoTune, ServeMcs, NoScan, Cadence
  <2>3. CASE SweepStep
    BY <2>3 DEF SweepStep, Sweep, AskTable, SkipSweep, SweepDeaf, SweepBegins, Visit, Poll,
                PollGate, PollSample, PollAgain, GateMatches, GateAgain, Measured, GateOver,
                NoReply, SampleDone, SampleLow, SampleAgain, Restore, SweepEnds
  <2>4. CASE BindStep
    BY <2>4 DEF BindStep, BindOwner, NoBind, TakeBind, BindArg, BindRefused, PairOn,
                PairPoll, PairMiss, PairHit, PairCopy, WindowOver, EnoughHits, PairOffFails,
                PairOff, PairLock, Persist
  <2>5. CASE Request
    BY <2>5 DEF Request, ChanRequests, RequestSelect, RequestMcs, RequestScan,
                BindRequests, RequestBind
  <2>6. CASE Outside
    BY <2>6 DEF Outside, Read, ReadScan, ReadLink, ReadPair, Follow, AirChanges
  <2>7. CASE UNCHANGED vars
    BY <2>7 DEF vars
  <2>. QED
    BY <2>1, <2>2, <2>3, <2>4, <2>5, <2>6, <2>7, Steps
<1>3. PairInv => PairModeLeft
  BY DEF PairInv, PairModeLeft, BindStages
<1>. QED
  BY <1>1, <1>2, <1>3, PTL DEF Spec

-----------------------------------------------------------------------------
(* Every place a channel waits in before the chip is tuned to it holds one
   of the band, unless an index off the band was accepted.                  *)
InBand(c) == c \in Valid \cup {Unset}

BandInv ==
  /\ left \subseteq Valid /\ blind \in BOOLEAN
  /\ wantChan \in Some /\ tune \in Some /\ cur \in Some /\ restore \in Some
  /\ ~blind => InBand(wantChan) /\ InBand(tune) /\ InBand(cur) /\ InBand(restore)

(* Whatever is asked, swept or lost, the goggle tunes within the chip's
   band, unless it was asked to leave it before the band was known.         *)
THEOREM AlwaysStaysInBand == Spec => []StaysInBand
<1>1. Init => BandInv
  BY DEF Init, ChanInit, BandInv, InBand, Some
<1>2. BandInv /\ [Next]_vars => BandInv'
  <2> SUFFICES ASSUME BandInv, [Next]_vars PROVE BandInv'
    OBVIOUS
  <2>0. Valid \subseteq Channels
    BY BandAssumption
  <2> USE DEF BandInv, InBand, Some, Stage, cvars, wants, sweep, hist, Select
  <2>1. CASE OpenStep
    BY <2>1, <2>0, FirstIsValid DEF OpenStep, Open, AskBand, OpenBand, OpenUnknown
  <2>2. CASE ServeStep
    BY <2>2 DEF ServeStep, Serve, TakeSelect, Tune, NoTune, ServeMcs, NoScan, Cadence
  <2>3. CASE SweepStep
    <3>1. CASE Visit
      BY <2>0, <3>1, NextIsLeft DEF Visit
    <3>2. CASE GateOver \/ NoReply \/ SampleDone \/ SampleAgain
      BY <3>2 DEF GateOver, NoReply, SampleDone, SampleAgain, Measured
    <3>3. CASE Restore
      BY <3>3 DEF Restore
    <3>. QED
      BY <2>3, <3>1, <3>2, <3>3
      DEF SweepStep, Sweep, AskTable, SkipSweep, SweepDeaf, SweepBegins, Poll, PollGate,
          PollSample, PollAgain, GateMatches, GateAgain, SampleLow, SweepEnds
  <2>4. CASE BindStep
    BY <2>4 DEF BindStep
  <2>5. CASE Request
    <3>1. ASSUME NEW c \in Channels, RequestSelect(c) PROVE BandInv'
      <4>1. ~blind' => ~blind /\ c \in Valid
        BY <3>1, Zenon DEF RequestSelect
      <4>2. blind' \in BOOLEAN
        BY <3>1 DEF RequestSelect
      <4>. QED
        BY <3>1, <4>1, <4>2 DEF RequestSelect
    <3>2. CASE UNCHANGED <<wantChan, tune, cur, restore, left, blind>>
      BY <3>2
    <3>. QED
      BY <2>5, <3>1, <3>2 DEF Request, ChanRequests, RequestMcs, RequestScan
  <2>6. CASE Outside
    BY <2>6 DEF Outside, Read, ReadScan, ReadLink, ReadPair, Follow, AirChanges
  <2>7. CASE UNCHANGED vars
    BY <2>7 DEF vars
  <2>. QED
    BY <2>1, <2>2, <2>3, <2>4, <2>5, <2>6, <2>7, Steps
<1>3. BandInv => StaysInBand
  BY DEF BandInv, InBand, StaysInBand
<1>. QED
  BY <1>1, <1>2, <1>3, PTL DEF Spec

-----------------------------------------------------------------------------
(* Pair replies the reader has not read: none, or at most one. *)
NonePair == \A i \in DOMAIN replies : replies[i].kind # "pair"
OnePair ==
  \A i, j \in DOMAIN replies :
     replies[i].kind = "pair" /\ replies[j].kind = "pair" => i = j

(* What is read leaves no more pair replies than there were, and none if it
   was the one.                                                             *)
LEMMA ReadLeaves ==
  ASSUME RepliesTyped, NEW kind, Read(kind)
  PROVE  /\ NonePair => NonePair'
         /\ OnePair => OnePair'
         /\ OnePair /\ kind = "pair" => NonePair'
<1>1. /\ DOMAIN replies = 1..Len(replies) /\ DOMAIN replies' = 1..(Len(replies) - 1)
      /\ Len(replies) \in Nat \ {0}
  BY DEF RepliesTyped, Read
<1>2. \A i \in DOMAIN replies' : replies'[i] = replies[i + 1]
  BY DEF RepliesTyped, Read
<1>3. replies[1].kind = kind
  BY DEF RepliesTyped, Read
<1>. QED
  BY <1>1, <1>2, <1>3 DEF NonePair, OnePair

(* A poll with no pair reply on its way leaves at most its own. *)
LEMMA AskLeaves ==
  ASSUME RepliesTyped, NonePair, NEW r, Ask(r)
  PROVE  OnePair'
<1>1. CASE UNCHANGED replies
  BY <1>1 DEF NonePair, OnePair
<1>2. CASE replies' = Append(replies, r)
  <2>1. DOMAIN replies' = 1..(Len(replies) + 1) /\ Len(replies) \in Nat
    BY <1>2 DEF RepliesTyped
  <2>2. \A i \in 1..Len(replies) : replies'[i] = replies[i]
    BY <1>2 DEF RepliesTyped
  <2>3. DOMAIN replies = 1..Len(replies)
    BY DEF RepliesTyped
  <2>. QED
    BY <2>1, <2>2, <2>3 DEF NonePair, OnePair
<1>. QED
  BY <1>1, <1>2 DEF Ask

(* In a window without a late reply the one reply a poll can get is its own,
   so that nothing overwrites a hit before its MAC is copied.               *)
PeerInv ==
  /\ pc \notin {"poll", "wait", "copy", "pairoff", "lock", "save"} => hits = 0
  /\ pc = "lock" => hits = HitsNeeded
  /\ ~pairLate =>
       /\ pc = "wait" => IF pair = NoReplyYet THEN OnePair ELSE NonePair
       /\ pc = "copy" => pair \in Macs /\ NonePair
       /\ pc \in {"poll", "wait", "pairoff", "lock"} /\ hits > 0 => mac \in Macs

(* The MAC a bind locks came with a hit, if every reply of its window came
   in its own poll.                                                         *)
THEOREM LockedPeerAlwaysHit == Spec => []LockedPeerHit
<1>1. Init => PeerInv
  BY DEF Init, BindInit, PeerInv
<1>2. TypeInv /\ PeerInv /\ [Next]_vars => PeerInv'
  <2> SUFFICES ASSUME TypeInv, PeerInv, [Next]_vars PROVE PeerInv'
    OBVIOUS
  <2>0. RepliesTyped /\ hits \in Nat /\ pairLate \in BOOLEAN /\ NoReplyYet \notin Macs
        /\ HitsNeeded \in Nat \ {0}
    BY BindAssumption DEF TypeInv, BindTypeOK
  <2> USE DEF PeerInv, Stage, bvars
  <2>1. CASE OpenStep
    BY <2>1 DEF OpenStep, Open, AskBand, OpenBand, OpenUnknown
  <2>2. CASE ServeStep
    BY <2>2 DEF ServeStep, Serve, TakeSelect, Tune, NoTune, ServeMcs, NoScan, Cadence
  <2>3. CASE SweepStep
    <3>1. /\ pc' \in {"visit", "gate", "gated", "sample", "sampled", "again", "last", "seed",
                      "published", "bind"}
          /\ pc \in {"visit", "gate", "gated", "sample", "sampled", "again", "last", "seed",
                     "published", "scan"}
      BY <2>3
      DEF SweepStep, Sweep, AskTable, SkipSweep, SweepDeaf, SweepBegins, Visit, Poll,
          PollGate, PollSample, PollAgain, GateMatches, GateAgain, Measured, GateOver,
          NoReply, SampleDone, SampleLow, SampleAgain, Restore, SweepEnds
    <3>. QED
      BY <2>3, <3>1 DEF SweepStep
  <2>4. CASE BindStep
    <3>1. CASE PairPoll
      <4>1. ~pairLate' => ~pairLate /\ NonePair
        BY <3>1, Zenon DEF PairPoll, PairsUnread, NonePair
      <4>2. NonePair => OnePair'
        BY <2>0, <3>1, AskLeaves DEF PairPoll
      <4>. QED
        BY <2>0, <3>1, <4>1, <4>2 DEF PairPoll
    <3>2. CASE PairHit
      BY <2>0, <3>2 DEF PairHit, NonePair
    <3>3. CASE PairCopy
      BY <2>0, <3>3 DEF PairCopy
    <3>4. CASE PairMiss
      BY <2>0, <3>4 DEF PairMiss
    <3>5. CASE WindowOver \/ EnoughHits \/ PairOff \/ PairLock
      BY <2>0, <3>5 DEF WindowOver, EnoughHits, PairOff, PairLock
    <3>6. CASE PairOffFails \/ Persist
      BY <2>0, <3>6 DEF PairOffFails, Persist, BindOver
    <3>. QED
      BY <2>0, <2>4, <3>1, <3>2, <3>3, <3>4, <3>5, <3>6
      DEF BindStep, BindOwner, NoBind, TakeBind, BindArg, BindRefused, PairOn
  <2>5. CASE Request
    BY <2>5
    DEF Request, ChanRequests, RequestSelect, RequestMcs, RequestScan, BindRequests,
        RequestBind, NonePair, OnePair
  <2>6. CASE Outside
    <3>1. CASE ReadScan /\ UNCHANGED bvars
      BY <2>0, <3>1, ReadLeaves DEF ReadScan, Read
    <3>2. CASE ReadLink /\ UNCHANGED bvars
      BY <2>0, <3>2, ReadLeaves DEF ReadLink, Read
    <3>3. CASE ReadPair
      <4>1. pc \in {"wait", "copy"} => pair' # NoReplyYet
        <5>1. Head(replies).of \in Peers
          BY <2>0, <3>3, ReadTyped DEF ReadPair, Replies
        <5>2. NoReplyYet \notin Peers
          BY BindAssumption DEF Peers, NoMac, NoReplyYet
        <5>. QED
          BY <3>3, <5>1, <5>2, Zenon DEF ReadPair
      <4>2. ~ (NonePair /\ replies # <<>> /\ Head(replies).kind = "pair")
        BY <2>0 DEF NonePair, RepliesTyped
      <4>. QED
        BY <2>0, <3>3, <4>1, <4>2, ReadLeaves DEF ReadPair, Read
    <3>4. CASE (Follow \/ AirChanges) /\ UNCHANGED bvars
      BY <3>4 DEF Follow, AirChanges, NonePair, OnePair
    <3>. QED
      BY <2>6, <3>1, <3>2, <3>3, <3>4 DEF Outside
  <2>7. CASE UNCHANGED vars
    BY <2>7 DEF vars, NonePair, OnePair
  <2>. QED
    BY <2>1, <2>2, <2>3, <2>4, <2>5, <2>6, <2>7, Steps
<1>3. PeerInv => LockedPeerHit
  BY BindAssumption DEF PeerInv, LockedPeerHit
<1>. QED
  BY <1>1, <1>2, <1>3, TypeInvariant, PTL DEF Spec

-----------------------------------------------------------------------------
(* Why a reading is of its channel.  The sweep starts with no reply out and
   a chip that took the last select; each poll's one reply is read before
   the next question; and what is sampled is sampled after a reply showed
   the channel, which the chip then shows until the next select.            *)
Reading(c) == [kind |-> "1v1", of |-> c]

NoneOut == replies = <<>>

Right(c) == table[c] \in {c, NoLock}

(* What is out while the main thread waits for it. *)
SeedOut == NoneOut \/ (replies = <<ScanReply>> /\ ~ready)

PollOut ==
  \/ NoneOut
  \/ /\ sample = Unset
     /\ \E c \in Channels : /\ replies = <<Reading(c)>>
                            /\ c = Idx => shown = Idx
                            /\ pc # "gated" => c = Idx

(* The chip is on the channel being visited, and from the gate on its link
   replies are, too.                                                        *)
OnChannel ==
  /\ pc \in SweepStages \cup {"seed"} => cur \in {Unset, chan}
  /\ pc \in SweepStages \ {"visit"} => left # {} /\ chan = Idx
  /\ pc = "gated" /\ sample = Idx => shown = Idx
  /\ pc \in {"sample", "sampled", "again", "last"} => shown = Idx

InTurn ==
  /\ pc = "seed" => SeedOut
  /\ pc \in {"visit", "gate", "sample", "again", "published"} => NoneOut
  /\ pc \in {"gated", "sampled", "last"} => PollOut

Measures ==
  /\ pc \in {"sampled", "last"} => sample \in {Unset, Idx}
  /\ pc \in {"again", "last"} => held = Idx
  /\ pc \in SweepStages => \A c \in Valid \ left : Right(c)
  /\ pc = "published" => \A c \in Valid : Right(c)

MeasInv == ~late => InTurn /\ OnChannel /\ Measures

(* The channel being visited is a function of what is left and where the
   sweep started.                                                           *)
LEMMA IdxKept == UNCHANGED <<left, restore>> => Idx' = Idx
BY DEF Idx, Distance

LEMMA AskOne ==
  ASSUME NoneOut, NEW r, Ask(r)
  PROVE  NoneOut' \/ replies' = <<r>>
BY DEF NoneOut, Ask

LEMMA ReadOne ==
  ASSUME NEW r, replies = <<r>>, NEW kind, Read(kind)
  PROVE  NoneOut' /\ Head(replies) = r /\ r.kind = kind
BY DEF NoneOut, Read

LEMMA ReadNone == ASSUME NoneOut, NEW kind PROVE ~Read(kind)
BY DEF NoneOut, Read

(* Steps of the requests, the bind and the air leave a sweep alone. *)
LEMMA MeasKept ==
  ASSUME MeasInv, UNCHANGED <<pc, late, ready, table, sample, restore, left, held, chan, shown, cur, replies>>
  PROVE  MeasInv'
<1>1. Idx' = Idx
  BY IdxKept
<1> QED
  BY <1>1 DEF MeasInv, InTurn, OnChannel, Measures, SeedOut, PollOut, NoneOut, Right, ScanReply,
              Reading, SweepStages

(* What is still to visit is in the band. *)
LEMMA Visited ==
  ASSUME TypeInv
  PROVE  left \subseteq Valid /\ Valid \subseteq Channels /\ Unset \notin Channels
         /\ NoLock \notin Channels /\ (left # {} => Idx \in left /\ Idx \in Channels)
<1>1. left \subseteq Valid /\ Valid \subseteq Channels /\ restore \in Some
  BY BandAssumption DEF TypeInv, ChanTypeOK, PlacesOK
<1>2. Unset \notin Channels /\ NoLock \notin Channels
  BY DEF Unset, NoLock, Channels
<1>3. left # {} => Idx \in left
  BY <1>1, NextIsLeft
<1> QED
  BY <1>1, <1>2, <1>3

(* The reading of the channel visited is entered, and nothing is out.      *)
LEMMA MeasuredStep ==
  ASSUME TypeInv, NEW reading \in {Idx, NoLock}, Measured(reading), left # {}, NoneOut,
         cur \in {Unset, chan}, \A c \in Valid \ left : Right(c)
  PROVE  MeasInv'
<1>1. /\ pc' = "visit" /\ replies' = replies /\ cur' = cur /\ chan' = chan
      /\ table' = [table EXCEPT ![Idx] = reading] /\ left' = left \ {Idx}
  BY DEF Measured, chip
<1>2. NoneOut'
  BY <1>1 DEF NoneOut
<1>3. \A c \in Valid \ left' : Right(c)'
  <2>1. /\ table \in [Valid -> Some \cup {NoLock}] /\ Idx \in Valid
    BY Visited DEF TypeInv, ChanTypeOK, PlacesOK
  <2>2. table'[Idx] = reading /\ \A c \in Valid \ {Idx} : table'[c] = table[c]
    BY <1>1, <2>1
  <2> QED
    BY <1>1, <2>2 DEF Right
<1>4. cur' \in {Unset, chan'}
  BY <1>1
<1> QED
  BY <1>1, <1>2, <1>3, <1>4 DEF MeasInv, InTurn, OnChannel, Measures, SweepStages

(* A poll asks for one reading, of what the chip shows. *)
LEMMA PollStep ==
  ASSUME TypeInv, MeasInv, PollGate \/ PollSample \/ PollAgain
  PROVE  MeasInv'
<1> SUFFICES ASSUME ~late' PROVE InTurn' /\ OnChannel' /\ Measures'
  BY DEF MeasInv
<1>1. /\ Ask(LinkReply) /\ sample' = Unset
      /\ UNCHANGED <<late, ready, table, restore, left, held, chan, shown, cur>>
      /\ \/ pc = "gate" /\ pc' = "gated"
         \/ pc = "sample" /\ pc' = "sampled"
         \/ pc = "again" /\ pc' = "last"
  BY DEF PollGate, PollSample, PollAgain, Poll, Stage, seen, sweep, chip, hist
<1>2. Idx' = Idx
  BY <1>1, IdxKept
<1>3. NoneOut /\ OnChannel /\ Measures
  BY <1>1 DEF MeasInv, InTurn
<1>4. shown \in Channels /\ Idx # Unset
  BY <1>1, <1>3, Visited DEF TypeInv, ChanTypeOK, PlacesOK, OnChannel, SweepStages
<1>5. NoneOut' \/ replies' = <<Reading(shown)>>
  BY <1>1, <1>3, AskOne DEF LinkReply, Reading
<1>6. pc' # "gated" => shown = Idx
  BY <1>1, <1>3 DEF OnChannel
<1>7. PollOut'
  <2>1. shown' \in Channels /\ Reading(shown') = Reading(shown)
    BY <1>1, <1>4
  <2> QED
    BY <1>1, <1>2, <1>5, <1>6, <2>1 DEF PollOut, NoneOut, Reading
<1>8. InTurn'
  BY <1>1, <1>7 DEF InTurn
<1>9. OnChannel'
  BY <1>1, <1>2, <1>3, <1>4 DEF OnChannel, SweepStages
<1>10. Measures'
  BY <1>1, <1>2, <1>3 DEF Measures, SweepStages, Right
<1> QED
  BY <1>8, <1>9, <1>10

(* The steps of a sweep that is on time. *)
LEMMA SweepMeasures ==
  ASSUME TypeInv, MeasInv, Sweep
  PROVE  MeasInv'
<1>1. CASE AskTable
  <2> SUFFICES ASSUME ~late' PROVE InTurn' /\ OnChannel' /\ Measures'
    BY DEF MeasInv
  <2>1. /\ pc' = "seed" /\ ~ready' /\ Ask(ScanReply) /\ UNCHANGED <<cur, chan>>
    BY <1>1 DEF AskTable, Stage, chip
  <2>2. NoneOut /\ cur \in {Unset, chan}
    <3>1. ~ (replies # <<>> \/ cur \notin {Unset, chan})
      BY <1>1, Zenon DEF AskTable
    <3> QED
      BY <3>1 DEF NoneOut
  <2>3. NoneOut' \/ replies' = <<ScanReply>>
    BY <2>1, <2>2, AskOne
  <2>4. SeedOut'
    BY <2>1, <2>3 DEF SeedOut, ScanReply
  <2> QED
    BY <2>1, <2>2, <2>4 DEF InTurn, OnChannel, Measures, SweepStages
<1>2. CASE SkipSweep \/ SweepEnds
  BY <1>2 DEF SkipSweep, SweepEnds, Stage, MeasInv, InTurn, OnChannel, Measures, SweepStages
<1>3. CASE SweepDeaf
  <2>1. /\ pc = "seed" /\ pc' = "published" /\ ready /\ UNCHANGED <<replies, late>>
        /\ table' = [c \in Valid |-> NoLock]
    BY <1>3 DEF SweepDeaf, Stage, hist
  <2>2. \A c \in Valid : Right(c)'
    BY <2>1 DEF Right
  <2>3. ~late => NoneOut
    BY <2>1 DEF MeasInv, InTurn, SeedOut
  <2> QED
    BY <2>1, <2>2, <2>3 DEF MeasInv, InTurn, OnChannel, Measures, SweepStages, NoneOut
<1>4. CASE SweepBegins
  <2>1. /\ pc = "seed" /\ pc' = "visit" /\ ready /\ left' = Valid
        /\ UNCHANGED <<replies, late, cur, chan>>
    BY <1>4 DEF SweepBegins, Stage, hist, chip
  <2>2. ~late => NoneOut /\ cur \in {Unset, chan}
    BY <2>1 DEF MeasInv, InTurn, SeedOut, OnChannel
  <2> QED
    BY <2>1, <2>2 DEF MeasInv, InTurn, OnChannel, Measures, SweepStages, NoneOut
<1>5. CASE Visit
  <2> SUFFICES ASSUME ~late' PROVE InTurn' /\ OnChannel' /\ Measures'
    BY DEF MeasInv
  <2>1. /\ pc = "visit" /\ pc' = "gate" /\ left # {}
        /\ UNCHANGED <<replies, table, restore, left>>
    BY <1>5 DEF Visit, Stage, seen, sweep
  <2>2. Idx' = Idx /\ Idx \in Channels /\ Idx # Unset
    BY <2>1, IdxKept, Visited
  <2>3. ~late /\ cur' = Idx /\ chan' = Idx
    <3>1. CASE Idx = cur
      <4>1. UNCHANGED <<cur, chan, late>>
        BY <1>5, <3>1 DEF Visit
      <4>2. cur \in {Unset, chan}
        BY <2>1, <4>1 DEF MeasInv, OnChannel, SweepStages
      <4> QED
        BY <2>2, <3>1, <4>1, <4>2
    <3>2. CASE Idx # cur
      <4>1. cur' = Idx /\ late' = (late \/ chan' # Idx)
        BY <1>5, <3>2 DEF Visit, Select
      <4>2. ~ (late \/ chan' # Idx)
        BY <4>1, Zenon
      <4> QED
        BY <4>1, <4>2
    <3> QED
      BY <3>1, <3>2
  <2>4. NoneOut /\ \A c \in Valid \ left : Right(c)
    BY <2>1, <2>3 DEF MeasInv, InTurn, Measures, SweepStages
  <2> QED
    BY <2>1, <2>2, <2>3, <2>4 DEF InTurn, OnChannel, Measures, SweepStages, NoneOut, Right
<1>6. CASE PollGate \/ PollSample \/ PollAgain
  BY <1>6, PollStep
<1>7. CASE GateMatches \/ GateAgain
  <2> SUFFICES ASSUME ~late PROVE InTurn' /\ OnChannel' /\ Measures'
    BY <1>7 DEF MeasInv, GateMatches, GateAgain, cvars, hist
  <2>1. /\ pc = "gated" /\ pc' \in {"gate", "sample"} /\ sample # Unset
        /\ pc' = "sample" => sample = Idx
        /\ UNCHANGED <<replies, table, restore, left, cur, chan, shown, sample>>
    <3>1. CASE GateMatches
      <4>1. left # {}
        BY <3>1 DEF GateMatches, Stage, MeasInv, OnChannel, SweepStages
      <4>2. Idx # Unset
        BY <4>1, Visited
      <4> QED
        BY <3>1, <4>2 DEF GateMatches, Stage, cvars, seen, sweep, chip
    <3>2. CASE GateAgain
      BY <3>2 DEF GateAgain, Stage, cvars, seen, sweep, chip
    <3> QED
      BY <1>7, <3>1, <3>2
  <2>2. Idx' = Idx
    BY <2>1, IdxKept
  <2>3. PollOut /\ OnChannel /\ Measures
    BY <2>1 DEF MeasInv, InTurn
  <2>4. NoneOut
    BY <2>1, <2>3 DEF PollOut
  <2> QED
    BY <2>1, <2>2, <2>3, <2>4 DEF InTurn, OnChannel, Measures, SweepStages, NoneOut, Right
<1>8. CASE GateOver
  <2>1. pc = "gate" /\ Measured(NoLock) /\ late' = late
    BY <1>8 DEF GateOver
  <2>2. CASE late
    BY <2>1, <2>2 DEF MeasInv
  <2>3. CASE ~late
    <3>1. NoneOut /\ left # {} /\ cur \in {Unset, chan} /\ \A c \in Valid \ left : Right(c)
      BY <2>1, <2>3 DEF MeasInv, InTurn, OnChannel, Measures, SweepStages
    <3> QED
      BY <2>1, <3>1, MeasuredStep
  <2> QED
    BY <2>2, <2>3
<1>9. CASE NoReply
  BY <1>9 DEF NoReply, MeasInv
<1>10. CASE SampleDone
  <2>1. pc = "sampled" /\ sample # Unset /\ Measured(sample) /\ late' = late
    BY <1>10 DEF SampleDone
  <2>2. CASE late
    BY <2>1, <2>2 DEF MeasInv
  <2>3. CASE ~late
    <3>1. /\ PollOut /\ left # {} /\ cur \in {Unset, chan} /\ \A c \in Valid \ left : Right(c)
          /\ sample = Idx
      BY <2>1, <2>3 DEF MeasInv, InTurn, OnChannel, Measures, SweepStages
    <3>2. NoneOut
      BY <2>1, <3>1 DEF PollOut
    <3> QED
      BY <2>1, <3>1, <3>2, MeasuredStep
  <2> QED
    BY <2>2, <2>3
<1>11. CASE SampleLow
  <2> SUFFICES ASSUME ~late PROVE InTurn' /\ OnChannel' /\ Measures'
    BY <1>11 DEF MeasInv, SampleLow, hist
  <2>1. /\ pc = "sampled" /\ pc' = "again" /\ sample # Unset /\ held' = sample
        /\ UNCHANGED <<replies, table, restore, left, cur, chan, shown>>
    BY <1>11 DEF SampleLow, Stage, seen, chip
  <2>2. Idx' = Idx
    BY <2>1, IdxKept
  <2>3. PollOut /\ OnChannel /\ Measures
    BY <2>1 DEF MeasInv, InTurn
  <2>4. NoneOut
    BY <2>1, <2>3 DEF PollOut
  <2> QED
    BY <2>1, <2>2, <2>3, <2>4 DEF InTurn, OnChannel, Measures, SweepStages, NoneOut, Right
<1>12. CASE SampleAgain
  <2>1. pc = "last" /\ late' = (late \/ sample = Unset)
    BY <1>12 DEF SampleAgain
  <2>2. PICK better \in {held, sample} \ {Unset} : Measured(better)
    BY <1>12 DEF SampleAgain
  <2>3. CASE late \/ sample = Unset
    BY <2>1, <2>3 DEF MeasInv
  <2>4. CASE ~ (late \/ sample = Unset)
    <3>1. /\ PollOut /\ left # {} /\ cur \in {Unset, chan} /\ \A c \in Valid \ left : Right(c)
          /\ sample = Idx /\ held = Idx
      BY <2>1, <2>4 DEF MeasInv, InTurn, OnChannel, Measures, SweepStages
    <3>2. NoneOut /\ better = Idx
      BY <2>4, <3>1 DEF PollOut
    <3> QED
      BY <2>2, <3>1, <3>2, MeasuredStep
  <2> QED
    BY <2>3, <2>4
<1>13. CASE Restore
  <2>1. /\ pc = "visit" /\ pc' = "published" /\ left = {}
        /\ UNCHANGED <<replies, table, late>>
    BY <1>13 DEF Restore, Stage, seen, hist
  <2>2. ~late => NoneOut /\ \A c \in Valid : Right(c)
    BY <2>1 DEF MeasInv, InTurn, Measures, SweepStages
  <2> QED
    BY <2>1, <2>2 DEF MeasInv, InTurn, OnChannel, Measures, SweepStages, NoneOut, Right
<1> QED
  BY <1>1, <1>2, <1>3, <1>4, <1>5, <1>6, <1>7, <1>8, <1>9, <1>10, <1>11, <1>12, <1>13 DEF Sweep

(* The reader takes the one reply that is out; the air follows a select. *)
LEMMA OutsideMeasures ==
  ASSUME TypeInv, MeasInv, Outside
  PROVE  MeasInv'
<1>0. UNCHANGED <<pc, late, restore, left, held, cur, chan>>
  BY DEF Outside, ReadScan, ReadLink, ReadPair, Follow, AirChanges, Read, cvars, sweep, chip, hist
<1>1. CASE late
  BY <1>0, <1>1 DEF MeasInv
<1> SUFFICES ASSUME ~late PROVE InTurn' /\ OnChannel' /\ Measures'
  BY <1>0, <1>1 DEF MeasInv
<1>2. InTurn /\ OnChannel /\ Measures /\ Idx' = Idx
  BY <1>0, IdxKept DEF MeasInv
<1>3. CASE ReadScan
  <2>1. /\ Read("scan") /\ ready' /\ table' = Unread /\ UNCHANGED <<sample, shown>>
    BY <1>3 DEF ReadScan, chip
  <2>2. pc = "seed" => NoneOut'
    BY <1>2, <2>1, ReadNone, ReadOne DEF InTurn, SeedOut
  <2>3. pc \notin SweepStages \cup {"published"}
    <3>1. ~NoneOut
      BY <2>1, ReadNone
    <3>2. ASSUME NEW c, replies = <<Reading(c)>> PROVE FALSE
      BY <2>1, <3>2, ReadOne DEF Reading
    <3> QED
      BY <1>2, <3>1, <3>2 DEF InTurn, PollOut, SweepStages
  <2> QED
    BY <1>0, <1>2, <2>2, <2>3 DEF InTurn, OnChannel, Measures, SeedOut, SweepStages
<1>4. CASE ReadLink
  <2>1. /\ Read("1v1") /\ UNCHANGED <<ready, table, shown>>
        /\ sample' = IF pc \in {"gated", "sampled", "last"} THEN Head(replies).of ELSE Unset
    BY <1>4 DEF ReadLink, seen, chip
  <2>2. ~NoneOut /\ pc # "seed"
    <3>1. ~NoneOut
      BY <2>1, ReadNone
    <3>2. replies # <<ScanReply>>
      BY <2>1, ReadOne DEF ScanReply
    <3> QED
      BY <1>2, <3>1, <3>2 DEF InTurn, SeedOut
  <2>3. CASE pc \in {"gated", "sampled", "last"}
    <3>1. PICK c \in Channels : /\ replies = <<Reading(c)>>
                                /\ c = Idx => shown = Idx
                                /\ pc # "gated" => c = Idx
      BY <1>2, <2>2, <2>3 DEF InTurn, PollOut
    <3>2. NoneOut' /\ sample' = c
      BY <2>1, <2>3, <3>1, ReadOne DEF Reading
    <3> QED
      BY <1>0, <1>2, <2>1, <2>3, <3>1, <3>2 DEF InTurn, OnChannel, Measures, PollOut, SweepStages, Right
  <2>4. CASE pc \notin {"gated", "sampled", "last"}
    BY <1>0, <1>2, <2>1, <2>2, <2>4 DEF InTurn, OnChannel, Measures, SweepStages, Right
  <2> QED
    BY <2>3, <2>4
<1>5. CASE ReadPair /\ UNCHANGED cvars
  <2>1. Read("pair") /\ UNCHANGED <<ready, table, sample, shown>>
    BY <1>5 DEF ReadPair, cvars, seen, chip
  <2>2. pc \notin SweepStages \cup {"seed", "published"}
    <3>1. ~NoneOut
      BY <2>1, ReadNone
    <3>2. ASSUME NEW c, replies = <<Reading(c)>> PROVE FALSE
      BY <2>1, <3>2, ReadOne DEF Reading
    <3>3. replies # <<ScanReply>>
      BY <2>1, ReadOne DEF ScanReply
    <3> QED
      BY <1>2, <3>1, <3>2, <3>3 DEF InTurn, SeedOut, PollOut, SweepStages
  <2> QED
    BY <1>0, <2>2 DEF InTurn, OnChannel, Measures, SweepStages
<1>6. CASE Follow
  <2>1. shown' = chan /\ UNCHANGED <<replies, ready, table, sample>>
    BY <1>6 DEF Follow, seen
  <2>2. pc \in SweepStages \ {"visit"} => shown' = Idx
    BY <1>2, <2>1 DEF OnChannel
  <2>3. PollOut /\ pc \in SweepStages \ {"visit"} => PollOut'
    BY <1>0, <1>2, <2>1, <2>2 DEF PollOut, NoneOut, Reading
  <2>4. InTurn'
    BY <1>0, <1>2, <2>1, <2>3 DEF InTurn, SeedOut, NoneOut, ScanReply, SweepStages
  <2>5. OnChannel' /\ Measures'
    BY <1>0, <1>2, <2>1, <2>2 DEF OnChannel, Measures, SweepStages, Right
  <2> QED
    BY <2>4, <2>5
<1>7. CASE AirChanges /\ UNCHANGED cvars
  BY <1>7, MeasKept DEF AirChanges, cvars, seen, sweep, chip, hist, MeasInv
<1> QED
  BY <1>3, <1>4, <1>5, <1>6, <1>7 DEF Outside

(* A published sweep holds for each channel of the band a reading taken on
   that channel or none, if no select and no reply of it was late or lost.  *)
THEOREM AlwaysMeasuredOnItsChannel == Spec => []MeasuredOnItsChannel
<1>1. Init => MeasInv
  BY DEF Init, ChanInit, MeasInv, InTurn, OnChannel, Measures, SweepStages
<1>2. TypeInv /\ MeasInv /\ [Next]_vars => MeasInv'
  <2> SUFFICES ASSUME TypeInv, MeasInv, [Next]_vars PROVE MeasInv'
    OBVIOUS
  <2>1. CASE SweepStep
    BY <2>1, SweepMeasures DEF SweepStep
  <2>2. CASE OpenStep \/ ServeStep
    <3>1. pc' \notin SweepStages \cup {"seed", "published"}
      BY <2>2 DEF OpenStep, Open, AskBand, OpenBand, OpenUnknown, ServeStep, Serve, TakeSelect,
                  Tune, NoTune, ServeMcs, NoScan, Cadence, Stage, SweepStages
    <3> QED
      BY <3>1 DEF MeasInv, InTurn, OnChannel, Measures, SweepStages
  <2>3. CASE BindStep
    <3>1. pc' \notin SweepStages \cup {"seed", "published"}
      BY <2>3 DEF BindStep, BindOwner, NoBind, TakeBind, BindArg, BindRefused, PairOn,
                  PairPoll, PairMiss, PairHit, PairCopy, WindowOver, EnoughHits, PairOffFails,
                  LeavePairMode, PairOff, PairLock, Persist, Stage, SweepStages
    <3> QED
      BY <3>1 DEF MeasInv, InTurn, OnChannel, Measures, SweepStages
  <2>4. CASE Request
    BY <2>4, MeasKept
       DEF Request, ChanRequests, RequestSelect, RequestMcs, RequestScan, BindRequests,
           RequestBind, cvars, seen, sweep, chip, hist
  <2>5. CASE Outside
    BY <2>5, OutsideMeasures
  <2>6. CASE UNCHANGED vars
    BY <2>6, MeasKept DEF vars, cvars, seen, sweep, chip, hist
  <2>. QED
    BY <2>1, <2>2, <2>3, <2>4, <2>5, <2>6, Steps
<1>3. MeasInv => MeasuredOnItsChannel
  BY DEF MeasInv, Measures, MeasuredOnItsChannel, Right
<1>. QED
  BY <1>1, <1>2, <1>3, TypeInvariant, PTL DEF Spec
=============================================================================
