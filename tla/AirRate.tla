------------------------------- MODULE AirRate -------------------------------
(***************************************************************************)
(* The air unit's encoder rate governor (ml-linkd/ml-air-rate.c, enabled   *)
(* mode): each link sample carries a modulation index (MCS) and a          *)
(* throughput; a lower index is acted on at once, a higher one only after  *)
(* it has held for AIR_RATE_RISE_MS, and the goggle's menu caps the rate.  *)
(* The rate goes to ml-air-video over a control socket that may refuse or  *)
(* answer too late.                                                        *)
(*                                                                         *)
(* Rates are totals in kbps (the code pushes half of it to each tile).     *)
(* Abstracted: where a sample comes from (a GET_MCS reply or the bench     *)
(* file) and the polling; module AirBind has the handle they share.        *)
(***************************************************************************)
EXTENDS Integers

CONSTANTS Indexes,     \* modulation indexes the chip may report
          Throughputs, \* throughputs in kbps, as the code's signed int reads them
          Caps,        \* ceilings the goggle's menu may send, 0 for none
          RiseTicks    \* AIR_RATE_RISE_MS, in ticks of the clock

ASSUME RateAssumption ==
  /\ Indexes \subseteq Nat
  /\ Throughputs \subseteq Int
  /\ Caps \subseteq Nat
  /\ RiseTicks \in Nat \ {0}

VARIABLES
  mcs,        \* last index acted on, -1 for none
  throughput, \* throughput_kbps
  cap,        \* cap_kbps
  pending,    \* pending_mcs, -1 for none
  age,        \* ticks since pending_since_ms, no further than RiseTicks
  applied,    \* applied_bps (as a total), 0 for none
  encoder,    \* ml-air-video: the rate it runs at, 0 for its own default
  wanted,     \* history: the last rate derived, 0 for none
  uncertain,  \* history: a push since the last answered one got no answer
  last,       \* history: the index of the last valid sample, -1 for none
  steady      \* history: ticks all samples have had it, no further than RiseTicks

link == <<mcs, pending, age, last, steady>>
push == <<applied, encoder, wanted, uncertain>>
vars == <<mcs, throughput, cap, pending, age, applied, encoder, wanted, uncertain,
          last, steady>>

MaxKbps == 20000     \* AIR_RATE_MAX_KBPS
FallbackKbps == 8000 \* AIR_RATE_FALLBACK_KBPS

Least(a, b) == IF a <= b THEN a ELSE b

(* air_rate_total_kbps.  An index is never at or below AIR_RATE_MIN_MCS, so
   only the one branch is live: 70 percent of the throughput, quantised to
   100 kbps first (in C the product is a float; it is exact here).         *)
Derived(t) ==
  LET kbps == Least(((IF t < 0 THEN 0 ELSE t) \div 100) * 70, MaxKbps)
  IN  IF kbps = 0 THEN FallbackKbps ELSE kbps

Total_CapFirst(t, c) ==
  LET kbps == Least(((IF t < 0 THEN 0 ELSE t) \div 100) * 70,
                    IF c = 0 THEN MaxKbps ELSE Least(c, MaxKbps))
  IN  IF kbps = 0 THEN FallbackKbps ELSE kbps

Total(t, c) == IF c = 0 THEN Derived(t) ELSE Least(Derived(t), c)

TypeOK ==
  /\ mcs \in Indexes \cup {-1}
  /\ throughput \in Throughputs \cup {0}
  /\ cap \in Caps \cup {0}
  /\ pending \in Indexes \cup {-1}
  /\ age \in 0..RiseTicks
  /\ applied \in 0..MaxKbps
  /\ encoder \in 0..MaxKbps
  /\ wanted \in 0..MaxKbps
  /\ uncertain \in BOOLEAN
  /\ last \in Indexes \cup {-1}
  /\ steady \in 0..RiseTicks

Init ==
  /\ mcs = -1
  /\ throughput = 0
  /\ cap = 0
  /\ pending = -1
  /\ age = 0
  /\ applied = 0
  /\ encoder = 0
  /\ wanted = 0
  /\ uncertain = FALSE
  /\ last = -1
  /\ steady = 0

-----------------------------------------------------------------------------
(* What becomes of one command to ml-air-video: it is obeyed and answered,
   it is refused, or it is obeyed and the answer comes too late.           *)
Answers == {"ok", "refused", "late"}

(* air_rate_apply: a repeat of the applied rate is not pushed.             *)
Apply(total, answer) ==
  /\ wanted' = total
  /\ IF total = applied
       THEN UNCHANGED <<applied, encoder, uncertain>>
       ELSE /\ applied' = IF answer = "ok" THEN total ELSE applied
            /\ encoder' = IF answer = "refused" THEN encoder ELSE total
            /\ uncertain' = (answer # "ok")

(* What every sample with a valid index does first. *)
Observe(s, t) ==
  /\ throughput' = t
  /\ last' = s
  /\ steady' = IF s = last THEN steady ELSE 0
  /\ UNCHANGED cap

(* An index below the bias is not one: the sample is dropped whole.        *)
DropSample == UNCHANGED vars

Baseline(s, t, answer) ==
  /\ mcs = -1
  /\ Observe(s, t)
  /\ mcs' = s
  /\ UNCHANGED <<pending, age>>
  /\ Apply(Total(t, cap), answer)

Drop_Deferred(s, t, answer) ==
  /\ mcs # -1 /\ s < mcs
  /\ Observe(s, t)
  /\ pending' = s
  /\ age' = 0
  /\ UNCHANGED <<mcs, push>>

Drop(s, t, answer) ==
  /\ mcs # -1 /\ s < mcs
  /\ Observe(s, t)
  /\ mcs' = s
  /\ pending' = -1
  /\ UNCHANGED age
  /\ Apply(Total(t, cap), answer)

(* Back at the index in force: a rise that was waiting is abandoned.       *)
Level_KeepsRise(s, t) ==
  /\ s = mcs
  /\ Observe(s, t)
  /\ UNCHANGED <<mcs, pending, age, push>>

Level(s, t) ==
  /\ s = mcs
  /\ Observe(s, t)
  /\ pending' = -1
  /\ UNCHANGED <<mcs, age, push>>

(* A higher index starts its own wait. *)
RiseSeen(s, t) ==
  /\ mcs # -1 /\ s > mcs /\ s # pending
  /\ Observe(s, t)
  /\ pending' = s
  /\ age' = 0
  /\ UNCHANGED <<mcs, push>>

RiseWaits(s, t) ==
  /\ mcs # -1 /\ s > mcs /\ s = pending
  /\ age < RiseTicks
  /\ Observe(s, t)
  /\ UNCHANGED <<mcs, pending, age, push>>

Rise(s, t, answer) ==
  /\ mcs # -1 /\ s > mcs /\ s = pending
  /\ age = RiseTicks
  /\ Observe(s, t)
  /\ mcs' = s
  /\ pending' = -1
  /\ UNCHANGED age
  /\ Apply(Total(t, cap), answer)

Sample(s, t, answer) ==
  \/ Baseline(s, t, answer)
  \/ Drop(s, t, answer)
  \/ Level(s, t)
  \/ RiseSeen(s, t)
  \/ RiseWaits(s, t)
  \/ Rise(s, t, answer)

(* air_rate_ld_cfg: a new cap is applied to the sample in hand.            *)
SetCap_Later(c, answer) ==
  /\ c # cap
  /\ cap' = c
  /\ UNCHANGED <<throughput, link, push>>

SetCap(c, answer) ==
  /\ c # cap
  /\ cap' = c
  /\ UNCHANGED <<throughput, link>>
  /\ IF mcs # -1 THEN Apply(Total(throughput, c), answer) ELSE UNCHANGED push

(* The clock. *)
Tick ==
  /\ age < RiseTicks \/ steady < RiseTicks
  /\ age' = Least(age + 1, RiseTicks)
  /\ steady' = Least(steady + 1, RiseTicks)
  /\ UNCHANGED <<mcs, throughput, cap, pending, push, last>>

Answered == \E s \in Indexes, t \in Throughputs : Sample(s, t, "ok")
Unanswered == \E s \in Indexes, t \in Throughputs : Sample(s, t, "refused") \/ Sample(s, t, "late")
Menu == \E c \in Caps \cup {0}, answer \in Answers : SetCap(c, answer)

Next == Answered \/ Unanswered \/ DropSample \/ Menu \/ Tick

(* The chip keeps answering the poll and time keeps passing; of the samples
   that keep coming, some come while ml-air-video answers.                 *)
Fairness == WF_vars(Tick) /\ SF_vars(Answered)

Spec == Init /\ [][Next]_vars
FairSpec == Spec /\ Fairness

-----------------------------------------------------------------------------
(* Properties.                                                             *)

(* The governor never runs on a better link than the last sample showed:
   every drop is in force by the time its sample has been handled
   (air_rate_sample).                                                      *)
DropsAtOnce == mcs <= last

(* The index in force rises only to one that every sample has shown for the
   whole settling time: a rise that did not hold, or that gave way to
   another, must start its wait again (air_rate_sample).                   *)
RiseIsSteady ==
  [][mcs' > mcs /\ mcs # -1 => mcs' = last /\ steady >= RiseTicks]_vars

(* While ml-air-video answers, what the encoder runs at is what was last
   derived, and never more than the goggle's cap: a new cap does not wait
   for the next change of index (air_rate_apply, air_rate_ld_cfg).         *)
CapInForce ==
  ~uncertain => /\ encoder = wanted
                /\ cap # 0 /\ mcs # -1 => encoder <= cap

(* The rate pushed is bounded and never zero, whatever the chip reports as
   throughput; the fallback of a silent link obeys the cap too
   (air_rate_total_kbps).                                                  *)
RateInRange ==
  mcs # -1 => /\ wanted \in 1..MaxKbps
              /\ cap # 0 => wanted <= cap
=============================================================================
