---------------------------- MODULE AirRateProofs ----------------------------
(***************************************************************************)
(* The rate governor's promises, for every set of indexes, throughputs and *)
(* caps and every settling time.                                           *)
(***************************************************************************)
EXTENDS AirRate, TLAPS

(* A usable rate is a rate.                                                 *)
LEMMA UsableIsRate ==
  ASSUME NEW k \in 1..MaxKbps
  PROVE  k \in 0..MaxKbps
BY DEF MaxKbps

(* A cap takes a usable rate no further down than to itself.                *)
LEMMA LeastInRange ==
  ASSUME NEW max \in Nat, NEW d \in 1..max, NEW c \in Nat \ {0}
  PROVE  Least(d, c) \in 1..max /\ Least(d, c) <= c
<1>1. CASE d <= c
  BY <1>1 DEF Least
<1>2. CASE ~(d <= c)
  BY <1>2 DEF Least
<1> QED
  BY <1>1, <1>2

(* The derivation yields a usable rate from any reading and under any cap.  *)
LEMMA TotalInRange ==
  ASSUME NEW t \in Int, NEW c \in Nat
  PROVE  Total(t, c) \in 1..MaxKbps /\ (c # 0 => Total(t, c) <= c)
<1>1. ASSUME NEW n \in Nat PROVE Least((n \div 100) * 70, MaxKbps) \in 0..MaxKbps
  <2>1. n \div 100 \in Nat
    OBVIOUS
  <2>2. (n \div 100) * 70 \in Nat
    BY <2>1
  <2>3. ASSUME NEW m \in Nat PROVE Least(m, MaxKbps) \in 0..MaxKbps
    BY DEF Least, MaxKbps
  <2> QED
    BY <2>2, <2>3, Zenon
<1>2. ASSUME NEW k \in 0..MaxKbps
      PROVE  (IF k = 0 THEN FallbackKbps ELSE k) \in 1..MaxKbps
  <2>1. CASE k = 0
    BY <2>1 DEF MaxKbps, FallbackKbps
  <2>2. CASE k # 0
    BY <2>2 DEF MaxKbps
  <2> QED
    BY <2>1, <2>2, Zenon
<1>3. Derived(t) \in 1..MaxKbps
  <2>1. (IF t < 0 THEN 0 ELSE t) \in Nat
    OBVIOUS
  <2> QED
    BY <1>1, <1>2, <2>1 DEF Derived
<1>4. ASSUME NEW d \in 1..MaxKbps, c # 0
      PROVE  Least(d, c) \in 1..MaxKbps /\ Least(d, c) <= c
  <2>1. MaxKbps \in Nat
    BY DEF MaxKbps
  <2>2. c \in Nat \ {0}
    BY <1>4
  <2> QED
    BY <2>1, <2>2, LeastInRange
<1>5. CASE c = 0
  BY <1>3, <1>5 DEF Total
<1>6. CASE c # 0
  BY <1>3, <1>4, <1>6 DEF Total
<1> QED
  BY <1>5, <1>6

(* A rise that waits is the index every sample has shown since it began to. *)
RiseTracked == pending # -1 => pending = last /\ pending > mcs /\ age <= steady

(* With every push answered, the three records of the rate agree.           *)
RatesAgree == ~uncertain => encoder = applied /\ applied = wanted

(* There is a throughput to derive from once an index is in force, and no
   rise can wait before.                                                     *)
Seeded == IF mcs = -1 THEN pending = -1 ELSE throughput \in Throughputs

Inv ==
  /\ TypeOK
  /\ RiseTracked
  /\ DropsAtOnce
  /\ RatesAgree
  /\ RateInRange
  /\ Seeded

(* Nothing has been sampled or pushed at the start. *)
LEMMA InvInit == Init => Inv
<1>1. Init => age \in 0..RiseTicks /\ steady \in 0..RiseTicks
  BY RateAssumption DEF RateAssumption, Init
<1>2. Init => TypeOK
  <2>1. Init => applied \in 0..MaxKbps /\ encoder \in 0..MaxKbps /\ wanted \in 0..MaxKbps
    BY DEF Init, MaxKbps
  <2> QED
    BY <1>1, <2>1 DEF Init, TypeOK
<1>3. Init => RiseTracked /\ DropsAtOnce /\ RatesAgree /\ RateInRange /\ Seeded
  BY DEF Init, RiseTracked, DropsAtOnce, RatesAgree, RateInRange, Seeded
<1> QED
  BY <1>2, <1>3 DEF Inv

(* A push of a rate in range keeps the records of the rate in range and in
   agreement, whatever ml-air-video makes of it.                            *)
LEMMA ApplyStep ==
  ASSUME TypeOK, RatesAgree, NEW total \in 1..MaxKbps, NEW answer \in Answers,
         Apply(total, answer)
  PROVE  /\ applied' \in 0..MaxKbps /\ encoder' \in 0..MaxKbps
         /\ wanted' = total /\ uncertain' \in BOOLEAN
         /\ RatesAgree'
<1>1. total \in 0..MaxKbps
  BY UsableIsRate, Zenon
<1>2. CASE total = applied
  BY <1>1, <1>2 DEF Apply, TypeOK, RatesAgree
<1>3. CASE total # applied
  BY <1>1, <1>3 DEF Apply, TypeOK, RatesAgree, Answers
<1> QED
  BY <1>2, <1>3

(* Handling a sample keeps the invariant. *)
LEMMA SampleStep ==
  ASSUME Inv, NEW s \in Indexes, NEW t \in Throughputs, NEW answer \in Answers,
         Sample(s, t, answer)
  PROVE  Inv'
<1> USE RateAssumption DEF RateAssumption, Inv
<1>1. t \in Int /\ cap \in Nat /\ s \in Nat
  BY DEF TypeOK
<1>2. Total(t, cap) \in 1..MaxKbps /\ (cap # 0 => Total(t, cap) <= cap)
  BY <1>1, TotalInRange
<1>3. /\ throughput' = t /\ last' = s /\ cap' = cap
      /\ steady' \in 0..RiseTicks
      /\ s = last => steady' = steady
  BY DEF Sample, Baseline, Drop, Level, RiseSeen, RiseWaits, Rise, Observe, TypeOK
<1>4. CASE Apply(Total(t, cap), answer) /\ mcs' = s /\ pending' \in {pending, -1} /\ age' = age
            /\ (pending' = -1 \/ mcs = -1)
  <2>1. /\ applied' \in 0..MaxKbps /\ encoder' \in 0..MaxKbps
        /\ wanted' = Total(t, cap) /\ uncertain' \in BOOLEAN
        /\ RatesAgree'
    BY <1>2, <1>4, ApplyStep
  <2>2. RateInRange'
    BY <1>2, <1>3, <2>1 DEF RateInRange
  <2>3. wanted' \in 0..MaxKbps
    BY <1>2, <2>1, UsableIsRate, Zenon
  <2>4. TypeOK'
    BY <1>1, <1>3, <1>4, <2>1, <2>3 DEF TypeOK
  <2>5. RiseTracked' /\ DropsAtOnce' /\ Seeded'
    BY <1>1, <1>3, <1>4 DEF RiseTracked, DropsAtOnce, Seeded, TypeOK
  <2> QED
    BY <2>1, <2>2, <2>4, <2>5
<1>5. CASE UNCHANGED <<mcs, push>> /\ s >= mcs /\ mcs # -1
  <2>1. RatesAgree' /\ RateInRange'
    BY <1>3, <1>5 DEF push, RatesAgree, RateInRange
  <2>2. DropsAtOnce' /\ Seeded'
    BY <1>3, <1>5 DEF DropsAtOnce, Seeded
  <2>3. /\ pending' \in Indexes \cup {-1} /\ age' \in 0..RiseTicks
        /\ RiseTracked'
    BY <1>1, <1>3, <1>5 DEF Sample, Baseline, Drop, Level, RiseSeen, RiseWaits, Rise,
                            RiseTracked, TypeOK
  <2> QED
    BY <1>1, <1>3, <1>5, <2>1, <2>2, <2>3 DEF push, TypeOK
<1>6. CASE Baseline(s, t, answer)
  BY <1>4, <1>6 DEF Baseline
<1>7. CASE Drop(s, t, answer)
  BY <1>4, <1>7 DEF Drop
<1>8. CASE Level(s, t) \/ RiseSeen(s, t) \/ RiseWaits(s, t)
  BY <1>1, <1>5, <1>8 DEF Level, RiseSeen, RiseWaits, push, TypeOK
<1>9. CASE Rise(s, t, answer)
  BY <1>4, <1>9 DEF Rise
<1> QED
  BY <1>6, <1>7, <1>8, <1>9 DEF Sample

(* So do the goggle's menu and the clock. *)
LEMMA MenuStep ==
  ASSUME Inv, NEW c \in Caps \cup {0}, NEW answer \in Answers, SetCap(c, answer)
  PROVE  Inv'
<1> USE RateAssumption DEF RateAssumption, Inv, SetCap, link
<1>1. c \in Nat
  OBVIOUS
<1>2. RiseTracked' /\ DropsAtOnce' /\ Seeded'
  BY DEF RiseTracked, DropsAtOnce, Seeded
<1>3. CASE mcs = -1
  BY <1>2, <1>3 DEF TypeOK, RatesAgree, RateInRange, push
<1>4. CASE mcs # -1
  <2>1. Total(throughput, c) \in 1..MaxKbps /\ (c # 0 => Total(throughput, c) <= c)
    BY <1>1, <1>4, TotalInRange DEF Seeded
  <2>2. /\ applied' \in 0..MaxKbps /\ encoder' \in 0..MaxKbps
        /\ wanted' = Total(throughput, c) /\ uncertain' \in BOOLEAN
        /\ RatesAgree'
    BY <1>4, <2>1, ApplyStep
  <2>3. RateInRange'
    BY <2>1, <2>2 DEF RateInRange
  <2>4. wanted' \in 0..MaxKbps
    BY <2>1, <2>2, UsableIsRate, Zenon
  <2> QED
    BY <1>2, <2>2, <2>3, <2>4 DEF TypeOK
<1> QED
  BY <1>3, <1>4

(* The clock moves both waits together. *)
LEMMA TickStep ==
  ASSUME Inv, Tick
  PROVE  Inv'
<1>1. age' \in 0..RiseTicks /\ steady' \in 0..RiseTicks /\ RiseTracked'
  BY RateAssumption DEF RateAssumption, Inv, Tick, Least, TypeOK, RiseTracked
<1> QED
  BY <1>1 DEF Inv, Tick, push, TypeOK, DropsAtOnce, RatesAgree, RateInRange, Seeded

(* The invariant holds in every state of every run. *)
THEOREM Invariant == Spec => []Inv
<1>1. Inv /\ [Next]_vars => Inv'
  <2> SUFFICES ASSUME Inv, [Next]_vars PROVE Inv'
    OBVIOUS
  <2>1. CASE Answered \/ Unanswered
    BY <2>1, SampleStep DEF Answered, Unanswered, Answers
  <2>2. CASE DropSample \/ UNCHANGED vars
    BY <2>2 DEF DropSample, vars, Inv, TypeOK, RiseTracked, DropsAtOnce, RatesAgree,
              RateInRange, Seeded
  <2>3. CASE Menu
    BY <2>3, MenuStep DEF Menu
  <2>4. CASE Tick
    BY <2>4, TickStep
  <2> QED
    BY <2>1, <2>2, <2>3, <2>4 DEF Next
<1> QED
  BY <1>1, InvInit, PTL DEF Spec

(* Every variable keeps its type. *)
THEOREM TypeCorrect == Spec => []TypeOK
  BY Invariant, PTL DEF Inv

(* A lower index is in force as soon as its sample has been handled. *)
THEOREM AlwaysDropsAtOnce == Spec => []DropsAtOnce
  BY Invariant, PTL DEF Inv

(* The rate derived is never zero, never over the maximum and never over the
   goggle's cap, whatever throughput the chip reports.                       *)
THEOREM RateAlwaysInRange == Spec => []RateInRange
  BY Invariant, PTL DEF Inv

(* While pushes are answered the encoder runs at the rate derived last, under
   the cap.                                                                  *)
THEOREM CapAlwaysInForce == Spec => []CapInForce
<1>1. Inv => CapInForce
  BY DEF Inv, CapInForce, RatesAgree, RateInRange, TypeOK
<1> QED
  BY <1>1, Invariant, PTL

(* Only an index that held for the whole settling time is risen to.           *)
THEOREM RiseAlwaysSteady == Spec => RiseIsSteady
<1>1. Inv /\ [Next]_vars
        => [mcs' > mcs /\ mcs # -1 => mcs' = last /\ steady >= RiseTicks]_vars
  <2> SUFFICES ASSUME Inv, Next, mcs' > mcs, mcs # -1
               PROVE  mcs' = last /\ steady >= RiseTicks
    OBVIOUS
  <2>1. PICK s \in Indexes, t \in Throughputs, answer \in Answers : Sample(s, t, answer)
    BY RateAssumption DEF RateAssumption, Next, Answered, Unanswered, DropSample, vars,
      Menu, SetCap, Tick, link, Answers, Inv, TypeOK
  <2>2. mcs \in Int /\ s \in Int
    BY RateAssumption DEF RateAssumption, Inv, TypeOK
  <2>3. Rise(s, t, answer)
    BY <2>1, <2>2 DEF Sample, Baseline, Drop, Level, RiseSeen, RiseWaits
  <2> QED
    BY <2>3, RateAssumption DEF RateAssumption, Rise, Inv, RiseTracked, TypeOK
<1> QED
  BY <1>1, Invariant, PTL DEF Spec, RiseIsSteady
=============================================================================
