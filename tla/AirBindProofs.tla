---------------------------- MODULE AirBindProofs ----------------------------
(***************************************************************************)
(* Theorems about AirBind, for every set of peers, every choice of enabled *)
(* governors and every value of the window's limits.                       *)
(***************************************************************************)
EXTENDS AirBind, TLAPS

(* Releasing a handle yields a handle. *)
LEMMA ReleasedType ==
  ASSUME NEW b \in Handle
  PROVE  Released(b) \in Handle
  BY DEF Released, Handle

(* Acquiring a handle yields a handle. *)
LEMMA AcquiredType ==
  ASSUME NEW b \in Handle
  PROVE  Acquired(b) \in Handle
  BY DEF Acquired, Handle

(* Writing to a handle yields a handle. *)
LEMMA WrittenType ==
  ASSUME NEW b \in Handle, NEW w
  PROVE  Written(b, w) \in Handle
  BY DEF Written, Handle, Closed

(* What TypeOK rests on: a candidate that was counted is one the window saw,
   the commit phase is reached only with enough of them (so the chip is only
   ever given a real address), and an open window has a restore left.      *)
Earned ==
  /\ hits > 0 => peer \in heard
  /\ phase = "COMMIT" => hits >= HitsNeeded
  /\ phase # "IDLE" => restoreTries < RestoreTries

(* The chip is never given anything but a real address or the broadcast. *)
LEMMA TypingStep == TypeOK /\ Earned /\ [Next]_vars => TypeOK' /\ Earned'
<1> USE BindAssumption
<1> SUFFICES ASSUME TypeOK, Earned, [Next]_vars
             PROVE  TypeOK' /\ Earned'
  OBVIOUS
<1> USE DEF TypeOK, Earned, Users, Phases, Services
<1>0. Closed \in Handle
  BY DEF Closed, Handle
<1>1. CASE UNCHANGED vars
  BY <1>1 DEF vars, window, chip, history
<1>2. ASSUME NEW u \in {"rate", "power"}, NEW n \in {"power", "button"}, Service(u, n)
      PROVE  TypeOK' /\ Earned'
  <2>1. bb' \in Handle
    BY <1>2, <1>0, AcquiredType DEF Service
  <2>2. holding' \in [Users -> BOOLEAN]
    BY <1>2 DEF Service
  <2>3. QED
    BY <1>2, <2>1, <2>2 DEF Service, window, chip, history
<1>3. CASE NoPress
  BY <1>3 DEF NoPress, window, chip, history
<1>4. CASE StartRefused
  BY <1>4, AcquiredType, WrittenType, ReleasedType
  DEF StartRefused, Pressed, window, chip, history
<1>5. CASE StartNoBroadcast
  BY <1>5, AcquiredType, WrittenType, ReleasedType
  DEF StartNoBroadcast, Pressed, ReadSaved, chip, history
<1>6. CASE StartNoPairMode
  <2>1. bb' \in Handle
    BY <1>6, AcquiredType, WrittenType, ReleasedType DEF StartNoPairMode
  <2>2. chipMac' \in Macs \cup {Broadcast} /\ stranded' \in BOOLEAN
    BY <1>6 DEF StartNoPairMode, ReadSaved
  <2>3. QED
    BY <1>6, <2>1, <2>2 DEF StartNoPairMode, Pressed, ReadSaved, ResetWindow
<1>7. CASE StartWindow
  <2>1. bb' \in Handle
    BY <1>7, AcquiredType DEF StartWindow
  <2>2. holding' \in [Users -> BOOLEAN]
    BY <1>7 DEF StartWindow
  <2>3. saved' \in Macs \cup {NoMac}
    BY <1>7 DEF StartWindow, ReadSaved
  <2>4. restoreTries' \in 0..RestoreTries /\ hits' \in 0..HitsCap
    BY <1>7 DEF StartWindow, ResetWindow
  <2>5. Earned'
    BY <1>7 DEF StartWindow, ResetWindow
  <2>6. QED
    BY <1>7, <2>1, <2>2, <2>3, <2>4, <2>5 DEF StartWindow, Pressed, ResetWindow
<1>8. CASE PairIdle
  BY <1>8 DEF PairIdle, InPair, window, chip, history
<1>9. CASE PairSocketLost
  BY <1>9 DEF PairSocketLost, Stop, chip
<1>10. CASE PairCommit
  <2>1. bb' \in Handle
    BY <1>10, WrittenType, ReleasedType
    DEF PairCommit, CommitTaken, CommitRefused, Stop
  <2>2. peer \in Macs
    BY <1>10 DEF PairCommit, InPair
  <2>3. chipMac' \in Macs \cup {Broadcast} /\ cfg' \in Macs \cup {NoMac}
    BY <1>10, <2>2 DEF PairCommit, CommitTaken, CommitRefused
  <2>4. QED
    BY <1>10, <2>1, <2>3 DEF PairCommit, InPair, CommitTaken, CommitRefused, Stop, history
<1>11. CASE PairRestore
  <2> USE DEF PairRestore, RestoreTaken, RestoreRefused
  <2>1. bb' \in Handle
    BY <1>11, WrittenType, ReleasedType DEF Stop
  <2>2. restoreTries' \in 0..RestoreTries
    BY <1>11 DEF InPair
  <2>3. chipMac' \in Macs \cup {Broadcast}
    BY <1>11
  <2>4. holding' \in [Users -> BOOLEAN]
    BY <1>11 DEF Stop
  <2>5. deadline' \in {"none", "running", "passed"} /\ phase' \in {"IDLE", "RESTORE"}
    BY <1>11 DEF InPair, Stop
  <2>6. stranded' \in BOOLEAN
    BY <1>11
  <2>7. phase' # "IDLE" => restoreTries' < RestoreTries
    BY <1>11 DEF InPair, Stop
  <2>8. QED
    BY <1>11, <2>1, <2>2, <2>3, <2>4, <2>5, <2>6, <2>7 DEF InPair
<1>12. ASSUME NEW p \in {"COMMIT", "RESTORE"}, LeavePairMode(p), 
              p = "COMMIT" => hits >= HitsNeeded
       PROVE  TypeOK' /\ Earned'
  BY <1>12, WrittenType DEF LeavePairMode, InPair
<1>13. CASE PairPoll
  BY <1>13, WrittenType DEF PairPoll, InPair, window, history
<1>14. CASE ReplyIgnored
  BY <1>14 DEF ReplyIgnored, window, history
<1>15. ASSUME NEW m \in Macs, ReplyCandidate(m)
       PROVE  TypeOK' /\ Earned'
  BY <1>15 DEF ReplyCandidate
<1>16. CASE DrainEnd
  BY <1>16 DEF DrainEnd, window, chip, history
<1>17. CASE Expire
  BY <1>17 DEF Expire, chip, history
<1>18. CASE Shutdown
  <2>1. /\ chipMac' \in Macs \cup {Broadcast}
        /\ chipPair' \in BOOLEAN
        /\ stranded' \in BOOLEAN
        /\ offLost' \in BOOLEAN
    BY <1>18 DEF Shutdown, Abort
  <2>2. QED
    BY <1>18, <1>0, <2>1 DEF Shutdown
<1>19. CASE Stopped
  BY <1>19 DEF Stopped, vars, window, chip, history
<1>20. QED
  BY <1>1, <1>2, <1>3, <1>4, <1>5, <1>6, <1>7, <1>8, <1>9, <1>10, <1>11, <1>12,
     <1>13, <1>14, <1>15, <1>16, <1>17, <1>18, <1>19
  DEF Next, Loop, RateService, PowerService, PairService, PairFound, PairExpired

(* The state is well typed: in particular the chip and the disk only ever
   hold real addresses, a window never restores more often than its limit,
   and the handle stays a handle through every acquire, release and broken
   write (ml-air-bind.c, ml-air-bb.c).                                     *)
THEOREM TypeCorrect == Spec => [](TypeOK /\ Earned)
<1>1. Init => TypeOK /\ Earned
  <2> SUFFICES ASSUME Init PROVE TypeOK /\ Earned
    OBVIOUS
  <2>1. Earned
    BY BindAssumption DEF Init, Earned
  <2>2. bb \in Handle /\ holding \in [Users -> BOOLEAN]
    BY DEF Init, Handle, Closed
  <2>3. chipMac \in Macs \cup {Broadcast} /\ stranded \in BOOLEAN
    BY DEF Init
  <2>4. /\ hits \in 0..HitsCap
        /\ restoreTries \in 0..RestoreTries
        /\ asked \in 0..MaxAsked
    BY BindAssumption DEF Init
  <2>5. QED
    BY <2>1, <2>2, <2>3, <2>4 DEF Init, TypeOK, Phases, Services
<1>2. QED
  BY <1>1, TypingStep, PTL DEF Spec

-----------------------------------------------------------------------------
(* Handle b is open exactly while it counts a user, and counts at most n. *)
Sound(b, n) == b \in Handle /\ (b.open <=> b.users > 0) /\ b.users <= n

(* Taking a reference counts one more user. *)
LEMMA AcquiredSound ==
  ASSUME NEW b, NEW n \in Nat, Sound(b, n)
  PROVE  Sound(Acquired(b), n + 1) /\ Acquired(b).open
  BY DEF Sound, Acquired, Handle

(* A write never counts a user. *)
LEMMA WrittenSound ==
  ASSUME NEW b, NEW n \in Nat, NEW w, Sound(b, n)
  PROVE  Sound(Written(b, w), n)
  BY DEF Sound, Written, Closed, Handle

(* Giving a reference back leaves at most the other users, however many
   references a broken write had forgotten before.                         *)
LEMMA ReleasedSound ==
  ASSUME NEW b, NEW n \in Nat, Sound(b, n + 1)
  PROVE  Sound(Released(b), n)
<1> DEFINE left == IF b.users > 0 THEN b.users - 1 ELSE 0
<1>1. left \in Nat /\ left <= n /\ (left > 0 => b.open) /\ b.open \in BOOLEAN
  BY DEF Sound, Handle
<1>2. Released(b) = [open |-> b.open /\ left > 0, users |-> left]
  BY DEF Released
<1> HIDE DEF left
<1>3. CASE left > 0
  <2>1. Released(b) = [open |-> TRUE, users |-> left]
    BY <1>1, <1>2, <1>3
  <2>2. QED
    BY <1>1, <1>3, <2>1 DEF Sound, Handle
<1>4. CASE ~(left > 0)
  <2>1. Released(b) = [open |-> FALSE, users |-> left]
    BY <1>2, <1>4
  <2>2. QED
    BY <1>1, <1>4, <2>1 DEF Sound, Handle
<1>5. QED
  BY <1>3, <1>4

(* The reference count and the window's records (ml-air-bb.c,
   ml-air-bind.c): one inductive invariant, because the count is bounded by
   the holders only while the window's claim follows its phase.            *)
Counted == Sound(bb, Holders) /\ WindowConsistent

LEMMA HandleStep == TypeOK /\ Counted /\ [Next]_vars => Counted'
<1> SUFFICES ASSUME TypeOK, Counted, [Next]_vars
             PROVE  Counted'
  OBVIOUS
<1> DEFINE others == One(holding["rate"]) + One(holding["power"])
<1>h. /\ others \in Nat /\ Holders \in Nat
      /\ holding["bind"] => Holders = others + 1
      /\ ~holding["bind"] => Holders = others
  BY DEF TypeOK, Users, Holders, One
<1>c. \A n \in Nat : Sound(Closed, n)
  BY DEF Sound, Closed, Handle
<1> USE DEF Counted, WindowConsistent
<1> HIDE DEF others
<1>1. CASE UNCHANGED vars
  BY <1>1 DEF vars, window, Holders
<1>2. ASSUME NEW u \in {"rate", "power"}, NEW n, Service(u, n)
      PROVE  Counted'
  <2>1. /\ phase' = phase /\ deadline' = deadline /\ holding'["bind"] = holding["bind"]
        /\ Holders' \in Nat
    BY <1>2 DEF Service, window, TypeOK, Users, Holders, One
  <2>2. CASE UNCHANGED <<bb, holding>>
    BY <2>1, <2>2 DEF Holders
  <2>3. CASE ~holding[u] /\ holding' = [holding EXCEPT ![u] = TRUE] /\ bb' = Acquired(bb)
    <3>1. Holders' = Holders + 1
      BY <2>3 DEF TypeOK, Users, Holders, One
    <3>2. QED
      BY <1>h, <2>1, <2>3, <3>1, AcquiredSound
  <2>4. CASE bb' = Closed
    BY <1>c, <2>1, <2>4
  <2>5. CASE ~bb.open /\ holding[u] /\ holding' = [holding EXCEPT ![u] = FALSE] /\ bb' = bb
    BY <2>1, <2>5 DEF Sound, Handle
  <2>6. QED
    BY <1>2, <2>2, <2>3, <2>4, <2>5 DEF Service
<1>3. CASE NoPress
  BY <1>3 DEF NoPress, window, Holders
<1>4. CASE StartRefused
  <2>1. PICK w : bb' = Released(Written(Acquired(bb), w))
    BY <1>4 DEF StartRefused
  <2>2. Sound(bb', Holders)
    BY <1>h, <2>1, AcquiredSound, WrittenSound, ReleasedSound
  <2>3. QED
    BY <1>4, <2>2 DEF StartRefused, window, Holders
<1>5. CASE StartNoBroadcast
  <2>1. PICK w : bb' = Released(Written(Acquired(bb), w))
    BY <1>5 DEF StartNoBroadcast
  <2>2. Sound(bb', Holders)
    BY <1>h, <2>1, AcquiredSound, WrittenSound, ReleasedSound
  <2>3. QED
    BY <1>5, <2>2 DEF StartNoBroadcast, Holders
<1>6. CASE StartNoPairMode
  <2>1. PICK off : \/ bb' = Released(Written(Acquired(bb), off))
                   \/ \E w : bb' = Released(Written(Written(Acquired(bb), off), w))
    BY <1>6 DEF StartNoPairMode
  <2>2. Sound(Written(Acquired(bb), off), Holders + 1)
    BY <1>h, AcquiredSound, WrittenSound
  <2>3. Sound(bb', Holders)
    BY <1>h, <2>1, <2>2, WrittenSound, ReleasedSound
  <2>4. QED
    BY <1>6, <2>3 DEF StartNoPairMode, Holders
<1>7. CASE StartWindow
  <2>1. ~holding["bind"]
    BY <1>7 DEF StartWindow, Pressed
  <2>2. holding'["bind"] /\ Holders' = Holders + 1
    BY <1>7, <2>1 DEF StartWindow, TypeOK, Users, Holders, One
  <2>3. QED
    BY <1>7, <1>h, <2>2, AcquiredSound DEF StartWindow
<1>s. ASSUME NEW b, Stop(b, holding["bind"]), Sound(b, Holders)
      PROVE  Counted'
  <2>1. ~holding'["bind"] /\ Holders' = others
    BY <1>s DEF Stop, TypeOK, Users, Holders, One, others
  <2>2. Sound(bb', others)
    BY <1>s, <1>h, ReleasedSound DEF Stop
  <2>3. QED
    BY <1>s, <2>1, <2>2 DEF Stop
<1>8. CASE PairIdle
  BY <1>8 DEF PairIdle, window, Holders
<1>9. CASE PairSocketLost
  <2>1. ~holding'["bind"] /\ Holders' = others
    BY <1>9 DEF PairSocketLost, Stop, TypeOK, Users, Holders, One, others
  <2>2. Sound(bb', others)
    BY <1>9, <1>h DEF PairSocketLost, Stop, Sound, Handle
  <2>3. QED
    BY <1>9, <2>1, <2>2 DEF PairSocketLost, Stop
<1>10. CASE PairCommit
  <2>1. CASE CommitTaken
    BY <2>1, <1>s DEF CommitTaken
  <2>2. ASSUME NEW w, CommitRefused(w)
        PROVE  Counted'
    BY <1>10, <2>2, <1>h, WrittenSound DEF PairCommit, InPair, CommitRefused, Holders
  <2>3. QED
    BY <1>10, <2>1, <2>2 DEF PairCommit
<1>11. CASE PairRestore
  <2>1. CASE Stop(bb, holding["bind"])
    BY <2>1, <1>s
  <2>2. ASSUME NEW w, RestoreRefused(w)
        PROVE  Counted'
    <3>1. Sound(Written(bb, w), Holders)
      BY <1>h, WrittenSound
    <3>2. CASE Stop(Written(bb, w), holding["bind"])
      BY <3>1, <3>2, <1>s
    <3>3. CASE bb' = Written(bb, w) /\ UNCHANGED <<phase, deadline, holding>>
      BY <3>1, <3>3 DEF Holders
    <3>4. QED
      BY <2>2, <3>2, <3>3 DEF RestoreRefused
  <2>3. QED
    BY <1>11, <2>1, <2>2 DEF PairRestore, RestoreTaken
<1>12. ASSUME NEW p \in {"COMMIT", "RESTORE"}, LeavePairMode(p)
       PROVE  Counted'
  <2>1. PICK w : bb' = Written(bb, w)
    BY <1>12 DEF LeavePairMode
  <2>2. QED
    BY <1>12, <1>h, <2>1, WrittenSound DEF LeavePairMode, InPair, Holders
<1>13. CASE PairPoll
  <2>1. \/ bb' = bb
        \/ \E w : bb' = Written(bb, w)
    BY <1>13 DEF PairPoll
  <2>2. QED
    BY <1>13, <1>h, <2>1, WrittenSound DEF PairPoll, window, Holders
<1>14. CASE ReplyIgnored
  BY <1>14 DEF ReplyIgnored, window, Holders
<1>15. ASSUME NEW m \in Macs, ReplyCandidate(m)
       PROVE  Counted'
  BY <1>15 DEF ReplyCandidate, Holders
<1>16. CASE DrainEnd
  BY <1>16 DEF DrainEnd, window, Holders
<1>17. CASE Expire
  BY <1>17 DEF Expire, Holders
<1>18. CASE Shutdown
  <2>1. Holders' \in Nat /\ ~holding'["bind"]
    BY <1>18 DEF Shutdown, Holders, One, Users
  <2>2. QED
    BY <1>18, <1>c, <2>1 DEF Shutdown
<1>19. CASE Stopped
  BY <1>19 DEF Stopped, vars, window, Holders
<1>20. QED
  BY <1>1, <1>2, <1>3, <1>4, <1>5, <1>6, <1>7, <1>8, <1>9, <1>10, <1>11, <1>12,
     <1>13, <1>14, <1>15, <1>16, <1>17, <1>18, <1>19
  DEF Next, Loop, RateService, PowerService, PairService, PairFound, PairExpired

LEMMA CountedInit == Init => Counted
  BY DEF Init, Counted, Sound, WindowConsistent, Closed, Handle, Holders, One, Users

(* The node is open exactly while a reference is counted and no reference is
   counted that no user would give back, although a broken write forgets
   every reference while its holders still believe in theirs (ml-air-bb.c). *)
THEOREM SocketAlwaysCounted == Spec => []SocketCounted
<1>1. Counted => SocketCounted
  BY DEF Counted, Sound, SocketCounted
<1>2. QED
  BY <1>1, CountedInit, HandleStep, TypeCorrect, PTL DEF Spec

(* The window's phase, its deadline and its claim on the socket agree in
   every state (ml-air-bind.c).                                            *)
THEOREM WindowAlwaysConsistent == Spec => []WindowConsistent
<1>1. Counted => WindowConsistent
  BY DEF Counted
<1>2. QED
  BY <1>1, CountedInit, HandleStep, TypeCorrect, PTL DEF Spec

-----------------------------------------------------------------------------
(* What the chip is left with (ml-air-bind.c). *)
LEMMA ChipStep ==
  TypeOK /\ Earned /\ WindowConsistent /\ BroadcastExplained /\ PairModeLeft /\ [Next]_vars
    => BroadcastExplained' /\ PairModeLeft'
<1> SUFFICES ASSUME TypeOK, Earned, WindowConsistent, BroadcastExplained, PairModeLeft,
                    [Next]_vars
             PROVE  BroadcastExplained' /\ PairModeLeft'
  OBVIOUS
<1> USE BindAssumption DEF BroadcastExplained, PairModeLeft
<1>1. CASE UNCHANGED vars
  BY <1>1 DEF vars, window, chip, history
<1>2. ASSUME NEW u \in {"rate", "power"}, NEW n \in {"power", "button"}, Service(u, n)
      PROVE  BroadcastExplained' /\ PairModeLeft'
  BY <1>2 DEF Service, window, chip, history
<1>3. CASE NoPress
  BY <1>3 DEF NoPress, window, chip, history
<1>4. CASE StartRefused
  BY <1>4 DEF StartRefused, Pressed, window, chip, history
<1>5. CASE StartNoBroadcast
  BY <1>5 DEF StartNoBroadcast, Pressed, chip, history
<1>6. CASE StartNoPairMode
  <2>1. chipMac' = Broadcast => stranded'
    BY <1>6 DEF StartNoPairMode, ReadSaved, TypeOK
  <2>2. QED
    BY <1>6, <2>1 DEF StartNoPairMode, Pressed
<1>7. CASE StartWindow
  BY <1>7 DEF StartWindow, Pressed
<1>8. CASE PairIdle
  BY <1>8 DEF PairIdle, InPair, window, chip, history
<1>9. CASE PairSocketLost
  BY <1>9 DEF PairSocketLost, Stop, chip
<1>10. CASE PairCommit
  <2>1. peer # Broadcast
    BY <1>10 DEF PairCommit, InPair, TypeOK, Earned
  <2>2. QED
    BY <1>10, <2>1 DEF PairCommit, InPair, CommitTaken, CommitRefused, Stop, history
<1>11. CASE PairRestore
  <2>1. saved # Broadcast
    BY <1>11 DEF TypeOK
  <2>2. /\ phase' # "POLL"
        /\ phase' = "IDLE" /\ chipMac' = Broadcast => stranded'
    BY <1>11, <2>1
    DEF PairRestore, InPair, RestoreTaken, RestoreRefused, Stop
  <2>3. QED
    BY <1>11, <2>2 DEF PairRestore, InPair
<1>12. ASSUME NEW p \in {"COMMIT", "RESTORE"}, LeavePairMode(p)
       PROVE  BroadcastExplained' /\ PairModeLeft'
  <2>1. chipPair' => offLost'
    BY <1>12 DEF LeavePairMode
  <2>2. QED
    BY <1>12, <2>1 DEF LeavePairMode, InPair
<1>13. CASE PairPoll
  BY <1>13 DEF PairPoll, InPair, window, history
<1>14. CASE ReplyIgnored
  BY <1>14 DEF ReplyIgnored, window, history
<1>15. ASSUME NEW m \in Macs, ReplyCandidate(m)
       PROVE  BroadcastExplained' /\ PairModeLeft'
  BY <1>15 DEF ReplyCandidate
<1>16. CASE DrainEnd
  BY <1>16 DEF DrainEnd, window, chip, history
<1>17. CASE Expire
  BY <1>17 DEF Expire, chip, history
<1>18. CASE Shutdown
  <2>1. chipPair' => offLost'
    <3>1. CASE deadline = "none"
      BY <1>18, <3>1 DEF Shutdown, WindowConsistent
    <3>2. CASE deadline # "none"
      BY <1>18, <3>2 DEF Shutdown, Abort, Outcomes
    <3>3. QED
      BY <3>1, <3>2
  <2>2. QED
    BY <1>18, <2>1 DEF Shutdown
<1>19. CASE Stopped
  BY <1>19 DEF Stopped, vars, window, chip, history
<1>20. QED
  BY <1>1, <1>2, <1>3, <1>4, <1>5, <1>6, <1>7, <1>8, <1>9, <1>10, <1>11, <1>12,
     <1>13, <1>14, <1>15, <1>16, <1>17, <1>18, <1>19
  DEF Next, Loop, RateService, PowerService, PairService, PairFound, PairExpired

LEMMA ChipInit == Init => BroadcastExplained /\ PairModeLeft
  BY BindAssumption DEF Init, BroadcastExplained, PairModeLeft

(* Outside a window of a running daemon, a chip on the broadcast address has
   had no address to put back or has refused it (ml-air-bind.c).           *)
THEOREM BroadcastAlwaysExplained == Spec => []BroadcastExplained
  BY ChipInit, ChipStep, TypeCorrect, WindowAlwaysConsistent, PTL DEF Spec

(* Past the polling phase a chip in pair mode never got the write that
   leaves pair mode (ml-air-bind.c).                                       *)
THEOREM PairModeAlwaysLeft == Spec => []PairModeLeft
  BY ChipInit, ChipStep, TypeCorrect, WindowAlwaysConsistent, PTL DEF Spec

-----------------------------------------------------------------------------
(* Only a commit that the chip took touches the disk. *)
LEMMA OnlyCommitPersists ==
  ASSUME TypeOK, Earned, [Next]_vars
  PROVE  \/ UNCHANGED cfg
         \/ /\ phase = "COMMIT" /\ phase' = "IDLE"
            /\ cfg' = chipMac' /\ cfg' \in heard
            /\ hits >= HitsNeeded
<1>1. CASE PairCommit
  <2>1. peer \in heard
    BY <1>1, BindAssumption DEF PairCommit, InPair, Earned, TypeOK
  <2>2. QED
    BY <1>1, <2>1 DEF PairCommit, InPair, CommitTaken, CommitRefused, Stop, Earned
<1>2. CASE Shutdown
  BY <1>2 DEF Shutdown
<1>3. ASSUME NEW p, LeavePairMode(p) PROVE UNCHANGED cfg
  BY <1>3 DEF LeavePairMode
<1>4. ASSUME NEW m \in Macs, ReplyCandidate(m) PROVE UNCHANGED cfg
  BY <1>4 DEF ReplyCandidate
<1>5. CASE PairIdle \/ PairSocketLost \/ PairRestore \/ PairPoll
  BY <1>5 DEF PairIdle, PairSocketLost, PairRestore, PairPoll
<1>6. QED
  BY <1>1, <1>2, <1>3, <1>4, <1>5
  DEF Next, Loop, RateService, PowerService, Service, NoPress, StartRefused,
      StartNoBroadcast, StartNoPairMode, StartWindow, PairService, PairFound,
      PairExpired, ReplyIgnored, DrainEnd, Expire, Stopped, vars

(* A binding is recorded only when the chip has just been given it, and only
   if the window saw that peer and counted enough sightings
   (ml-air-bind.c).                                                        *)
THEOREM PersistsOnlyCommitted == Spec => PersistOnlyCommitted
<1>1. TypeOK /\ Earned /\ [Next]_vars =>
        [cfg' # cfg => /\ phase = "COMMIT" /\ phase' = "IDLE"
                       /\ cfg' = chipMac'
                       /\ cfg' \in heard
                       /\ hits >= HitsNeeded]_vars
  BY OnlyCommitPersists
<1>2. QED
  BY <1>1, TypeCorrect, PTL DEF Spec, PersistOnlyCommitted

-----------------------------------------------------------------------------
(* Each step of the loop opens a window, counts a sighting, closes the
   window, or leaves all four of the promise's variables alone.            *)
LEMMA PromiseStep ==
  ASSUME TypeOK, Earned, TypeOK', [Next]_vars
  PROVE  [PW!WNext]_PW!wvars
<1> USE DEF PW!WNext, PW!wvars
<1>a. ASSUME UNCHANGED <<phase, hits, heard, cfg>>
      PROVE  UNCHANGED PW!wvars
  BY <1>a
<1>b. ASSUME phase # "IDLE", phase' # "IDLE", UNCHANGED <<hits, heard, cfg>>
      PROVE  UNCHANGED PW!wvars
  BY <1>b
<1>c. ASSUME phase = "IDLE", phase' = "IDLE", UNCHANGED cfg
      PROVE  UNCHANGED PW!wvars
  BY <1>c
<1>d. ASSUME phase # "IDLE", phase' = "IDLE"
      PROVE  PW!CloseWindow
  <2>1. cfg' = cfg \/ (hits >= HitsNeeded /\ cfg' \in heard)
    BY OnlyCommitPersists
  <2>2. QED
    BY <1>d, <2>1 DEF PW!CloseWindow
<1>1. CASE StartNoPairMode
  BY <1>1, <1>c DEF StartNoPairMode, Pressed
<1>2. CASE StartWindow
  BY <1>2 DEF StartWindow, Pressed, ResetWindow, PW!OpenWindow
<1>3. CASE PairCommit
  BY <1>3, <1>b, <1>d DEF PairCommit, InPair, CommitTaken, CommitRefused, Stop, history
<1>4. CASE PairRestore
  <2>1. phase # "IDLE" /\ phase' \in {"IDLE", "RESTORE"} /\ UNCHANGED <<hits, heard, cfg>>
    BY <1>4 DEF PairRestore, InPair, RestoreTaken, RestoreRefused, Stop
  <2>2. QED
    BY <1>b, <1>d, <2>1
<1>5. CASE PairSocketLost
  BY <1>5, <1>d DEF PairSocketLost, Stop
<1>6. ASSUME NEW p \in {"COMMIT", "RESTORE"}, LeavePairMode(p)
      PROVE  UNCHANGED PW!wvars
  BY <1>6, <1>b DEF LeavePairMode, InPair
<1>7. ASSUME NEW m \in Macs, ReplyCandidate(m)
      PROVE  PW!Sight(m)
  BY <1>7 DEF ReplyCandidate, PW!Sight
<1>8. CASE Shutdown
  <2>1. phase' = "IDLE" /\ UNCHANGED cfg
    BY <1>8 DEF Shutdown
  <2>2. QED
    BY <1>c, <1>d, <2>1
<1>9. CASE PairIdle
  BY <1>9, <1>a DEF PairIdle, window, history
<1>10. CASE PairPoll
  BY <1>10, <1>a DEF PairPoll, window, history
<1>11. CASE ReplyIgnored
  BY <1>11, <1>a DEF ReplyIgnored, window, history
<1>12. CASE Expire
  BY <1>12, <1>a DEF Expire, history
<1>13. CASE RateService \/ PowerService \/ NoPress \/ DrainEnd \/ StartRefused
  BY <1>13, <1>a
  DEF RateService, PowerService, Service, NoPress, DrainEnd, StartRefused, window, history
<1>14. CASE StartNoBroadcast
  BY <1>14, <1>a DEF StartNoBroadcast, history
<1>15. CASE UNCHANGED vars \/ Stopped
  BY <1>15, <1>a DEF Stopped, vars, window, history
<1>16. QED
  BY <1>1, <1>2, <1>3, <1>4, <1>5, <1>6, <1>7, <1>8, <1>9, <1>10, <1>11, <1>12,
     <1>13, <1>14, <1>15
  DEF Next, Loop, PairService, PairFound, PairExpired

(* The service loop implements the promise of the bind button: whatever the
   radio, the socket and the other users do, the recorded peer changes only
   as PairWindow allows (ml-air-bind.c).                                   *)
THEOREM LoopKeepsPromise == Spec => KeepsPromise
<1>1. Init => PW!WInit
  BY DEF Init, PW!WInit
<1>2. TypeOK /\ Earned /\ TypeOK' /\ [Next]_vars => [PW!WNext]_PW!wvars
  BY PromiseStep
<1>3. QED
  BY <1>1, <1>2, TypeCorrect, PTL DEF Spec, KeepsPromise, PW!WSpec
=============================================================================
