--------------------------- MODULE RecorderProofs ---------------------------
(***************************************************************************)
(* Proofs about Recorder: the types, the accounts of the composite pool    *)
(* and the encoder's yield to playback, for any pool, any encoder depth    *)
(* and any number of faults.                                               *)
(***************************************************************************)
EXTENDS Recorder, TLAPS

Stopping == {"join", "clear", "drain"}

(* The flags against how far the main loop is with the bin. *)
Order ==
  /\ encOn => bin # "none" /\ at \notin Stopping \cup {"go"}
  /\ recOn => encOn
  /\ at = "go" => bin # "none"
  /\ run => encOn
  /\ encOn /\ mode = "scale" => run
  /\ worker => run \/ at = "join"

(* A push that began under an encoder now stopping is marked, and the frame  *)
(* in it is nobody else's yet.                                               *)
Fresh ==
  push.at # "idle" =>
    /\ push.stale \/ encOn
    /\ push.buf \notin shown \cup enc \cup {work, mailbox}

(* A frame is left in the mailbox outside a scaled recording by a crossing   *)
(* put only, or by the stop that is about to sweep it.                       *)
Leftover == mailbox \in risk \cup {NoBuf} \/ run \/ at \in {"join", "clear"}

(* What playback needs along the main loop. *)
Yield ==
  /\ StreamYields
  /\ at \in {"leave", "open", "live", "stream"} => ~pb
  /\ at = "open" => (encOn => recOn)
  /\ at = "go" /\ bin = "stream" => ~pb
  /\ at \in Stopping \cup {"stop"} /\ cont = "open" => ~pb

IInv == TypeOK /\ Order /\ Fresh /\ Leftover /\ Yield /\ PinsAccounted

-----------------------------------------------------------------------------
(* The counts *)

LEMMA UnrefType == \A B : \A r \in [Buf -> Nat] : Unref(r, B) \in [Buf -> Nat]
  BY DEF Unref

LEMMA RefOfType == \A r \in [Buf -> Nat], b \in Buf : RefOf(r, b) \in [Buf -> Nat]
  BY DEF RefOf

LEMMA UnrefIs ==
  \A B : \A r \in [Buf -> Nat], b \in Buf :
    Unref(r, B)[b] = IF b \in B /\ r[b] > 0 THEN r[b] - 1 ELSE r[b]
  BY DEF Unref

LEMMA RefOfIs ==
  \A r \in [Buf -> Nat], c \in Buf : \A b \in Buf :
    RefOf(r, c)[b] = IF b = c THEN r[b] + 1 ELSE r[b]
  BY DEF RefOf

-----------------------------------------------------------------------------
(* The types, the flags apart from the rest: the provers take them separately. *)
Flags ==
  /\ encOn \in BOOLEAN /\ recOn \in BOOLEAN
  /\ rtspOn \in BOOLEAN
  /\ pb \in BOOLEAN /\ live \in BOOLEAN
  /\ errs \in BOOLEAN /\ idle \in BOOLEAN /\ dead \in BOOLEAN
  /\ want \in BOOLEAN
  /\ run \in BOOLEAN /\ worker \in BOOLEAN

Stages ==
  /\ at \in {"poll", "file", "stream", "go", "stop", "join", "clear", "drain",
             "restream", "leave", "open", "live"}
  /\ cont \in {"file", "restream", "poll", "open"}
  /\ bin \in {"none", "file", "stream"}
  /\ mode \in {"import", "scale"}
  /\ faults \in 0..MaxFaults

Pins ==
  /\ push \in [at : {"idle", "checked", "room"}, buf : Buf \cup {NoBuf}, stale : BOOLEAN]
  /\ push.at # "idle" => push.buf \in Buf
  /\ mailbox \in Buf \cup {NoBuf}
  /\ work \in Buf \cup {NoBuf}
  /\ enc \subseteq Buf /\ shown \subseteq Buf /\ risk \subseteq Buf
  /\ scaled \in 0..RecPool
  /\ ref \in [Buf -> Nat]

LEMMA TypeParts == TypeOK <=> Flags /\ Stages /\ Pins
  BY DEF TypeOK, Flags, Stages, Pins

(* Every step keeps every flag a flag. *)
LEMMA FlagsStep == Flags /\ [Next]_vars => Flags'
<1> SUFFICES ASSUME Flags, [Next]_vars PROVE Flags'
  OBVIOUS
<1> USE DEF Flags, flags, play, bus, thread
<1>1. CASE BuildBin
  BY <1>1 DEF BuildBin
<1>2. CASE StartBin
  BY <1>2 DEF StartBin
<1>3. CASE StopBegins
  BY <1>3 DEF StopBegins
<1>4. CASE StopJoins
  BY <1>4 DEF StopJoins
<1>5. CASE StopClears
  BY <1>5 DEF StopClears
<1>6. CASE StopDrains
  BY <1>6 DEF StopDrains
<1>7. CASE Toggle
  BY <1>7 DEF Toggle
<1>8. CASE Restream
  BY <1>8 DEF Restream
<1>9. CASE LeaveLive
  BY <1>9 DEF LeaveLive
<1>10. CASE ResumeLive
  BY <1>10 DEF ResumeLive
<1>11. CASE OpenClip
  BY <1>11 DEF OpenClip
<1>12. CASE Play
  BY <1>12 DEF Play
<1>13. CASE StopPlay
  BY <1>13 DEF StopPlay
<1>14. CASE RtspOn
  BY <1>14 DEF RtspOn
<1>15. CASE RtspOff
  BY <1>15 DEF RtspOff
<1>16. CASE BusWatch
  BY <1>16 DEF BusWatch
<1>17. CASE StopIdle
  BY <1>17 DEF StopIdle
<1>18. CASE SetWant
  BY <1>18 DEF SetWant
<1>19. CASE PushLevel
  BY <1>19 DEF PushLevel
<1>20. CASE PushMailbox
  BY <1>20 DEF PushMailbox
<1>21. CASE PushImport
  BY <1>21 DEF PushImport
<1>22. CASE WorkerTake
  BY <1>22 DEF WorkerTake
<1>23. CASE WorkerScale
  BY <1>23 DEF WorkerScale
<1>24. CASE WorkerExit
  BY <1>24 DEF WorkerExit
<1>25. CASE Coded
  BY <1>25 DEF Coded
<1>26. CASE EncoderFails
  BY <1>26 DEF EncoderFails
<1>27. ASSUME NEW b \in Buf, Compose(b) PROVE Flags'
  BY <1>27 DEF Compose
<1>28. ASSUME NEW b \in Buf, Shown(b) PROVE Flags'
  BY <1>28 DEF Shown
<1>29. CASE UNCHANGED vars
  BY <1>29 DEF vars
<1> QED
  BY <1>1, <1>2, <1>3, <1>4, <1>5, <1>6, <1>7, <1>8, <1>9, <1>10, <1>11, <1>12, <1>13, <1>14, <1>15, <1>16, <1>17, <1>18, <1>19, <1>20, <1>21, <1>22, <1>23, <1>24, <1>25, <1>26, <1>27, <1>28, <1>29 DEF Next, MainStep, PushStep, WorkerStep

(* Every step keeps the stages of the main loop. *)
LEMMA StagesStep == Stages /\ [Next]_vars => Stages'
<1> SUFFICES ASSUME Stages, [Next]_vars PROVE Stages'
  OBVIOUS
<1> USE RecorderAssumption DEF Stages, main
<1>1. CASE BuildBin
  BY <1>1 DEF BuildBin, Goto, StopThen, AfterStart, Fault
<1>2. CASE StartBin
  BY <1>2 DEF StartBin, Goto, StopThen, AfterStart, Fault
<1>3. CASE StopBegins
  BY <1>3 DEF StopBegins
<1>4. CASE StopJoins
  BY <1>4 DEF StopJoins, Goto, StopThen
<1>5. CASE StopClears
  BY <1>5 DEF StopClears, Goto, StopThen
<1>6. CASE StopDrains
  BY <1>6 DEF StopDrains, Goto, StopThen
<1>7. CASE Toggle
  BY <1>7 DEF Toggle, Goto, StopThen
<1>8. CASE Restream
  BY <1>8 DEF Restream, Goto, StopThen
<1>9. CASE LeaveLive
  BY <1>9 DEF LeaveLive, Goto, StopThen
<1>10. CASE ResumeLive
  BY <1>10 DEF ResumeLive, Goto, StopThen
<1>11. CASE OpenClip
  BY <1>11 DEF OpenClip, Goto, StopThen
<1>12. CASE Play
  BY <1>12 DEF Play, Goto, StopThen
<1>13. CASE StopPlay
  BY <1>13 DEF StopPlay, Goto, StopThen
<1>14. CASE RtspOn
  BY <1>14 DEF RtspOn, Goto, StopThen
<1>15. CASE RtspOff
  BY <1>15 DEF RtspOff, Goto, StopThen
<1>16. CASE BusWatch
  BY <1>16 DEF BusWatch
<1>17. CASE StopIdle
  BY <1>17 DEF StopIdle, Goto, StopThen
<1>18. CASE SetWant
  BY <1>18 DEF SetWant
<1>19. CASE PushLevel
  BY <1>19 DEF PushLevel
<1>20. CASE PushMailbox
  BY <1>20 DEF PushMailbox
<1>21. CASE PushImport
  BY <1>21 DEF PushImport
<1>22. CASE WorkerTake
  BY <1>22 DEF WorkerTake
<1>23. CASE WorkerScale
  BY <1>23 DEF WorkerScale
<1>24. CASE WorkerExit
  BY <1>24 DEF WorkerExit
<1>25. CASE Coded
  BY <1>25 DEF Coded
<1>26. CASE EncoderFails
  BY <1>26 DEF EncoderFails, Goto, StopThen, AfterStart, Fault
<1>27. ASSUME NEW b \in Buf, Compose(b) PROVE Stages'
  BY <1>27 DEF Compose
<1>28. ASSUME NEW b \in Buf, Shown(b) PROVE Stages'
  BY <1>28 DEF Shown
<1>29. CASE UNCHANGED vars
  BY <1>29 DEF vars
<1> QED
  BY <1>1, <1>2, <1>3, <1>4, <1>5, <1>6, <1>7, <1>8, <1>9, <1>10, <1>11, <1>12, <1>13, <1>14, <1>15, <1>16, <1>17, <1>18, <1>19, <1>20, <1>21, <1>22, <1>23, <1>24, <1>25, <1>26, <1>27, <1>28, <1>29 DEF Next, MainStep, PushStep, WorkerStep

(* Every step keeps the types of the pins. *)
LEMMA PinsStep == Pins /\ [Next]_vars => Pins'
<1> SUFFICES ASSUME Pins, [Next]_vars PROVE Pins'
  OBVIOUS
<1> USE RecorderAssumption, NoBufAssumption DEF Pins, pins
<1>1. CASE BuildBin
  BY <1>1 DEF BuildBin
<1>2. CASE StartBin
  BY <1>2 DEF StartBin
<1>3. CASE StopBegins
  BY <1>3 DEF StopBegins
<1>4. CASE StopJoins
  BY <1>4, UnrefType DEF StopJoins
<1>5. CASE StopClears
  BY <1>5 DEF StopClears
<1>6. CASE StopDrains
  <2>1. ref' \in [Buf -> Nat]
    BY <1>6, UnrefType DEF StopDrains
  <2> QED
    BY <1>6, <2>1 DEF StopDrains
<1>7. CASE Toggle
  BY <1>7 DEF Toggle
<1>8. CASE Restream
  BY <1>8 DEF Restream
<1>9. CASE LeaveLive
  BY <1>9 DEF LeaveLive
<1>10. CASE ResumeLive
  BY <1>10 DEF ResumeLive
<1>11. CASE OpenClip
  BY <1>11 DEF OpenClip
<1>12. CASE Play
  BY <1>12 DEF Play
<1>13. CASE StopPlay
  BY <1>13 DEF StopPlay
<1>14. CASE RtspOn
  BY <1>14 DEF RtspOn
<1>15. CASE RtspOff
  BY <1>15 DEF RtspOff
<1>16. CASE BusWatch
  BY <1>16 DEF BusWatch
<1>17. CASE StopIdle
  BY <1>17 DEF StopIdle
<1>18. CASE SetWant
  BY <1>18 DEF SetWant
<1>19. CASE PushLevel
  <2>1. CASE Submit
    BY <1>19, <2>1 DEF PushLevel, Submit, NotPushing
  <2>2. CASE push' = [push EXCEPT !.at = "room"] /\ UNCHANGED shown
    BY <1>19, <2>2 DEF PushLevel
  <2> QED
    BY <1>19, <2>1, <2>2 DEF PushLevel
<1>20. CASE PushMailbox
  <2>1. push.buf \in Buf /\ Unref(ref, {mailbox}) \in [Buf -> Nat]
    BY <1>20, UnrefType DEF PushMailbox
  <2>2. Deposit(push.buf) \in [Buf -> Nat]
    BY <2>1, RefOfType DEF Deposit
  <2>3. ref' \in [Buf -> Nat]
    BY <1>20, <2>2 DEF PushMailbox
  <2>4. risk' \subseteq Buf
    BY <1>20 DEF PushMailbox, Risked
  <2>5. shown' \subseteq Buf /\ push' = NotPushing /\ mailbox' \in Buf \cup {NoBuf}
    BY <1>20 DEF PushMailbox, Submit
  <2> QED
    BY <1>20, <2>3, <2>4, <2>5 DEF PushMailbox, NotPushing
<1>21. CASE PushImport
  <2>1. ref' \in [Buf -> Nat]
    BY <1>21, RefOfType DEF PushImport
  <2>2. risk' \subseteq Buf /\ enc' \subseteq Buf
    BY <1>21 DEF PushImport, Risked
  <2>3. shown' \subseteq Buf /\ push' = NotPushing
    BY <1>21 DEF PushImport, Submit
  <2> QED
    BY <1>21, <2>1, <2>2, <2>3 DEF PushImport, NotPushing
<1>22. CASE WorkerTake
  BY <1>22 DEF WorkerTake
<1>23. CASE WorkerScale
  BY <1>23, UnrefType DEF WorkerScale
<1>24. CASE WorkerExit
  BY <1>24 DEF WorkerExit
<1>25. CASE Coded
  <2>1. CASE scaled > 0 /\ scaled' = scaled - 1 /\ UNCHANGED <<enc, ref>>
    BY <1>25, <2>1 DEF Coded
  <2>2. ASSUME NEW b \in enc, enc' = enc \ {b}, ref' = Unref(ref, {b}), UNCHANGED scaled
        PROVE  Pins'
    <3>1. ref' \in [Buf -> Nat]
      BY <2>2, UnrefType
    <3> QED
      BY <1>25, <2>2, <3>1 DEF Coded
  <2> QED
    BY <1>25, <2>1, <2>2 DEF Coded
<1>26. CASE EncoderFails
  BY <1>26 DEF EncoderFails
<1>27. ASSUME NEW b \in Buf, Compose(b) PROVE Pins'
  <2>1. ref' \in [Buf -> Nat]
    BY <1>27, RefOfType DEF Compose
  <2>2. risk' \subseteq Buf /\ shown' \subseteq Buf
    BY <1>27 DEF Compose
  <2>3. CASE UNCHANGED push
    BY <1>27, <2>1, <2>2, <2>3 DEF Compose
  <2>4. CASE push' = [at |-> "checked", buf |-> b, stale |-> FALSE]
    BY <1>27, <2>1, <2>2, <2>4 DEF Compose
  <2> QED
    BY <1>27, <2>3, <2>4 DEF Compose
<1>28. ASSUME NEW b \in Buf, Shown(b) PROVE Pins'
  BY <1>28, UnrefType DEF Shown
<1>29. CASE UNCHANGED vars
  BY <1>29 DEF vars
<1> QED
  BY <1>1, <1>2, <1>3, <1>4, <1>5, <1>6, <1>7, <1>8, <1>9, <1>10, <1>11, <1>12, <1>13, <1>14, <1>15, <1>16, <1>17, <1>18, <1>19, <1>20, <1>21, <1>22, <1>23, <1>24, <1>25, <1>26, <1>27, <1>28, <1>29 DEF Next, MainStep, PushStep, WorkerStep

LEMMA TypeStep == TypeOK /\ [Next]_vars => TypeOK'
<1>1. TypeOK' <=> Flags' /\ Stages' /\ Pins'
  BY DEF TypeOK, Flags, Stages, Pins
<1> QED
  BY <1>1, TypeParts, FlagsStep, StagesStep, PinsStep

-----------------------------------------------------------------------------
(* Every step keeps flags, bin and worker in step with the main loop. *)
LEMMA OrderStep == IInv /\ [Next]_vars => Order'
<1> SUFFICES ASSUME IInv, [Next]_vars PROVE Order'
  OBVIOUS
<1> USE DEF IInv, TypeOK, main, flags, play, bus, thread, pins, Order, Stopping
<1>1. CASE BuildBin
  BY <1>1 DEF BuildBin, Goto, StopThen, AfterStart
<1>2. CASE StartBin
  <2>1. CASE UNCHANGED <<flags, thread>> /\ StopThen(AfterStart(bin))
    BY <1>2, <2>1 DEF StartBin, StopThen
  <2>2. CASE /\ run' = (mode = "scale") /\ worker' = (mode = "scale")
             /\ encOn' = TRUE /\ Goto(AfterStart(bin))
    <3>1. encOn' /\ (run' <=> mode = "scale") /\ (worker' <=> mode = "scale")
      BY <2>2, Zenon
    <3>2. at' \in {"restream", "poll"} /\ mode' = mode /\ bin' = bin /\ bin # "none"
      BY <1>2, <2>2 DEF StartBin, Goto, AfterStart
    <3> QED
      BY <3>1, <3>2
  <2> QED
    BY <1>2, <2>1, <2>2 DEF StartBin
<1>3. CASE StopBegins
  BY <1>3 DEF StopBegins
<1>4. CASE StopJoins
  BY <1>4 DEF StopJoins, Goto, StopThen, AfterStart
<1>5. CASE StopClears
  BY <1>5 DEF StopClears, Goto, StopThen, AfterStart
<1>6. CASE StopDrains
  BY <1>6 DEF StopDrains, Goto, StopThen, AfterStart
<1>7. CASE Toggle
  BY <1>7 DEF Toggle, Goto, StopThen, AfterStart
<1>8. CASE Restream
  BY <1>8 DEF Restream, Goto, StopThen, AfterStart
<1>9. CASE LeaveLive
  BY <1>9 DEF LeaveLive, Goto, StopThen, AfterStart
<1>10. CASE ResumeLive
  BY <1>10 DEF ResumeLive, Goto, StopThen, AfterStart
<1>11. CASE OpenClip
  BY <1>11 DEF OpenClip, Goto, StopThen, AfterStart
<1>12. CASE Play
  BY <1>12 DEF Play, Goto, StopThen, AfterStart
<1>13. CASE StopPlay
  BY <1>13 DEF StopPlay, Goto, StopThen, AfterStart
<1>14. CASE RtspOn
  BY <1>14 DEF RtspOn, Goto, StopThen, AfterStart
<1>15. CASE RtspOff
  BY <1>15 DEF RtspOff, Goto, StopThen, AfterStart
<1>16. CASE BusWatch
  BY <1>16 DEF BusWatch
<1>17. CASE StopIdle
  BY <1>17 DEF StopIdle, Goto, StopThen, AfterStart
<1>18. CASE SetWant
  BY <1>18 DEF SetWant
<1>19. CASE PushLevel
  BY <1>19 DEF PushLevel
<1>20. CASE PushMailbox
  BY <1>20 DEF PushMailbox
<1>21. CASE PushImport
  BY <1>21 DEF PushImport
<1>22. CASE WorkerTake
  BY <1>22 DEF WorkerTake
<1>23. CASE WorkerScale
  BY <1>23 DEF WorkerScale
<1>24. CASE WorkerExit
  BY <1>24 DEF WorkerExit
<1>25. CASE Coded
  BY <1>25 DEF Coded
<1>26. CASE EncoderFails
  BY <1>26 DEF EncoderFails
<1>27. ASSUME NEW b \in Buf, Compose(b) PROVE Order'
  BY <1>27 DEF Compose
<1>28. ASSUME NEW b \in Buf, Shown(b) PROVE Order'
  BY <1>28 DEF Shown
<1>29. CASE UNCHANGED vars
  BY <1>29 DEF vars
<1> QED
  BY <1>1, <1>2, <1>3, <1>4, <1>5, <1>6, <1>7, <1>8, <1>9, <1>10, <1>11, <1>12, <1>13, <1>14, <1>15, <1>16, <1>17, <1>18, <1>19, <1>20, <1>21, <1>22, <1>23, <1>24, <1>25, <1>26, <1>27, <1>28, <1>29 DEF Next, MainStep, PushStep, WorkerStep

(* Every step leaves the frame in a push to the push. *)
LEMMA FreshStep == IInv /\ [Next]_vars => Fresh'
<1> SUFFICES ASSUME IInv, [Next]_vars PROVE Fresh'
  OBVIOUS
<1> USE DEF IInv, TypeOK, main, flags, play, bus, thread, pins, Fresh, Order, Stopping
<1>1. CASE BuildBin
  BY <1>1 DEF BuildBin, Goto, StopThen, AfterStart
<1>2. CASE StartBin
  BY <1>2, NoBufAssumption DEF StartBin, Goto
<1>3. CASE StopBegins
  BY <1>3 DEF StopBegins
<1>4. CASE StopJoins
  BY <1>4 DEF StopJoins, Goto, StopThen, AfterStart
<1>5. CASE StopClears
  BY <1>5, NoBufAssumption DEF StopClears, Goto
<1>6. CASE StopDrains
  BY <1>6 DEF StopDrains, Goto, StopThen, AfterStart
<1>7. CASE Toggle
  BY <1>7 DEF Toggle, Goto, StopThen, AfterStart
<1>8. CASE Restream
  BY <1>8 DEF Restream, Goto, StopThen, AfterStart
<1>9. CASE LeaveLive
  BY <1>9 DEF LeaveLive, Goto, StopThen, AfterStart
<1>10. CASE ResumeLive
  BY <1>10 DEF ResumeLive, Goto, StopThen, AfterStart
<1>11. CASE OpenClip
  BY <1>11 DEF OpenClip, Goto, StopThen, AfterStart
<1>12. CASE Play
  BY <1>12 DEF Play, Goto, StopThen, AfterStart
<1>13. CASE StopPlay
  BY <1>13 DEF StopPlay, Goto, StopThen, AfterStart
<1>14. CASE RtspOn
  BY <1>14 DEF RtspOn, Goto, StopThen, AfterStart
<1>15. CASE RtspOff
  BY <1>15 DEF RtspOff, Goto, StopThen, AfterStart
<1>16. CASE BusWatch
  BY <1>16 DEF BusWatch
<1>17. CASE StopIdle
  BY <1>17 DEF StopIdle, Goto, StopThen, AfterStart
<1>18. CASE SetWant
  BY <1>18 DEF SetWant
<1>19. CASE PushLevel
  BY <1>19 DEF PushLevel, Submit, NotPushing
<1>20. CASE PushMailbox
  BY <1>20 DEF PushMailbox, Submit, NotPushing
<1>21. CASE PushImport
  BY <1>21 DEF PushImport, Submit, NotPushing
<1>22. CASE WorkerTake
  BY <1>22 DEF WorkerTake
<1>23. CASE WorkerScale
  BY <1>23, NoBufAssumption DEF WorkerScale
<1>24. CASE WorkerExit
  BY <1>24 DEF WorkerExit
<1>25. CASE Coded
  BY <1>25 DEF Coded
<1>26. CASE EncoderFails
  BY <1>26 DEF EncoderFails
<1>27. ASSUME NEW b \in Buf, Compose(b) PROVE Fresh'
  BY <1>27, NoBufAssumption DEF Compose, Held, One, Dangling, HasSrc
<1>28. ASSUME NEW b \in Buf, Shown(b) PROVE Fresh'
  BY <1>28 DEF Shown
<1>29. CASE UNCHANGED vars
  BY <1>29 DEF vars
<1> QED
  BY <1>1, <1>2, <1>3, <1>4, <1>5, <1>6, <1>7, <1>8, <1>9, <1>10, <1>11, <1>12, <1>13, <1>14, <1>15, <1>16, <1>17, <1>18, <1>19, <1>20, <1>21, <1>22, <1>23, <1>24, <1>25, <1>26, <1>27, <1>28, <1>29 DEF Next, MainStep, PushStep, WorkerStep

(* Every step accounts for what is left in the mailbox. *)
LEMMA LeftoverStep == IInv /\ [Next]_vars => Leftover'
<1> SUFFICES ASSUME IInv, [Next]_vars PROVE Leftover'
  OBVIOUS
<1> USE DEF IInv, TypeOK, main, flags, play, bus, thread, pins, Leftover, Order, Stopping
<1>1. CASE BuildBin
  BY <1>1 DEF BuildBin, Goto, StopThen, AfterStart
<1>2. CASE StartBin
  BY <1>2 DEF StartBin, Goto, StopThen, AfterStart
<1>3. CASE StopBegins
  BY <1>3 DEF StopBegins
<1>4. CASE StopJoins
  BY <1>4 DEF StopJoins, Goto, StopThen, AfterStart
<1>5. CASE StopClears
  BY <1>5 DEF StopClears, Goto, StopThen, AfterStart
<1>6. CASE StopDrains
  BY <1>6 DEF StopDrains, Goto, StopThen, AfterStart
<1>7. CASE Toggle
  BY <1>7 DEF Toggle, Goto, StopThen, AfterStart
<1>8. CASE Restream
  BY <1>8 DEF Restream, Goto, StopThen, AfterStart
<1>9. CASE LeaveLive
  BY <1>9 DEF LeaveLive, Goto, StopThen, AfterStart
<1>10. CASE ResumeLive
  BY <1>10 DEF ResumeLive, Goto, StopThen, AfterStart
<1>11. CASE OpenClip
  BY <1>11 DEF OpenClip, Goto, StopThen, AfterStart
<1>12. CASE Play
  BY <1>12 DEF Play, Goto, StopThen, AfterStart
<1>13. CASE StopPlay
  BY <1>13 DEF StopPlay, Goto, StopThen, AfterStart
<1>14. CASE RtspOn
  BY <1>14 DEF RtspOn, Goto, StopThen, AfterStart
<1>15. CASE RtspOff
  BY <1>15 DEF RtspOff, Goto, StopThen, AfterStart
<1>16. CASE BusWatch
  BY <1>16 DEF BusWatch
<1>17. CASE StopIdle
  BY <1>17 DEF StopIdle, Goto, StopThen, AfterStart
<1>18. CASE SetWant
  BY <1>18 DEF SetWant
<1>19. CASE PushLevel
  BY <1>19 DEF PushLevel, Submit
<1>20. CASE PushMailbox
  BY <1>20, NoBufAssumption DEF PushMailbox, Submit, Risked, Fresh
<1>21. CASE PushImport
  BY <1>21 DEF PushImport, Submit, Risked
<1>22. CASE WorkerTake
  BY <1>22 DEF WorkerTake
<1>23. CASE WorkerScale
  BY <1>23 DEF WorkerScale
<1>24. CASE WorkerExit
  BY <1>24 DEF WorkerExit
<1>25. CASE Coded
  BY <1>25 DEF Coded
<1>26. CASE EncoderFails
  BY <1>26 DEF EncoderFails
<1>27. ASSUME NEW b \in Buf, Compose(b) PROVE Leftover'
  BY <1>27, NoBufAssumption DEF Compose, Held, One, Dangling
<1>28. ASSUME NEW b \in Buf, Shown(b) PROVE Leftover'
  BY <1>28 DEF Shown
<1>29. CASE UNCHANGED vars
  BY <1>29 DEF vars
<1> QED
  BY <1>1, <1>2, <1>3, <1>4, <1>5, <1>6, <1>7, <1>8, <1>9, <1>10, <1>11, <1>12, <1>13, <1>14, <1>15, <1>16, <1>17, <1>18, <1>19, <1>20, <1>21, <1>22, <1>23, <1>24, <1>25, <1>26, <1>27, <1>28, <1>29 DEF Next, MainStep, PushStep, WorkerStep

(* Every step keeps a stream-only encoder out of the way of a clip. *)
LEMMA YieldStep == IInv /\ [Next]_vars => Yield'
<1> SUFFICES ASSUME IInv, [Next]_vars PROVE Yield'
  OBVIOUS
<1> USE DEF IInv, TypeOK, main, flags, play, bus, thread, pins, Yield, StreamYields, Order, Stopping
<1>1. CASE BuildBin
  BY <1>1 DEF BuildBin, Goto, StopThen, AfterStart
<1>2. CASE StartBin
  BY <1>2 DEF StartBin, Goto, StopThen, AfterStart
<1>3. CASE StopBegins
  <2>1. CASE bin = "none"
    BY <1>3, <2>1 DEF StopBegins
  <2>2. CASE bin # "none"
    <3>1. ~encOn' /\ pb' = pb /\ at' \in Stopping /\ cont' = cont /\ at = "stop"
      BY <1>3, <2>2 DEF StopBegins
    <3> QED
      BY <3>1
  <2> QED
    BY <2>1, <2>2
<1>4. CASE StopJoins
  BY <1>4 DEF StopJoins, Goto, StopThen, AfterStart
<1>5. CASE StopClears
  BY <1>5 DEF StopClears, Goto, StopThen, AfterStart
<1>6. CASE StopDrains
  <2>1. /\ encOn' = encOn /\ recOn' = recOn /\ pb' = pb
        /\ at' = cont /\ ~encOn /\ at = "drain"
    BY <1>6 DEF StopDrains, Goto
  <2> QED
    BY <2>1
<1>7. CASE Toggle
  BY <1>7 DEF Toggle, Goto, StopThen, AfterStart
<1>8. CASE Restream
  BY <1>8 DEF Restream, Goto, StopThen, AfterStart
<1>9. CASE LeaveLive
  BY <1>9 DEF LeaveLive, Goto, StopThen, AfterStart
<1>10. CASE ResumeLive
  BY <1>10 DEF ResumeLive, Goto, StopThen, AfterStart
<1>11. CASE OpenClip
  BY <1>11 DEF OpenClip, Goto, StopThen, AfterStart
<1>12. CASE Play
  BY <1>12 DEF Play, Goto, StopThen, AfterStart
<1>13. CASE StopPlay
  BY <1>13 DEF StopPlay, Goto, StopThen, AfterStart
<1>14. CASE RtspOn
  BY <1>14 DEF RtspOn, Goto, EncoderMissing
<1>15. CASE RtspOff
  BY <1>15 DEF RtspOff, Goto, StopThen, AfterStart
<1>16. CASE BusWatch
  BY <1>16 DEF BusWatch
<1>17. CASE StopIdle
  BY <1>17 DEF StopIdle, Goto, StopThen, AfterStart
<1>18. CASE SetWant
  BY <1>18 DEF SetWant
<1>19. CASE PushLevel
  BY <1>19 DEF PushLevel
<1>20. CASE PushMailbox
  BY <1>20 DEF PushMailbox
<1>21. CASE PushImport
  BY <1>21 DEF PushImport
<1>22. CASE WorkerTake
  BY <1>22 DEF WorkerTake
<1>23. CASE WorkerScale
  BY <1>23 DEF WorkerScale
<1>24. CASE WorkerExit
  BY <1>24 DEF WorkerExit
<1>25. CASE Coded
  BY <1>25 DEF Coded
<1>26. CASE EncoderFails
  BY <1>26 DEF EncoderFails
<1>27. ASSUME NEW b \in Buf, Compose(b) PROVE Yield'
  BY <1>27 DEF Compose
<1>28. ASSUME NEW b \in Buf, Shown(b) PROVE Yield'
  BY <1>28 DEF Shown
<1>29. CASE UNCHANGED vars
  BY <1>29 DEF vars
<1> QED
  BY <1>1, <1>2, <1>3, <1>4, <1>5, <1>6, <1>7, <1>8, <1>9, <1>10, <1>11, <1>12, <1>13, <1>14, <1>15, <1>16, <1>17, <1>18, <1>19, <1>20, <1>21, <1>22, <1>23, <1>24, <1>25, <1>26, <1>27, <1>28, <1>29 DEF Next, MainStep, PushStep, WorkerStep

-----------------------------------------------------------------------------
(* A step that leaves the pins alone leaves their account alone. *)
LEMMA HeldSame ==
  ASSUME NEW b \in Buf, UNCHANGED pins, at # "clear", at' # "clear"
  PROVE  Held(b)' = Held(b) /\ ref' = ref /\ risk' = risk
BY DEF pins, Held, One, Dangling

LEMMA AccountStep == IInv /\ [Next]_vars => PinsAccounted'
<1> SUFFICES ASSUME IInv, [Next]_vars, NEW b \in Buf, b \notin risk'
             PROVE  ref'[b] = Held(b)'
  BY DEF PinsAccounted
<1>a. b \notin risk => ref[b] = Held(b)
  BY DEF IInv, PinsAccounted
<1> USE DEF IInv, TypeOK, main
<1>1. CASE BuildBin
  BY <1>1, <1>a, HeldSame DEF BuildBin, Goto, StopThen, AfterStart
<1>2. CASE StartBin
  <2>1. mailbox' = mailbox \/ (mailbox \in risk /\ mailbox' = NoBuf)
    <3>1. mailbox' = mailbox \/ mailbox' = NoBuf
      BY <1>2 DEF StartBin
    <3>2. ~run
      BY <1>2 DEF StartBin, Order, Stopping
    <3>3. mailbox \in risk \/ mailbox = NoBuf
      BY <1>2, <3>2 DEF StartBin, Leftover
    <3> QED
      BY <3>1, <3>3
  <2>2. /\ push' = push /\ work' = work /\ enc' = enc /\ shown' = shown
        /\ ref' = ref /\ risk' = risk /\ at # "clear" /\ at' # "clear"
    BY <1>2 DEF StartBin, Goto, StopThen, AfterStart
  <2>3. mailbox' = b <=> mailbox = b
    BY <1>2, <2>1, <2>2, NoBufAssumption DEF StartBin
  <2> QED
    BY <1>a, <2>2, <2>3 DEF Held, One, Dangling
<1>3. CASE StopBegins
  <2>1. /\ mailbox' = mailbox /\ work' = work /\ enc' = enc /\ shown' = shown
        /\ ref' = ref /\ risk' = risk /\ at # "clear" /\ at' # "clear"
        /\ push'.at = push.at /\ push'.buf = push.buf
    BY <1>3 DEF StopBegins
  <2> QED
    BY <1>a, <2>1 DEF Held, One, Dangling
<1>4. CASE StopJoins
  <2>1. /\ push' = push /\ mailbox' = mailbox /\ work' = work /\ enc' = enc
        /\ shown' = shown /\ risk' = risk /\ at = "join"
    BY <1>4 DEF StopJoins
  <2>2. CASE mailbox = NoBuf
    BY <1>4, <1>a, <2>1, <2>2, NoBufAssumption DEF StopJoins, Goto, Held, One, Dangling
  <2>3. CASE mailbox # NoBuf
    <3>1. at' = "clear" /\ ref' = Unref(ref, {mailbox})
      BY <1>4, <2>3 DEF StopJoins, Goto
    <3>2. ref'[b] = IF b = mailbox /\ ref[b] > 0 THEN ref[b] - 1 ELSE ref[b]
      BY <3>1, UnrefIs
    <3> QED
      BY <1>a, <2>1, <3>1, <3>2 DEF Held, One, Dangling
  <2> QED
    BY <2>2, <2>3
<1>5. CASE StopClears
  <2>1. /\ push' = push /\ mailbox' = NoBuf /\ work' = work /\ enc' = enc
        /\ shown' = shown /\ risk' = risk /\ ref' = ref /\ at = "clear"
    BY <1>5 DEF StopClears
  <2> QED
    BY <1>a, <2>1, NoBufAssumption DEF Held, One, Dangling
<1>6. CASE StopDrains
  <2>1. /\ push' = push /\ mailbox' = mailbox /\ work' = work /\ enc' = {}
        /\ shown' = shown /\ risk' = risk /\ at = "drain" /\ at' # "clear"
    BY <1>6 DEF StopDrains, Goto
  <2>2. ref'[b] = IF b \in enc /\ ref[b] > 0 THEN ref[b] - 1 ELSE ref[b]
    BY <1>6, UnrefIs DEF StopDrains
  <2> QED
    BY <1>a, <2>1, <2>2 DEF Held, One, Dangling
<1>7. CASE Toggle
  BY <1>7, <1>a, HeldSame DEF Toggle, Goto, StopThen, AfterStart
<1>8. CASE Restream
  BY <1>8, <1>a, HeldSame DEF Restream, Goto, StopThen, AfterStart
<1>9. CASE LeaveLive
  BY <1>9, <1>a, HeldSame DEF LeaveLive, Goto, StopThen, AfterStart
<1>10. CASE ResumeLive
  BY <1>10, <1>a, HeldSame DEF ResumeLive, Goto, StopThen, AfterStart
<1>11. CASE OpenClip
  BY <1>11, <1>a, HeldSame DEF OpenClip, Goto, StopThen, AfterStart
<1>12. CASE Play
  BY <1>12, <1>a, HeldSame DEF Play, Goto, StopThen, AfterStart
<1>13. CASE StopPlay
  BY <1>13, <1>a, HeldSame DEF StopPlay, Goto, StopThen, AfterStart
<1>14. CASE RtspOn
  BY <1>14, <1>a, HeldSame DEF RtspOn, Goto, StopThen, AfterStart
<1>15. CASE RtspOff
  BY <1>15, <1>a, HeldSame DEF RtspOff, Goto, StopThen, AfterStart
<1>16. CASE BusWatch
  BY <1>16, <1>a DEF BusWatch, main, pins, Held, One, Dangling
<1>17. CASE StopIdle
  BY <1>17, <1>a, HeldSame DEF StopIdle, Goto, StopThen, AfterStart
<1>18. CASE SetWant
  BY <1>18, <1>a DEF SetWant, main, pins, Held, One, Dangling
<1>19. CASE PushLevel
  <2>1. /\ mailbox' = mailbox /\ work' = work /\ enc' = enc /\ ref' = ref
        /\ risk' = risk /\ at' = at
    BY <1>19 DEF PushLevel
  <2>2. CASE Submit
    <3>1. shown' = shown \cup {push.buf} /\ push'.at = "idle" /\ push.at # "idle"
      BY <1>19, <2>2 DEF PushLevel, Submit, NotPushing
    <3> QED
      BY <1>a, <2>1, <3>1 DEF Fresh, Held, One, Dangling
  <2>3. CASE push' = [push EXCEPT !.at = "room"] /\ UNCHANGED shown
    <3>1. push.at # "idle" /\ push'.at # "idle" /\ push'.buf = push.buf /\ shown' = shown
      BY <1>19, <2>3 DEF PushLevel
    <3> QED
      BY <1>a, <2>1, <3>1 DEF Held, One, Dangling
  <2> QED
    BY <1>19, <2>2, <2>3 DEF PushLevel
<1>20. CASE PushMailbox
  <2>1. shown' = shown \cup {push.buf} /\ push'.at = "idle" /\ push.at # "idle"
    BY <1>20 DEF PushMailbox, Submit, NotPushing
  <2>2. work' = work /\ enc' = enc /\ at' = at
    BY <1>20 DEF PushMailbox
  <2>3. CASE UNCHANGED <<mailbox, ref, risk>>
    BY <1>a, <2>1, <2>2, <2>3 DEF Fresh, Held, One, Dangling
  <2>4. CASE /\ mailbox' = push.buf
             /\ ref' = Deposit(push.buf)
             /\ risk' = Risked({push.buf} \cup IF Dangling THEN {mailbox} ELSE {})
    <3>1. push.buf \in Buf
      BY <2>1
    <3>2. Unref(ref, {mailbox}) \in [Buf -> Nat]
      BY UnrefType
    <3>3. /\ Unref(ref, {mailbox})[b]
               = IF b = mailbox /\ ref[b] > 0 THEN ref[b] - 1 ELSE ref[b]
          /\ ref'[b] = IF b = push.buf THEN Unref(ref, {mailbox})[b] + 1
                                       ELSE Unref(ref, {mailbox})[b]
      BY <2>4, <3>1, <3>2, UnrefIs, RefOfIs DEF Deposit
    <3>4. CASE push.stale
      <4>1. b \notin risk /\ b # push.buf /\ (Dangling => b # mailbox)
        BY <2>4, <3>1, <3>4, NoBufAssumption DEF Risked
      <4> QED
        BY <1>a, <2>1, <2>2, <2>4, <3>3, <4>1 DEF Held, One, Dangling
    <3>5. CASE ~push.stale
      <4>1. b \notin risk /\ ~Dangling
        BY <2>1, <2>4, <3>5 DEF Risked, Fresh, Order, Stopping, Dangling
      <4> QED
        BY <1>a, <2>1, <2>2, <2>4, <3>3, <4>1 DEF Fresh, Held, One, Dangling
    <3> QED
      BY <3>4, <3>5
  <2> QED
    BY <1>20, <2>3, <2>4 DEF PushMailbox
<1>21. CASE PushImport
  <2>1. shown' = shown \cup {push.buf} /\ push'.at = "idle" /\ push.at # "idle"
    BY <1>21 DEF PushImport, Submit, NotPushing
  <2>2. work' = work /\ mailbox' = mailbox /\ at' = at /\ push.buf \in Buf
    BY <1>21, <2>1 DEF PushImport
  <2>3. CASE UNCHANGED <<enc, ref, risk>>
    BY <1>a, <2>1, <2>2, <2>3 DEF Fresh, Held, One, Dangling
  <2>4. CASE enc' = enc \cup {push.buf} /\ ref' = RefOf(ref, push.buf) /\ UNCHANGED risk
    <3>1. ref'[b] = IF b = push.buf THEN ref[b] + 1 ELSE ref[b]
      BY <2>2, <2>4, RefOfIs
    <3> QED
      BY <1>a, <2>1, <2>2, <2>4, <3>1 DEF Fresh, Held, One, Dangling
  <2>5. CASE /\ ~HasSrc /\ ref' = RefOf(ref, push.buf)
             /\ risk' = Risked({push.buf}) /\ UNCHANGED enc
    <3>1. push.stale
      BY <2>1, <2>5 DEF Fresh, Order, HasSrc
    <3>2. b # push.buf /\ b \notin risk
      BY <2>2, <2>5, <3>1, NoBufAssumption DEF Risked
    <3>3. ref'[b] = ref[b]
      BY <2>2, <2>5, <3>2, RefOfIs
    <3> QED
      BY <1>a, <2>1, <2>2, <2>5, <3>2, <3>3 DEF Held, One, Dangling
  <2> QED
    BY <1>21, <2>3, <2>4, <2>5 DEF PushImport
<1>22. CASE WorkerTake
  <2>1. /\ push' = push /\ work = NoBuf /\ work' = mailbox /\ mailbox' = NoBuf
        /\ enc' = enc /\ shown' = shown /\ ref' = ref /\ risk' = risk /\ at' = at
    BY <1>22 DEF WorkerTake
  <2>2. at # "clear"
    BY <1>22 DEF WorkerTake, Order, Stopping
  <2> QED
    BY <1>a, <2>1, <2>2, NoBufAssumption DEF Held, One, Dangling
<1>23. CASE WorkerScale
  <2>1. /\ push' = push /\ work' = NoBuf /\ mailbox' = mailbox
        /\ enc' = enc /\ shown' = shown /\ risk' = risk /\ at' = at
    BY <1>23 DEF WorkerScale
  <2>2. ref'[b] = IF b = work /\ ref[b] > 0 THEN ref[b] - 1 ELSE ref[b]
    BY <1>23, UnrefIs DEF WorkerScale
  <2> QED
    BY <1>a, <2>1, <2>2, NoBufAssumption DEF Held, One, Dangling
<1>24. CASE WorkerExit
  BY <1>24, <1>a DEF WorkerExit, main, pins, Held, One, Dangling
<1>25. CASE Coded
  <2>1. /\ push' = push /\ work' = work /\ mailbox' = mailbox
        /\ shown' = shown /\ risk' = risk /\ at' = at
    BY <1>25 DEF Coded
  <2>2. CASE UNCHANGED <<enc, ref>>
    BY <1>a, <2>1, <2>2 DEF Held, One, Dangling
  <2>3. ASSUME NEW c \in enc, enc' = enc \ {c}, ref' = Unref(ref, {c})
        PROVE  ref'[b] = Held(b)'
    <3>1. ref'[b] = IF b = c /\ ref[b] > 0 THEN ref[b] - 1 ELSE ref[b]
      BY <2>3, UnrefIs
    <3> QED
      BY <1>a, <2>1, <2>3, <3>1 DEF Held, One, Dangling
  <2> QED
    BY <1>25, <2>2, <2>3 DEF Coded
<1>26. CASE EncoderFails
  BY <1>26, <1>a DEF EncoderFails, main, pins, Held, One, Dangling
<1>27. ASSUME NEW c \in Buf, Compose(c) PROVE ref'[b] = Held(b)'
  <2>1. /\ ref[c] = 0 /\ Held(c) = 0 /\ push.at = "idle"
        /\ work' = work /\ mailbox' = mailbox /\ enc' = enc /\ at' = at
        /\ risk' = risk \ {c}
    BY <1>27 DEF Compose
  <2>2. ref'[b] = IF b = c THEN ref[b] + 1 ELSE ref[b]
    BY <1>27, RefOfIs DEF Compose
  <2>3. ref[b] = Held(b)
    BY <1>a, <2>1
  <2>4. \/ push'.at # "idle" /\ push'.buf = c /\ shown' = shown
        \/ push' = push /\ shown' = shown \cup {c} /\ c \notin shown
    BY <1>27, <2>1 DEF Compose, Held, One
  <2> QED
    BY <2>1, <2>2, <2>3, <2>4 DEF Held, One, Dangling
<1>28. ASSUME NEW c \in Buf, Shown(c) PROVE ref'[b] = Held(b)'
  <2>1. /\ push' = push /\ work' = work /\ mailbox' = mailbox /\ enc' = enc
        /\ c \in shown /\ shown' = shown \ {c} /\ risk' = risk /\ at' = at
    BY <1>28 DEF Shown
  <2>2. ref'[b] = IF b = c /\ ref[b] > 0 THEN ref[b] - 1 ELSE ref[b]
    BY <1>28, UnrefIs DEF Shown
  <2> QED
    BY <1>a, <2>1, <2>2 DEF Held, One, Dangling
<1>29. CASE UNCHANGED vars
  BY <1>29, <1>a DEF vars, main, pins, Held, One, Dangling
<1> QED
  BY <1>1, <1>2, <1>3, <1>4, <1>5, <1>6, <1>7, <1>8, <1>9, <1>10, <1>11, <1>12, <1>13, <1>14, <1>15, <1>16, <1>17, <1>18, <1>19, <1>20, <1>21, <1>22, <1>23, <1>24, <1>25, <1>26, <1>27, <1>28, <1>29 DEF Next, MainStep, PushStep, WorkerStep

LEMMA InitInv == Init => IInv
<1> SUFFICES ASSUME Init PROVE IInv
  OBVIOUS
<1> USE RecorderAssumption, NoBufAssumption DEF Init
<1>1. TypeOK
  <2>1. Flags
    BY DEF Flags
  <2>2. Stages
    BY DEF Stages
  <2>3. push \in [at : {"idle", "checked", "room"}, buf : Buf \cup {NoBuf}, stale : BOOLEAN]
    BY DEF NotPushing
  <2>4. Pins
    BY <2>3 DEF Pins, NotPushing
  <2> QED
    BY <2>1, <2>2, <2>4, TypeParts
<1>2. Order /\ Leftover /\ Yield
  BY DEF Order, Leftover, Yield, StreamYields, Stopping
<1>3. Fresh /\ PinsAccounted
  BY DEF Fresh, PinsAccounted, Held, One, NotPushing, Dangling
<1> QED
  BY <1>1, <1>2, <1>3 DEF IInv

LEMMA AlwaysInv == Spec => []IInv
<1>1. IInv /\ [Next]_vars => IInv'
  BY TypeStep, OrderStep, FreshStep, LeftoverStep, YieldStep, AccountStep DEF IInv
<1> QED
  BY <1>1, InitInv, PTL DEF Spec

(* Every variable keeps its type, in particular no reference count and no    *)
(* count of the encoder's scaled buffers leaves its range.                   *)
THEOREM TypesKept == Spec => []TypeOK
  BY AlwaysInv, PTL DEF IInv

(* For any pool and any encoder: of the frames no put carried across a stop, *)
(* each reference is held by exactly one of push, mailbox, worker, encoder   *)
(* and display (rec_push, rec_scale_one, rec_scale_worker, rec_stop).        *)
THEOREM PinsAlwaysAccounted == Spec => []PinsAccounted
  BY AlwaysInv, PTL DEF IInv

(* While a clip plays, the encoder runs for a recording or not at all        *)
(* (playback_play, resume_live, rec_toggle, rtsp_set).                       *)
THEOREM StreamAlwaysYields == Spec => []StreamYields
  BY AlwaysInv, PTL DEF IInv, Yield

=============================================================================
