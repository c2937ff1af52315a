--------------------------- MODULE DisplayProofs ---------------------------
(***************************************************************************)
(* Proofs about Display: the pool is whole and no buffer the DC fetches is *)
(* in it, for any pool, any number of edges the sleeps last and any space  *)
(* the driver has for events.                                              *)
(***************************************************************************)
EXTENDS Display, TLAPS

Running == life \in {"up", "stopping"}

(* Where the threads are against how far the shutdown is, and the driver's
   reservation for the flip in flight.                                     *)
Threads ==
  /\ flying # "none" => Queued < EventSpace
  /\ life \in {"parked", "removed", "down", "closed"} => pc = "gone"
  /\ life = "up" => pc # "gone"
  /\ pc \in {"light", "lit"} <=> inHand # None
  /\ pc = "light" => ~modeset
  /\ pc = "lit" => modeset /\ front = None /\ prev = None
  /\ ~modeset => pending = None /\ front = None /\ prev = None
  /\ life \in {"down", "closed"} => pending = None /\ front = None /\ prev = None
  /\ life = "closed" => comp = "compose" /\ (modeset => next = None)
  /\ life = "down" /\ modeset /\ next # None => comp = "submit"
  /\ pc = "blank" => sleep <= SplashEdges
  /\ life = "parked" => sleep <= ParkEdges

(* The frame last given to the panel, and the frame last given to the DC. *)
Front == IF pc = "lit" THEN inHand ELSE front

Top == IF pending # None THEN pending ELSE IF Front # None THEN Front ELSE Idle

InFlight == flying = "own" \/ events["own"] > 0

(* Each flip has one completion, and pending_it stands for it. *)
OneFlip ==
  /\ events["own"] <= 1
  /\ flying = "own" => events["own"] = 0
  /\ Running /\ pending = None => ~InFlight
  /\ life = "parked" /\ pending = None => ~InFlight
  /\ life \in {"removed", "down", "closed"} => flying # "own"
  /\ life = "parked" /\ flying = "own" =>
       sleep = ParkEdges \/ (sleep = ParkEdges - 1 /\ edge)

(* What the DC fetches while frames are shown: the frame two flips back only
   before the next edge, and not once the next flip has completed.         *)
Shown ==
  Running /\ pc # "blank" =>
    /\ armed = Top
    /\ scan \in {Idle, pending, Front, prev}
    /\ scan = prev => ~edge /\ (pending = None \/ flying = "own")
    /\ events["own"] > 0 /\ edge => scan = pending

(* ... while the splash is on its way to the panel ... *)
Blanking ==
  Running /\ pc = "blank" =>
    /\ armed = Idle /\ ~InFlight
    /\ scan \in {Idle, pending, front, prev}
    /\ sleep < SplashEdges => scan = Idle

(* ... and while the display goes down. *)
Parking ==
  /\ life = "parked" =>
       /\ armed = Idle
       /\ scan \in {Idle, pending, front, prev}
       /\ sleep < ParkEdges => scan = Idle
  /\ life \in {"removed", "down", "closed"} => armed = Idle /\ scan = Idle

Scanout == ~crossed => OneFlip /\ Shown /\ Blanking /\ Parking

IInv == TypeOK /\ PoolWhole /\ Threads /\ Scanout

-----------------------------------------------------------------------------
(* Every step keeps the types; a flip that completes finds room, since the driver reserved it. *)
LEMMA TypeStep == IInv /\ [Next]_vars => TypeOK'
<1> SUFFICES ASSUME IInv, [Next]_vars PROVE TypeOK'
  OBVIOUS
<1> USE DisplayAssumption DEF IInv, TypeOK, Tokens, Queued, Threads
<1>1. CASE \E f \in Frames : Park(f)
  BY <1>1 DEF Park, slots, flags, dc
<1>2. CASE SubmitParked
  <2>1. CASE FlipOut
    <3>1. crossed' \in BOOLEAN
      BY <2>1, Zenon DEF FlipOut
    <3> QED
      BY <1>2, <2>1, <3>1 DEF SubmitParked, FlipOut, Ready, Accepted
  <2>2. CASE FlipRefused
    <3>1. free' \subseteq Frames
      BY <2>2 DEF FlipRefused, Ready
    <3>2. /\ showIdle' \in BOOLEAN /\ idleShown' \in BOOLEAN /\ modeset' \in BOOLEAN
          /\ edge' \in BOOLEAN /\ crossed' \in BOOLEAN
      BY <2>2 DEF FlipRefused, dc
    <3>3. pending' = pending /\ next' = None
      BY <2>2 DEF FlipRefused
    <3> QED
      BY <1>2, <2>2, <3>1, <3>2, <3>3 DEF SubmitParked, FlipRefused, dc
  <2>3. CASE NoFlip
    BY <1>2, <2>3 DEF SubmitParked, NoFlip, slots, flags, dc
  <2> QED
    BY <1>2, <2>1, <2>2, <2>3 DEF SubmitParked, TrySubmit
<1>3. CASE AskIdle
  BY <1>3 DEF AskIdle, slots, flags, dc
<1>4. CASE FlipEvent
  BY <1>4 DEF FlipEvent, Retire, Tokens, slots, flags, dc
<1>5. CASE Rearm
  <2>1. CASE FlipOut
    <3>1. crossed' \in BOOLEAN
      BY <2>1, Zenon DEF FlipOut
    <3> QED
      BY <1>5, <2>1, <3>1 DEF Rearm, FlipOut, Ready, Accepted
  <2>2. CASE FlipRefused
    <3>1. free' \subseteq Frames
      BY <2>2 DEF FlipRefused, Ready
    <3>2. /\ showIdle' \in BOOLEAN /\ idleShown' \in BOOLEAN /\ modeset' \in BOOLEAN
          /\ edge' \in BOOLEAN /\ crossed' \in BOOLEAN
      BY <2>2 DEF FlipRefused, dc
    <3>3. pending' = pending /\ next' = None
      BY <2>2 DEF FlipRefused
    <3> QED
      BY <1>5, <2>2, <3>1, <3>2, <3>3 DEF Rearm, FlipRefused, dc
  <2>3. CASE NoFlip
    BY <1>5, <2>3 DEF Rearm, NoFlip, slots, flags, dc
  <2> QED
    BY <1>5, <2>1, <2>2, <2>3 DEF Rearm, TrySubmit
<1>6. CASE Pass
  BY <1>6 DEF Pass, Retire, Overdue, slots, flags, dc
<1>7. CASE ShowSplash
  <2>1. crossed' \in BOOLEAN
    BY <1>7, Zenon DEF ShowSplash
  <2>2. armed' \in Frames \cup {Idle, Off}
    BY <1>7 DEF ShowSplash
  <2> QED
    BY <1>7, <2>1, <2>2 DEF ShowSplash, slots, flags
<1>8. CASE SplashOver
  BY <1>8 DEF SplashOver, slots, flags, dc
<1>9. CASE NoteSplash
  BY <1>9 DEF NoteSplash, slots, flags, dc
<1>10. CASE Fallback
  <2>1. CASE FlipOut
    <3>1. crossed' \in BOOLEAN
      BY <2>1, Zenon DEF FlipOut
    <3> QED
      BY <1>10, <2>1, <3>1 DEF Fallback, FlipOut, Ready, Accepted
  <2>2. CASE FlipRefused
    <3>1. free' \subseteq Frames
      BY <2>2 DEF FlipRefused, Ready
    <3>2. /\ showIdle' \in BOOLEAN /\ idleShown' \in BOOLEAN /\ modeset' \in BOOLEAN
          /\ edge' \in BOOLEAN /\ crossed' \in BOOLEAN
      BY <2>2 DEF FlipRefused, dc
    <3>3. pending' = pending /\ next' = None
      BY <2>2 DEF FlipRefused
    <3> QED
      BY <1>10, <2>2, <3>1, <3>2, <3>3 DEF Fallback, FlipRefused, dc
  <2>3. CASE NoFlip
    BY <1>10, <2>3 DEF Fallback, NoFlip, slots, flags, dc
  <2> QED
    BY <1>10, <2>1, <2>2, <2>3 DEF Fallback, TrySubmit
<1>11. CASE TakeFirst
  BY <1>11 DEF TakeFirst, slots, flags, dc
<1>12. CASE Light
  <2>1. CASE pc' = "lit"
    BY <1>12, <2>1 DEF Light
  <2>2. CASE pc' = "poll"
    BY <1>12, <2>2 DEF Light
  <2> QED
    BY <1>12, <2>1, <2>2 DEF Light
<1>13. CASE Lit
  BY <1>13 DEF Lit, slots, flags, dc
<1>14. CASE ThreadEnds
  BY <1>14 DEF ThreadEnds, slots, flags, dc
<1>15. CASE Stop
  BY <1>15 DEF Stop, slots, flags, dc
<1>16. CASE ParkCrtc
  <2>1. crossed' \in BOOLEAN
    BY <1>16, Zenon DEF ParkCrtc
  <2>2. armed' \in Frames \cup {Idle, Off}
    BY <1>16 DEF ParkCrtc
  <2> QED
    BY <1>16, <2>1, <2>2 DEF ParkCrtc, slots, flags
<1>17. CASE RemoveFbs
  BY <1>17 DEF RemoveFbs, slots, flags, dc
<1>18. CASE ReleaseAll
  BY <1>18 DEF ReleaseAll, slots, flags, dc
<1>19. CASE StopDecoders
  BY <1>19 DEF StopDecoders, slots, flags, dc
<1>20. CASE Open
  <2>1. events' \in [Tokens -> Nat] /\ Queued' <= EventSpace
    BY <1>20 DEF Open, NoEvents
  <2>2. /\ showIdle' \in BOOLEAN /\ idleShown' \in BOOLEAN /\ modeset' \in BOOLEAN
        /\ edge' \in BOOLEAN /\ crossed' \in BOOLEAN
    BY <1>20 DEF Open, flags
  <2> QED
    BY <1>20, <2>1, <2>2 DEF Open, slots, flags, dc
<1>21. CASE Restart
  <2>1. events' \in [Tokens -> Nat] /\ Queued' <= EventSpace
    BY <1>21 DEF Restart, NoEvents
  <2>2. /\ showIdle' \in BOOLEAN /\ idleShown' \in BOOLEAN /\ modeset' \in BOOLEAN
        /\ edge' \in BOOLEAN /\ crossed' \in BOOLEAN
    BY <1>21 DEF Restart, flags
  <2> QED
    BY <1>21, <2>1, <2>2 DEF Restart, slots, flags, dc
<1>22. CASE Edge
  BY <1>22 DEF Edge, slots, flags, dc
<1>23. CASE Interrupt
  <2>1. events' \in [Tokens -> Nat] /\ Queued' <= EventSpace
    BY <1>23 DEF Interrupt
  <2>2. /\ showIdle' \in BOOLEAN /\ idleShown' \in BOOLEAN /\ modeset' \in BOOLEAN
        /\ edge' \in BOOLEAN /\ crossed' \in BOOLEAN
    BY <1>23 DEF Interrupt, flags
  <2> QED
    BY <1>23, <2>1, <2>2 DEF Interrupt, slots, flags, dc
<1>24. CASE LoseEvent
  <2>1. events' \in [Tokens -> Nat] /\ Queued' <= EventSpace
    BY <1>24 DEF LoseEvent
  <2>2. /\ showIdle' \in BOOLEAN /\ idleShown' \in BOOLEAN /\ modeset' \in BOOLEAN
        /\ edge' \in BOOLEAN /\ crossed' \in BOOLEAN
    BY <1>24 DEF LoseEvent, flags
  <2> QED
    BY <1>24, <2>1, <2>2 DEF LoseEvent, slots, flags, dc
<1>25. CASE UNCHANGED vars
  BY <1>25 DEF vars, slots, flags, dc
<1> QED
  BY <1>1, <1>2, <1>3, <1>4, <1>5, <1>6, <1>7, <1>8, <1>9, <1>10, <1>11, <1>12, <1>13, <1>14, <1>15, <1>16, <1>17, <1>18, <1>19, <1>20, <1>21, <1>22, <1>23, <1>24, <1>25 DEF Next, DisplayThread, MainThread

(* Every step keeps the threads in step with the shutdown. *)
LEMMA ThreadsStep == IInv /\ [Next]_vars => Threads'
<1> SUFFICES ASSUME IInv, [Next]_vars PROVE Threads'
  OBVIOUS
<1> USE DisplayAssumption DEF IInv, TypeOK, Threads, Tokens, Queued
<1>1. CASE \E f \in Frames : Park(f)
  BY <1>1 DEF Park, slots, flags, dc
<1>2. CASE SubmitParked
  <2>1. CASE FlipOut
    BY <1>2, <2>1 DEF SubmitParked, FlipOut, Ready, Accepted, Queued, slots
  <2>2. CASE FlipRefused
    BY <1>2, <2>2 DEF SubmitParked, FlipRefused, Ready, dc, slots
  <2>3. CASE NoFlip
    BY <1>2, <2>3 DEF SubmitParked, NoFlip, Ready, slots, flags, dc
  <2> QED
    BY <1>2, <2>1, <2>2, <2>3 DEF SubmitParked, TrySubmit
<1>3. CASE AskIdle
  BY <1>3 DEF AskIdle, slots, flags, dc
<1>4. CASE FlipEvent
  BY <1>4 DEF FlipEvent, Retire, Tokens, slots, flags, dc
<1>5. CASE Rearm
  <2>1. CASE FlipOut
    BY <1>5, <2>1 DEF Rearm, FlipOut, Ready, Accepted, Queued, slots
  <2>2. CASE FlipRefused
    BY <1>5, <2>2 DEF Rearm, FlipRefused, Ready, dc, slots
  <2>3. CASE NoFlip
    BY <1>5, <2>3 DEF Rearm, NoFlip, Ready, slots, flags, dc
  <2> QED
    BY <1>5, <2>1, <2>2, <2>3 DEF Rearm, TrySubmit
<1>6. CASE Pass
  BY <1>6 DEF Pass, Retire, Overdue, slots, flags, dc
<1>7. CASE ShowSplash
  BY <1>7 DEF ShowSplash, Overdue, slots, flags, dc
<1>8. CASE SplashOver
  BY <1>8 DEF SplashOver, slots, flags, dc
<1>9. CASE NoteSplash
  BY <1>9 DEF NoteSplash, slots, flags, dc
<1>10. CASE Fallback
  <2>1. CASE FlipOut
    BY <1>10, <2>1 DEF Fallback, FlipOut, Ready, Accepted, Queued, slots
  <2>2. CASE FlipRefused
    BY <1>10, <2>2 DEF Fallback, FlipRefused, Ready, dc, slots
  <2>3. CASE NoFlip
    BY <1>10, <2>3 DEF Fallback, NoFlip, Ready, slots, flags, dc
  <2> QED
    BY <1>10, <2>1, <2>2, <2>3 DEF Fallback, TrySubmit
<1>11. CASE TakeFirst
  BY <1>11 DEF TakeFirst, slots, flags, dc
<1>12. CASE Light
  BY <1>12 DEF Light, slots, flags, dc
<1>13. CASE Lit
  BY <1>13 DEF Lit, slots, flags, dc
<1>14. CASE ThreadEnds
  BY <1>14 DEF ThreadEnds, slots, flags, dc
<1>15. CASE Stop
  BY <1>15 DEF Stop, slots, flags, dc
<1>16. CASE ParkCrtc
  BY <1>16 DEF ParkCrtc, slots, flags, dc
<1>17. CASE RemoveFbs
  BY <1>17 DEF RemoveFbs, slots, flags, dc
<1>18. CASE ReleaseAll
  BY <1>18 DEF ReleaseAll, slots, flags, dc
<1>19. CASE StopDecoders
  BY <1>19 DEF StopDecoders, slots, flags, dc
<1>20. CASE Open
  BY <1>20 DEF Open, NoEvents, Tokens, slots, flags, dc
<1>21. CASE Restart
  BY <1>21 DEF Restart, NoEvents, Tokens, Queued, slots, flags, dc
<1>22. CASE Edge
  BY <1>22 DEF Edge, slots, flags, dc
<1>23. CASE Interrupt
  BY <1>23 DEF Interrupt, slots, flags, dc
<1>24. CASE LoseEvent
  BY <1>24 DEF LoseEvent, slots, flags, dc
<1>25. CASE UNCHANGED vars
  BY <1>25 DEF vars, slots, flags, dc
<1> QED
  BY <1>1, <1>2, <1>3, <1>4, <1>5, <1>6, <1>7, <1>8, <1>9, <1>10, <1>11, <1>12, <1>13, <1>14, <1>15, <1>16, <1>17, <1>18, <1>19, <1>20, <1>21, <1>22, <1>23, <1>24, <1>25 DEF Next, DisplayThread, MainThread

(* No step loses a frame or hands one out twice. *)
LEMMA PoolStep == IInv /\ [Next]_vars => PoolWhole'
<1> SUFFICES ASSUME IInv, [Next]_vars PROVE PoolWhole'
  OBVIOUS
<1> USE DisplayAssumption DEF IInv, TypeOK, Threads, PoolWhole, Held
<1>1. CASE \E f \in Frames : Park(f)
  BY <1>1 DEF Park, slots, flags, dc
<1>2. CASE SubmitParked
  <2>1. CASE FlipOut
    BY <1>2, <2>1 DEF SubmitParked, FlipOut, Ready, Accepted, Queued, slots
  <2>2. CASE FlipRefused
    BY <1>2, <2>2 DEF SubmitParked, FlipRefused, Ready, dc, slots
  <2>3. CASE NoFlip
    BY <1>2, <2>3 DEF SubmitParked, NoFlip, Ready, slots, flags, dc
  <2> QED
    BY <1>2, <2>1, <2>2, <2>3 DEF SubmitParked, TrySubmit
<1>3. CASE AskIdle
  BY <1>3 DEF AskIdle, slots, flags, dc
<1>4. CASE FlipEvent
  BY <1>4 DEF FlipEvent, Retire, Tokens, slots, flags, dc
<1>5. CASE Rearm
  <2>1. CASE FlipOut
    BY <1>5, <2>1 DEF Rearm, FlipOut, Ready, Accepted, Queued, slots
  <2>2. CASE FlipRefused
    BY <1>5, <2>2 DEF Rearm, FlipRefused, Ready, dc, slots
  <2>3. CASE NoFlip
    BY <1>5, <2>3 DEF Rearm, NoFlip, Ready, slots, flags, dc
  <2> QED
    BY <1>5, <2>1, <2>2, <2>3 DEF Rearm, TrySubmit
<1>6. CASE Pass
  BY <1>6 DEF Pass, Retire, Overdue, slots, flags, dc
<1>7. CASE ShowSplash
  BY <1>7 DEF ShowSplash, Overdue, slots, flags, dc
<1>8. CASE SplashOver
  BY <1>8 DEF SplashOver, slots, flags, dc
<1>9. CASE NoteSplash
  BY <1>9 DEF NoteSplash, slots, flags, dc
<1>10. CASE Fallback
  <2>1. CASE FlipOut
    BY <1>10, <2>1 DEF Fallback, FlipOut, Ready, Accepted, Queued, slots
  <2>2. CASE FlipRefused
    BY <1>10, <2>2 DEF Fallback, FlipRefused, Ready, dc, slots
  <2>3. CASE NoFlip
    BY <1>10, <2>3 DEF Fallback, NoFlip, Ready, slots, flags, dc
  <2> QED
    BY <1>10, <2>1, <2>2, <2>3 DEF Fallback, TrySubmit
<1>11. CASE TakeFirst
  BY <1>11 DEF TakeFirst, slots, flags, dc
<1>12. CASE Light
  BY <1>12 DEF Light, slots, flags, dc
<1>13. CASE Lit
  BY <1>13 DEF Lit, slots, flags, dc
<1>14. CASE ThreadEnds
  BY <1>14 DEF ThreadEnds, slots, flags, dc
<1>15. CASE Stop
  BY <1>15 DEF Stop, slots, flags, dc
<1>16. CASE ParkCrtc
  BY <1>16 DEF ParkCrtc, slots, flags, dc
<1>17. CASE RemoveFbs
  BY <1>17 DEF RemoveFbs, slots, flags, dc
<1>18. CASE ReleaseAll
  BY <1>18 DEF ReleaseAll, slots, flags, dc
<1>19. CASE StopDecoders
  BY <1>19 DEF StopDecoders, slots, flags, dc
<1>20. CASE Open
  BY <1>20 DEF Open, NoEvents, Tokens, slots, flags, dc
<1>21. CASE Restart
  BY <1>21 DEF Restart, NoEvents, Tokens, Queued, slots, flags, dc
<1>22. CASE Edge
  BY <1>22 DEF Edge, slots, flags, dc
<1>23. CASE Interrupt
  BY <1>23 DEF Interrupt, slots, flags, dc
<1>24. CASE LoseEvent
  BY <1>24 DEF LoseEvent, slots, flags, dc
<1>25. CASE UNCHANGED vars
  BY <1>25 DEF vars, slots, flags, dc
<1> QED
  BY <1>1, <1>2, <1>3, <1>4, <1>5, <1>6, <1>7, <1>8, <1>9, <1>10, <1>11, <1>12, <1>13, <1>14, <1>15, <1>16, <1>17, <1>18, <1>19, <1>20, <1>21, <1>22, <1>23, <1>24, <1>25 DEF Next, DisplayThread, MainThread

(* The history of a crossing is only forgotten by a restart. *)
LEMMA CrossedStays == IInv /\ [Next]_vars /\ ~crossed' => ~crossed \/ Restart
<1> SUFFICES ASSUME IInv, [Next]_vars, ~crossed', ~Restart PROVE ~crossed
  OBVIOUS
<1>1. CASE \E f \in Frames : Park(f)
  <2>1. PICK f \in Frames : Park(f)
    BY <1>1
  <2> QED
    BY <2>1, Zenon DEF Park
<1>2. CASE SubmitParked
  BY <1>2, Zenon DEF SubmitParked, TrySubmit, FlipOut, FlipRefused, NoFlip
<1>3. CASE AskIdle
  BY <1>3, Zenon DEF AskIdle
<1>4. CASE FlipEvent
  BY <1>4, Zenon DEF FlipEvent
<1>5. CASE Rearm
  BY <1>5, Zenon DEF Rearm, TrySubmit, FlipOut, FlipRefused, NoFlip
<1>6. CASE Pass
  BY <1>6, Zenon DEF Pass
<1>7. CASE ShowSplash
  BY <1>7, Zenon DEF ShowSplash
<1>8. CASE SplashOver
  BY <1>8, Zenon DEF SplashOver
<1>9. CASE NoteSplash
  BY <1>9, Zenon DEF NoteSplash
<1>10. CASE Fallback
  BY <1>10, Zenon DEF Fallback, TrySubmit, FlipOut, FlipRefused, NoFlip
<1>11. CASE TakeFirst
  BY <1>11, Zenon DEF TakeFirst
<1>12. CASE Light
  BY <1>12, Zenon DEF Light
<1>13. CASE Lit
  BY <1>13, Zenon DEF Lit
<1>14. CASE ThreadEnds
  BY <1>14, Zenon DEF ThreadEnds
<1>15. CASE Stop
  BY <1>15, Zenon DEF Stop
<1>16. CASE ParkCrtc
  BY <1>16, Zenon DEF ParkCrtc
<1>17. CASE RemoveFbs
  BY <1>17, Zenon DEF RemoveFbs
<1>18. CASE ReleaseAll
  BY <1>18, Zenon DEF ReleaseAll
<1>19. CASE StopDecoders
  BY <1>19, Zenon DEF StopDecoders
<1>20. CASE Open
  BY <1>20, Zenon DEF Open
<1>21. CASE Restart
  BY <1>21
<1>22. CASE Edge
  BY <1>22, Zenon DEF Edge
<1>23. CASE Interrupt
  BY <1>23, Zenon DEF Interrupt
<1>24. CASE LoseEvent
  BY <1>24, Zenon DEF LoseEvent
<1>25. CASE UNCHANGED vars
  BY <1>25 DEF vars
<1> QED
  BY <1>1, <1>2, <1>3, <1>4, <1>5, <1>6, <1>7, <1>8, <1>9, <1>10, <1>11, <1>12, <1>13, <1>14, <1>15, <1>16, <1>17, <1>18, <1>19, <1>20, <1>21, <1>22, <1>23, <1>24, <1>25 DEF Next, DisplayThread, MainThread

(* Each flip goes on having one completion. *)
LEMMA OneFlipStep ==
  IInv /\ OneFlip /\ Shown /\ Blanking /\ Parking /\ ~crossed' /\ [Next]_vars => OneFlip'
<1> SUFFICES ASSUME IInv, OneFlip, Shown, Blanking, Parking, ~crossed', [Next]_vars
             PROVE  OneFlip'
  OBVIOUS
<1> USE DisplayAssumption DEF IInv, TypeOK, Threads, Tokens, Queued, Running, InFlight, OneFlip, Blanking
<1>1. CASE \E f \in Frames : Park(f)
  BY <1>1 DEF Park, slots, flags, dc
<1>2. CASE SubmitParked
  <2>1. CASE FlipOut
    <3>1. pc # "blank" /\ life # "parked"
      BY <2>1, Zenon DEF FlipOut
    <3> QED
      BY <1>2, <2>1, <3>1 DEF SubmitParked, FlipOut, Ready, Accepted
  <2>2. CASE FlipRefused
    BY <1>2, <2>2 DEF SubmitParked, FlipRefused, Ready, dc
  <2>3. CASE NoFlip
    BY <1>2, <2>3 DEF SubmitParked, NoFlip, slots, dc
  <2> QED
    BY <1>2, <2>1, <2>2, <2>3 DEF SubmitParked, TrySubmit
<1>3. CASE AskIdle
  BY <1>3 DEF AskIdle, slots, flags, dc
<1>4. CASE FlipEvent
  BY <1>4 DEF FlipEvent, Retire, Tokens, slots, flags, dc
<1>5. CASE Rearm
  <2>1. CASE FlipOut
    <3>1. pc # "blank" /\ life # "parked"
      BY <2>1, Zenon DEF FlipOut
    <3> QED
      BY <1>5, <2>1, <3>1 DEF Rearm, FlipOut, Ready, Accepted
  <2>2. CASE FlipRefused
    BY <1>5, <2>2 DEF Rearm, FlipRefused, Ready, dc
  <2>3. CASE NoFlip
    BY <1>5, <2>3 DEF Rearm, NoFlip, slots, dc
  <2> QED
    BY <1>5, <2>1, <2>2, <2>3 DEF Rearm, TrySubmit
<1>6. CASE Pass
  BY <1>6 DEF Pass, Retire, Overdue, slots, flags, dc
<1>7. CASE ShowSplash
  BY <1>7 DEF ShowSplash, Overdue, slots, flags, dc
<1>8. CASE SplashOver
  BY <1>8 DEF SplashOver, slots, flags, dc
<1>9. CASE NoteSplash
  BY <1>9 DEF NoteSplash, slots, flags, dc
<1>10. CASE Fallback
  <2>1. CASE FlipOut
    <3>1. pc # "blank" /\ life # "parked"
      BY <2>1, Zenon DEF FlipOut
    <3> QED
      BY <1>10, <2>1, <3>1 DEF Fallback, FlipOut, Ready, Accepted
  <2>2. CASE FlipRefused
    BY <1>10, <2>2 DEF Fallback, FlipRefused, Ready, dc
  <2>3. CASE NoFlip
    BY <1>10, <2>3 DEF Fallback, NoFlip, slots, dc
  <2> QED
    BY <1>10, <2>1, <2>2, <2>3 DEF Fallback, TrySubmit
<1>11. CASE TakeFirst
  BY <1>11 DEF TakeFirst, slots, flags, dc
<1>12. CASE Light
  BY <1>12 DEF Light, slots, flags, dc
<1>13. CASE Lit
  BY <1>13 DEF Lit, slots, flags, dc
<1>14. CASE ThreadEnds
  BY <1>14 DEF ThreadEnds, slots, flags, dc
<1>15. CASE Stop
  BY <1>15 DEF Stop, slots, flags, dc
<1>16. CASE ParkCrtc
  BY <1>16 DEF ParkCrtc, slots, flags, dc
<1>17. CASE RemoveFbs
  BY <1>17 DEF RemoveFbs, slots, flags, dc
<1>18. CASE ReleaseAll
  BY <1>18 DEF ReleaseAll, slots, flags, dc
<1>19. CASE StopDecoders
  BY <1>19 DEF StopDecoders, slots, flags, dc
<1>20. CASE Open
  BY <1>20 DEF Open, NoEvents, Tokens, slots, flags, dc
<1>21. CASE Restart
  BY <1>21 DEF Restart, NoEvents, Tokens, Queued, slots, flags, dc
<1>22. CASE Edge
  BY <1>22 DEF Edge, slots, flags, dc
<1>23. CASE Interrupt
  BY <1>23 DEF Interrupt, slots, flags, dc
<1>24. CASE LoseEvent
  BY <1>24 DEF LoseEvent, slots, flags, dc
<1>25. CASE UNCHANGED vars
  BY <1>25 DEF vars, slots, flags, dc
<1> QED
  BY <1>1, <1>2, <1>3, <1>4, <1>5, <1>6, <1>7, <1>8, <1>9, <1>10, <1>11, <1>12, <1>13, <1>14, <1>15, <1>16, <1>17, <1>18, <1>19, <1>20, <1>21, <1>22, <1>23, <1>24, <1>25 DEF Next, DisplayThread, MainThread

(* What the DC fetches while frames are shown stays in the slots. *)
LEMMA ShownStep ==
  IInv /\ OneFlip /\ Shown /\ Blanking /\ Parking /\ ~crossed' /\ [Next]_vars => Shown'
<1> SUFFICES ASSUME IInv, OneFlip, Shown, Blanking, Parking, ~crossed', [Next]_vars
             PROVE  Shown'
  OBVIOUS
<1> USE DisplayAssumption DEF IInv, TypeOK, Threads, Tokens, Queued, Running, InFlight, OneFlip, Shown, Blanking, Parking, Top, Front
<1>1. CASE \E f \in Frames : Park(f)
  BY <1>1 DEF Park, slots, flags, dc
<1>2. CASE SubmitParked
  <2>1. CASE FlipOut
    <3>1. pc # "blank" /\ life # "parked"
      BY <2>1, Zenon DEF FlipOut
    <3> QED
      BY <1>2, <2>1, <3>1 DEF SubmitParked, FlipOut, Ready, Accepted
  <2>2. CASE FlipRefused
    BY <1>2, <2>2 DEF SubmitParked, FlipRefused, Ready, dc
  <2>3. CASE NoFlip
    BY <1>2, <2>3 DEF SubmitParked, NoFlip, slots, dc
  <2> QED
    BY <1>2, <2>1, <2>2, <2>3 DEF SubmitParked, TrySubmit
<1>3. CASE AskIdle
  BY <1>3 DEF AskIdle, slots, flags, dc
<1>4. CASE FlipEvent
  <2>1. CASE Retire("own") /\ events["own"] > 0 /\ pc' = "rearm"
    <3>1. pending # None /\ armed = pending /\ pending # front /\ scan # prev
      BY <1>4, <2>1 DEF FlipEvent, PoolWhole, slots
    <3>2. pending' = None /\ front' = pending /\ prev' = front
      BY <2>1 DEF Retire
    <3> QED
      BY <1>4, <2>1, <3>1, <3>2 DEF FlipEvent
  <2>2. CASE Retire("stale") /\ events["own"]' = events["own"] /\ pc' = "poll"
    <3>1. UNCHANGED <<free, prev, front, pending>>
      BY <2>2 DEF Retire
    <3> QED
      BY <1>4, <2>2, <3>1 DEF FlipEvent
  <2> QED
    BY <1>4, <2>1, <2>2 DEF FlipEvent
<1>5. CASE Rearm
  <2>1. CASE FlipOut
    <3>1. pc # "blank" /\ life # "parked"
      BY <2>1, Zenon DEF FlipOut
    <3> QED
      BY <1>5, <2>1, <3>1 DEF Rearm, FlipOut, Ready, Accepted
  <2>2. CASE FlipRefused
    BY <1>5, <2>2 DEF Rearm, FlipRefused, Ready, dc
  <2>3. CASE NoFlip
    BY <1>5, <2>3 DEF Rearm, NoFlip, slots, dc
  <2> QED
    BY <1>5, <2>1, <2>2, <2>3 DEF Rearm, TrySubmit
<1>6. CASE Pass
  BY <1>6 DEF Pass, Retire, Overdue, slots, flags, dc
<1>7. CASE ShowSplash
  BY <1>7 DEF ShowSplash, Overdue, slots, flags, dc
<1>8. CASE SplashOver
  BY <1>8 DEF SplashOver, slots, flags, dc
<1>9. CASE NoteSplash
  BY <1>9 DEF NoteSplash, slots, flags, dc
<1>10. CASE Fallback
  <2>1. CASE FlipOut
    <3>1. pc # "blank" /\ life # "parked"
      BY <2>1, Zenon DEF FlipOut
    <3> QED
      BY <1>10, <2>1, <3>1 DEF Fallback, FlipOut, Ready, Accepted
  <2>2. CASE FlipRefused
    BY <1>10, <2>2 DEF Fallback, FlipRefused, Ready, dc
  <2>3. CASE NoFlip
    BY <1>10, <2>3 DEF Fallback, NoFlip, slots, dc
  <2> QED
    BY <1>10, <2>1, <2>2, <2>3 DEF Fallback, TrySubmit
<1>11. CASE TakeFirst
  BY <1>11 DEF TakeFirst, slots, flags, dc
<1>12. CASE Light
  BY <1>12 DEF Light, slots, flags, dc
<1>13. CASE Lit
  BY <1>13 DEF Lit, slots, flags, dc
<1>14. CASE ThreadEnds
  BY <1>14 DEF ThreadEnds, slots, flags, dc
<1>15. CASE Stop
  BY <1>15 DEF Stop, slots, flags, dc
<1>16. CASE ParkCrtc
  BY <1>16 DEF ParkCrtc, slots, flags, dc
<1>17. CASE RemoveFbs
  BY <1>17 DEF RemoveFbs, slots, flags, dc
<1>18. CASE ReleaseAll
  BY <1>18 DEF ReleaseAll, slots, flags, dc
<1>19. CASE StopDecoders
  BY <1>19 DEF StopDecoders, slots, flags, dc
<1>20. CASE Open
  BY <1>20 DEF Open, NoEvents, Tokens, slots, flags, dc
<1>21. CASE Restart
  BY <1>21 DEF Restart, NoEvents, Tokens, Queued, slots, flags, dc
<1>22. CASE Edge
  <2>1. armed # prev
    BY DEF PoolWhole, slots
  <2> QED
    BY <1>22, <2>1 DEF Edge, slots, flags, dc
<1>23. CASE Interrupt
  BY <1>23 DEF Interrupt, slots, flags, dc
<1>24. CASE LoseEvent
  BY <1>24 DEF LoseEvent, slots, flags, dc
<1>25. CASE UNCHANGED vars
  BY <1>25 DEF vars, slots, flags, dc
<1> QED
  BY <1>1, <1>2, <1>3, <1>4, <1>5, <1>6, <1>7, <1>8, <1>9, <1>10, <1>11, <1>12, <1>13, <1>14, <1>15, <1>16, <1>17, <1>18, <1>19, <1>20, <1>21, <1>22, <1>23, <1>24, <1>25 DEF Next, DisplayThread, MainThread

(* ... while the splash is on its way ... *)
LEMMA BlankingStep ==
  IInv /\ OneFlip /\ Shown /\ Blanking /\ Parking /\ ~crossed' /\ [Next]_vars => Blanking'
<1> SUFFICES ASSUME IInv, OneFlip, Shown, Blanking, Parking, ~crossed', [Next]_vars
             PROVE  Blanking'
  OBVIOUS
<1> USE DisplayAssumption DEF IInv, TypeOK, Threads, Tokens, Queued, Running, InFlight, OneFlip, Shown, Blanking, Top, Front
<1>1. CASE \E f \in Frames : Park(f)
  BY <1>1 DEF Park, slots, flags, dc
<1>2. CASE SubmitParked
  <2>1. CASE FlipOut
    <3>1. pc # "blank" /\ life # "parked"
      BY <2>1, Zenon DEF FlipOut
    <3> QED
      BY <1>2, <2>1, <3>1 DEF SubmitParked, FlipOut, Ready, Accepted
  <2>2. CASE FlipRefused
    BY <1>2, <2>2 DEF SubmitParked, FlipRefused, Ready, dc
  <2>3. CASE NoFlip
    BY <1>2, <2>3 DEF SubmitParked, NoFlip, slots, dc
  <2> QED
    BY <1>2, <2>1, <2>2, <2>3 DEF SubmitParked, TrySubmit
<1>3. CASE AskIdle
  BY <1>3 DEF AskIdle, slots, flags, dc
<1>4. CASE FlipEvent
  BY <1>4 DEF FlipEvent, Retire, Tokens, slots, flags, dc
<1>5. CASE Rearm
  <2>1. CASE FlipOut
    <3>1. pc # "blank" /\ life # "parked"
      BY <2>1, Zenon DEF FlipOut
    <3> QED
      BY <1>5, <2>1, <3>1 DEF Rearm, FlipOut, Ready, Accepted
  <2>2. CASE FlipRefused
    BY <1>5, <2>2 DEF Rearm, FlipRefused, Ready, dc
  <2>3. CASE NoFlip
    BY <1>5, <2>3 DEF Rearm, NoFlip, slots, dc
  <2> QED
    BY <1>5, <2>1, <2>2, <2>3 DEF Rearm, TrySubmit
<1>6. CASE Pass
  BY <1>6 DEF Pass, Retire, Overdue, slots, flags, dc
<1>7. CASE ShowSplash
  BY <1>7 DEF ShowSplash, Overdue, slots, flags, dc
<1>8. CASE SplashOver
  BY <1>8 DEF SplashOver, slots, flags, dc
<1>9. CASE NoteSplash
  BY <1>9 DEF NoteSplash, slots, flags, dc
<1>10. CASE Fallback
  <2>1. CASE FlipOut
    <3>1. pc # "blank" /\ life # "parked"
      BY <2>1, Zenon DEF FlipOut
    <3> QED
      BY <1>10, <2>1, <3>1 DEF Fallback, FlipOut, Ready, Accepted
  <2>2. CASE FlipRefused
    BY <1>10, <2>2 DEF Fallback, FlipRefused, Ready, dc
  <2>3. CASE NoFlip
    BY <1>10, <2>3 DEF Fallback, NoFlip, slots, dc
  <2> QED
    BY <1>10, <2>1, <2>2, <2>3 DEF Fallback, TrySubmit
<1>11. CASE TakeFirst
  BY <1>11 DEF TakeFirst, slots, flags, dc
<1>12. CASE Light
  BY <1>12 DEF Light, slots, flags, dc
<1>13. CASE Lit
  BY <1>13 DEF Lit, slots, flags, dc
<1>14. CASE ThreadEnds
  BY <1>14 DEF ThreadEnds, slots, flags, dc
<1>15. CASE Stop
  BY <1>15 DEF Stop, slots, flags, dc
<1>16. CASE ParkCrtc
  BY <1>16 DEF ParkCrtc, slots, flags, dc
<1>17. CASE RemoveFbs
  BY <1>17 DEF RemoveFbs, slots, flags, dc
<1>18. CASE ReleaseAll
  BY <1>18 DEF ReleaseAll, slots, flags, dc
<1>19. CASE StopDecoders
  BY <1>19 DEF StopDecoders, slots, flags, dc
<1>20. CASE Open
  BY <1>20 DEF Open, NoEvents, Tokens, slots, flags, dc
<1>21. CASE Restart
  BY <1>21 DEF Restart, NoEvents, Tokens, Queued, slots, flags, dc
<1>22. CASE Edge
  BY <1>22 DEF Edge, slots, flags, dc
<1>23. CASE Interrupt
  BY <1>23 DEF Interrupt, slots, flags, dc
<1>24. CASE LoseEvent
  BY <1>24 DEF LoseEvent, slots, flags, dc
<1>25. CASE UNCHANGED vars
  BY <1>25 DEF vars, slots, flags, dc
<1> QED
  BY <1>1, <1>2, <1>3, <1>4, <1>5, <1>6, <1>7, <1>8, <1>9, <1>10, <1>11, <1>12, <1>13, <1>14, <1>15, <1>16, <1>17, <1>18, <1>19, <1>20, <1>21, <1>22, <1>23, <1>24, <1>25 DEF Next, DisplayThread, MainThread

(* ... and while the display goes down. *)
LEMMA ParkingStep ==
  IInv /\ OneFlip /\ Shown /\ Blanking /\ Parking /\ ~crossed' /\ [Next]_vars => Parking'
<1> SUFFICES ASSUME IInv, OneFlip, Shown, Blanking, Parking, ~crossed', [Next]_vars
             PROVE  Parking'
  OBVIOUS
<1> USE DisplayAssumption DEF IInv, TypeOK, Threads, Tokens, Queued, Running, InFlight, OneFlip, Shown, Blanking, Parking, Top, Front
<1>1. CASE \E f \in Frames : Park(f)
  BY <1>1 DEF Park, slots, flags, dc
<1>2. CASE SubmitParked
  <2>1. CASE FlipOut
    <3>1. pc # "blank" /\ life # "parked"
      BY <2>1, Zenon DEF FlipOut
    <3> QED
      BY <1>2, <2>1, <3>1 DEF SubmitParked, FlipOut, Ready, Accepted
  <2>2. CASE FlipRefused
    BY <1>2, <2>2 DEF SubmitParked, FlipRefused, Ready, dc
  <2>3. CASE NoFlip
    BY <1>2, <2>3 DEF SubmitParked, NoFlip, slots, dc
  <2> QED
    BY <1>2, <2>1, <2>2, <2>3 DEF SubmitParked, TrySubmit
<1>3. CASE AskIdle
  BY <1>3 DEF AskIdle, slots, flags, dc
<1>4. CASE FlipEvent
  BY <1>4 DEF FlipEvent, Retire, Tokens, slots, flags, dc
<1>5. CASE Rearm
  <2>1. CASE FlipOut
    <3>1. pc # "blank" /\ life # "parked"
      BY <2>1, Zenon DEF FlipOut
    <3> QED
      BY <1>5, <2>1, <3>1 DEF Rearm, FlipOut, Ready, Accepted
  <2>2. CASE FlipRefused
    BY <1>5, <2>2 DEF Rearm, FlipRefused, Ready, dc
  <2>3. CASE NoFlip
    BY <1>5, <2>3 DEF Rearm, NoFlip, slots, dc
  <2> QED
    BY <1>5, <2>1, <2>2, <2>3 DEF Rearm, TrySubmit
<1>6. CASE Pass
  BY <1>6 DEF Pass, Retire, Overdue, slots, flags, dc
<1>7. CASE ShowSplash
  BY <1>7 DEF ShowSplash, Overdue, slots, flags, dc
<1>8. CASE SplashOver
  BY <1>8 DEF SplashOver, slots, flags, dc
<1>9. CASE NoteSplash
  BY <1>9 DEF NoteSplash, slots, flags, dc
<1>10. CASE Fallback
  <2>1. CASE FlipOut
    <3>1. pc # "blank" /\ life # "parked"
      BY <2>1, Zenon DEF FlipOut
    <3> QED
      BY <1>10, <2>1, <3>1 DEF Fallback, FlipOut, Ready, Accepted
  <2>2. CASE FlipRefused
    BY <1>10, <2>2 DEF Fallback, FlipRefused, Ready, dc
  <2>3. CASE NoFlip
    BY <1>10, <2>3 DEF Fallback, NoFlip, slots, dc
  <2> QED
    BY <1>10, <2>1, <2>2, <2>3 DEF Fallback, TrySubmit
<1>11. CASE TakeFirst
  BY <1>11 DEF TakeFirst, slots, flags, dc
<1>12. CASE Light
  BY <1>12 DEF Light, slots, flags, dc
<1>13. CASE Lit
  BY <1>13 DEF Lit, slots, flags, dc
<1>14. CASE ThreadEnds
  BY <1>14 DEF ThreadEnds, slots, flags, dc
<1>15. CASE Stop
  BY <1>15 DEF Stop, slots, flags, dc
<1>16. CASE ParkCrtc
  BY <1>16 DEF ParkCrtc, slots, flags, dc
<1>17. CASE RemoveFbs
  BY <1>17 DEF RemoveFbs, slots, flags, dc
<1>18. CASE ReleaseAll
  BY <1>18 DEF ReleaseAll, slots, flags, dc
<1>19. CASE StopDecoders
  BY <1>19 DEF StopDecoders, slots, flags, dc
<1>20. CASE Open
  BY <1>20 DEF Open, NoEvents, Tokens, slots, flags, dc
<1>21. CASE Restart
  BY <1>21 DEF Restart, NoEvents, Tokens, Queued, slots, flags, dc
<1>22. CASE Edge
  BY <1>22 DEF Edge, slots, flags, dc
<1>23. CASE Interrupt
  BY <1>23 DEF Interrupt, slots, flags, dc
<1>24. CASE LoseEvent
  BY <1>24 DEF LoseEvent, slots, flags, dc
<1>25. CASE UNCHANGED vars
  BY <1>25 DEF vars, slots, flags, dc
<1> QED
  BY <1>1, <1>2, <1>3, <1>4, <1>5, <1>6, <1>7, <1>8, <1>9, <1>10, <1>11, <1>12, <1>13, <1>14, <1>15, <1>16, <1>17, <1>18, <1>19, <1>20, <1>21, <1>22, <1>23, <1>24, <1>25 DEF Next, DisplayThread, MainThread

(* A restart leaves nothing of the old process on the DC. *)
LEMMA RestartClean == IInv /\ Restart => (OneFlip /\ Shown /\ Blanking /\ Parking)'
  BY DisplayAssumption DEF IInv, TypeOK, Tokens, NoEvents, Queued, Restart, Running,
     InFlight, OneFlip, Shown, Blanking, Parking

LEMMA ScanoutStep == IInv /\ [Next]_vars => Scanout'
<1> SUFFICES ASSUME IInv, [Next]_vars, ~crossed'
             PROVE  (OneFlip /\ Shown /\ Blanking /\ Parking)'
  BY DEF Scanout
<1>1. CASE Restart
  BY <1>1, RestartClean
<1>2. CASE ~crossed
  <2>1. OneFlip /\ Shown /\ Blanking /\ Parking
    BY <1>2 DEF IInv, Scanout
  <2> QED
    BY <2>1, OneFlipStep, ShownStep, BlankingStep, ParkingStep
<1> QED
  BY <1>1, <1>2, CrossedStays

-----------------------------------------------------------------------------
LEMMA InitInv == Init => IInv
<1> SUFFICES ASSUME Init PROVE IInv
  OBVIOUS
<1> USE DisplayAssumption DEF Init
<1>1. TypeOK
  <2>1. events \in [Tokens -> Nat] /\ Queued <= EventSpace
    BY DEF NoEvents, Tokens, Queued
  <2>2. flying \in Tokens \cup {"none"} /\ sleep \in 0..(SplashEdges + ParkEdges)
    OBVIOUS
  <2> QED
    BY <2>1, <2>2 DEF TypeOK
<1>2. PoolWhole
  BY DEF PoolWhole, Held, slots
<1>3. Threads
  BY DEF Threads
<1>4. Scanout
  BY DEF Scanout, OneFlip, Shown, Blanking, Parking, Running, InFlight, NoEvents, Tokens
<1> QED
  BY <1>1, <1>2, <1>3, <1>4 DEF IInv

LEMMA AlwaysInv == Spec => []IInv
<1>1. IInv /\ [Next]_vars => IInv'
  BY TypeStep, ThreadsStep, PoolStep, ScanoutStep DEF IInv
<1> QED
  BY <1>1, InitInv, PTL DEF Spec

(* Every variable keeps its type; the driver never keeps more completions
   than it reserved room for (drm_flip_handler).                           *)
THEOREM TypesKept == Spec => []TypeOK
  BY AlwaysInv, PTL DEF IInv

(* Whatever the threads do to each other, no buffer of the composition pool
   is lost or handed out twice (disp_try_submit, drm_disp_submit,
   drm_show_idle, drm_disp_shutdown).                                      *)
THEOREM PoolAlwaysWhole == Spec => []PoolWhole
  BY AlwaysInv, PTL DEF IInv

LEMMA HeldScanout == IInv => ScanoutHeld
<1> SUFFICES ASSUME IInv, ~crossed
             PROVE  armed # Off /\ {armed, scan} \cap free = {}
  BY DEF ScanoutHeld
<1> USE DisplayAssumption DEF IInv, TypeOK
<1>1. OneFlip /\ Shown /\ Blanking /\ Parking
  BY DEF Scanout
<1>2. armed \in Held \cup {Idle} /\ scan \in Held \cup {Idle}
  <2>1. CASE Running /\ pc # "blank"
    BY <1>1, <2>1 DEF Shown, Top, Front, Held, Running
  <2>2. CASE Running /\ pc = "blank"
    BY <1>1, <2>2 DEF Blanking, Held
  <2>3. CASE ~Running
    BY <1>1, <2>3 DEF Parking, Running, Held
  <2> QED
    BY <2>1, <2>2, <2>3
<1>3. Held \cap free = {} /\ Held \subseteq Frames
  BY DEF PoolWhole, Held
<1> QED
  BY <1>2, <1>3

(* Neither what the DC fetches nor what it latches next is ever in the pool
   while no flip crosses a sleep: holding each frame for one flip more makes
   the early completion harmless (drm_flip_handler).                       *)
THEOREM ScanoutAlwaysHeld == Spec => []ScanoutHeld
  BY AlwaysInv, HeldScanout, PTL

=============================================================================
