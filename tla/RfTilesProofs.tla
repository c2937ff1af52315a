--------------------------- MODULE RfTilesProofs ---------------------------
(***************************************************************************)
(* Proofs about RfTiles: types and bounds, that a composite is of one      *)
(* frame and later than the one before, for any pool, window, stagger,     *)
(* queue bound, decoder depth and key frame interval, any number of        *)
(* sessions of any length and any losses -- and how many halves can be     *)
(* without a buffer before their frame is complete, for any pool that is   *)
(* not too small (Ample): as many as a decoder holds beyond what the       *)
(* margin of the pool covers.                                              *)
(***************************************************************************)
EXTENDS RfTiles, FiniteSetTheorems, WellFoundedInduction, TLAPS

Items == Coming(0) \cup Coming(1) \cup slots

(* The frame on the panel, by its half of tile 0. *)
Panel == {shown[1]} \ {None}

Known == Items \cup Panel

(* The tiles of the air stay together, so within a session the FrameId never
   falls by more than the slack.                                           *)
Together ==
  /\ \A t \in Tiles : sent[t] <= sent[1 - t] + Lead + 1
  /\ "pts" \notin waived /\ heard = session => \E t \in Tiles : lastFid < sent[t]

(* A swap joins the receive thread and leaves nothing to pair. *)
Swapped ==
  /\ life # "up" => rx = "recv" /\ swaps < LastSwap
  /\ life = "down" => Items = {}

(* The PTSs of the current session are its epoch and the frame number; those
   of the sessions before it are below.  So a PTS names one frame, and the
   order of the PTSs is the air's order.                                    *)
Numbered(S) ==
  /\ \A a \in S :
       /\ a.session <= heard /\ a.pts <= epoch + top
       /\ a.session = heard => a.pts = epoch + a.fid
       /\ a.session < heard => a.pts < epoch
  /\ \A a, b \in S :
       /\ a.session < b.session => a.pts < b.pts
       /\ a.session = b.session => a.pts - a.fid = b.pts - b.fid

OneEpoch ==
  "pts" \notin waived => (lastFid = -1 => top = -1) /\ Numbered(Known)

-----------------------------------------------------------------------------
(* What an Append adds to the elements of a sequence, and a Head takes. *)
LEMMA Appended ==
  ASSUME NEW S, NEW s \in Seq(S), NEW e \in S
  PROVE  Append(s, e) \in Seq(S) /\ Range(Append(s, e)) = Range(s) \cup {e}
<1>1. /\ Append(s, e) \in Seq(S) /\ Len(Append(s, e)) = Len(s) + 1
      /\ \A i \in 1..Len(s) : Append(s, e)[i] = s[i]
      /\ Append(s, e)[Len(s) + 1] = e
  OBVIOUS
<1>2. DOMAIN Append(s, e) = 1..Len(s) + 1 /\ DOMAIN s = 1..Len(s)
  BY <1>1
<1>3. Range(Append(s, e)) \subseteq Range(s) \cup {e}
  BY <1>1, <1>2 DEF Range
<1>4. Range(s) \subseteq Range(Append(s, e)) /\ e \in Range(Append(s, e))
  BY <1>1, <1>2 DEF Range
<1> QED
  BY <1>1, <1>3, <1>4

LEMMA Headed ==
  ASSUME NEW S, NEW s \in Seq(S), s # <<>>
  PROVE  /\ Head(s) \in S /\ Tail(s) \in Seq(S)
         /\ Head(s) \in Range(s) /\ Range(Tail(s)) \subseteq Range(s)
<1>1. /\ Head(s) \in S /\ Tail(s) \in Seq(S) /\ Head(s) = s[1] /\ Len(s) >= 1
      /\ Len(Tail(s)) = Len(s) - 1 /\ \A i \in 1..Len(s) - 1 : Tail(s)[i] = s[i + 1]
  OBVIOUS
<1>2. DOMAIN s = 1..Len(s) /\ DOMAIN Tail(s) = 1..Len(s) - 1
  BY <1>1
<1>3. Head(s) \in Range(s)
  BY <1>1, <1>2 DEF Range
<1>4. Range(Tail(s)) \subseteq Range(s)
  BY <1>1, <1>2 DEF Range
<1> QED
  BY <1>1, <1>3, <1>4

(* A push keeps the types of the decoders' inputs and adds one AU at most. *)
LEMMA Pushed ==
  ASSUME TypeOK, NEW t \in Tiles, NEW au \in Aus, PushAu(t, au)
  PROVE  /\ queue' \in [Tiles -> Seq(Aus)] /\ sync' \in [Tiles -> BOOLEAN] /\ busy' = busy
         /\ \A u \in Tiles : Range(queue'[u]) \subseteq Range(queue[u]) \cup {au}
<1> USE DEF TypeOK
<1>1. sync' \in [Tiles -> BOOLEAN]
  <2>1. CASE sync[t]
    BY <2>1 DEF PushAu
  <2>2. CASE ~sync[t]
    <3>1. sync' = [sync EXCEPT ![t] = Len(queue[t]) >= QueueMax]
      BY <2>2, Zenon DEF PushAu
    <3>2. (Len(queue[t]) >= QueueMax) \in BOOLEAN
      OBVIOUS
    <3> QED
      BY <3>1, <3>2, Zenon
  <2> QED
    BY <2>1, <2>2
<1>2. CASE sync'[t]
  BY <1>1, <1>2 DEF PushAu
<1>3. CASE ~sync'[t]
  <2>1. queue' = [queue EXCEPT ![t] = Append(@, au)] /\ busy' = busy
    BY <1>3 DEF PushAu
  <2>2. /\ Append(queue[t], au) \in Seq(Aus)
        /\ Range(Append(queue[t], au)) = Range(queue[t]) \cup {au}
    BY Appended
  <2> QED
    BY <1>1, <2>1, <2>2
<1> QED
  BY <1>2, <1>3

(* A datagram's AU, and the epoch it is numbered in. *)
LEMMA Numbers ==
  ASSUME TypeOK, NEW t \in Tiles, Hear(t, sent[t])
  PROVE  Epoch(sent[t]) \in Nat /\ epoch' = Epoch(sent[t]) /\ waived' \subseteq {"pts", "gate"}
<1>1. Epoch(sent[t]) \in Nat
  BY DEF TypeOK, Epoch, Wrapped
<1> QED
  BY <1>1 DEF Hear, TypeOK

(* The AU that a Receive makes of a datagram. *)
Made(t) ==
  [tile |-> t, pts |-> Epoch(sent[t]) + sent[t], session |-> session, fid |-> sent[t]]

LEMMA MadeOK == ASSUME TypeOK, NEW t \in Tiles PROVE Made(t) \in Aus /\ Epoch(sent[t]) \in Nat
<1>1. Epoch(sent[t]) \in Nat
  BY DEF TypeOK, Epoch, Wrapped
<1>2. sent[t] \in Nat /\ Epoch(sent[t]) + sent[t] \in Nat /\ session \in 1..Len(LastFid)
  BY <1>1 DEF TypeOK
<1> QED
  BY <1>1, <1>2 DEF Made, Aus

LEMMA Sent ==
  ASSUME TypeOK, NEW t \in Tiles, Sends(t)
  PROVE  sent' \in [Tiles -> Nat] /\ session' = session /\ rx = "recv"
<1>1. sent \in [Tiles -> Nat]
  BY DEF TypeOK
<1> QED
  BY <1>1 DEF Sends

(* What becomes of a received AU: it is fed, held or kept in hand. *)
LEMMA Received ==
  ASSUME TypeOK, NEW t \in Tiles, NEW au \in Aus, au.tile = t,
         Straight(au) \/ Stagger(au) \/ Gate(au), rx = "recv"
  PROVE  /\ queue' \in [Tiles -> Seq(Aus)] /\ held' \in [Tiles -> Seq(Aus)]
         /\ sync' \in [Tiles -> BOOLEAN] /\ busy' = busy
         /\ released' \in BOOLEAN /\ drained' = drained
         /\ cur' \in {cur, au} /\ rx' \in {"recv", "flush", "push", "drain"}
         /\ cur' = None <=> rx' \in {"recv", "drain"}
         /\ \A u \in Tiles : /\ Range(queue'[u]) \subseteq Range(queue[u]) \cup {au}
                             /\ Range(held'[u]) \subseteq Range(held[u]) \cup {au}
<1> USE DEF TypeOK
<1>a. au # None /\ cur = None
  BY DEF Aus, None
<1>1. CASE Straight(au)
  <2>1. PushAu(t, au)
    BY <1>1 DEF Straight
  <2> QED
    BY <1>1, <1>a, <2>1, Pushed DEF Straight, AfterPush
<1>2. CASE Hold(au)
  <2>1. /\ held' = [held EXCEPT ![t] = Append(@, au)]
        /\ UNCHANGED <<released, rx, cur, drained, queue, sync, busy>>
    BY <1>2 DEF Hold, thread, decoders
  <2>2. /\ Append(held[t], au) \in Seq(Aus)
        /\ Range(Append(held[t], au)) = Range(held[t]) \cup {au}
    BY Appended
  <2>3. held' \in [Tiles -> Seq(Aus)]
    BY <2>1, <2>2
  <2>4. \A u \in Tiles : Range(held'[u]) \subseteq Range(held[u]) \cup {au}
    BY <2>1, <2>2
  <2> QED
    BY <1>a, <2>1, <2>3, <2>4
<1>3. CASE FlushFor(au)
  BY <1>3, <1>a DEF FlushFor, decoders
<1>4. CASE /\ rx' = "push" /\ cur' = au
           /\ UNCHANGED <<released, drained, held, decoders>>
  BY <1>4, <1>a DEF decoders
<1> QED
  BY <1>1, <1>2, <1>3, <1>4 DEF Stagger, Gate

(* Every step keeps the types. *)
LEMMA TypeStep == TypeOK /\ Swapped /\ [Next]_vars => TypeOK'
<1> SUFFICES ASSUME TypeOK, Swapped, [Next]_vars PROVE TypeOK'
  OBVIOUS
<1> USE RfTilesAssumption
<1>n. Tiles = {0, 1}
  BY DEF Tiles
<1>1. ASSUME NEW t \in Tiles, Lose(t) PROVE TypeOK'
  <2>1. /\ UNCHANGED <<input, thread, held, decoders, pairing, life, history, session, swaps>>
        /\ sent' \in [Tiles -> Nat]
    BY <1>1, Sent DEF Lose, Lost, bounds
  <2>2. losses' \in 0..LastLoss
    BY <1>1 DEF TypeOK, Lose, Lost, bounds
  <2> QED
    BY <2>1, <2>2 DEF TypeOK, input, thread, decoders, pairing, history
<1>2. ASSUME NEW t \in Tiles, Unusable(t) PROVE TypeOK'
  <2>1. /\ UNCHANGED <<thread, held, decoders, pairing, life, bounds, shown, evicted, session>>
        /\ sent' \in [Tiles -> Nat] /\ heard' = session
    BY <1>2, Sent DEF Unusable, Hear
  <2>2. epoch' \in Nat /\ waived' \subseteq {"pts", "gate"}
    BY <1>2, Numbers DEF Unusable
  <2>3. started' \in [Tiles -> BOOLEAN]
    BY <1>2 DEF TypeOK, Unusable
  <2>4. lastFid' \in Nat \cup {-1} /\ top' \in Nat \cup {-1}
    BY <1>2 DEF TypeOK, Unusable
  <2>5. session' \in 1..Len(LastFid) /\ heard' \in 1..session'
    BY <2>1 DEF TypeOK
  <2>6. UNCHANGED <<released, rx, cur, drained, held, queue, sync, busy, out, slots, onScreen, up,
                    life, losses, swaps, shown, evicted>>
    BY <2>1 DEF thread, decoders, pairing, bounds
  <2> QED
    BY <2>1, <2>2, <2>3, <2>4, <2>5, <2>6 DEF TypeOK
<1>3. ASSUME NEW t \in Tiles, Receive(t) PROVE TypeOK'
  <2>1. /\ Note(Made(t)) /\ rx = "recv"
        /\ Straight(Made(t)) \/ Stagger(Made(t)) \/ Gate(Made(t))
        /\ UNCHANGED <<pairing, life, bounds, shown, evicted, session>>
    BY <1>3 DEF Receive, Made, Sends
  <2>2. sent' \in [Tiles -> Nat]
    BY <1>3, Sent DEF Receive
  <2>3. Made(t) \in Aus /\ Made(t).tile = t /\ Made(t).fid = sent[t]
    BY MadeOK DEF Made
  <2>4. heard' = session /\ epoch' \in Nat /\ waived' \subseteq {"pts", "gate"}
    BY <2>1, <2>3, Numbers DEF Note, Hear
  <2>5. started' \in [Tiles -> BOOLEAN]
    <3>1. \A u \in Tiles : (u = t \/ Started(u, sent[t])) \in BOOLEAN
      BY Zenon
    <3>2. started' = [u \in Tiles |-> u = t \/ Started(u, sent[t])]
      BY <2>1, <2>3, Zenon DEF Note
    <3> QED
      BY <3>1, <3>2, Zenon
  <2>6. lastFid' \in Nat \cup {-1} /\ top' \in Nat \cup {-1}
    BY <2>1, <2>3 DEF TypeOK, Note, Highest
  <2>7. /\ queue' \in [Tiles -> Seq(Aus)] /\ held' \in [Tiles -> Seq(Aus)]
        /\ sync' \in [Tiles -> BOOLEAN] /\ busy' = busy
        /\ released' \in BOOLEAN /\ drained' = drained
        /\ cur' \in {cur, Made(t)} /\ rx' \in {"recv", "flush", "push", "drain"}
        /\ cur' = None <=> rx' \in {"recv", "drain"}
    BY <2>1, <2>3, Received, Zenon
  <2>8. cur' \in Aus \cup {None} /\ drained' \in 0..DrainMax
    BY <2>3, <2>7 DEF TypeOK
  <2>9. busy' \in [Tiles -> Seq(Aus)] /\ session' \in 1..Len(LastFid) /\ heard' \in 1..session'
    BY <2>1, <2>4, <2>7 DEF TypeOK
  <2>10. /\ up' \in BOOLEAN /\ out' \in [Tiles -> Nat] /\ slots' \subseteq Aus
         /\ onScreen' \in 0..Holds /\ life' \in {"up", "stopping", "down"}
         /\ losses' \in 0..LastLoss /\ swaps' \in 0..LastSwap
         /\ shown' \in (Aus \cup {None}) \X (Aus \cup {None}) /\ evicted' \subseteq Nat
    BY <2>1 DEF TypeOK, pairing, bounds
  <2> QED
    BY <2>2, <2>4, <2>5, <2>6, <2>7, <2>8, <2>9, <2>10 DEF TypeOK
<1>4. CASE AirRestart
  <2>1. /\ session' \in 1..Len(LastFid) /\ session' > session /\ sent' \in [Tiles -> Nat]
        /\ UNCHANGED <<input, thread, held, decoders, pairing, life, bounds, history>>
    BY <1>4 DEF TypeOK, AirRestart
  <2> QED
    BY <2>1 DEF TypeOK, input, thread, decoders, pairing, bounds, history
<1>5. CASE Flush
  <2> DEFINE t == cur.tile
  <2>1. cur \in Aus /\ t \in Tiles
    BY <1>5 DEF TypeOK, Flush, Aus
  <2>2. CASE held[t] # <<>>
    <3>1. /\ Head(held[t]) \in Aus /\ Tail(held[t]) \in Seq(Aus)
      BY <2>1, <2>2, Headed DEF TypeOK
    <3>2. /\ PushAu(t, Head(held[t])) /\ held' = [held EXCEPT ![t] = Tail(@)]
          /\ UNCHANGED <<air, input, thread, pairing, life, bounds, history>>
      BY <1>5, <2>2 DEF Flush
    <3>3. held' \in [Tiles -> Seq(Aus)]
      BY <2>1, <3>1, <3>2 DEF TypeOK
    <3>4. queue' \in [Tiles -> Seq(Aus)] /\ sync' \in [Tiles -> BOOLEAN] /\ busy' = busy
      BY <2>1, <3>1, <3>2, Pushed
    <3> QED
      BY <3>2, <3>3, <3>4 DEF TypeOK, air, input, thread, pairing, bounds, history
  <2>3. CASE held[t] = <<>>
    <3>1. /\ rx' = "push" /\ released' = TRUE
          /\ UNCHANGED <<held, decoders, cur, drained, air, input, pairing, life, bounds, history>>
      BY <1>5, <2>3 DEF Flush
    <3>2. rx = "flush"
      BY <1>5 DEF Flush
    <3> QED
      BY <3>1, <3>2 DEF TypeOK, air, input, decoders, pairing, bounds, history
  <2> QED
    BY <2>2, <2>3
<1>6. CASE Push
  <2>1. cur \in Aus /\ cur.tile \in Tiles
    BY <1>6 DEF TypeOK, Push, Aus
  <2>2. /\ PushAu(cur.tile, cur) /\ rx' \in {"recv", "drain"} /\ cur' = None
        /\ UNCHANGED <<air, input, released, drained, held, pairing, life, bounds, history>>
    BY <1>6 DEF Push, AfterPush
  <2>3. queue' \in [Tiles -> Seq(Aus)] /\ sync' \in [Tiles -> BOOLEAN] /\ busy' = busy
    BY <2>1, <2>2, Pushed
  <2> QED
    BY <2>2, <2>3 DEF TypeOK, air, input, pairing, bounds, history
<1>7. CASE Drain
  <2>1. CASE held[0] # <<>> /\ drained < DrainMax /\ ~GateShut
    <3>1. /\ Head(held[0]) \in Aus /\ Tail(held[0]) \in Seq(Aus)
      BY <1>n, <2>1, Headed DEF TypeOK
    <3>2. /\ PushAu(0, Head(held[0])) /\ held' = [held EXCEPT ![0] = Tail(@)]
          /\ drained' = drained + 1
          /\ UNCHANGED <<rx, air, input, released, cur, pairing, life, bounds, history>>
      BY <1>7, <2>1 DEF Drain
    <3>3. held' \in [Tiles -> Seq(Aus)]
      BY <1>n, <3>1, <3>2 DEF TypeOK
    <3>4. queue' \in [Tiles -> Seq(Aus)] /\ sync' \in [Tiles -> BOOLEAN] /\ busy' = busy
      BY <1>n, <3>1, <3>2, Pushed
    <3>5. drained' \in 0..DrainMax
      BY <2>1, <3>2 DEF TypeOK
    <3> QED
      BY <3>2, <3>3, <3>4, <3>5 DEF TypeOK, air, input, pairing, bounds, history
  <2>2. CASE ~(held[0] # <<>> /\ drained < DrainMax /\ ~GateShut)
    <3>1. /\ rx' = "recv" /\ drained' = 0 /\ rx = "drain"
          /\ UNCHANGED <<held, decoders, air, input, released, cur, pairing, life, bounds, history>>
      BY <1>7, <2>2 DEF Drain
    <3> QED
      BY <3>1 DEF TypeOK, air, input, decoders, pairing, bounds, history
  <2> QED
    BY <2>1, <2>2
<1>8. ASSUME NEW t \in Tiles, Take(t) PROVE TypeOK'
  <2>1. Head(queue[t]) \in Aus /\ Tail(queue[t]) \in Seq(Aus)
    BY <1>8, Headed DEF TypeOK, Take
  <2>2. Append(busy[t], Head(queue[t])) \in Seq(Aus)
    BY <2>1, Appended DEF TypeOK
  <2>4. busy' \in [Tiles -> Seq(Aus)] /\ queue' \in [Tiles -> Seq(Aus)]
    BY <1>8, <2>1, <2>2 DEF TypeOK, Take
  <2>3. UNCHANGED <<air, input, thread, held, sync, pairing, life, bounds, history>>
    BY <1>8 DEF Take
  <2> QED
    BY <2>3, <2>4 DEF TypeOK, air, input, thread, pairing, bounds, history
<1>9. ASSUME NEW t \in Tiles, NoPicture(t) PROVE TypeOK'
  <2>0. Tail(busy[t]) \in Seq(Aus)
    BY <1>9, Headed DEF TypeOK, NoPicture
  <2>1. /\ busy' \in [Tiles -> Seq(Aus)] /\ losses' \in 0..LastLoss
        /\ UNCHANGED <<air, input, thread, held, queue, sync, pairing, life, history, swaps>>
    BY <1>9, <2>0 DEF TypeOK, NoPicture, Lost
  <2> QED
    BY <2>1 DEF TypeOK, air, input, thread, pairing, history
<1>10. ASSUME NEW t \in Tiles, OnTile(t) PROVE TypeOK'
  <2> DEFINE au == Head(busy[t])
  <2>1. au \in Aus /\ Tail(busy[t]) \in Seq(Aus)
    BY <1>10, Headed DEF TypeOK, OnTile
  <2>2. /\ busy' \in [Tiles -> Seq(Aus)] /\ out' \in [Tiles -> Nat]
        /\ UNCHANGED <<air, input, thread, held, queue, sync, life, bounds, top, waived>>
    BY <1>10, <2>1 DEF TypeOK, OnTile, Aus
  <2>3. up' \in BOOLEAN
    BY <1>10 DEF TypeOK, OnTile
  <2>4. /\ slots' \subseteq Aus /\ onScreen' \in 0..Holds
        /\ shown' \in (Aus \cup {None}) \X (Aus \cup {None})
    <3>1. CASE Pair(au)
      <4>1. PICK sl \in slots : /\ slots' = slots \ {sl} /\ sl \in Aus
                                /\ shown' = <<au, sl>> \/ shown' = <<sl, au>>
                                /\ onScreen' = IF onScreen = Holds THEN onScreen ELSE onScreen + 1
        BY <3>1 DEF Pair, Slot, TypeOK
      <4> QED
        BY <2>1, <4>1 DEF TypeOK
    <3>2. CASE Again(au)
      BY <2>1, <3>2 DEF Again, Slot, TypeOK
    <3>3. CASE Park(au)
      BY <2>1, <3>3 DEF Park, TypeOK
    <3>4. CASE Evict(au)
      BY <2>1, <3>4 DEF Evict, TypeOK
    <3> QED
      BY <1>10, <3>1, <3>2, <3>3, <3>4 DEF OnTile
  <2>5. evicted' \subseteq Nat
    <3>1. \A p \in evicted' : p \in evicted \/ \E sl \in slots : p = sl.pts
      BY <1>10 DEF OnTile
    <3>2. \A sl \in slots : sl.pts \in Nat
      BY DEF TypeOK, Aus
    <3>3. evicted \subseteq Nat
      BY DEF TypeOK
    <3> QED
      BY <3>1, <3>2, <3>3
  <2> QED
    BY <2>2, <2>3, <2>4, <2>5 DEF TypeOK, air, input, thread, bounds
<1>11. CASE StopRx
  <2>1. /\ life' = "stopping"
        /\ UNCHANGED <<air, input, thread, held, decoders, pairing, bounds, history>>
    BY <1>11 DEF StopRx
  <2> QED
    BY <2>1 DEF TypeOK, air, input, thread, decoders, pairing, bounds, history
<1>12. CASE StopDecoders
  <2>1. /\ queue' \in [Tiles -> Seq(Aus)] /\ held' \in [Tiles -> Seq(Aus)]
        /\ busy' \in [Tiles -> Seq(Aus)]
    BY <1>12 DEF StopDecoders
  <2>2. /\ slots' = {} /\ onScreen' = 0 /\ life' = "down"
        /\ UNCHANGED <<air, input, thread, sync, out, up, bounds, history>>
    BY <1>12 DEF StopDecoders
  <2> QED
    BY <2>1, <2>2 DEF TypeOK, air, input, thread, bounds, history
<1>13. CASE StartDecoders
  <2>1. started' \in [Tiles -> BOOLEAN] /\ sync' \in [Tiles -> BOOLEAN]
    BY <1>13 DEF StartDecoders
  <2>2. /\ lastFid' = -1 /\ up' = FALSE /\ released' = FALSE /\ life' = "up"
        /\ shown' = <<None, None>> /\ evicted' = {} /\ top' = -1 /\ waived' = {}
        /\ UNCHANGED <<air, heard, epoch, rx, cur, drained, held, queue, busy, out, slots,
                       onScreen, losses>>
    BY <1>13 DEF StartDecoders, NoFrame
  <2>3. swaps' \in 0..LastSwap
    BY <1>13 DEF TypeOK, Swapped, StartDecoders
  <2> QED
    BY <2>1, <2>2, <2>3 DEF TypeOK, air
<1>14. CASE UNCHANGED vars
  BY <1>14 DEF TypeOK, vars, air, input, thread, decoders, pairing, bounds, history
<1> QED
  BY <1>1, <1>2, <1>3, <1>4, <1>5, <1>6, <1>7, <1>8, <1>9, <1>10, <1>11, <1>12, <1>13, <1>14
     DEF Next

LEMMA TypeInit == Init => TypeOK
<1> SUFFICES ASSUME Init PROVE TypeOK
  OBVIOUS
<1>1. /\ held \in [Tiles -> Seq(Aus)] /\ queue \in [Tiles -> Seq(Aus)]
      /\ busy \in [Tiles -> Seq(Aus)] /\ sent \in [Tiles -> Nat] /\ out \in [Tiles -> Nat]
  BY DEF Init
<1>2. started \in [Tiles -> BOOLEAN] /\ sync \in [Tiles -> BOOLEAN]
  BY DEF Init
<1>3. session \in 1..Len(LastFid) /\ heard \in 1..session
  BY RfTilesAssumption DEF Init
<1>4. /\ lastFid \in Nat \cup {-1} /\ epoch \in Nat /\ top \in Nat \cup {-1}
      /\ released \in BOOLEAN /\ up \in BOOLEAN
      /\ rx \in {"recv", "flush", "push", "drain"}
      /\ cur \in Aus \cup {None} /\ (cur = None <=> rx \in {"recv", "drain"})
  BY DEF Init
<1>5. /\ drained \in 0..DrainMax /\ onScreen \in 0..Holds
      /\ losses \in 0..LastLoss /\ swaps \in 0..LastSwap
  BY RfTilesAssumption DEF Init
<1>6. /\ slots \subseteq Aus /\ evicted \subseteq Nat /\ waived \subseteq {"pts", "gate"}
      /\ life \in {"up", "stopping", "down"}
      /\ shown \in (Aus \cup {None}) \X (Aus \cup {None})
  BY DEF Init, NoFrame
<1> QED
  BY <1>1, <1>2, <1>3, <1>4, <1>5, <1>6 DEF TypeOK

-----------------------------------------------------------------------------
(* Where the AUs in the goggle are, and from where a step takes them. *)
LEMMA ItemsAre ==
  ASSUME TypeOK
  PROVE  /\ \A t \in Tiles : /\ Range(held[t]) \subseteq Items /\ Range(queue[t]) \subseteq Items
                             /\ Range(busy[t]) \subseteq Items
         /\ cur \in Items \cup {None} /\ slots \subseteq Items
<1>1. cur = None \/ cur.tile \in Tiles
  BY DEF TypeOK, Aus
<1> QED
  BY <1>1 DEF Items, Coming, Tiles

LEMMA ItemsFrom ==
  ASSUME NEW X,
         \A t \in Tiles : /\ Range(held'[t]) \subseteq X /\ Range(queue'[t]) \subseteq X
                          /\ Range(busy'[t]) \subseteq X,
         cur' \in X \cup {None}, slots' \subseteq X
  PROVE  Items' \subseteq X
BY DEF Items, Coming, Tiles

(* Only a datagram brings an AU in. *)
LEMMA Moved ==
  ASSUME TypeOK, [Next]_vars, ~(\E t \in Tiles : Receive(t))
  PROVE  Items' \subseteq Items
<1> USE ItemsAre
<1>n. Tiles = {0, 1}
  BY DEF Tiles
<1>1. CASE UNCHANGED <<held, decoders, cur, slots>>
  BY <1>1 DEF Items, Coming, decoders
<1>2. CASE Flush
  <2> DEFINE t == cur.tile
  <2>1. cur \in Aus /\ t \in Tiles
    BY <1>2 DEF TypeOK, Flush, Aus
  <2>2. CASE held[t] # <<>>
    <3>1. /\ Head(held[t]) \in Aus /\ Head(held[t]) \in Range(held[t])
          /\ Range(Tail(held[t])) \subseteq Range(held[t])
      BY <2>1, <2>2, Headed DEF TypeOK
    <3>2. /\ PushAu(t, Head(held[t])) /\ held' = [held EXCEPT ![t] = Tail(@)]
          /\ cur' = cur /\ slots' = slots
      BY <1>2, <2>2 DEF Flush, thread, pairing
    <3>3. /\ \A u \in Tiles : Range(queue'[u]) \subseteq Range(queue[u]) \cup {Head(held[t])}
          /\ busy' = busy
      BY <2>1, <3>1, <3>2, Pushed
    <3>4. \A u \in Tiles : Range(held'[u]) \subseteq Range(held[u])
      BY <2>1, <3>1, <3>2 DEF TypeOK
    <3> QED
      BY <2>1, <3>1, <3>2, <3>3, <3>4, ItemsFrom
  <2>3. CASE held[t] = <<>>
    BY <1>1, <1>2, <2>3 DEF Flush, pairing
  <2> QED
    BY <2>2, <2>3
<1>3. CASE Push
  <2>1. cur \in Aus /\ cur.tile \in Tiles
    BY <1>3 DEF TypeOK, Push, Aus
  <2>2. PushAu(cur.tile, cur) /\ cur' = None /\ held' = held /\ slots' = slots
    BY <1>3 DEF Push, pairing
  <2>3. /\ \A u \in Tiles : Range(queue'[u]) \subseteq Range(queue[u]) \cup {cur}
        /\ busy' = busy
    BY <2>1, <2>2, Pushed
  <2>4. cur \in Items
    BY <2>1 DEF Aus, None
  <2>5. \A u \in Tiles : /\ Range(held'[u]) \subseteq Items /\ Range(queue'[u]) \subseteq Items
                         /\ Range(busy'[u]) \subseteq Items
    BY <2>2, <2>3, <2>4
  <2>6. cur' \in Items \cup {None} /\ slots' \subseteq Items
    BY <2>2
  <2> QED
    BY <2>5, <2>6, ItemsFrom
<1>4. CASE Drain
  <2>1. CASE held[0] # <<>> /\ drained < DrainMax /\ ~GateShut
    <3>1. /\ Head(held[0]) \in Aus /\ Head(held[0]) \in Range(held[0])
          /\ Range(Tail(held[0])) \subseteq Range(held[0])
      BY <1>n, <2>1, Headed DEF TypeOK
    <3>2. /\ PushAu(0, Head(held[0])) /\ held' = [held EXCEPT ![0] = Tail(@)]
          /\ cur' = cur /\ slots' = slots
      BY <1>4, <2>1 DEF Drain, pairing
    <3>3. /\ \A u \in Tiles : Range(queue'[u]) \subseteq Range(queue[u]) \cup {Head(held[0])}
          /\ busy' = busy
      BY <1>n, <3>1, <3>2, Pushed
    <3>4. \A u \in Tiles : Range(held'[u]) \subseteq Range(held[u])
      BY <1>n, <3>1, <3>2 DEF TypeOK
    <3>5. Head(held[0]) \in Items
      BY <1>n, <3>1
    <3>6. \A u \in Tiles : /\ Range(held'[u]) \subseteq Items /\ Range(queue'[u]) \subseteq Items
                           /\ Range(busy'[u]) \subseteq Items
      BY <3>3, <3>4, <3>5
    <3>7. cur' \in Items \cup {None} /\ slots' \subseteq Items
      BY <3>2
    <3> QED
      BY <3>6, <3>7, ItemsFrom
  <2>2. CASE ~(held[0] # <<>> /\ drained < DrainMax /\ ~GateShut)
    BY <1>1, <1>4, <2>2 DEF Drain, pairing
  <2> QED
    BY <2>1, <2>2
<1>5. ASSUME NEW t \in Tiles, Take(t) PROVE Items' \subseteq Items
  <2>1. /\ Head(queue[t]) \in Aus /\ Head(queue[t]) \in Range(queue[t])
        /\ Range(Tail(queue[t])) \subseteq Range(queue[t])
    BY <1>5, Headed DEF TypeOK, Take
  <2>0. Range(Append(busy[t], Head(queue[t]))) = Range(busy[t]) \cup {Head(queue[t])}
    BY <2>1, Appended DEF TypeOK
  <2>2. /\ busy' = [busy EXCEPT ![t] = Append(@, Head(queue[t]))] /\ queue' = [queue EXCEPT ![t] = Tail(@)]
        /\ held' = held /\ cur' = cur /\ slots' = slots
    BY <1>5 DEF Take, thread, pairing
  <2>3. \A u \in Tiles : Range(queue'[u]) \subseteq Range(queue[u])
    BY <2>1, <2>2 DEF TypeOK
  <2>4. \A u \in Tiles : Range(busy'[u]) \subseteq Items
    BY <2>0, <2>1, <2>2 DEF TypeOK
  <2> QED
    BY <2>2, <2>3, <2>4, ItemsFrom
<1>6. ASSUME NEW t \in Tiles, NoPicture(t) \/ OnTile(t) PROVE Items' \subseteq Items
  <2>1. /\ busy' = [busy EXCEPT ![t] = Tail(@)] /\ queue' = queue /\ held' = held /\ cur' = cur
    BY <1>6 DEF NoPicture, OnTile, thread
  <2>0. /\ Head(busy[t]) \in Range(busy[t]) /\ Range(Tail(busy[t])) \subseteq Range(busy[t])
    BY <1>6, Headed DEF NoPicture, OnTile, TypeOK
  <2>2. slots' \subseteq slots \cup {Head(busy[t])}
    <3>1. CASE NoPicture(t)
      BY <3>1 DEF NoPicture, pairing
    <3>2. CASE OnTile(t)
      BY <3>2 DEF OnTile, Pair, Again, Park, Evict
    <3> QED
      BY <1>6, <3>1, <3>2
  <2>3. slots' \subseteq Items
    BY <2>0, <2>2
  <2>4. \A u \in Tiles : Range(busy'[u]) \subseteq Items
    BY <2>0, <2>1 DEF TypeOK
  <2> QED
    BY <2>1, <2>3, <2>4, ItemsFrom
<1>7. CASE StopDecoders
  <2>1. /\ \A t \in Tiles : held'[t] = <<>> /\ queue'[t] = <<>> /\ busy'[t] = <<>>
        /\ cur' = cur /\ slots' = {}
    BY <1>7 DEF StopDecoders, thread
  <2>2. Range(<<>>) = {}
    BY DEF Range
  <2> QED
    BY <2>1, <2>2, ItemsFrom
<1>8. CASE AirRestart \/ StopRx \/ StartDecoders \/ UNCHANGED vars
  <2>1. CASE AirRestart \/ StopRx
    BY <1>1, <2>1 DEF AirRestart, StopRx, thread, pairing
  <2>2. CASE StartDecoders
    BY <1>1, <2>2 DEF StartDecoders, Items, Coming
  <2>3. CASE UNCHANGED vars
    BY <1>1, <2>3 DEF vars, thread, pairing
  <2> QED
    BY <1>8, <2>1, <2>2, <2>3
<1>9. ASSUME NEW t \in Tiles, Lose(t) \/ Unusable(t) PROVE Items' \subseteq Items
  BY <1>1, <1>9 DEF Lose, Unusable, thread, pairing
<1> QED
  BY <1>2, <1>3, <1>4, <1>5, <1>6, <1>7, <1>8, <1>9 DEF Next

LEMMA Arrived ==
  ASSUME TypeOK, NEW t \in Tiles, Receive(t)
  PROVE  Items' \subseteq Items \cup {Made(t)}
<1>1. /\ Straight(Made(t)) \/ Stagger(Made(t)) \/ Gate(Made(t))
      /\ rx = "recv" /\ slots' = slots
  BY DEF Receive, Made, Sends, pairing
<1>2. Made(t) \in Aus /\ Made(t).tile = t
  BY MadeOK DEF Made
<1>3. /\ busy' = busy /\ cur' \in {cur, Made(t)}
      /\ \A u \in Tiles : /\ Range(queue'[u]) \subseteq Range(queue[u]) \cup {Made(t)}
                          /\ Range(held'[u]) \subseteq Range(held[u]) \cup {Made(t)}
  BY <1>1, <1>2, Received, Zenon
<1>4. \A u \in Tiles : /\ Range(held'[u]) \subseteq Items \cup {Made(t)}
                      /\ Range(queue'[u]) \subseteq Items \cup {Made(t)}
                      /\ Range(busy'[u]) \subseteq Items \cup {Made(t)}
  BY <1>3, ItemsAre
<1>5. cur' \in (Items \cup {Made(t)}) \cup {None} /\ slots' \subseteq Items \cup {Made(t)}
  BY <1>1, <1>3, ItemsAre
<1> QED
  BY <1>4, <1>5, ItemsFrom

(* A swap leaves nothing to pair. *)
LEMMA SwappedStep == TypeOK /\ Swapped /\ [Next]_vars => Swapped'
<1> SUFFICES ASSUME TypeOK, Swapped, [Next]_vars PROVE Swapped'
  OBVIOUS
<1>1. CASE \E t \in Tiles : Receive(t)
  BY <1>1 DEF Receive, Swapped
<1>2. CASE ~(\E t \in Tiles : Receive(t))
  <2>1. Items' \subseteq Items
    BY <1>2, Moved
  <2>2. life' # "up" => rx' = "recv" /\ swaps' < LastSwap
    <3>1. CASE life' = life
      <4>1. CASE life = "up"
        BY <3>1, <4>1
      <4>2. CASE life # "up"
        <5>1. rx = "recv" /\ swaps < LastSwap
          BY <4>2 DEF Swapped
        <5>2. rx' = rx /\ swaps' = swaps
          BY <1>2, <3>1, <4>2, <5>1
             DEF Next, vars, Lose, Lost, Unusable, AirRestart, Flush, Push, Drain, Take, NoPicture, OnTile,
                 StopRx, StopDecoders, StartDecoders, thread, bounds
        <5> QED
          BY <5>1, <5>2
      <4> QED
        BY <4>1, <4>2
    <3>2. CASE life' # life
      BY <1>2, <3>2 DEF Next, vars, Lose, Unusable, AirRestart, Flush, Push, Drain, Take, NoPicture,
                        OnTile, StopRx, StopDecoders, StartDecoders, thread, bounds, Swapped
    <3> QED
      BY <3>1, <3>2
  <2>3. CASE StopDecoders
    <3>1. /\ \A t \in Tiles : held'[t] = <<>> /\ queue'[t] = <<>> /\ busy'[t] = <<>>
          /\ cur' = None /\ slots' = {}
      BY <2>3 DEF StopDecoders, thread, Swapped, TypeOK
    <3>2. Range(<<>>) = {}
      BY DEF Range
    <3>3. Items' \subseteq {}
      BY <3>1, <3>2, ItemsFrom
    <3> QED
      BY <2>2, <3>3 DEF Swapped
  <2>4. CASE ~StopDecoders
    <3>1. life' = "down" => life = "down"
      BY <1>2, <2>4 DEF Next, vars, Lose, Unusable, AirRestart, Flush, Push, Drain, Take, NoPicture,
                        OnTile, StopRx, StartDecoders
    <3> QED
      BY <2>1, <2>2, <3>1 DEF Swapped
  <2> QED
    BY <2>3, <2>4
<1> QED
  BY <1>1, <1>2

LEMMA SwappedInit == Init => Swapped
BY DEF Init, Swapped

LEMMA Types == TypeOK /\ Swapped /\ [Next]_vars => TypeOK' /\ Swapped'
BY TypeStep, SwappedStep

(* What the radio, the decoders and the threads do keeps every variable of
   its type, and the bounds on losses and swaps.                           *)
THEOREM TypesKept == Spec => []TypeOK
<1>1. Init => TypeOK /\ Swapped
  BY TypeInit, SwappedInit
<1> QED
  BY <1>1, Types, PTL DEF Spec

-----------------------------------------------------------------------------
(* One session's numbering.  A session that is heard is not taken for a new
   one by mistake.                                                         *)
LEMMA NotWrapped ==
  ASSUME TypeOK, Together, NEW t \in Tiles, "pts" \notin waived, heard = session
  PROVE  ~Wrapped(sent[t])
<1>1. PICK u \in Tiles : lastFid < sent[u]
  BY DEF Together
<1>2. sent[u] <= sent[t] + Lead + 1
  <2>1. u = t \/ u = 1 - t
    BY DEF Tiles
  <2>2. sent[1 - t] <= sent[t] + Lead + 1
    <3>1. 1 - t \in Tiles /\ 1 - (1 - t) = t
      BY DEF Tiles
    <3>2. sent[1 - t] <= sent[1 - (1 - t)] + Lead + 1
      BY <3>1, Zenon DEF Together
    <3> QED
      BY <3>1, <3>2
  <2>3. sent[t] \in Nat /\ Lead \in Nat
    BY RfTilesAssumption DEF TypeOK
  <2> QED
    BY <2>1, <2>2, <2>3
<1>3. lastFid \in Int /\ sent[t] \in Nat /\ sent[u] \in Nat
  BY DEF TypeOK
<1> QED
  BY <1>1, <1>2, <1>3, RfTilesAssumption DEF Wrapped

LEMMA SentStep ==
  ASSUME TypeOK, NEW t \in Tiles, Sends(t), Together
  PROVE  /\ \A u \in Tiles : sent'[u] <= sent'[1 - u] + Lead + 1
         /\ sent'[t] = sent[t] + 1 /\ \A u \in Tiles : sent'[u] >= sent[u]
<1>n. Tiles = {0, 1} /\ 1 - 0 = 1 /\ 1 - 1 = 0
  BY DEF Tiles
<1>1. CASE t = 0
  <2>1. /\ sent' = [sent EXCEPT ![0] = @ + 1] /\ sent[0] <= sent[1] + Lead
        /\ sent[1] <= sent[0] + Lead + 1 /\ sent \in [Tiles -> Nat] /\ Lead \in Nat
    BY <1>1, <1>n, RfTilesAssumption DEF Together, Sends, TypeOK
  <2>2. sent'[0] = sent[0] + 1 /\ sent'[1] = sent[1] /\ sent[0] \in Nat /\ sent[1] \in Nat
    BY <2>1, <1>n
  <2>3. sent'[0] <= sent'[1] + Lead + 1 /\ sent'[1] <= sent'[0] + Lead + 1
    BY <2>1, <2>2
  <2>4. \A u \in Tiles : sent'[u] <= sent'[1 - u] + Lead + 1
    BY <2>3, <1>n
  <2> QED
    BY <1>1, <1>n, <2>2, <2>4
<1>2. CASE t = 1
  <2>1. /\ sent' = [sent EXCEPT ![1] = @ + 1] /\ sent[1] <= sent[0] + Lead
        /\ sent[0] <= sent[1] + Lead + 1 /\ sent \in [Tiles -> Nat] /\ Lead \in Nat
    BY <1>2, <1>n, RfTilesAssumption DEF Together, Sends, TypeOK
  <2>2. sent'[1] = sent[1] + 1 /\ sent'[0] = sent[0] /\ sent[1] \in Nat /\ sent[0] \in Nat
    BY <2>1, <1>n
  <2>3. sent'[0] <= sent'[1] + Lead + 1 /\ sent'[1] <= sent'[0] + Lead + 1
    BY <2>1, <2>2
  <2>4. \A u \in Tiles : sent'[u] <= sent'[1 - u] + Lead + 1
    BY <2>3, <1>n
  <2> QED
    BY <1>2, <1>n, <2>2, <2>4
<1> QED
  BY <1>1, <1>2 DEF Tiles

(* A datagram that does not begin a session unseen, of whichever tile. *)
LEMMA HeardStep ==
  ASSUME TypeOK, Together, OneEpoch, NEW t \in Tiles, Hear(t, sent[t]), "pts" \notin waived'
  PROVE  /\ "pts" \notin waived /\ heard' = session /\ epoch' = Epoch(sent[t])
         /\ ~Unseen(sent[t])
         /\ session = heard => ~Wrapped(sent[t]) /\ epoch' = epoch
         /\ session # heard => epoch' > epoch + top /\ heard < session /\ epoch' >= epoch
<1>1. /\ "pts" \notin waived /\ heard' = session /\ epoch' = Epoch(sent[t]) /\ ~Unseen(sent[t])
  BY DEF Hear, Excuse
<1>2. session = heard => ~Wrapped(sent[t])
  BY <1>1, NotWrapped
<1>3. lastFid = -1 => top = -1
  BY <1>1 DEF OneEpoch
<1> QED
  BY <1>1, <1>2, <1>3 DEF Epoch, Unseen, Wrapped, TypeOK

(* Most steps have nothing to do with the numbering. *)
LEMMA Quiet ==
  ASSUME [Next]_vars,
         ~(\E t \in Tiles : Receive(t) \/ Unusable(t) \/ Lose(t)), ~AirRestart, ~StartDecoders
  PROVE  UNCHANGED <<session, sent, heard, lastFid, epoch, top, waived>>
<1>1. CASE Flush \/ Push \/ Drain \/ StopRx \/ StopDecoders \/ UNCHANGED vars
  BY <1>1 DEF Flush, Push, Drain, StopRx, StopDecoders, vars, air, input, history
<1>2. ASSUME NEW t \in Tiles, Take(t) \/ NoPicture(t) \/ OnTile(t)
      PROVE  UNCHANGED <<session, sent, heard, lastFid, epoch, top, waived>>
  BY <1>2 DEF Take, NoPicture, OnTile, air, input, history
<1> QED
  BY <1>1, <1>2 DEF Next

LEMMA TogetherStep ==
  TypeOK /\ Swapped /\ Together /\ OneEpoch /\ [Next]_vars => Together'
<1> SUFFICES ASSUME TypeOK, Swapped, Together, OneEpoch, [Next]_vars PROVE Together'
  OBVIOUS
<1>t. TypeOK'
  BY TypeStep
<1>1. ASSUME NEW t \in Tiles, Lose(t) PROVE Together'
  <2>1. /\ Sends(t) /\ session' = session
        /\ UNCHANGED <<heard, lastFid, waived>>
    BY <1>1 DEF Lose, Sends, input, history
  <2>2. \A u \in Tiles : lastFid < sent[u] => lastFid < sent'[u]
    <3>1. \A u \in Tiles : sent'[u] >= sent[u]
      BY <2>1, SentStep
    <3>2. lastFid \in Int /\ \A u \in Tiles : sent[u] \in Int /\ sent'[u] \in Int
      BY <1>t DEF TypeOK
    <3> QED
      BY <3>1, <3>2
  <2>3. \A u \in Tiles : sent'[u] <= sent'[1 - u] + Lead + 1
    BY <2>1, SentStep
  <2> QED
    BY <2>1, <2>2, <2>3 DEF Together
<1>2. ASSUME NEW t \in Tiles, Unusable(t) PROVE Together'
  <2>1. Sends(t) /\ Hear(t, sent[t]) /\ session' = session
    BY <1>2 DEF Unusable, Sends
  <2>2. ASSUME "pts" \notin waived' PROVE \E u \in Tiles : lastFid' < sent'[u]
    <3>1. CASE session = heard
      <4>1. ~Wrapped(sent[t]) /\ "pts" \notin waived
        BY <2>1, <2>2, <3>1, HeardStep
      <4>2. lastFid' = lastFid
        BY <1>2, <4>1 DEF Unusable
      <4>3. \A u \in Tiles : lastFid < sent[u] => lastFid < sent'[u]
        <5>1. \A u \in Tiles : sent'[u] >= sent[u]
          BY <2>1, SentStep
        <5>2. lastFid \in Int /\ \A u \in Tiles : sent[u] \in Int /\ sent'[u] \in Int
          BY <1>t DEF TypeOK
        <5> QED
          BY <5>1, <5>2
      <4> QED
        BY <3>1, <4>1, <4>2, <4>3 DEF Together
    <3>2. CASE session # heard
      <4>1. ~Unseen(sent[t])
        BY <2>1, <2>2, HeardStep
      <4>2. lastFid' = -1
        BY <1>2, <3>2, <4>1 DEF Unusable, Unseen, TypeOK
      <4>3. sent'[t] \in Nat
        BY <1>t DEF TypeOK
      <4> QED
        BY <4>2, <4>3
    <3> QED
      BY <3>1, <3>2
  <2> QED
    BY <2>1, <2>2, SentStep DEF Together
<1>3. ASSUME NEW t \in Tiles, Receive(t) PROVE Together'
  <2>1. Sends(t) /\ lastFid' = sent[t]
    BY <1>3 DEF Receive, Note
  <2>2. lastFid' < sent'[t]
    BY <2>1, SentStep DEF TypeOK
  <2> QED
    BY <2>1, <2>2, SentStep DEF Together
<1>4. CASE AirRestart
  <2>1. /\ heard' # session'
        /\ \A t \in Tiles : sent'[t] = 0
    BY <1>4 DEF AirRestart, TypeOK, input
  <2> QED
    BY <2>1, RfTilesAssumption DEF Together, Tiles
<1>5. CASE StartDecoders
  <2>1. lastFid' = -1 /\ sent' = sent
    BY <1>5 DEF StartDecoders, air
  <2> QED
    BY <2>1 DEF Together, TypeOK, Tiles
<1>6. CASE UNCHANGED <<session, sent, heard, lastFid, epoch, top, waived>>
  BY <1>6 DEF Together
<1> QED
  BY <1>1, <1>2, <1>3, <1>4, <1>5, <1>6, Quiet

LEMMA ItemsTyped == TypeOK => Items \subseteq Aus
<1> SUFFICES ASSUME TypeOK PROVE Items \subseteq Aus
  OBVIOUS
<1>1. \A s \in Seq(Aus) : Range(s) \subseteq Aus
  BY DEF Range
<1>2. \A t \in Tiles : /\ Range(held[t]) \subseteq Aus /\ Range(queue[t]) \subseteq Aus
                      /\ Range(busy[t]) \subseteq Aus
  BY <1>1 DEF TypeOK
<1> QED
  BY <1>2 DEF TypeOK, Items, Coming, Tiles

(* What is known of frames: the AUs in the goggle and the frame on the panel. *)
LEMMA KnownTyped == TypeOK => Known \subseteq Aus
BY ItemsTyped DEF TypeOK, Known, Panel

LEMMA PanelMoved ==
  ASSUME TypeOK, [Next]_vars
  PROVE  Panel' \subseteq Known
<1>1. CASE shown' = shown
  BY <1>1 DEF Panel, Known
<1>2. ASSUME NEW t \in Tiles, OnTile(t), Pair(Head(busy[t])) PROVE Panel' \subseteq Known
  <2>1. PICK sl \in slots : shown' = <<Head(busy[t]), sl>> \/ shown' = <<sl, Head(busy[t])>>
    BY <1>2 DEF Pair, Slot
  <2>2. Head(busy[t]) \in Items /\ sl \in Items
    BY <1>2, ItemsAre, Headed DEF OnTile, TypeOK
  <2> QED
    BY <2>1, <2>2 DEF Panel, Known
<1>3. ASSUME NEW t \in Tiles, OnTile(t), ~Pair(Head(busy[t])) PROVE shown' = shown
  BY <1>3 DEF OnTile, Again, Park, Evict
<1>4. CASE StartDecoders
  BY <1>4 DEF StartDecoders, Panel, NoFrame
<1>5. ASSUME NEW t \in Tiles, Lose(t) \/ Unusable(t) \/ Receive(t) \/ Take(t) \/ NoPicture(t)
      PROVE  shown' = shown
  BY <1>5 DEF Lose, Unusable, Receive, Take, NoPicture, history
<1>6. CASE AirRestart \/ Flush \/ Push \/ Drain \/ StopRx \/ StopDecoders \/ UNCHANGED vars
  BY <1>1, <1>6 DEF AirRestart, Flush, Push, Drain, StopRx, StopDecoders, vars, history
<1> QED
  BY <1>1, <1>2, <1>3, <1>4, <1>5, <1>6 DEF Next

LEMMA KnownMoved ==
  ASSUME TypeOK, [Next]_vars, ~(\E t \in Tiles : Receive(t))
  PROVE  Known' \subseteq Known
BY Moved, PanelMoved DEF Known

LEMMA KnownArrived ==
  ASSUME TypeOK, [Next]_vars, NEW t \in Tiles, Receive(t)
  PROVE  Known' \subseteq Known \cup {Made(t)}
BY Arrived, PanelMoved DEF Known

(* A PTS names one frame, and the order of the PTSs is the air's order.    *)
LEMMA OneFrame ==
  ASSUME TypeOK, OneEpoch, "pts" \notin waived, NEW a \in Known, NEW b \in Known
  PROVE  /\ a.pts = b.pts => a.session = b.session /\ a.fid = b.fid
         /\ a.pts < b.pts => Later(b, a)
<1>1. /\ a.session < b.session => a.pts < b.pts
      /\ b.session < a.session => b.pts < a.pts
      /\ a.session = b.session => a.pts - a.fid = b.pts - b.fid
  BY DEF OneEpoch, Numbered
<1>2. /\ a.session \in Nat /\ a.pts \in Nat /\ a.fid \in Nat
      /\ b.session \in Nat /\ b.pts \in Nat /\ b.fid \in Nat
  BY KnownTyped DEF Aus
<1> QED
  BY <1>1, <1>2 DEF Later

(* An AU that comes in is after all that is known, in its session or beyond. *)
LEMMA Arrival ==
  ASSUME TypeOK, Together, OneEpoch, NEW t \in Tiles, Receive(t), "pts" \notin waived'
  PROVE  LET au == Made(t) IN
         /\ "pts" \notin waived /\ Numbered(Known) /\ heard' = session
         /\ au \in Aus /\ au.session = session /\ au.fid = sent[t] /\ au.pts = epoch' + sent[t]
         /\ epoch' \in Nat /\ sent[t] \in Nat /\ top' \in Nat /\ top' >= sent[t]
         /\ lastFid' = sent[t]
         /\ \A a \in Known :
              /\ a.session <= session /\ a.pts <= epoch' + top'
              /\ a.session = session => a.pts = epoch' + a.fid
              /\ a.session < session => a.pts < epoch'
              /\ a.session < session => a.pts < au.pts
              /\ a.session = session => a.pts - a.fid = au.pts - au.fid
<1>i. Known \subseteq Aus
  BY KnownTyped
<1> DEFINE au == Made(t)
<1>1. /\ Hear(t, sent[t]) /\ lastFid' = sent[t]
      /\ top' = IF session = heard THEN Highest(top, sent[t]) ELSE sent[t]
  BY DEF Receive, Note
<1>2. /\ "pts" \notin waived /\ Numbered(Known) /\ heard' = session /\ epoch' = Epoch(sent[t])
      /\ session = heard => epoch' = epoch
      /\ session # heard => epoch' > epoch + top /\ heard < session
  BY <1>1, HeardStep DEF OneEpoch
<1>3. /\ au \in Aus /\ au.session = session /\ au.fid = sent[t] /\ au.pts = epoch' + sent[t]
      /\ epoch' \in Nat
  BY <1>2, MadeOK DEF Made
<1>4. sent[t] \in Nat /\ top' \in Nat /\ top' >= sent[t] /\ (session = heard => top' >= top)
  BY <1>1 DEF Highest, TypeOK
<1>5. ASSUME NEW a \in Known
      PROVE  /\ a.session <= session /\ a.pts <= epoch' + top'
             /\ a.session = session => a.pts = epoch' + a.fid
             /\ a.session < session => a.pts < epoch'
  <2>1. /\ a.session <= heard /\ a.pts <= epoch + top
        /\ a.session = heard => a.pts = epoch + a.fid
        /\ a.session < heard => a.pts < epoch
    BY <1>2 DEF Numbered
  <2>2. a.session \in Nat /\ a.pts \in Nat /\ a.fid \in Nat
    BY <1>i, <1>5 DEF Aus
  <2>t. session \in Int /\ heard \in Int /\ epoch \in Int /\ top \in Int
    BY DEF TypeOK
  <2>3. CASE session = heard
    BY <1>2, <1>3, <1>4, <2>1, <2>2, <2>3, <2>t
  <2>4. CASE session # heard
    <3>1. heard < session /\ epoch' > epoch + top
      BY <1>2, <2>4
    <3>2. a.session < session /\ a.pts < epoch'
      BY <1>3, <2>1, <2>2, <2>t, <3>1
    <3> QED
      BY <1>3, <1>4, <2>2, <2>t, <3>2
  <2> QED
    BY <2>3, <2>4
<1>6. ASSUME NEW a \in Known
      PROVE  /\ a.session <= session
             /\ a.session < session => a.pts < au.pts
             /\ a.session = session => a.pts - a.fid = au.pts - au.fid
  <2>1. a.session \in Nat /\ a.pts \in Nat /\ a.fid \in Nat /\ session \in Nat
    <3>1. a \in Aus
      BY <1>i, <1>6
    <3>2. session \in Nat
      BY DEF TypeOK
    <3> QED
      BY <3>1, <3>2 DEF Aus
  <2>2. /\ a.session <= session
        /\ a.session = session => a.pts = epoch' + a.fid
        /\ a.session < session => a.pts < epoch'
    BY <1>5, <1>6
  <2> HIDE DEF au
  <2> QED
    BY <1>3, <1>4, <2>1, <2>2
<1> HIDE DEF au
<1> QED
  BY <1>1, <1>2, <1>3, <1>4, <1>5, <1>6 DEF au

LEMMA OneEpochStep ==
  TypeOK /\ Swapped /\ Together /\ OneEpoch /\ [Next]_vars => OneEpoch'
<1> SUFFICES ASSUME TypeOK, Swapped, Together, OneEpoch, [Next]_vars, "pts" \notin waived'
             PROVE  (lastFid' = -1 => top' = -1) /\ Numbered(Known)'
  BY DEF OneEpoch
<1>i. Known \subseteq Aus
  BY KnownTyped
<1>1. ASSUME NEW t \in Tiles, Receive(t)
      PROVE  (lastFid' = -1 => top' = -1) /\ Numbered(Known)'
  <2> DEFINE au == Made(t)
  <2>1. /\ "pts" \notin waived /\ Numbered(Known) /\ heard' = session
        /\ au \in Aus /\ au.session = session /\ au.fid = sent[t] /\ au.pts = epoch' + sent[t]
        /\ epoch' \in Nat /\ sent[t] \in Nat /\ top' \in Nat /\ top' >= sent[t]
        /\ lastFid' = sent[t]
    BY <1>1, Arrival
  <2>2. ASSUME NEW a \in Known
        PROVE  /\ a.session <= session /\ a.pts <= epoch' + top'
               /\ a.session = session => a.pts = epoch' + a.fid
               /\ a.session < session => a.pts < epoch'
    BY <1>1, Arrival
  <2>3. ASSUME NEW a \in Known
        PROVE  /\ a.session <= session
               /\ a.session < session => a.pts < au.pts
               /\ a.session = session => a.pts - a.fid = au.pts - au.fid
    BY <1>1, Arrival
  <2> HIDE DEF au
  <2>6. Known' \subseteq Known \cup {au}
    BY <1>1, KnownArrived DEF au
  <2>7. ASSUME NEW a \in Known'
        PROVE  /\ a.session <= heard' /\ a.pts <= epoch' + top'
               /\ a.session = heard' => a.pts = epoch' + a.fid
               /\ a.session < heard' => a.pts < epoch'
    <3>1. CASE a \in Known
      BY <2>1, <2>2, <3>1
    <3>2. CASE a = au
      <4>1. session \in Nat
        BY DEF TypeOK
      <4> QED
        BY <2>1, <3>2, <4>1
    <3> QED
      BY <2>6, <3>1, <3>2
  <2>9. ASSUME NEW a \in Known', NEW b \in Known'
        PROVE  /\ a.session < b.session => a.pts < b.pts
               /\ a.session = b.session => a.pts - a.fid = b.pts - b.fid
    <3>1. CASE a \in Known /\ b \in Known
      BY <2>1, <3>1 DEF Numbered
    <3>2. CASE a \in Known /\ b = au
      BY <2>1, <2>3, <3>2
    <3>3. CASE a = au /\ b \in Known
      <4>1. b.session <= au.session /\ b.session \in Nat /\ au.session \in Nat
        BY <1>i, <2>1, <2>3, <3>3 DEF Aus
      <4> HIDE DEF au
      <4> QED
        BY <2>1, <2>3, <3>3, <4>1
    <3>4. CASE a = au /\ b = au
      <4>1. au.session \in Nat
        BY <2>1 DEF Aus
      <4> HIDE DEF au
      <4> QED
        BY <3>4, <4>1
    <3> QED
      BY <2>6, <3>1, <3>2, <3>3, <3>4
  <2> QED
    BY <2>1, <2>7, <2>9 DEF Numbered
<1>2. CASE ~(\E t \in Tiles : Receive(t))
  <2>0. Known' \subseteq Known
    BY <1>2, KnownMoved
  <2>1. ASSUME NEW t \in Tiles, Unusable(t)
        PROVE  (lastFid' = -1 => top' = -1) /\ Numbered(Known)'
    <3>1. Hear(t, sent[t]) /\ top' = IF session = heard THEN top ELSE -1
      BY <2>1 DEF Unusable
    <3>2. /\ Numbered(Known) /\ heard' = session /\ (lastFid = -1 => top = -1)
          /\ session = heard => ~Wrapped(sent[t]) /\ epoch' = epoch
          /\ session # heard => epoch' > epoch + top /\ heard < session
      BY <3>1, HeardStep DEF OneEpoch
    <3>3. lastFid' = -1 => top' = -1
      BY <2>1, <3>1, <3>2 DEF Unusable
    <3>4. epoch' \in Nat
      BY <3>1, Numbers
    <3>5. CASE session = heard
      BY <2>0, <3>1, <3>2, <3>3, <3>5 DEF Numbered
    <3>6. CASE session # heard
      <4>1. ASSUME NEW a \in Known'
            PROVE  a.session < heard' /\ a.pts < epoch' /\ a.pts <= epoch' + top'
        <5>1. a.session <= heard /\ a.pts <= epoch + top
          BY <2>0, <3>2, <4>1 DEF Numbered
        <5>2. a.session \in Nat /\ a.pts \in Nat
          BY <1>i, <2>0, <4>1 DEF Aus
        <5>3. heard \in Int /\ session \in Int /\ epoch \in Int /\ top \in Int
          BY DEF TypeOK
        <5>4. top' = -1 /\ epoch' > epoch + top /\ heard < session /\ heard' = session
          BY <3>1, <3>2, <3>6
        <5> QED
          BY <3>4, <5>1, <5>2, <5>3, <5>4
      <4>2. ASSUME NEW a \in Known' PROVE a.session <= heard' /\ a.session # heard'
        <5>1. a.session \in Nat
          BY <1>i, <2>0, <4>2 DEF Aus
        <5> QED
          BY <3>2, <4>1, <4>2, <5>1 DEF TypeOK
      <4>3. \A a, b \in Known' : /\ a.session < b.session => a.pts < b.pts
                                 /\ a.session = b.session => a.pts - a.fid = b.pts - b.fid
        BY <2>0, <3>2 DEF Numbered
      <4> QED
        BY <3>3, <4>1, <4>2, <4>3 DEF Numbered
    <3> QED
      BY <3>5, <3>6
  <2>2. CASE StartDecoders
    <3>1. lastFid' = -1 /\ top' = -1 /\ life = "down"
      BY <2>2 DEF StartDecoders
    <3>2. Known' = {}
      <4>1. Items = {} /\ Items' \subseteq Items
        BY <1>2, <3>1, Moved DEF Swapped
      <4>2. Panel' = {}
        BY <2>2 DEF StartDecoders, Panel, NoFrame
      <4> QED
        BY <4>1, <4>2 DEF Known
    <3> QED
      BY <3>1, <3>2 DEF Numbered
  <2>3. CASE UNCHANGED <<heard, lastFid, epoch, top, waived>>
    BY <2>0, <2>3 DEF Numbered, OneEpoch
  <2>4. ASSUME NEW t \in Tiles, Lose(t) PROVE UNCHANGED <<heard, lastFid, epoch, top, waived>>
    BY <2>4 DEF Lose, input, history
  <2>5. CASE AirRestart
    BY <2>3, <2>5 DEF AirRestart, input, history
  <2> QED
    BY <1>2, <2>1, <2>2, <2>3, <2>4, <2>5, Quiet
<1> QED
  BY <1>1, <1>2

-----------------------------------------------------------------------------
LEMMA SameFrameStep == TypeOK /\ OneEpoch /\ SameFrame /\ [Next]_vars => SameFrame'
<1> SUFFICES ASSUME TypeOK, OneEpoch, SameFrame, [Next]_vars, "pts" \notin waived'
             PROVE  shown'[1].session = shown'[2].session /\ shown'[1].fid = shown'[2].fid
  BY DEF SameFrame
<1>1. ASSUME NEW t \in Tiles, OnTile(t), Pair(Head(busy[t]))
      PROVE  shown'[1].session = shown'[2].session /\ shown'[1].fid = shown'[2].fid
  <2>1. PICK sl \in slots : /\ sl.pts = Head(busy[t]).pts
                            /\ shown' = <<Head(busy[t]), sl>> \/ shown' = <<sl, Head(busy[t])>>
    BY <1>1 DEF Pair, Slot
  <2>2. Head(busy[t]) \in Known /\ sl \in Known
    BY <1>1, ItemsAre, Headed DEF OnTile, Known, TypeOK
  <2>3. "pts" \notin waived
    BY <1>1 DEF OnTile
  <2>4. sl.session = Head(busy[t]).session /\ sl.fid = Head(busy[t]).fid
    BY <2>1, <2>2, <2>3, OneFrame
  <2> QED
    BY <2>1, <2>4
<1>2. CASE StartDecoders
  BY <1>2 DEF StartDecoders, NoFrame, None
<1>3. CASE shown' = shown /\ "pts" \notin waived
  BY <1>3 DEF SameFrame
<1>4. ASSUME ~StartDecoders, ~(\E t \in Tiles : OnTile(t) /\ Pair(Head(busy[t])))
      PROVE  shown' = shown /\ "pts" \notin waived
  <2>1. ASSUME NEW t \in Tiles, OnTile(t) PROVE shown' = shown /\ "pts" \notin waived
    BY <1>4, <2>1 DEF OnTile, Again, Park, Evict
  <2>2. ASSUME NEW t \in Tiles, Lose(t) \/ Take(t) \/ NoPicture(t)
        PROVE  shown' = shown /\ "pts" \notin waived
    BY <2>2 DEF Lose, Take, NoPicture, history
  <2>3. ASSUME NEW t \in Tiles, Unusable(t) \/ Receive(t)
        PROVE  shown' = shown /\ "pts" \notin waived
    BY <2>3 DEF Unusable, Receive, Note, Hear
  <2>4. CASE AirRestart \/ Flush \/ Push \/ Drain \/ StopRx \/ StopDecoders \/ UNCHANGED vars
    BY <2>4 DEF AirRestart, Flush, Push, Drain, StopRx, StopDecoders, vars, history
  <2> QED
    BY <1>4, <2>1, <2>2, <2>3, <2>4 DEF Next
<1> QED
  BY <1>1, <1>2, <1>3, <1>4

LEMMA NumberedInit == Init => Together /\ OneEpoch /\ SameFrame
<1> SUFFICES ASSUME Init PROVE Together /\ OneEpoch /\ SameFrame
  OBVIOUS
<1>1. Together
  BY RfTilesAssumption DEF Init, Together, Tiles
<1>2. Range(<<>>) = {}
  BY DEF Range
<1>3. Known = {}
  BY <1>2 DEF Init, Known, Panel, NoFrame, Items, Coming, Tiles
<1>4. OneEpoch
  BY <1>3 DEF Init, OneEpoch, Numbered
<1> QED
  BY <1>1, <1>4 DEF Init, SameFrame, NoFrame, None

(* Whatever is lost, held back, evicted or restarted, the two halves of a
   composite are of one frame of one session, unless a session began unseen. *)
THEOREM AlwaysSameFrame == Spec => []SameFrame
<1> DEFINE I == TypeOK /\ Swapped /\ Together /\ OneEpoch /\ SameFrame
<1>1. Init => I
  BY TypeInit, SwappedInit, NumberedInit
<1>2. I /\ [Next]_vars => I'
  BY Types, TogetherStep, OneEpochStep, SameFrameStep
<1>3. I => SameFrame
  OBVIOUS
<1> QED
  BY <1>1, <1>2, <1>3, PTL DEF Spec

-----------------------------------------------------------------------------
(* The line of a tile, from the display back to the receive thread: what is
   past its decoder, the AUs the decoder works on, its queue, its hold and
   the AU in hand.                                                          *)
Past(t) == Panel \cup {sl \in slots : sl.tile = t}
Working(t) == Range(busy[t])
Hand(t) == IF cur.tile = t THEN {cur} \ {None} ELSE {}

Rising(s) == \A i, j \in DOMAIN s : i < j => s[i].pts < s[j].pts
Before(A, B) == \A a \in A : \A b \in B : a.pts < b.pts

InLine(t) ==
  /\ Rising(busy[t]) /\ Rising(queue[t]) /\ Rising(held[t])
  /\ Before(Past(t), Coming(t))
  /\ Before(Working(t), Range(queue[t]) \cup Range(held[t]) \cup Hand(t))
  /\ Before(Range(queue[t]), Range(held[t]) \cup Hand(t))
  /\ Before(Range(held[t]), Hand(t))

OwnTile == \A t \in Tiles : \A a \in Coming(t) : a.tile = t

(* A tile is held only while the other one is behind, and an AU in hand is
   fed when its hold is empty: nothing overtakes what is held.              *)
Staged ==
  /\ IF released THEN held[1] = <<>> ELSE held[0] = <<>>
  /\ rx = "flush" /\ cur.tile = 0 => released
  /\ rx = "push" => released /\ held[cur.tile] = <<>>

(* The air has sent what is known of its session. *)
Sooner ==
  /\ \A a \in Known : a.session = session => a.fid < sent[a.tile]
  /\ \A a \in Panel : a.session = session => \A t \in Tiles : a.fid < sent[t]

InOrder == "pts" \notin waived => Sooner /\ \A t \in Tiles : InLine(t)

LEMMA ComingIs ==
  ASSUME NEW t
  PROVE  Coming(t) = Range(held[t]) \cup Range(queue[t]) \cup Working(t) \cup Hand(t)
BY DEF Coming, Working, Hand

LEMMA ComingIsNext ==
  ASSUME NEW t
  PROVE  Coming(t)' = Range(held'[t]) \cup Range(queue'[t]) \cup Working(t)' \cup Hand(t)'
BY DEF Coming, Working, Hand

LEMMA HandNext == cur' = cur => \A t : Hand(t)' = Hand(t)
BY DEF Hand

LEMMA Emptied == ASSUME NEW s \in Seq(Aus), Range(s) = {} PROVE s = <<>>
BY Headed

(* A sequence in order stays so without its head, and with a later element. *)
LEMMA RisingHeaded ==
  ASSUME NEW s \in Seq(Aus), s # <<>>, Rising(s)
  PROVE  Rising(Tail(s)) /\ Before({Head(s)}, Range(Tail(s)))
<1>1. /\ Head(s) = s[1] /\ Len(s) \in Nat \ {0}
      /\ DOMAIN s = 1..Len(s) /\ DOMAIN Tail(s) = 1..Len(s) - 1
      /\ \A i \in 1..Len(s) - 1 : Tail(s)[i] = s[i + 1]
  OBVIOUS
<1>2. Rising(Tail(s))
  <2> SUFFICES ASSUME NEW i \in DOMAIN Tail(s), NEW j \in DOMAIN Tail(s), i < j
               PROVE  Tail(s)[i].pts < Tail(s)[j].pts
    BY DEF Rising
  <2>1. i + 1 \in DOMAIN s /\ j + 1 \in DOMAIN s /\ i + 1 < j + 1
    BY <1>1
  <2>2. s[i + 1].pts < s[j + 1].pts
    BY <2>1 DEF Rising
  <2> QED
    BY <1>1, <2>2
<1>3. ASSUME NEW b \in Range(Tail(s)) PROVE Head(s).pts < b.pts
  <2>1. PICK i \in DOMAIN Tail(s) : Tail(s)[i] = b
    BY <1>3 DEF Range
  <2>2. i + 1 \in DOMAIN s /\ 1 \in DOMAIN s /\ 1 < i + 1
    BY <1>1
  <2>3. s[1].pts < s[i + 1].pts
    BY <2>2 DEF Rising
  <2> QED
    BY <1>1, <2>1, <2>3
<1> QED
  BY <1>2, <1>3 DEF Before

LEMMA RisingAppended ==
  ASSUME NEW s \in Seq(Aus), NEW e \in Aus, Rising(s), Before(Range(s), {e})
  PROVE  Rising(Append(s, e))
<1>1. /\ Len(s) \in Nat /\ DOMAIN s = 1..Len(s) /\ DOMAIN Append(s, e) = 1..Len(s) + 1
      /\ \A i \in 1..Len(s) : Append(s, e)[i] = s[i]
      /\ Append(s, e)[Len(s) + 1] = e
  OBVIOUS
<1> SUFFICES ASSUME NEW i \in DOMAIN Append(s, e), NEW j \in DOMAIN Append(s, e), i < j
             PROVE  Append(s, e)[i].pts < Append(s, e)[j].pts
  BY DEF Rising
<1>2. CASE j \in 1..Len(s)
  <2>1. i \in DOMAIN s /\ j \in DOMAIN s
    BY <1>1, <1>2
  <2>2. s[i].pts < s[j].pts
    BY <2>1 DEF Rising
  <2> QED
    BY <1>1, <2>1, <2>2
<1>3. CASE j = Len(s) + 1
  <2>1. i \in DOMAIN s /\ s[i] \in Range(s)
    BY <1>1, <1>3 DEF Range
  <2> QED
    BY <1>1, <1>3, <2>1 DEF Before
<1> QED
  BY <1>1, <1>2, <1>3

LEMMA RisingEmpty == Rising(<<>>) /\ Range(<<>>) = {}
BY DEF Rising, Range

-----------------------------------------------------------------------------
(* The ways in which a step can change the line of a tile. *)
Fed(t, au) == queue'[t] \in {queue[t], Append(queue[t], au)}

Stays(t) == queue'[t] = queue[t] /\ held'[t] = held[t] /\ busy'[t] = busy[t] /\ Hand(t)' = Hand(t)

FromHold(t) ==
  /\ held[t] # <<>> /\ held'[t] = Tail(held[t]) /\ Fed(t, Head(held[t]))
  /\ busy'[t] = busy[t] /\ Hand(t)' = Hand(t)

FromHand(t) ==
  /\ held[t] = <<>> /\ cur \in Aus /\ Hand(t) = {cur} /\ Hand(t)' = {} /\ Fed(t, cur)
  /\ held'[t] = held[t] /\ busy'[t] = busy[t]

Taken(t) ==
  /\ queue[t] # <<>> /\ queue'[t] = Tail(queue[t])
  /\ busy'[t] = Append(busy[t], Head(queue[t])) /\ held'[t] = held[t] /\ Hand(t)' = Hand(t)

Done(t) ==
  /\ busy[t] # <<>> /\ busy'[t] = Tail(busy[t])
  /\ queue'[t] = queue[t] /\ held'[t] = held[t] /\ Hand(t)' = Hand(t)

Cleared(t) == queue'[t] = <<>> /\ held'[t] = <<>> /\ busy'[t] = <<>> /\ Hand(t)' = {}

Entered(t, au) ==
  /\ busy'[t] = busy[t] /\ Hand(t) = {}
  /\ \/ held[t] = <<>> /\ held'[t] = <<>> /\ Hand(t)' = {} /\ Fed(t, au)
     \/ held'[t] = Append(held[t], au) /\ Hand(t)' = {} /\ queue'[t] = queue[t]
     \/ Hand(t)' = {au} /\ held'[t] = held[t] /\ queue'[t] = queue[t]

(* A push feeds one queue or drops the AU. *)
LEMMA PushFeeds ==
  ASSUME TypeOK, NEW t \in Tiles, NEW au, PushAu(t, au)
  PROVE  /\ Fed(t, au) /\ busy' = busy
         /\ \A u \in Tiles \ {t} : queue'[u] = queue[u]
<1>1. queue \in [Tiles -> Seq(Aus)]
  BY DEF TypeOK
<1>2. CASE queue' = queue
  BY <1>2 DEF PushAu, Fed
<1>3. CASE queue' = [queue EXCEPT ![t] = Append(@, au)]
  BY <1>1, <1>3 DEF PushAu, Fed
<1> QED
  BY <1>2, <1>3 DEF PushAu

LEMMA HandEmpty == ASSUME TypeOK, rx \in {"recv", "drain"} PROVE \A t : Hand(t) = {}
BY DEF TypeOK, Hand

LEMMA Entering ==
  ASSUME TypeOK, Staged, NEW t \in Tiles, Receive(t)
  PROVE  /\ Entered(t, Made(t))
         /\ \A u \in Tiles \ {t} : Stays(u)
<1> DEFINE au == Made(t)
<1>1. /\ Straight(au) \/ Stagger(au) \/ Gate(au)
      /\ rx = "recv"
  BY DEF Receive, Made, Sends
<1>2. au \in Aus /\ au.tile = t /\ au # None
  <2>1. au \in Aus /\ au.tile = t
    BY MadeOK DEF Made
  <2> QED
    BY <2>1 DEF Aus, None
<1> HIDE DEF au
<1>3. \A u : Hand(u) = {}
  BY <1>1, HandEmpty
<1>4. cur = None /\ held \in [Tiles -> Seq(Aus)]
  BY <1>1 DEF TypeOK
<1>5. CASE Straight(au)
  <2>1. PushAu(t, au) /\ cur' = cur /\ held' = held /\ released = (t = 1)
    BY <1>2, <1>5 DEF Straight
  <2>2. held[t] = <<>>
    BY <2>1 DEF Staged, Tiles
  <2>3. \A u : Hand(u)' = {}
    BY <1>3, <2>1, HandNext
  <2>4. Fed(t, au) /\ busy' = busy /\ \A u \in Tiles \ {t} : queue'[u] = queue[u]
    BY <2>1, PushFeeds
  <2> QED
    BY <1>3, <2>1, <2>2, <2>3, <2>4 DEF Entered, Stays, au
<1>6. CASE Hold(au)
  <2>1. /\ held' = [held EXCEPT ![t] = Append(@, au)] /\ cur' = cur
        /\ queue' = queue /\ busy' = busy
    BY <1>2, <1>6 DEF Hold, thread, decoders
  <2>2. \A u : Hand(u)' = {}
    BY <1>3, <2>1, HandNext
  <2>3. held'[t] = Append(held[t], au) /\ \A u \in Tiles \ {t} : held'[u] = held[u]
    BY <1>4, <2>1
  <2> QED
    BY <1>3, <2>1, <2>2, <2>3 DEF Entered, Stays, au
<1>7. CASE cur' = au /\ UNCHANGED <<held, decoders>>
  <2>1. queue' = queue /\ busy' = busy /\ held' = held
    BY <1>7 DEF decoders
  <2>2. Hand(t)' = {au} /\ \A u \in Tiles \ {t} : Hand(u)' = {}
    BY <1>2, <1>7 DEF Hand
  <2> QED
    BY <1>3, <2>1, <2>2 DEF Entered, Stays, au
<1> QED
  BY <1>1, <1>5, <1>6, <1>7 DEF Stagger, Gate, FlushFor, au

(* Every step changes a line in one of these ways, and what is past the
   decoders grows only by what comes out of them.                           *)
LEMMA LineSteps ==
  ASSUME TypeOK, Swapped, Staged, [Next]_vars, NEW t \in Tiles
  PROVE  \/ Stays(t) \/ FromHold(t) \/ FromHand(t) \/ Taken(t) \/ Cleared(t)
         \/ Done(t) /\ (NoPicture(t) \/ OnTile(t))
         \/ Receive(t) /\ Entered(t, Made(t))
<1>n. Tiles = {0, 1}
  BY DEF Tiles
<1>t. /\ held \in [Tiles -> Seq(Aus)] /\ queue \in [Tiles -> Seq(Aus)]
      /\ busy \in [Tiles -> Seq(Aus)]
  BY DEF TypeOK
<1>1. CASE UNCHANGED <<held, queue, busy, cur>>
  BY <1>1, HandNext DEF Stays
<1>2. ASSUME NEW u \in Tiles, Receive(u)
      PROVE  Stays(t) \/ (Receive(t) /\ Entered(t, Made(t)))
  BY <1>2, Entering
<1>3. CASE Flush
  <2> DEFINE u == cur.tile
  <2>1. u \in Tiles
    BY <1>3 DEF TypeOK, Flush, Aus
  <2>2. CASE held[u] # <<>>
    <3>1. PushAu(u, Head(held[u])) /\ held' = [held EXCEPT ![u] = Tail(@)] /\ cur' = cur
      BY <1>3, <2>2 DEF Flush, thread
    <3>2. Fed(u, Head(held[u])) /\ busy' = busy /\ \A v \in Tiles \ {u} : queue'[v] = queue[v]
      BY <2>1, <3>1, PushFeeds
    <3>3. held'[u] = Tail(held[u]) /\ \A v \in Tiles \ {u} : held'[v] = held[v]
      BY <1>t, <2>1, <3>1
    <3> HIDE DEF u
    <3> QED
      BY <2>1, <2>2, <3>1, <3>2, <3>3, HandNext DEF Stays, FromHold
  <2>3. CASE held[u] = <<>>
    BY <1>1, <1>3, <2>3 DEF Flush, decoders
  <2> QED
    BY <2>2, <2>3
<1>4. CASE Push
  <2> DEFINE u == cur.tile
  <2>1. cur \in Aus /\ u \in Tiles /\ cur # None
    BY <1>4 DEF TypeOK, Push, Aus, None
  <2>2. PushAu(u, cur) /\ cur' = None /\ held' = held /\ held[u] = <<>>
    BY <1>4 DEF Push, Staged
  <2>3. Fed(u, cur) /\ busy' = busy /\ \A v \in Tiles \ {u} : queue'[v] = queue[v]
    BY <2>1, <2>2, PushFeeds
  <2>4. Hand(u) = {cur} /\ \A v \in Tiles \ {u} : Hand(v) = {}
    BY <2>1 DEF Hand
  <2>5. \A v : Hand(v)' = {}
    BY <2>2 DEF Hand
  <2> HIDE DEF u
  <2> QED
    BY <2>1, <2>2, <2>3, <2>4, <2>5 DEF Stays, FromHand
<1>5. CASE Drain
  <2>1. CASE held[0] # <<>> /\ drained < DrainMax /\ ~GateShut
    <3>1. PushAu(0, Head(held[0])) /\ held' = [held EXCEPT ![0] = Tail(@)] /\ cur' = cur
      BY <1>5, <2>1 DEF Drain
    <3>2. Fed(0, Head(held[0])) /\ busy' = busy /\ \A v \in Tiles \ {0} : queue'[v] = queue[v]
      BY <1>n, <3>1, PushFeeds
    <3>3. held'[0] = Tail(held[0]) /\ \A v \in Tiles \ {0} : held'[v] = held[v]
      BY <1>t, <1>n, <3>1
    <3> QED
      BY <1>n, <2>1, <3>1, <3>2, <3>3, HandNext DEF Stays, FromHold
  <2>2. CASE ~(held[0] # <<>> /\ drained < DrainMax /\ ~GateShut)
    BY <1>1, <1>5, <2>2 DEF Drain, decoders
  <2> QED
    BY <2>1, <2>2
<1>6. ASSUME NEW u \in Tiles, Take(u) PROVE Stays(t) \/ Taken(t)
  <2>1. /\ queue[u] # <<>> /\ busy' = [busy EXCEPT ![u] = Append(@, Head(queue[u]))]
        /\ queue' = [queue EXCEPT ![u] = Tail(@)] /\ held' = held /\ cur' = cur
    BY <1>6 DEF Take, thread
  <2>2. /\ queue'[u] = Tail(queue[u]) /\ busy'[u] = Append(busy[u], Head(queue[u]))
        /\ \A v \in Tiles \ {u} : queue'[v] = queue[v] /\ busy'[v] = busy[v]
    BY <1>t, <2>1
  <2> QED
    BY <2>1, <2>2, HandNext DEF Stays, Taken
<1>7. ASSUME NEW u \in Tiles, NoPicture(u) \/ OnTile(u)
      PROVE  Stays(t) \/ (Done(t) /\ (NoPicture(t) \/ OnTile(t)))
  <2>1. busy' = [busy EXCEPT ![u] = Tail(@)] /\ queue' = queue /\ held' = held /\ cur' = cur
    BY <1>7 DEF NoPicture, OnTile, thread
  <2>2. busy'[u] = Tail(busy[u]) /\ \A v \in Tiles \ {u} : busy'[v] = busy[v]
    BY <1>t, <2>1
  <2>6. busy[u] # <<>>
    BY <1>7 DEF NoPicture, OnTile
  <2>3. Hand(t)' = Hand(t)
    BY <2>1, HandNext
  <2>4. CASE t = u
    <3>1. Done(t)
      BY <2>1, <2>2, <2>3, <2>4, <2>6 DEF Done
    <3> QED
      BY <1>7, <2>4, <3>1
  <2>5. CASE t # u
    <3>1. Stays(t)
      BY <2>1, <2>2, <2>3, <2>5 DEF Stays
    <3> QED
      BY <3>1
  <2> QED
    BY <2>4, <2>5
<1>8. CASE StopDecoders
  <2>1. /\ queue'[t] = <<>> /\ busy'[t] = <<>> /\ held'[t] = <<>> /\ cur' = cur /\ rx = "recv"
    BY <1>8 DEF StopDecoders, thread, Swapped
  <2>2. Hand(t)' = {}
    BY <2>1, HandEmpty, HandNext
  <2> QED
    BY <2>1, <2>2 DEF Cleared
<1>9. ASSUME NEW u \in Tiles, Lose(u) \/ Unusable(u) PROVE Stays(t)
  <2>1. UNCHANGED <<held, queue, busy, cur>>
    BY <1>9 DEF Lose, Unusable, thread, decoders
  <2> QED
    BY <2>1, HandNext DEF Stays
<1>10. CASE AirRestart \/ StopRx \/ StartDecoders \/ UNCHANGED vars
  BY <1>1, <1>10 DEF AirRestart, StopRx, StartDecoders, vars, thread, decoders
<1> QED
  BY <1>2, <1>3, <1>4, <1>5, <1>6, <1>7, <1>8, <1>9, <1>10 DEF Next

-----------------------------------------------------------------------------
LEMMA StagedStep == TypeOK /\ Swapped /\ Staged /\ [Next]_vars => Staged'
<1> SUFFICES ASSUME TypeOK, Swapped, Staged, [Next]_vars PROVE Staged'
  OBVIOUS
<1>n. Tiles = {0, 1}
  BY DEF Tiles
<1>t. held \in [Tiles -> Seq(Aus)]
  BY DEF TypeOK
<1>1. CASE UNCHANGED <<released, held, rx, cur>>
  BY <1>1 DEF Staged
<1>2. ASSUME NEW t \in Tiles, Receive(t) PROVE Staged'
  <2> DEFINE au == Made(t)
  <2>1. Straight(au) \/ Stagger(au) \/ Gate(au)
    BY <1>2 DEF Receive, Made
  <2>2. rx = "recv" /\ au \in Aus /\ au.tile = t
    BY <1>2, MadeOK DEF Receive, Sends, Made
  <2> HIDE DEF au
  <2>3. CASE Straight(au)
    BY <2>3 DEF Straight, AfterPush, Staged
  <2>4. CASE Stagger(au) /\ Hold(au)
    <3>1. held' = [held EXCEPT ![1] = Append(@, au)] /\ ~released /\ UNCHANGED <<released, rx, cur>>
      BY <2>2, <2>4 DEF Stagger, Hold, thread
    <3>2. held'[0] = held[0]
      BY <1>t, <1>n, <3>1
    <3> QED
      BY <2>2, <3>1, <3>2 DEF Staged
  <2>5. CASE Stagger(au) /\ FlushFor(au)
    BY <2>5 DEF Stagger, FlushFor, Staged
  <2>6. CASE Gate(au) /\ Hold(au)
    <3>1. held' = [held EXCEPT ![0] = Append(@, au)] /\ released /\ UNCHANGED <<released, rx, cur>>
      BY <2>2, <2>6 DEF Gate, Hold, thread
    <3>2. held'[1] = held[1]
      BY <1>t, <1>n, <3>1
    <3> QED
      BY <2>2, <3>1, <3>2 DEF Staged
  <2>7. CASE Gate(au) /\ FlushFor(au)
    BY <2>7 DEF Gate, FlushFor, Staged
  <2>8. CASE Gate(au) /\ held[0] = <<>> /\ rx' = "push" /\ cur' = au
             /\ UNCHANGED <<released, drained, held, decoders>>
    BY <2>8 DEF Gate, Staged
  <2> QED
    BY <2>1, <2>3, <2>4, <2>5, <2>6, <2>7, <2>8, Zenon DEF Stagger, Gate
<1>3. CASE Flush
  <2>1. rx = "flush" /\ cur.tile \in Tiles
    BY <1>3 DEF TypeOK, Flush, Aus
  <2>2. CASE held[cur.tile] # <<>>
    <3>1. held' = [held EXCEPT ![cur.tile] = Tail(@)] /\ UNCHANGED <<released, rx, cur>>
      BY <1>3, <2>2 DEF Flush, thread
    <3>2. CASE cur.tile = 0
      <4>1. released /\ held'[1] = held[1]
        BY <1>t, <1>n, <2>1, <3>1, <3>2 DEF Staged
      <4> QED
        BY <2>1, <3>1, <4>1 DEF Staged
    <3>3. CASE cur.tile = 1
      <4>1. ~released /\ held'[0] = held[0]
        BY <1>t, <1>n, <2>2, <3>1, <3>3 DEF Staged
      <4> QED
        BY <2>1, <3>1, <3>3, <4>1 DEF Staged
    <3> QED
      BY <1>n, <2>1, <3>2, <3>3
  <2>3. CASE held[cur.tile] = <<>>
    <3>1. rx' = "push" /\ released' = TRUE /\ held' = held /\ cur' = cur
      BY <1>3, <2>3 DEF Flush
    <3>2. held[1] = <<>>
      BY <1>n, <2>1, <2>3 DEF Staged
    <3> QED
      BY <2>3, <3>1, <3>2 DEF Staged
  <2> QED
    BY <2>2, <2>3
<1>4. CASE Push
  BY <1>4 DEF Push, AfterPush, Staged
<1>5. CASE Drain
  <2>1. CASE held[0] # <<>> /\ drained < DrainMax /\ ~GateShut
    <3>1. held' = [held EXCEPT ![0] = Tail(@)] /\ UNCHANGED <<released, rx, cur>> /\ rx = "drain"
      BY <1>5, <2>1 DEF Drain
    <3>2. held'[1] = held[1] /\ released
      BY <1>t, <1>n, <2>1, <3>1 DEF Staged
    <3> QED
      BY <3>1, <3>2 DEF Staged
  <2>2. CASE ~(held[0] # <<>> /\ drained < DrainMax /\ ~GateShut)
    BY <1>5, <2>2 DEF Drain, Staged
  <2> QED
    BY <2>1, <2>2
<1>6. CASE StopDecoders
  <2>1. held'[0] = <<>> /\ held'[1] = <<>> /\ rx = "recv" /\ rx' = rx
    BY <1>6, <1>n DEF StopDecoders, thread, Swapped
  <2> QED
    BY <2>1 DEF Staged
<1>7. CASE StartDecoders
  <2>1. /\ life = "down" /\ released' = FALSE /\ held' = held /\ rx' = rx
    BY <1>7 DEF StartDecoders
  <2>2. Range(held[0]) \subseteq Items /\ Items = {} /\ rx = "recv"
    BY <1>n, <2>1, ItemsAre DEF Swapped
  <2>3. held[0] = <<>>
    BY <1>t, <1>n, <2>2, Emptied
  <2> QED
    BY <2>1, <2>2, <2>3 DEF Staged
<1>8. ASSUME NEW t \in Tiles, Lose(t) \/ Unusable(t) \/ Take(t) \/ NoPicture(t) \/ OnTile(t)
      PROVE  UNCHANGED <<released, held, rx, cur>>
  BY <1>8 DEF Lose, Unusable, Take, NoPicture, OnTile, thread
<1>9. CASE AirRestart \/ StopRx \/ UNCHANGED vars
  BY <1>1, <1>9 DEF AirRestart, StopRx, vars, thread
<1> QED
  BY <1>1, <1>2, <1>3, <1>4, <1>5, <1>6, <1>7, <1>8, <1>9 DEF Next

(* What is fed to a queue. *)
LEMMA FedAdds ==
  ASSUME TypeOK, NEW t \in Tiles, NEW au \in Aus, Fed(t, au)
  PROVE  /\ Range(queue'[t]) \subseteq Range(queue[t]) \cup {au}
         /\ Rising(queue[t]) /\ Before(Range(queue[t]), {au}) => Rising(queue'[t])
<1>1. queue[t] \in Seq(Aus)
  BY DEF TypeOK
<1>2. Range(Append(queue[t], au)) = Range(queue[t]) \cup {au}
  BY <1>1, Appended
<1>3. Rising(queue[t]) /\ Before(Range(queue[t]), {au}) => Rising(Append(queue[t], au))
  BY <1>1, RisingAppended
<1> QED
  BY <1>2, <1>3 DEF Fed

(* A step brings nothing into a line but what it receives. *)
LEMMA ComingMoved ==
  ASSUME TypeOK, Swapped, Staged, [Next]_vars, NEW t \in Tiles
  PROVE  \/ Coming(t)' \subseteq Coming(t)
         \/ Receive(t) /\ Coming(t)' \subseteq Coming(t) \cup {Made(t)}
<1>t. held[t] \in Seq(Aus) /\ queue[t] \in Seq(Aus) /\ busy[t] \in Seq(Aus)
  BY DEF TypeOK
<1>c. /\ Coming(t) = Range(held[t]) \cup Range(queue[t]) \cup Working(t) \cup Hand(t)
      /\ Coming(t)' = Range(held'[t]) \cup Range(queue'[t]) \cup Working(t)' \cup Hand(t)'
  BY ComingIs, ComingIsNext
<1>1. CASE Stays(t) \/ Done(t)
  <2>1. Done(t) => Range(Tail(busy[t])) \subseteq Range(busy[t])
    BY <1>t, Headed DEF Done
  <2> QED
    BY <1>c, <1>1, <2>1 DEF Stays, Done, Working
<1>2. CASE FromHold(t)
  <2>1. /\ Head(held[t]) \in Aus /\ Head(held[t]) \in Range(held[t])
        /\ Range(Tail(held[t])) \subseteq Range(held[t])
    BY <1>t, <1>2, Headed DEF FromHold
  <2>2. Range(queue'[t]) \subseteq Range(queue[t]) \cup {Head(held[t])}
    BY <1>2, <2>1, FedAdds DEF FromHold
  <2> QED
    BY <1>c, <1>2, <2>1, <2>2 DEF FromHold, Working
<1>3. CASE FromHand(t)
  <2>1. Range(queue'[t]) \subseteq Range(queue[t]) \cup {cur}
    BY <1>3, FedAdds DEF FromHand
  <2> QED
    BY <1>c, <1>3, <2>1 DEF FromHand, Working
<1>4. CASE Taken(t)
  <2>1. /\ Head(queue[t]) \in Aus /\ Head(queue[t]) \in Range(queue[t])
        /\ Range(Tail(queue[t])) \subseteq Range(queue[t])
    BY <1>t, <1>4, Headed DEF Taken
  <2>2. Range(Append(busy[t], Head(queue[t]))) = Range(busy[t]) \cup {Head(queue[t])}
    BY <1>t, <2>1, Appended
  <2> QED
    BY <1>c, <1>4, <2>1, <2>2 DEF Taken, Working
<1>5. CASE Cleared(t)
  BY <1>c, <1>5, RisingEmpty DEF Cleared, Working
<1>6. CASE Receive(t) /\ Entered(t, Made(t))
  <2> DEFINE au == Made(t)
  <2>1. au \in Aus
    BY MadeOK
  <2>2. Entered(t, au)
    BY <1>6
  <2> HIDE DEF au
  <2>3. Range(Append(held[t], au)) = Range(held[t]) \cup {au}
    BY <1>t, <2>1, Appended
  <2>4. Fed(t, au) => Range(queue'[t]) \subseteq Range(queue[t]) \cup {au}
    BY <2>1, FedAdds
  <2>5. Coming(t)' \subseteq Coming(t) \cup {au}
    BY <1>c, <2>2, <2>3, <2>4 DEF Entered, Working
  <2> QED
    BY <1>6, <2>5 DEF au
<1> QED
  BY <1>1, <1>2, <1>3, <1>4, <1>5, <1>6, LineSteps

LEMMA OwnTileStep == TypeOK /\ Swapped /\ Staged /\ OwnTile /\ [Next]_vars => OwnTile'
<1> SUFFICES ASSUME TypeOK, Swapped, Staged, OwnTile, [Next]_vars, NEW t \in Tiles, NEW a \in Coming(t)'
             PROVE  a.tile = t
  BY DEF OwnTile
<1>1. a \in Coming(t) \/ a = Made(t)
  BY ComingMoved
<1> QED
  BY <1>1 DEF OwnTile, Made

(* The AU that leaves a decoder is ahead of all that comes after it. *)
LEMMA LineSplit ==
  ASSUME TypeOK, NEW t \in Tiles, InLine(t), Done(t)
  PROVE  Before({Head(busy[t])}, Coming(t)')
<1>1. busy[t] \in Seq(Aus) /\ busy[t] # <<>>
  BY DEF TypeOK, Done
<1>2. /\ Head(busy[t]) \in Working(t) /\ Rising(busy[t])
      /\ Before(Working(t), Range(queue[t]) \cup Range(held[t]) \cup Hand(t))
  BY <1>1, Headed DEF InLine, Working
<1>3. Before({Head(busy[t])}, Range(Tail(busy[t])))
  BY <1>1, <1>2, RisingHeaded
<1>4. Coming(t)' = Range(held[t]) \cup Range(queue[t]) \cup Range(Tail(busy[t])) \cup Hand(t)
  BY ComingIsNext DEF Done, Working
<1> QED
  BY <1>2, <1>3, <1>4 DEF Before

(* A step keeps a line in order if what comes in is after all of it.       *)
LEMMA LineKept ==
  ASSUME TypeOK, Swapped, Staged, [Next]_vars, NEW t \in Tiles, InLine(t),
         Before(Past(t)', Coming(t)'), Receive(t) => Before(Coming(t), {Made(t)})
  PROVE  InLine(t)'
<1>t. held[t] \in Seq(Aus) /\ queue[t] \in Seq(Aus) /\ busy[t] \in Seq(Aus)
  BY DEF TypeOK
<1>l. /\ Rising(busy[t]) /\ Rising(queue[t]) /\ Rising(held[t])
      /\ Before(Working(t), Range(queue[t]) \cup Range(held[t]) \cup Hand(t))
      /\ Before(Range(queue[t]), Range(held[t]) \cup Hand(t))
      /\ Before(Range(held[t]), Hand(t))
  BY DEF InLine
<1> SUFFICES /\ Rising(busy'[t]) /\ Rising(queue'[t]) /\ Rising(held'[t])
             /\ Before(Working(t)', Range(queue'[t]) \cup Range(held'[t]) \cup Hand(t)')
             /\ Before(Range(queue'[t]), Range(held'[t]) \cup Hand(t)')
             /\ Before(Range(held'[t]), Hand(t)')
  BY DEF InLine, Before, Rising
<1>1. CASE Stays(t)
  BY <1>l, <1>1 DEF Stays, Working
<1>2. CASE Done(t)
  <2>1. Working(t)' \subseteq Working(t) /\ Rising(busy'[t])
    BY <1>t, <1>l, <1>2, Headed, RisingHeaded DEF Done, Working
  <2> QED
    BY <1>l, <1>2, <2>1 DEF Done, Before
<1>3. CASE FromHold(t)
  <2>1. /\ Head(held[t]) \in Aus /\ Head(held[t]) \in Range(held[t])
        /\ Range(Tail(held[t])) \subseteq Range(held[t])
        /\ Rising(Tail(held[t])) /\ Before({Head(held[t])}, Range(Tail(held[t])))
    BY <1>t, <1>l, <1>3, Headed, RisingHeaded DEF FromHold
  <2>2. Before(Range(queue[t]), {Head(held[t])})
    BY <1>l, <2>1 DEF Before
  <2>3. /\ Range(queue'[t]) \subseteq Range(queue[t]) \cup {Head(held[t])}
        /\ Rising(queue'[t])
    BY <1>3, <1>l, <2>1, <2>2, FedAdds DEF FromHold
  <2>4. /\ held'[t] = Tail(held[t]) /\ Hand(t)' = Hand(t) /\ Working(t)' = Working(t)
        /\ busy'[t] = busy[t]
    BY <1>3 DEF FromHold, Working
  <2> QED
    BY <1>l, <2>1, <2>3, <2>4 DEF Before
<1>4. CASE FromHand(t)
  <2>1. /\ cur \in Aus /\ Hand(t) = {cur} /\ Hand(t)' = {} /\ Range(held'[t]) = {} /\ Rising(held'[t])
        /\ Working(t)' = Working(t) /\ Fed(t, cur) /\ busy'[t] = busy[t]
    BY <1>4, RisingEmpty DEF FromHand, Working
  <2>2. Before(Range(queue[t]), {cur})
    BY <1>l, <2>1 DEF Before
  <2>3. /\ Range(queue'[t]) \subseteq Range(queue[t]) \cup {cur}
        /\ Rising(queue'[t])
    BY <1>l, <2>1, <2>2, FedAdds
  <2> QED
    BY <1>l, <2>1, <2>3 DEF Before
<1>5. CASE Taken(t)
  <2>1. /\ Head(queue[t]) \in Aus /\ Head(queue[t]) \in Range(queue[t])
        /\ Range(Tail(queue[t])) \subseteq Range(queue[t])
        /\ Rising(Tail(queue[t])) /\ Before({Head(queue[t])}, Range(Tail(queue[t])))
    BY <1>t, <1>l, <1>5, Headed, RisingHeaded DEF Taken
  <2>2. /\ queue'[t] = Tail(queue[t]) /\ held'[t] = held[t] /\ Hand(t)' = Hand(t)
        /\ busy'[t] = Append(busy[t], Head(queue[t]))
    BY <1>5 DEF Taken
  <2>3. Before(Range(busy[t]), {Head(queue[t])})
    BY <1>l, <2>1 DEF Before, Working
  <2>4. Rising(busy'[t]) /\ Working(t)' = Working(t) \cup {Head(queue[t])}
    BY <1>t, <1>l, <2>1, <2>2, <2>3, Appended, RisingAppended DEF Working
  <2> QED
    BY <1>l, <2>1, <2>2, <2>4 DEF Before
<1>6. CASE Cleared(t)
  <2>1. /\ Working(t)' = {} /\ queue'[t] = <<>> /\ held'[t] = <<>> /\ Hand(t)' = {}
        /\ busy'[t] = <<>>
    BY <1>6, RisingEmpty DEF Cleared, Working
  <2> QED
    BY <2>1, RisingEmpty DEF Before
<1>7. CASE Receive(t) /\ Entered(t, Made(t))
  <2> DEFINE au == Made(t)
  <2>1. au \in Aus
    BY MadeOK
  <2>2. Entered(t, au) /\ Before(Coming(t), {au})
    BY <1>7
  <2> HIDE DEF au
  <2>3. Before(Range(held[t]), {au}) /\ Before(Range(queue[t]), {au}) /\ Before(Working(t), {au})
    BY <2>2, ComingIs DEF Before
  <2>4. Working(t)' = Working(t) /\ busy'[t] = busy[t]
    BY <2>2 DEF Entered, Working
  <2>5. CASE held[t] = <<>> /\ held'[t] = <<>> /\ Hand(t)' = {} /\ Fed(t, au)
    <3>1. Range(queue'[t]) \subseteq Range(queue[t]) \cup {au} /\ Rising(queue'[t])
      BY <1>l, <2>1, <2>3, <2>5, FedAdds
    <3> QED
      BY <1>l, <2>3, <2>4, <2>5, <3>1, RisingEmpty DEF Before
  <2>6. CASE held'[t] = Append(held[t], au) /\ Hand(t)' = {} /\ queue'[t] = queue[t]
    <3>1. Range(held'[t]) = Range(held[t]) \cup {au} /\ Rising(held'[t])
      BY <1>t, <1>l, <2>1, <2>3, <2>6, Appended, RisingAppended
    <3> QED
      BY <1>l, <2>3, <2>4, <2>6, <3>1 DEF Before
  <2>7. CASE Hand(t)' = {au} /\ held'[t] = held[t] /\ queue'[t] = queue[t]
    BY <1>l, <2>3, <2>4, <2>7 DEF Before
  <2> QED
    BY <2>2, <2>5, <2>6, <2>7 DEF Entered
<1> QED
  BY <1>1, <1>2, <1>3, <1>4, <1>5, <1>6, <1>7, LineSteps

-----------------------------------------------------------------------------
(* What is past the decoders grows only by what comes out of them. *)
LEMMA PastKept ==
  ASSUME TypeOK, [Next]_vars, ~(\E u \in Tiles : OnTile(u)), NEW t
  PROVE  Past(t)' \subseteq Past(t) /\ Panel' \subseteq Panel
<1>1. CASE shown' \in {shown, NoFrame} /\ slots' \subseteq slots
  BY <1>1 DEF Past, Panel, NoFrame
<1>2. ASSUME NEW u \in Tiles, Lose(u) \/ Unusable(u) \/ Receive(u) \/ Take(u) \/ NoPicture(u)
      PROVE  shown' = shown /\ slots' = slots
  BY <1>2 DEF Lose, Unusable, Receive, Take, NoPicture, history, pairing
<1>3. CASE AirRestart \/ Flush \/ Push \/ Drain \/ StopRx \/ StopDecoders \/ StartDecoders
           \/ UNCHANGED vars
  BY <1>1, <1>3 DEF AirRestart, Flush, Push, Drain, StopRx, StopDecoders, StartDecoders, vars,
                    history, pairing
<1> QED
  BY <1>1, <1>2, <1>3 DEF Next

(* What a decoder puts out is ahead of all that is still in the lines: by its
   own line, or, if it completes a frame, by the half that was waiting.     *)
LEMMA PastGrows ==
  ASSUME TypeOK, OwnTile, InLine(0), InLine(1), NEW u \in Tiles, OnTile(u), NEW t \in Tiles
  PROVE  Before(Past(t)', Coming(t)')
<1>n. Tiles = {0, 1}
  BY DEF Tiles
<1> DEFINE au == Head(busy[u])
<1>1. /\ busy' = [busy EXCEPT ![u] = Tail(@)] /\ queue' = queue /\ held' = held /\ cur' = cur
      /\ busy[u] # <<>>
  BY DEF OnTile, thread
<1>2. /\ busy'[u] = Tail(busy[u]) /\ \A v \in Tiles \ {u} : busy'[v] = busy[v]
  BY <1>1 DEF TypeOK
<1>0. au \in Working(u) /\ Range(Tail(busy[u])) \subseteq Working(u)
  BY <1>1, Headed DEF Working, TypeOK
<1>3. InLine(t) /\ InLine(u)
  BY <1>n
<1>4. Coming(t)' \subseteq Coming(t)
  BY <1>0, <1>1, <1>2, ComingIs, ComingIsNext, HandNext DEF Working
<1>5. au \in Coming(u) /\ au.tile = u
  BY <1>0, ComingIs DEF OwnTile
<1>6. t = u => Before({au}, Coming(t)')
  <2> SUFFICES ASSUME t = u PROVE Before({au}, Coming(u)')
    OBVIOUS
  <2>1. Done(u)
    BY <1>1, <1>2, HandNext DEF Done
  <2> QED
    BY <1>3, <2>1, LineSplit
<1>7. Before(Past(t), Coming(t)')
  BY <1>3, <1>4 DEF InLine, Before
<1>8. ASSUME NEW sl \in slots, sl.tile # u, sl.pts = au.pts
      PROVE  \A a \in Coming(t)' : au.pts < a.pts
  <2>1. CASE t = u
    BY <1>6, <2>1 DEF Before
  <2>2. CASE t # u
    <3>1. sl \in Aus
      BY <1>8 DEF TypeOK
    <3>2. sl.tile = t
      BY <1>n, <1>8, <2>2, <3>1 DEF Aus
    <3>3. sl \in Past(t)
      BY <3>2 DEF Past
    <3> HIDE DEF au
    <3> QED
      BY <1>7, <1>8, <3>3 DEF Before
  <2> QED
    BY <2>1, <2>2
<1>9. CASE Pair(au)
  <2>1. PICK sl \in slots : /\ sl.pts = au.pts /\ sl.tile # au.tile
                            /\ shown' = <<au, sl>> \/ shown' = <<sl, au>>
                            /\ slots' = slots \ {sl}
    BY <1>9 DEF Pair, Slot
  <2> HIDE DEF au
  <2>2. \A x \in Past(t)' : x \in Past(t) \/ x.pts = au.pts
    BY <2>1 DEF Past, Panel
  <2>3. \A a \in Coming(t)' : au.pts < a.pts
    BY <1>5, <1>8, <2>1
  <2> QED
    BY <1>7, <2>2, <2>3 DEF Before
<1>10. CASE Again(au) \/ Park(au) \/ Evict(au)
  <2>1. slots' \subseteq slots \cup {au} /\ shown' = shown
    BY <1>10 DEF Again, Park, Evict
  <2> HIDE DEF au
  <2>2. Past(t)' \subseteq Past(t) \cup (IF t = u THEN {au} ELSE {})
    BY <1>5, <2>1 DEF Past, Panel
  <2> QED
    BY <1>6, <1>7, <2>2 DEF Before
<1> QED
  BY <1>9, <1>10 DEF OnTile

(* A frame that completes is of two halves of one frame. *)
LEMMA Completes ==
  ASSUME TypeOK, OneEpoch, OwnTile, "pts" \notin waived, NEW u \in Tiles, OnTile(u), Pair(Head(busy[u]))
  PROVE  \E sl \in slots :
           /\ Head(busy[u]) \in Known /\ sl \in Known /\ Head(busy[u]).tile = u /\ sl.tile = 1 - u
           /\ sl.session = Head(busy[u]).session /\ sl.fid = Head(busy[u]).fid /\ sl.pts = Head(busy[u]).pts
           /\ shown'[1] \in {Head(busy[u]), sl}
<1>1. PICK sl \in slots : /\ sl.pts = Head(busy[u]).pts /\ sl.tile # Head(busy[u]).tile
                          /\ shown' = <<Head(busy[u]), sl>> \/ shown' = <<sl, Head(busy[u])>>
  BY DEF Pair, Slot
<1>2. Head(busy[u]) \in Working(u) /\ Head(busy[u]) \in Known /\ sl \in Known
  BY ItemsAre, Headed DEF OnTile, Known, Working, TypeOK
<1>3. sl.session = Head(busy[u]).session /\ sl.fid = Head(busy[u]).fid
  BY <1>1, <1>2, OneFrame
<1>4. Head(busy[u]) \in Coming(u)
  BY <1>2, ComingIs
<1>5. Head(busy[u]).tile = u
  BY <1>4 DEF OwnTile
<1>6. sl.tile = 1 - u
  BY <1>1, <1>2, <1>5, KnownTyped DEF Aus, Tiles
<1> QED
  BY <1>1, <1>2, <1>3, <1>5, <1>6

(* The air has sent what is known of its session. *)
LEMMA SoonerStep ==
  ASSUME TypeOK, Swapped, Together, OneEpoch, OwnTile, [Next]_vars, "pts" \notin waived',
         "pts" \notin waived => Sooner, TypeOK'
  PROVE  Sooner'
<1>n. Tiles = {0, 1}
  BY DEF Tiles
<1>k. Known \subseteq Aus /\ Known' \subseteq Aus
  <2>1. Known \subseteq Aus
    BY KnownTyped
  <2>2. CASE \E t \in Tiles : Receive(t)
    BY <2>1, <2>2, KnownArrived, MadeOK
  <2>3. CASE ~(\E t \in Tiles : Receive(t))
    BY <2>1, <2>3, KnownMoved
  <2> QED
    BY <2>1, <2>2, <2>3
<1>1. ASSUME Sooner, "pts" \notin waived,
             \A a \in Known' : a \in Known \/ (a.session = session => a.fid < sent'[a.tile]),
             \A a \in Panel' : a \in Panel \/ (a.session = session => \A t \in Tiles : a.fid < sent[t]),
             session' = session, \A t \in Tiles : sent'[t] >= sent[t]
      PROVE  Sooner'
  <2>1. \A t \in Tiles : sent[t] \in Nat /\ sent'[t] \in Nat
    BY DEF TypeOK
  <2>2. \A a \in Aus : a.fid \in Nat /\ a.tile \in Tiles
    BY DEF Aus
  <2>3. Panel' \subseteq Known'
    BY DEF Known
  <2>4. \A a \in Known' : a.session = session' => a.fid < sent'[a.tile]
    <3> SUFFICES ASSUME NEW a \in Known', a.session = session, a \in Known
                 PROVE  a.fid < sent'[a.tile]
      BY <1>1
    <3>1. a.fid < sent[a.tile] /\ a.fid \in Nat /\ a.tile \in Tiles
      BY <1>k, <1>1, <2>2 DEF Sooner
    <3> QED
      BY <1>1, <2>1, <3>1
  <2>5. \A a \in Panel' : a.session = session' => \A t \in Tiles : a.fid < sent'[t]
    <3> SUFFICES ASSUME NEW a \in Panel', a.session = session, NEW t \in Tiles
                 PROVE  a.fid < sent'[t]
      BY <1>1
    <3>1. a.fid < sent[t]
      BY <1>1 DEF Sooner
    <3>2. a.fid \in Nat
      BY <1>k, <2>2, <2>3
    <3> QED
      BY <1>1, <2>1, <3>1, <3>2
  <2> QED
    BY <2>4, <2>5 DEF Sooner
<1>2. ASSUME NEW t \in Tiles, Receive(t) PROVE Sooner'
  <2>1. Sends(t) /\ "pts" \notin waived /\ session' = session /\ Made(t).fid = sent[t] /\ Made(t).tile = t
    BY <1>2, Arrival DEF Receive, Sends, Made
  <2>2. sent'[t] = sent[t] + 1 /\ \A u \in Tiles : sent'[u] >= sent[u]
    BY <2>1, SentStep
  <2>3. Known' \subseteq Known \cup {Made(t)}
    BY <1>2, KnownArrived
  <2>4. Panel' = Panel
    BY <1>2 DEF Receive, Panel
  <2>5. Made(t).fid < sent'[Made(t).tile]
    <3>1. sent[t] \in Nat
      BY DEF TypeOK
    <3>2. sent[t] < sent'[t]
      BY <2>2, <3>1
    <3> QED
      BY <2>1, <3>2
  <2>6. \A a \in Known' : a \in Known \/ (a.session = session => a.fid < sent'[a.tile])
    BY <2>3, <2>5
  <2> QED
    BY <1>1, <2>1, <2>2, <2>4, <2>6
<1>3. CASE ~(\E t \in Tiles : Receive(t))
  <2>0. Known' \subseteq Known /\ Panel' \subseteq Known
    BY <1>3, KnownMoved, PanelMoved
  <2>1. ASSUME NEW u \in Tiles, OnTile(u) PROVE Sooner'
    <3>1. "pts" \notin waived /\ session' = session /\ sent' = sent
      BY <2>1 DEF OnTile, air
    <3>2. \A t \in Tiles : sent'[t] >= sent[t]
      BY <3>1 DEF TypeOK
    <3>3. CASE Pair(Head(busy[u]))
      <4>1. PICK sl \in slots :
              /\ Head(busy[u]) \in Known /\ sl \in Known /\ Head(busy[u]).tile = u /\ sl.tile = 1 - u
              /\ sl.session = Head(busy[u]).session /\ sl.fid = Head(busy[u]).fid
              /\ shown'[1] \in {Head(busy[u]), sl}
        BY <2>1, <3>1, <3>3, Completes
      <4>2. ASSUME NEW a \in Panel', a.session = session PROVE \A t \in Tiles : a.fid < sent[t]
        <5>1. a.fid = Head(busy[u]).fid /\ Head(busy[u]).session = session /\ sl.session = session
          BY <4>1, <4>2 DEF Panel
        <5>2. Head(busy[u]).fid < sent[u] /\ sl.fid < sent[1 - u]
          BY <3>1, <4>1, <5>1 DEF Sooner
        <5>3. \A t \in Tiles : t = u \/ t = 1 - u
          BY <1>n
        <5> QED
          BY <4>1, <5>1, <5>2, <5>3
      <4> QED
        BY <1>1, <2>0, <3>1, <3>2, <4>2
    <3>4. CASE ~Pair(Head(busy[u]))
      <4>1. Panel' = Panel
        BY <2>1, <3>4 DEF OnTile, Again, Park, Evict, Panel
      <4> QED
        BY <1>1, <2>0, <3>1, <3>2, <4>1
    <3> QED
      BY <3>3, <3>4
  <2>2. CASE StartDecoders
    <3>1. life = "down" /\ Panel' = {}
      BY <2>2 DEF StartDecoders, Panel, NoFrame
    <3>2. Items' \subseteq Items /\ Items = {}
      BY <1>3, <3>1, Moved DEF Swapped
    <3> QED
      BY <3>1, <3>2 DEF Known, Sooner
  <2>3. CASE AirRestart
    <3>1. "pts" \notin waived /\ session' = session + 1
      BY <2>3 DEF AirRestart, history
    <3>2. ASSUME NEW a \in Known' PROVE a.session # session'
      <4>1. a.session <= heard /\ a.session \in Nat
        BY <1>k, <2>0, <3>1 DEF OneEpoch, Numbered, Aus
      <4>2. heard <= session /\ heard \in Nat /\ session \in Nat
        BY DEF TypeOK
      <4> QED
        BY <3>1, <4>1, <4>2
    <3> QED
      BY <3>2 DEF Sooner, Known
  <2>4. CASE ~(\E u \in Tiles : OnTile(u)) /\ ~StartDecoders /\ ~AirRestart
    <3>1. Panel' \subseteq Panel
      BY <2>4, PastKept
    <3>2. ASSUME NEW t \in Tiles, Lose(t) \/ Unusable(t) PROVE Sooner'
      <4>1. Sends(t) /\ "pts" \notin waived /\ session' = session
        BY <3>2 DEF Lose, Unusable, Sends, Hear, history
      <4>2. \A u \in Tiles : sent'[u] >= sent[u]
        BY <4>1, SentStep
      <4> QED
        BY <1>1, <2>0, <3>1, <4>1, <4>2
    <3>3. CASE UNCHANGED <<session, sent, heard, lastFid, epoch, top, waived>>
      <4>1. \A u \in Tiles : sent'[u] >= sent[u]
        BY <3>3 DEF TypeOK
      <4> QED
        BY <1>1, <2>0, <3>1, <3>3, <4>1
    <3> QED
      BY <1>3, <2>4, <3>2, <3>3, Quiet
  <2> QED
    BY <2>1, <2>2, <2>3, <2>4
<1> QED
  BY <1>2, <1>3

(* What comes in is after all that is in its line and past it. *)
LEMMA ArrivesLast ==
  ASSUME TypeOK, Together, OneEpoch, OwnTile, Sooner, NEW t \in Tiles, Receive(t),
         "pts" \notin waived'
  PROVE  Before(Past(t) \cup Coming(t), {Made(t)})
<1> DEFINE au == Made(t)
<1>1. /\ au.fid = sent[t] /\ au.session = session /\ au \in Aus
      /\ \A a \in Known : /\ a.session <= session
                          /\ a.session < session => a.pts < au.pts
                          /\ a.session = session => a.pts - a.fid = au.pts - au.fid
  BY Arrival
<1> HIDE DEF au
<1> SUFFICES ASSUME NEW a \in Past(t) \cup Coming(t) PROVE a.pts < au.pts
  BY DEF Before, au
<1>2. a \in Known
  BY ItemsAre DEF Past, Known, Items, Tiles
<1>3. a.session = session => a.fid < sent[t]
  <2>1. CASE a \in Panel
    BY <2>1 DEF Sooner
  <2>2. CASE a.tile = t
    BY <1>2, <2>2 DEF Sooner
  <2> QED
    BY <2>1, <2>2 DEF Past, OwnTile
<1>4. /\ a.session \in Nat /\ a.pts \in Nat /\ a.fid \in Nat
      /\ au.session \in Nat /\ au.pts \in Nat /\ au.fid \in Nat
  <2>1. a \in Aus
    BY <1>2, KnownTyped
  <2> QED
    BY <1>1, <2>1 DEF Aus
<1> QED
  BY <1>1, <1>2, <1>3, <1>4

LEMMA InOrderStep ==
  TypeOK /\ Swapped /\ Together /\ OneEpoch /\ Staged /\ OwnTile /\ InOrder /\ [Next]_vars => InOrder'
<1> SUFFICES ASSUME TypeOK, Swapped, Together, OneEpoch, Staged, OwnTile, InOrder, [Next]_vars,
                    "pts" \notin waived', NEW t \in Tiles
             PROVE  Sooner' /\ InLine(t)'
  BY DEF InOrder, Tiles
<1>n. 0 \in Tiles /\ 1 \in Tiles
  BY DEF Tiles
<1>1. Sooner'
  BY SoonerStep, TypeStep DEF InOrder
<1>2. CASE StartDecoders
  <2>1. life = "down" /\ Panel' = {}
    BY <1>2 DEF StartDecoders, Panel, NoFrame
  <2>2. ~(\E u \in Tiles : Receive(u))
    BY <2>1 DEF Receive
  <2>3. Items' = {}
    BY <2>1, <2>2, Moved DEF Swapped
  <2>4. Coming(t)' = {} /\ Past(t)' = {}
    BY <2>1, <2>3 DEF Items, Past, Tiles
  <2>5. /\ queue'[t] = <<>> /\ held'[t] = <<>> /\ Working(t)' = {} /\ Hand(t)' = {}
        /\ busy'[t] = <<>>
    <3>1. /\ Range(queue'[t]) = {} /\ Range(held'[t]) = {} /\ Working(t)' = {} /\ Hand(t)' = {}
      BY <2>4, ComingIsNext
    <3>2. queue'[t] \in Seq(Aus) /\ held'[t] \in Seq(Aus) /\ busy'[t] \in Seq(Aus)
      BY TypeStep DEF TypeOK
    <3>3. Range(busy'[t]) = {}
      BY <3>1 DEF Working
    <3> QED
      BY <3>1, <3>2, <3>3, Emptied
  <2> QED
    BY <1>1, <2>4, <2>5, RisingEmpty DEF InLine, Before
<1>3. CASE ~StartDecoders
  <2>1. "pts" \notin waived
    <3>1. ASSUME NEW u \in Tiles, Receive(u) \/ Unusable(u) PROVE "pts" \notin waived
      BY <3>1 DEF Receive, Unusable, Note, Hear
    <3>2. ASSUME NEW u \in Tiles, Lose(u) PROVE "pts" \notin waived
      BY <3>2 DEF Lose, history
    <3>3. CASE AirRestart
      BY <3>3 DEF AirRestart, history
    <3> QED
      BY <1>3, <3>1, <3>2, <3>3, Quiet
  <2>2. Sooner /\ InLine(0) /\ InLine(1)
    BY <1>n, <2>1 DEF InOrder
  <2>3. Receive(t) => Before(Past(t) \cup Coming(t), {Made(t)})
    BY <2>2, ArrivesLast
  <2>4. Before(Past(t)', Coming(t)')
    <3>1. ASSUME NEW u \in Tiles, OnTile(u) PROVE Before(Past(t)', Coming(t)')
      BY <2>2, <3>1, PastGrows
    <3>2. CASE ~(\E u \in Tiles : OnTile(u))
      <4>1. Past(t)' \subseteq Past(t)
        BY <3>2, PastKept
      <4>2. Before(Past(t), Coming(t))
        BY <1>n, <2>2 DEF InLine, Tiles
      <4>3. \/ Coming(t)' \subseteq Coming(t)
            \/ Receive(t) /\ Coming(t)' \subseteq Coming(t) \cup {Made(t)}
        BY ComingMoved
      <4> QED
        BY <2>3, <4>1, <4>2, <4>3 DEF Before
    <3> QED
      BY <3>1, <3>2
  <2>5. Receive(t) => Before(Coming(t), {Made(t)})
    BY <2>3 DEF Before
  <2>6. InLine(t)
    BY <2>2 DEF Tiles
  <2> QED
    BY <1>1, <2>4, <2>5, <2>6, LineKept
<1> QED
  BY <1>2, <1>3

LEMMA OrderInit == Init => Staged /\ OwnTile /\ InOrder
<1> SUFFICES ASSUME Init PROVE Staged /\ OwnTile /\ InOrder
  OBVIOUS
<1>1. /\ \A t \in Tiles : /\ held[t] = <<>> /\ queue[t] = <<>> /\ busy[t] = <<>>
                          /\ Working(t) = {} /\ Hand(t) = {}
      /\ Panel = {} /\ slots = {}
  BY RisingEmpty DEF Init, Working, Hand, Panel, NoFrame
<1>2. \A t \in Tiles : Coming(t) = {} /\ Past(t) = {}
  BY <1>1, RisingEmpty, ComingIs DEF Past
<1>3. Known = {}
  BY <1>1, <1>2 DEF Known, Items, Tiles
<1>4. Staged
  BY DEF Init, Staged, Tiles
<1> QED
  BY <1>1, <1>2, <1>3, <1>4, RisingEmpty DEF OwnTile, InOrder, Sooner, InLine, Before

(* Frames reach the panel in the air's order, each once, whatever is lost,
   held back, evicted or restarted, unless a session began unseen.          *)
THEOREM AlwaysShownInOrder == Spec => ShownInOrder
<1> DEFINE I == TypeOK /\ Swapped /\ Together /\ OneEpoch /\ Staged /\ OwnTile /\ InOrder
<1>1. Init => I
  BY TypeInit, SwappedInit, NumberedInit, OrderInit
<1>2. I /\ [Next]_vars => I'
  BY Types, TogetherStep, OneEpochStep, StagedStep, OwnTileStep, InOrderStep
<1>3. I /\ [Next]_vars
        => [shown' # shown /\ shown' # NoFrame /\ "pts" \notin waived'
              => Later(shown'[1], shown[1])]_vars
  <2> SUFFICES ASSUME I, [Next]_vars, shown' # shown, shown' # NoFrame, "pts" \notin waived'
               PROVE  Later(shown'[1], shown[1])
    OBVIOUS
  <2>1. PICK u \in Tiles : OnTile(u) /\ Pair(Head(busy[u]))
    <3>1. ASSUME NEW u \in Tiles, OnTile(u), ~Pair(Head(busy[u])) PROVE FALSE
      BY <3>1 DEF OnTile, Again, Park, Evict
    <3>2. ASSUME NEW u \in Tiles,
                 Lose(u) \/ Unusable(u) \/ Receive(u) \/ Take(u) \/ NoPicture(u)
          PROVE  FALSE
      BY <3>2 DEF Lose, Unusable, Receive, Take, NoPicture, history
    <3>3. CASE AirRestart \/ Flush \/ Push \/ Drain \/ StopRx \/ StopDecoders \/ StartDecoders
               \/ UNCHANGED vars
      BY <3>3 DEF AirRestart, Flush, Push, Drain, StopRx, StopDecoders, StartDecoders, vars, history
    <3> QED
      BY <3>1, <3>2, <3>3 DEF Next
  <2>2. "pts" \notin waived
    BY <2>1 DEF OnTile
  <2>3. PICK sl \in slots :
          /\ Head(busy[u]) \in Known /\ sl \in Known
          /\ sl.session = Head(busy[u]).session /\ sl.fid = Head(busy[u]).fid
          /\ shown'[1] \in {Head(busy[u]), sl}
    BY <2>1, <2>2, Completes
  <2>4. shown'[1].session = Head(busy[u]).session /\ shown'[1].fid = Head(busy[u]).fid
    BY <2>3
  <2>5. Later(Head(busy[u]), shown[1])
    <3>1. CASE shown[1] = None
      <4>1. Head(busy[u]).session \in Nat \ {0}
        BY <2>3, KnownTyped DEF Aus
      <4> QED
        BY <3>1, <4>1 DEF Later, None
    <3>2. CASE shown[1] # None
      <4>1. shown[1] \in Past(u) /\ shown[1] \in Known
        BY <3>2 DEF Past, Panel, Known
      <4>2. Head(busy[u]) \in Coming(u)
        BY <2>1, ComingIs, Headed DEF OnTile, Working, TypeOK
      <4>3. InLine(u)
        BY <2>2 DEF InOrder
      <4>4. shown[1].pts < Head(busy[u]).pts
        BY <4>1, <4>2, <4>3 DEF InLine, Before
      <4> QED
        BY <2>2, <2>3, <4>1, <4>4, OneFrame
    <3> QED
      BY <3>1, <3>2
  <2> QED
    BY <2>4, <2>5 DEF Later
<1> QED
  BY <1>1, <1>2, <1>3, PTL DEF Spec, ShownInOrder

-----------------------------------------------------------------------------
(* The bounds of the holds, the queues and the slots. *)
HoldsBounded == Len(held[1]) <= T1Hold /\ Len(held[0]) <= T0Hold

QueuesBounded ==
  \A t \in Tiles : \A i \in DOMAIN queue[t] : i > QueueMax => queue[t][i].fid \in Irap

SlotsBounded ==
  /\ \A a, b \in slots : a.pts = b.pts => a = b
  /\ IsFiniteSet(slots) /\ Cardinality(slots) <= Pool

LEMMA HoldsStep == TypeOK /\ HoldsBounded /\ [Next]_vars => HoldsBounded'
<1> SUFFICES ASSUME TypeOK, HoldsBounded, [Next]_vars PROVE HoldsBounded'
  OBVIOUS
<1> USE RfTilesAssumption
<1>n. Tiles = {0, 1}
  BY DEF Tiles
<1>h. /\ held \in [Tiles -> Seq(Aus)] /\ Len(held[0]) \in Nat /\ Len(held[1]) \in Nat
  BY <1>n DEF TypeOK
<1>1. CASE held' = held
  BY <1>1 DEF HoldsBounded
<1>2. ASSUME NEW t \in Tiles, Receive(t) PROVE HoldsBounded'
  <2>1. Straight(Made(t)) \/ Stagger(Made(t)) \/ Gate(Made(t))
    BY <1>2 DEF Receive, Made
  <2>2. CASE held' # held
    <3>1. /\ Hold(Made(t))
          /\ \/ Made(t).tile = 1 /\ ~(Len(held[1]) >= T1Hold)
             \/ Made(t).tile = 0 /\ Len(held[0]) < T0Hold
      BY <2>1, <2>2 DEF Straight, Stagger, Gate, FlushFor
    <3>2. Made(t) \in Aus /\ t = Made(t).tile
      BY MadeOK DEF Made
    <3>3. held' = [held EXCEPT ![t] = Append(@, Made(t))]
      BY <3>1, <3>2 DEF Hold
    <3>4. Len(Append(held[t], Made(t))) = Len(held[t]) + 1
      BY <1>h, <3>2
    <3>5. CASE t = 1
      BY <1>h, <1>n, <3>1, <3>2, <3>3, <3>4, <3>5 DEF HoldsBounded
    <3>6. CASE t = 0
      BY <1>h, <1>n, <3>1, <3>2, <3>3, <3>4, <3>6 DEF HoldsBounded
    <3> QED
      BY <1>n, <3>5, <3>6
  <2> QED
    BY <1>1, <2>2
<1>3. ASSUME NEW t \in Tiles, held[t] # <<>>, held' = [held EXCEPT ![t] = Tail(@)]
      PROVE  HoldsBounded'
  <2>1. Len(Tail(held[t])) <= Len(held[t]) /\ Len(Tail(held[t])) \in Nat
    BY <1>3, <1>h
  <2>2. held'[t] = Tail(held[t]) /\ held'[1 - t] = held[1 - t]
    BY <1>3, <1>h, <1>n
  <2>3. CASE t = 0
    <3>1. held'[0] = Tail(held[0]) /\ held'[1] = held[1]
      BY <2>2, <2>3
    <3>2. Len(held'[0]) <= Len(held[0]) /\ Len(held'[0]) \in Nat
      BY <2>1, <2>3, <3>1, Zenon
    <3>3. T0Hold \in Nat /\ T1Hold \in Nat
      OBVIOUS
    <3> QED
      BY <1>h, <3>1, <3>2, <3>3 DEF HoldsBounded
  <2>4. CASE t = 1
    <3>1. held'[1] = Tail(held[1]) /\ held'[0] = held[0]
      BY <2>2, <2>4
    <3>2. Len(held'[1]) <= Len(held[1]) /\ Len(held'[1]) \in Nat
      BY <2>1, <2>4, <3>1, Zenon
    <3>3. T0Hold \in Nat /\ T1Hold \in Nat
      OBVIOUS
    <3> QED
      BY <1>h, <3>1, <3>2, <3>3 DEF HoldsBounded
  <2> QED
    BY <1>n, <2>3, <2>4
<1>4. CASE Flush
  <2>1. cur.tile \in Tiles
    BY <1>4 DEF Flush, TypeOK, Aus
  <2> QED
    BY <1>1, <1>3, <1>4, <2>1 DEF Flush
<1>5. CASE Drain
  BY <1>1, <1>3, <1>5, <1>n DEF Drain
<1>6. CASE StopDecoders
  <2>1. held'[0] = <<>> /\ held'[1] = <<>>
    BY <1>6, <1>n DEF StopDecoders
  <2> QED
    BY <2>1 DEF HoldsBounded
<1>7. ASSUME NEW t \in Tiles, Lose(t) \/ Unusable(t) \/ Take(t) \/ NoPicture(t) \/ OnTile(t)
      PROVE  held' = held
  BY <1>7 DEF Lose, Unusable, Take, NoPicture, OnTile
<1>8. CASE AirRestart \/ Push \/ StopRx \/ StartDecoders \/ UNCHANGED vars
  BY <1>1, <1>8 DEF AirRestart, Push, StopRx, StartDecoders, vars
<1> QED
  BY <1>1, <1>2, <1>4, <1>5, <1>6, <1>7, <1>8 DEF Next

(* An AU goes to a full queue only as a key frame. *)
LEMMA PushKeeps ==
  ASSUME TypeOK, QueuesBounded, NEW t \in Tiles, NEW au \in Aus, PushAu(t, au)
  PROVE  QueuesBounded'
<1>q. queue \in [Tiles -> Seq(Aus)] /\ sync \in [Tiles -> BOOLEAN]
  BY DEF TypeOK
<1>1. CASE queue' = queue
  BY <1>1 DEF QueuesBounded
<1>2. CASE queue' # queue
  <2>1. queue' = [queue EXCEPT ![t] = Append(@, au)] /\ ~sync'[t]
    BY <1>2 DEF PushAu
  <2>2. au.fid \in Irap \/ ~(Len(queue[t]) >= QueueMax)
    <3>1. CASE sync[t]
      BY <1>q, <2>1, <3>1 DEF PushAu
    <3>2. CASE ~sync[t]
      BY <1>q, <2>1, <3>2 DEF PushAu
    <3> QED
      BY <3>1, <3>2
  <2>3. /\ DOMAIN Append(queue[t], au) = 1..Len(queue[t]) + 1 /\ DOMAIN queue[t] = 1..Len(queue[t])
        /\ \A i \in 1..Len(queue[t]) : Append(queue[t], au)[i] = queue[t][i]
        /\ Append(queue[t], au)[Len(queue[t]) + 1] = au /\ Len(queue[t]) \in Nat
    BY <1>q
  <2>4. ASSUME NEW i \in DOMAIN queue'[t], i > QueueMax PROVE queue'[t][i].fid \in Irap
    <3>1. queue'[t] = Append(queue[t], au)
      BY <1>q, <2>1
    <3>2. CASE i \in 1..Len(queue[t])
      BY <2>3, <2>4, <3>1, <3>2 DEF QueuesBounded
    <3>3. CASE i = Len(queue[t]) + 1
      BY <2>2, <2>3, <2>4, <3>1, <3>3, RfTilesAssumption
    <3> QED
      BY <2>3, <2>4, <3>1, <3>2, <3>3
  <2>5. \A u \in Tiles \ {t} : queue'[u] = queue[u]
    BY <1>q, <2>1
  <2> QED
    BY <2>4, <2>5 DEF QueuesBounded
<1> QED
  BY <1>1, <1>2

LEMMA QueuesStep == TypeOK /\ QueuesBounded /\ [Next]_vars => QueuesBounded'
<1> SUFFICES ASSUME TypeOK, QueuesBounded, [Next]_vars PROVE QueuesBounded'
  OBVIOUS
<1>n. Tiles = {0, 1}
  BY DEF Tiles
<1>1. CASE queue' = queue
  BY <1>1 DEF QueuesBounded
<1>2. ASSUME NEW t \in Tiles, Receive(t) PROVE QueuesBounded'
  <2>1. Straight(Made(t)) \/ Stagger(Made(t)) \/ Gate(Made(t))
    BY <1>2 DEF Receive, Made
  <2>2. Made(t) \in Aus /\ Made(t).tile = t
    BY MadeOK DEF Made
  <2>3. CASE Straight(Made(t))
    BY <2>2, <2>3, PushKeeps DEF Straight
  <2>4. CASE ~Straight(Made(t))
    BY <1>1, <2>1, <2>4 DEF Stagger, Gate, Hold, FlushFor, decoders
  <2> QED
    BY <2>3, <2>4
<1>3. CASE Flush
  <2>1. cur.tile \in Tiles
    BY <1>3 DEF Flush, TypeOK, Aus
  <2>2. CASE held[cur.tile] # <<>>
    <3>1. Head(held[cur.tile]) \in Aus
      BY <2>1, <2>2, Headed DEF TypeOK
    <3> QED
      BY <1>3, <2>1, <2>2, <3>1, PushKeeps DEF Flush
  <2>3. CASE held[cur.tile] = <<>>
    BY <1>1, <1>3, <2>3 DEF Flush, decoders
  <2> QED
    BY <2>2, <2>3
<1>4. CASE Push
  <2>1. cur \in Aus /\ cur.tile \in Tiles
    BY <1>4 DEF Push, TypeOK, Aus
  <2> QED
    BY <1>4, <2>1, PushKeeps DEF Push
<1>5. CASE Drain
  <2>1. CASE held[0] # <<>> /\ PushAu(0, Head(held[0]))
    <3>1. Head(held[0]) \in Aus
      BY <1>n, <2>1, Headed DEF TypeOK
    <3> QED
      BY <1>n, <2>1, <3>1, PushKeeps
  <2>2. CASE UNCHANGED decoders
    BY <1>1, <2>2 DEF decoders
  <2> QED
    BY <1>5, <2>1, <2>2 DEF Drain
<1>6. ASSUME NEW t \in Tiles, Take(t) PROVE QueuesBounded'
  <2>1. /\ queue[t] \in Seq(Aus) /\ queue[t] # <<>> /\ queue \in [Tiles -> Seq(Aus)]
        /\ queue' = [queue EXCEPT ![t] = Tail(@)]
    BY <1>6 DEF Take, TypeOK
  <2>2. /\ Len(queue[t]) \in Nat /\ DOMAIN queue[t] = 1..Len(queue[t])
        /\ DOMAIN Tail(queue[t]) = 1..Len(queue[t]) - 1
        /\ \A i \in 1..Len(queue[t]) - 1 : Tail(queue[t])[i] = queue[t][i + 1]
    BY <2>1
  <2>3. ASSUME NEW i \in DOMAIN Tail(queue[t]), i > QueueMax
        PROVE  Tail(queue[t])[i].fid \in Irap
    <3>1. i + 1 \in DOMAIN queue[t] /\ i + 1 > QueueMax
      BY <2>2, <2>3, RfTilesAssumption
    <3> QED
      BY <2>2, <3>1 DEF QueuesBounded
  <2>4. queue'[t] = Tail(queue[t]) /\ \A u \in Tiles \ {t} : queue'[u] = queue[u]
    BY <2>1
  <2> QED
    BY <2>3, <2>4 DEF QueuesBounded
<1>7. CASE StopDecoders
  BY <1>7 DEF StopDecoders, QueuesBounded
<1>8. ASSUME NEW t \in Tiles, Lose(t) \/ Unusable(t) \/ NoPicture(t) \/ OnTile(t)
      PROVE  queue' = queue
  BY <1>8 DEF Lose, Unusable, NoPicture, OnTile, decoders
<1>9. CASE AirRestart \/ StopRx \/ StartDecoders \/ UNCHANGED vars
  BY <1>1, <1>9 DEF AirRestart, StopRx, StartDecoders, vars, decoders
<1> QED
  BY <1>1, <1>2, <1>3, <1>4, <1>5, <1>6, <1>7, <1>8, <1>9 DEF Next

LEMMA SlotsStep == TypeOK /\ SlotsBounded /\ [Next]_vars => SlotsBounded'
<1> SUFFICES ASSUME TypeOK, SlotsBounded, [Next]_vars PROVE SlotsBounded'
  OBVIOUS
<1>1. CASE slots' = slots
  BY <1>1 DEF SlotsBounded
<1>p. /\ Pool \in Nat /\ IsFiniteSet(slots) /\ Cardinality(slots) \in Nat /\ Cardinality(slots) <= Pool
  BY RfTilesAssumption, FS_CardinalityType DEF SlotsBounded
<1>2. ASSUME NEW t \in Tiles, OnTile(t) PROVE SlotsBounded'
  <2> DEFINE au == Head(busy[t])
  <2>1. CASE Pair(au)
    <3>1. PICK sl \in slots : slots' = slots \ {sl}
      BY <2>1 DEF Pair, Slot
    <3>2. IsFiniteSet(slots') /\ Cardinality(slots') = Cardinality(slots) - 1
      BY <1>p, <3>1, FS_RemoveElement
    <3> QED
      BY <1>p, <3>1, <3>2 DEF SlotsBounded
  <2>2. ASSUME NEW sl \in slots, slots' = (slots \ {sl}) \cup {au},
               \A s \in slots : s.pts = au.pts => s = sl
        PROVE  SlotsBounded'
    <3>1. IsFiniteSet(slots \ {sl}) /\ Cardinality(slots \ {sl}) = Cardinality(slots) - 1
      BY <1>p, FS_RemoveElement
    <3>2. /\ IsFiniteSet(slots')
          /\ Cardinality(slots') \in {Cardinality(slots \ {sl}), Cardinality(slots \ {sl}) + 1}
      BY <2>2, <3>1, FS_AddElement
    <3>3. Cardinality(slots') <= Pool
      BY <1>p, <3>1, <3>2
    <3>4. \A a, b \in slots' : a.pts = b.pts => a = b
      BY <2>2 DEF SlotsBounded
    <3> QED
      BY <3>2, <3>3, <3>4 DEF SlotsBounded
  <2>3. CASE Again(au)
    <3>1. PICK sl \in slots : slots' = (slots \ {sl}) \cup {au} /\ sl.pts = au.pts
      BY <2>3 DEF Again, Slot
    <3> QED
      BY <2>2, <3>1 DEF SlotsBounded
  <2>4. CASE Park(au)
    <3>1. /\ slots' = slots \cup {au} /\ \A s \in slots : s.pts # au.pts
          /\ Cardinality(slots) < Pool
      BY <2>4 DEF Park, Slot, MayHaveFree
    <3>2. Cardinality(slots) + 1 <= Pool
      BY <1>p, <3>1
    <3>3. /\ IsFiniteSet(slots') /\ Cardinality(slots') \in {Cardinality(slots), Cardinality(slots) + 1}
      BY <1>p, <3>1, FS_AddElement
    <3>4. Cardinality(slots') <= Pool
      BY <1>p, <3>2, <3>3
    <3>5. \A a, b \in slots' : a.pts = b.pts => a = b
      BY <3>1 DEF SlotsBounded
    <3> QED
      BY <3>3, <3>4, <3>5 DEF SlotsBounded
  <2>5. CASE Evict(au)
    <3>1. PICK sl \in slots : slots' = (slots \ {sl}) \cup {au}
      BY <2>5 DEF Evict
    <3>2. \A s \in slots : s.pts # au.pts
      BY <2>5 DEF Evict, Slot
    <3> QED
      BY <2>2, <3>1, <3>2
  <2> QED
    BY <1>2, <2>1, <2>3, <2>4, <2>5 DEF OnTile
<1>3. CASE StopDecoders
  <2>1. slots' = {}
    BY <1>3 DEF StopDecoders
  <2> QED
    BY <1>p, <2>1, FS_EmptySet DEF SlotsBounded
<1>4. ASSUME NEW t \in Tiles, Lose(t) \/ Unusable(t) \/ Receive(t) \/ Take(t) \/ NoPicture(t)
      PROVE  slots' = slots
  BY <1>4 DEF Lose, Unusable, Receive, Take, NoPicture, pairing
<1>5. CASE AirRestart \/ Flush \/ Push \/ Drain \/ StopRx \/ StartDecoders \/ UNCHANGED vars
  BY <1>1, <1>5 DEF AirRestart, Flush, Push, Drain, StopRx, StartDecoders, vars, pairing
<1> QED
  BY <1>1, <1>2, <1>3, <1>4, <1>5 DEF Next

LEMMA BoundsInit == Init => HoldsBounded /\ QueuesBounded /\ SlotsBounded
<1> SUFFICES ASSUME Init PROVE HoldsBounded /\ QueuesBounded /\ SlotsBounded
  OBVIOUS
<1>1. HoldsBounded /\ QueuesBounded
  BY RfTilesAssumption DEF Init, HoldsBounded, QueuesBounded, Tiles
<1>2. SlotsBounded
  BY RfTilesAssumption, FS_EmptySet DEF Init, SlotsBounded
<1> QED
  BY <1>1, <1>2

(* The holds never overflow, a queue over its bound has key frames only, a PTS
   has one slot and the pool is never overdrawn.                           *)
THEOREM AlwaysBounded == Spec => []Bounded
<1> DEFINE I == TypeOK /\ Swapped /\ HoldsBounded /\ QueuesBounded /\ SlotsBounded
<1>1. Init => I
  BY TypeInit, SwappedInit, BoundsInit
<1>2. I /\ [Next]_vars => I'
  BY Types, HoldsStep, QueuesStep, SlotsStep
<1>3. I => Bounded
  BY DEF HoldsBounded, QueuesBounded, SlotsBounded, Bounded
<1> QED
  BY <1>1, <1>2, <1>3, PTL DEF Spec

-----------------------------------------------------------------------------
(* Counting: how many PTSs a set, an interval or a sequence holds. *)
AtMost(S, n) == IsFiniteSet(S) /\ Cardinality(S) <= n

PtsOf(S) == {x.pts : x \in S}

LEMMA FewerAtMost ==
  ASSUME NEW S, NEW T, NEW n \in Int, NEW m \in Int, T \subseteq S, AtMost(S, n), n <= m
  PROVE  AtMost(T, m)
<1>1. IsFiniteSet(T) /\ Cardinality(T) <= Cardinality(S)
  BY FS_Subset DEF AtMost
<1>2. Cardinality(T) \in Int /\ Cardinality(S) \in Int
  BY <1>1, FS_CardinalityType DEF AtMost
<1> QED
  BY <1>1, <1>2 DEF AtMost

LEMMA UnionAtMost ==
  ASSUME NEW S, NEW T, NEW n \in Int, NEW m \in Int, AtMost(S, n), AtMost(T, m)
  PROVE  AtMost(S \cup T, n + m)
<1>1. /\ IsFiniteSet(S \cup T)
      /\ Cardinality(S \cup T) = Cardinality(S) + Cardinality(T) - Cardinality(S \cap T)
  BY FS_Union DEF AtMost
<1>2. IsFiniteSet(S \cap T)
  BY FS_Intersection DEF AtMost
<1>3. Cardinality(S) \in Nat /\ Cardinality(T) \in Nat /\ Cardinality(S \cap T) \in Nat
  BY <1>2, FS_CardinalityType DEF AtMost
<1> QED
  BY <1>1, <1>3 DEF AtMost

LEMMA SomeAtMost == ASSUME NEW x PROVE AtMost({x}, 1) /\ AtMost({}, 0)
BY FS_Singleton, FS_EmptySet DEF AtMost

(* The naturals above i, up to j. *)
LEMMA BetweenAtMost ==
  ASSUME NEW S \in SUBSET Int, NEW i \in Int, NEW j \in Int, NEW n \in Nat,
         \A s \in S : i < s /\ s <= j, j - i <= n
  PROVE  AtMost(S, n)
<1> DEFINE T == (i + 1)..j
<1>1. S \subseteq T
  OBVIOUS
<1>2. IsFiniteSet(T) /\ Cardinality(T) = IF i + 1 > j THEN 0 ELSE j - (i + 1) + 1
  BY FS_Interval
<1>3. Cardinality(T) <= n /\ Cardinality(T) \in Int
  BY <1>2
<1> HIDE DEF T
<1>4. AtMost(T, n)
  BY <1>2, <1>3 DEF AtMost
<1>5. n \in Int /\ n <= n
  OBVIOUS
<1> QED
  BY <1>1, <1>4, <1>5, FewerAtMost, Zenon

LEMMA RangeAtMost ==
  ASSUME NEW s \in Seq(Aus)
  PROVE  AtMost(PtsOf(Range(s)), Len(s))
<1> DEFINE f == [i \in 1..Len(s) |-> s[i].pts]
<1>1. Len(s) \in Nat /\ DOMAIN s = 1..Len(s)
  OBVIOUS
<1>2. IsFiniteSet(1..Len(s)) /\ Cardinality(1..Len(s)) = Len(s)
  BY <1>1, FS_Interval
<1>3. f \in Surjection(1..Len(s), PtsOf(Range(s)))
  <2>1. f \in [1..Len(s) -> PtsOf(Range(s))]
    BY <1>1 DEF PtsOf, Range
  <2>2. \A p \in PtsOf(Range(s)) : \E i \in 1..Len(s) : f[i] = p
    BY <1>1 DEF PtsOf, Range
  <2> QED
    BY <2>1, <2>2 DEF Surjection
<1>4. IsFiniteSet(PtsOf(Range(s))) /\ Cardinality(PtsOf(Range(s))) <= Cardinality(1..Len(s))
  BY <1>2, <1>3, FS_Surjection
<1> QED
  BY <1>2, <1>4 DEF AtMost

(* AUs of different PTSs are as many as their PTSs. *)
LEMMA PtsCounted ==
  ASSUME NEW S, IsFiniteSet(S), \A a, b \in S : a.pts = b.pts => a = b
  PROVE  IsFiniteSet(PtsOf(S)) /\ Cardinality(PtsOf(S)) = Cardinality(S)
<1> DEFINE f == [a \in S |-> a.pts]
<1>1. f \in Surjection(S, PtsOf(S))
  BY DEF Surjection, PtsOf
<1>2. f \in Injection(S, PtsOf(S))
  BY DEF Injection, IsInjective, PtsOf
<1> QED
  BY <1>1, <1>2, FS_Surjection

(* What of tile 0 was let through to its decoder and still needs, or may come
   to need, a buffer of the pool.                                           *)
Admitted ==
  {sl \in slots : sl.tile = 0} \cup Working(0) \cup Range(queue[0])
    \cup (IF rx = "push" THEN Hand(0) ELSE {})

(* What has lost its buffer is counted with them: it was let through, too. *)
Load(S) == PtsOf(S) \cup evicted

Above(P, p) == {q \in P : q > p}

(* A PTS that no AU of the tile can come with any more. *)
Behind(t, p) == p <= epoch + top /\ (heard = session => p < epoch + sent[t])

(* Decoder 1 has put something out since it was started. *)
Begun == onScreen > 0 \/ \E sl \in slots : sl.tile = 1

(* The gate keeps what is admitted within the pool's window, and what a
   decoder holds, of every AU that decoder 1 has still to put out -- one more
   while out_pts is stale.                                                  *)
Room(a) == IF a.pts = out[1] THEN Window + Depth + 1 ELSE Window + Depth

Gated ==
  waived = {} => \A a \in Coming(1) : AtMost(Above(Load(Admitted), a.pts), Room(a))

Outs ==
  waived = {} =>
    /\ \A sl \in slots : sl.pts <= out[sl.tile]
    /\ \A a \in Coming(1) : out[1] <= a.pts /\ (Begun => out[1] < a.pts)
    /\ Begun => Behind(1, out[1])

(* Before its release tile 1 is in its hold and nowhere else, tile 0 is
   flushed only when its hold overflows, and a swap clears the screen.      *)
Waiting ==
  /\ ~released /\ rx # "flush" => queue[1] = <<>> /\ busy[1] = <<>>
  /\ rx = "flush" /\ cur.tile = 0 => "gate" \in waived
  /\ life = "down" => onScreen = 0

DepthBounded == \A t \in Tiles : Len(busy[t]) <= Depth

(* A PTS that lost its buffer came out of decoder 0 and not of decoder 1, has
   no buffer, and does not come again.                                      *)
Gone ==
  waived = {} =>
    \A p \in evicted :
      /\ p \in Nat /\ p <= out[0] /\ p > out[1]
      /\ \A t \in Tiles : Behind(t, p)
      /\ \A b \in Coming(0) : p < b.pts
      /\ \A sl \in slots : sl.pts # p

Owed == PtsOf(Coming(1)) \cap evicted

Survive == waived = {} => AtMost(Owed, Excess)

(* The rest of what is known of the lines. *)
Lines ==
  TypeOK /\ Swapped /\ Together /\ OneEpoch /\ Staged /\ OwnTile /\ InOrder /\ HoldsBounded
    /\ SlotsBounded /\ DepthBounded

LEMMA DepthStep == TypeOK /\ DepthBounded /\ [Next]_vars => DepthBounded'
<1> SUFFICES ASSUME TypeOK, DepthBounded, [Next]_vars, NEW t \in Tiles
             PROVE  Len(busy'[t]) <= Depth
  BY DEF DepthBounded
<1>1. busy \in [Tiles -> Seq(Aus)] /\ Len(busy[t]) <= Depth /\ Depth \in Nat /\ Len(busy[t]) \in Nat
  BY RfTilesAssumption DEF TypeOK, DepthBounded
<1>2. ASSUME NEW u \in Tiles, Take(u) PROVE Len(busy'[t]) <= Depth
  <2>1. Len(busy[u]) < Depth /\ busy' = [busy EXCEPT ![u] = Append(@, Head(queue[u]))]
    BY <1>2 DEF Take
  <2>2. CASE t = u
    <3>1. busy'[t] = Append(busy[t], Head(queue[t]))
      BY <1>1, <2>1, <2>2
    <3>2. Head(queue[t]) \in Aus
      BY <1>2, <2>2, Headed DEF Take, TypeOK
    <3>3. Len(Append(busy[t], Head(queue[t]))) = Len(busy[t]) + 1
      BY <1>1, <3>2
    <3> QED
      BY <1>1, <2>1, <2>2, <3>1, <3>3
  <2>3. CASE t # u
    BY <1>1, <2>1, <2>3
  <2> QED
    BY <2>2, <2>3
<1>3. ASSUME NEW u \in Tiles, NoPicture(u) \/ OnTile(u) PROVE Len(busy'[t]) <= Depth
  <2>1. busy[u] # <<>> /\ busy' = [busy EXCEPT ![u] = Tail(@)]
    BY <1>3 DEF NoPicture, OnTile
  <2>2. CASE t = u
    <3>1. busy'[t] = Tail(busy[t]) /\ busy[t] # <<>>
      BY <1>1, <2>1, <2>2
    <3>2. Len(Tail(busy[t])) = Len(busy[t]) - 1
      BY <1>1, <3>1
    <3> QED
      BY <1>1, <3>1, <3>2
  <2>3. CASE t # u
    BY <1>1, <2>1, <2>3
  <2> QED
    BY <2>2, <2>3
<1>4. CASE busy' = busy
  BY <1>1, <1>4
<1>5. CASE StopDecoders
  <2>1. busy'[t] = <<>> /\ Len(<<>>) = 0
    BY <1>5 DEF StopDecoders
  <2> QED
    BY <1>1, <2>1
<1>6. ASSUME NEW u \in Tiles, Receive(u) \/ Lose(u) \/ Unusable(u) PROVE busy' = busy
  <2>1. PushAu(u, Made(u)) => busy' = busy
    BY DEF PushAu
  <2> QED
    BY <1>6, <2>1
       DEF Receive, Made, Straight, Stagger, Gate, Hold, FlushFor, PushAu, Lose, Unusable, decoders
<1>7. Flush \/ Push \/ Drain => busy' = busy
  <2>1. \A u, au : PushAu(u, au) => busy' = busy
    BY DEF PushAu
  <2> QED
    BY <2>1, Zenon DEF Flush, Push, Drain, decoders
<1>8. AirRestart \/ StopRx \/ StartDecoders \/ UNCHANGED vars => busy' = busy
  BY DEF AirRestart, StopRx, StartDecoders, vars, decoders
<1> QED
  BY <1>2, <1>3, <1>4, <1>5, <1>6, <1>7, <1>8 DEF Next

LEMMA LinesStep == Lines /\ [Next]_vars => Lines'
BY Types, TogetherStep, OneEpochStep, StagedStep, OwnTileStep, InOrderStep, HoldsStep, SlotsStep,
   DepthStep DEF Lines

LEMMA NotWaived ==
  ASSUME [Next]_vars, ~StartDecoders, waived' = {}
  PROVE  waived = {}
<1>1. ASSUME NEW t \in Tiles, Receive(t) \/ Unusable(t) PROVE waived = {}
  BY <1>1 DEF Receive, Unusable, Note, Hear
<1>2. ASSUME NEW t \in Tiles, Lose(t) PROVE waived = {}
  BY <1>2 DEF Lose, history
<1>3. CASE AirRestart
  BY <1>3 DEF AirRestart, history
<1> QED
  BY <1>1, <1>2, <1>3, Quiet

(* A start finds nothing on its way. *)
LEMMA Starts ==
  ASSUME Lines, StartDecoders
  PROVE  Items' = {} /\ Coming(1)' = {} /\ slots' = {}
<1>1. ~(\E t \in Tiles : Receive(t)) /\ life = "down"
  BY DEF StartDecoders, Receive
<1>2. Items' = {}
  BY <1>1, Moved DEF Lines, Swapped, Next
<1> QED
  BY <1>2 DEF Items

(* Where the PTSs end: what is behind stays there, what is taken of tile 1 is
   behind, and what comes of it is not.                                     *)
LEMMA BehindKept ==
  ASSUME Lines, [Next]_vars, ~StartDecoders, waived' = {}, NEW u \in Tiles, NEW p \in Nat,
         Behind(u, p)
  PROVE  Behind(u, p)'
<1> USE DEF Lines
<1>w. waived = {}
  BY NotWaived
<1>t. /\ epoch \in Nat /\ top \in Int /\ sent[u] \in Nat
      /\ epoch' \in Nat /\ top' \in Int /\ top' >= -1 /\ sent'[u] \in Nat
      /\ session \in Nat /\ heard \in Nat /\ heard <= session
  <2>1. TypeOK /\ TypeOK'
    BY TypeStep
  <2>2. epoch \in Nat /\ sent[u] \in Nat /\ session \in Nat /\ heard \in Nat /\ heard <= session
    BY <2>1 DEF TypeOK
  <2>3. epoch' \in Nat /\ sent'[u] \in Nat
    BY <2>1 DEF TypeOK
  <2>4. top \in Nat \cup {-1} /\ top' \in Nat \cup {-1}
    BY <2>1 DEF TypeOK
  <2>5. top \in Int /\ top' \in Int /\ top' >= -1
    BY <2>4
  <2> QED
    BY <2>2, <2>3, <2>5
<1>1. ASSUME NEW t \in Tiles, Hear(t, sent[t]), Sends(t),
             session = heard => top' >= top
      PROVE  Behind(u, p)'
  <2>1. /\ heard' = session /\ session' = session /\ sent'[u] >= sent[u]
        /\ session = heard => epoch' = epoch
        /\ session # heard => epoch' > epoch + top
    BY <1>1, <1>w, HeardStep, SentStep DEF Sends
  <2>2. p \in Int /\ p <= epoch + top /\ (heard = session => p < epoch + sent[u])
    BY DEF Behind
  <2>3. CASE session = heard
    <3>0. epoch' = epoch /\ top' >= top /\ sent'[u] >= sent[u] /\ p < epoch + sent[u]
      BY <1>1, <2>1, <2>2, <2>3
    <3>1. p < epoch' + sent'[u]
      BY <1>t, <2>2, <3>0
    <3>a. \A a \in Nat : \A b, c \in Int : b >= c /\ p <= a + c => p <= a + b
      BY <2>2
    <3>2. p <= epoch' + top'
      BY <1>t, <2>2, <3>0, <3>a
    <3> QED
      BY <3>1, <3>2 DEF Behind
  <2>4. CASE session # heard
    <3>0. epoch' > epoch + top /\ p <= epoch + top
      BY <2>1, <2>2, <2>4
    <3>1. p < epoch'
      BY <1>t, <2>2, <3>0
    <3>2. p < epoch' + sent'[u]
      BY <1>t, <2>2, <3>1
    <3>a. \A a \in Nat : \A b \in Int : b >= -1 /\ p < a => p <= a + b
      BY <2>2
    <3>3. p <= epoch' + top'
      BY <1>t, <2>2, <3>1, <3>a
    <3> QED
      BY <3>2, <3>3 DEF Behind
  <2> QED
    BY <2>3, <2>4
<1>2. ASSUME NEW t \in Tiles, Receive(t) PROVE Behind(u, p)'
  <2>1. Sends(t) /\ Note(Made(t)) /\ Made(t).tile = t /\ Made(t).fid = sent[t]
    BY <1>2 DEF Receive, Made
  <2>2. session = heard => top' >= top
    <3>1. Made(t).fid \in Nat
      BY <2>1 DEF TypeOK
    <3> QED
      BY <1>t, <2>1, <3>1 DEF Note, Highest
  <2>3. Hear(t, sent[t])
    BY <2>1 DEF Note
  <2> QED
    BY <1>1, <2>1, <2>2, <2>3
<1>3. ASSUME NEW t \in Tiles, Unusable(t) PROVE Behind(u, p)'
  BY <1>1, <1>3, <1>t DEF Unusable
<1>4. ASSUME NEW t \in Tiles, Lose(t) PROVE Behind(u, p)'
  <2>1. /\ Sends(t) /\ UNCHANGED <<session, heard, epoch, top>>
    BY <1>4 DEF Lose, Sends, input, history
  <2>2. sent'[u] >= sent[u]
    BY <2>1, SentStep
  <2> QED
    BY <1>t, <2>1, <2>2 DEF Behind
<1>5. CASE AirRestart
  BY <1>5, <1>t DEF AirRestart, Behind, input, history
<1>6. CASE UNCHANGED <<session, sent, heard, lastFid, epoch, top, waived>>
  BY <1>6 DEF Behind
<1> QED
  BY <1>2, <1>3, <1>4, <1>5, <1>6, Quiet

LEMMA BehindIs ==
  ASSUME Lines, waived = {}, NEW a \in Known
  PROVE  Behind(a.tile, a.pts)
<1>1. /\ a \in Aus /\ Sooner
      /\ a.session <= heard /\ a.pts <= epoch + top
      /\ a.session = heard => a.pts = epoch + a.fid
      /\ a.session < heard => a.pts < epoch
  BY KnownTyped DEF Lines, InOrder, OneEpoch, Numbered
<1>2. /\ a.session \in Nat /\ a.pts \in Nat /\ a.fid \in Nat
      /\ heard \in Nat /\ session \in Nat /\ epoch \in Nat /\ sent[a.tile] \in Nat
  <2>1. a.session \in Nat /\ a.pts \in Nat /\ a.fid \in Nat
    BY <1>1 DEF Aus
  <2>a. a.tile \in Tiles /\ sent \in [Tiles -> Nat]
    BY <1>1 DEF Lines, TypeOK, Aus
  <2>2. heard \in Nat /\ session \in Nat /\ epoch \in Nat /\ sent[a.tile] \in Nat
    BY <2>a DEF Lines, TypeOK
  <2> QED
    BY <2>1, <2>2
<1>3. a.session = session => a.fid < sent[a.tile]
  BY <1>1 DEF Sooner
<1>4. a.pts <= epoch + top /\ (heard = session => a.pts < epoch + sent[a.tile])
  BY <1>1, <1>2, <1>3
<1> QED
  BY <1>4 DEF Behind

LEMMA BehindPassed ==
  ASSUME Lines, NEW t \in Tiles, Receive(t), waived' = {}, NEW p \in Nat, Behind(t, p)
  PROVE  p < Made(t).pts
<1> USE DEF Lines
<1>1. Hear(t, sent[t]) /\ Made(t).pts = Epoch(sent[t]) + sent[t]
  BY DEF Receive, Note, Made
<1>2. /\ epoch' = Epoch(sent[t])
      /\ session = heard => epoch' = epoch
      /\ session # heard => epoch' > epoch + top
  BY <1>1, HeardStep
<1>3. /\ epoch \in Nat /\ top \in Nat \cup {-1} /\ sent[t] \in Nat /\ Epoch(sent[t]) \in Nat
  BY MadeOK DEF TypeOK
<1> QED
  BY <1>1, <1>2, <1>3 DEF Behind

LEMMA WaitingStep == Lines /\ Waiting /\ [Next]_vars => Waiting'
<1> SUFFICES ASSUME Lines, Waiting, [Next]_vars PROVE Waiting'
  OBVIOUS
<1> USE DEF Lines
<1>n. Tiles = {0, 1}
  BY DEF Tiles
<1>t. queue \in [Tiles -> Seq(Aus)] /\ busy \in [Tiles -> Seq(Aus)]
  BY DEF TypeOK
<1>1. CASE UNCHANGED <<released, rx, cur, queue, busy, waived, life, onScreen>>
  BY <1>1 DEF Waiting
<1>2. ASSUME NEW t \in Tiles, Receive(t) PROVE Waiting'
  <2> DEFINE au == Made(t)
  <2>1. /\ Straight(au) \/ Stagger(au) \/ Gate(au)
        /\ rx = "recv" /\ Note(au) /\ onScreen' = onScreen /\ life' = life /\ life = "up"
    BY <1>2 DEF Receive, Made, Sends, pairing
  <2>2. au.tile = t /\ au.fid = sent[t]
    BY DEF Made
  <2>3. rx' = "flush" /\ cur'.tile = 0 => "gate" \in waived'
    <3> SUFFICES ASSUME rx' = "flush", cur'.tile = 0 PROVE "gate" \in waived'
      OBVIOUS
    <3> HIDE DEF au
    <3>1. FlushFor(au) /\ cur' = au /\ Gate(au) /\ Len(held[0]) >= T0Hold
      <4>1. ~Straight(au)
        BY DEF Straight, AfterPush
      <4>2. ~Hold(au)
        BY <2>1 DEF Hold, thread
      <4>3. ~Stagger(au)
        BY <4>2 DEF Stagger, FlushFor
      <4>4. Gate(au) /\ FlushFor(au) /\ ~(Len(held[0]) < T0Hold)
        BY <2>1, <4>1, <4>2, <4>3 DEF Gate
      <4> QED
        BY <4>4, <1>n, RfTilesAssumption DEF FlushFor, TypeOK
    <3>2. Len(held[0]) = T0Hold
      BY <3>1, <1>n, RfTilesAssumption DEF HoldsBounded, TypeOK
    <3>3. t = 0 /\ released
      BY <2>2, <3>1 DEF Gate
    <3>4. Excuse("gate", au.tile, au.fid)
      BY <2>2, <3>2, <3>3 DEF Excuse
    <3> QED
      BY <2>1, <3>4 DEF Note, Hear
  <2>4. ASSUME ~released', rx' # "flush" PROVE queue'[1] = <<>> /\ busy'[1] = <<>>
    <3> HIDE DEF au
    <3>1. ~released /\ queue[1] = <<>> /\ busy[1] = <<>>
      <4>1. released' = released
        BY <2>1 DEF Straight, Stagger, Gate, Hold, FlushFor, thread
      <4> QED
        BY <2>1, <2>4, <4>1 DEF Waiting
    <3>2. CASE t = 0
      BY <1>2, <1>n, <3>1, <3>2, Entering DEF Stays
    <3>3. CASE t = 1
      <4>1. Hold(au)
        BY <2>1, <2>2, <2>4, <3>1, <3>3 DEF Straight, Stagger, Gate, FlushFor
      <4> QED
        BY <3>1, <4>1 DEF Hold, decoders
    <3> QED
      BY <1>n, <3>2, <3>3
  <2> QED
    BY <2>1, <2>3, <2>4 DEF Waiting
<1>3. CASE Flush
  <2>1. /\ rx = "flush" /\ cur' = cur /\ waived' = waived /\ life' = life /\ onScreen' = onScreen
        /\ rx' = "flush" \/ released' = TRUE
    BY <1>3 DEF Flush, history, pairing, thread
  <2> QED
    BY <2>1 DEF Waiting
<1>4. CASE Push
  <2>1. /\ rx = "push" /\ released /\ released' = released /\ rx' # "flush"
        /\ life' = life /\ onScreen' = onScreen
    BY <1>4 DEF Push, AfterPush, Staged, pairing
  <2> QED
    BY <2>1 DEF Waiting
<1>5. CASE Drain
  <2>1. /\ rx = "drain" /\ rx' # "flush" /\ released' = released /\ life' = life /\ onScreen' = onScreen
    BY <1>5 DEF Drain, pairing
  <2>2. busy' = busy /\ queue'[1] = queue[1]
    <3>1. CASE UNCHANGED decoders
      BY <3>1 DEF decoders
    <3>2. CASE PushAu(0, Head(held[0]))
      BY <1>n, <3>2, PushFeeds
    <3> QED
      BY <1>5, <3>1, <3>2 DEF Drain
  <2> QED
    BY <2>1, <2>2 DEF Waiting
<1>6. ASSUME NEW t \in Tiles, Take(t) PROVE Waiting'
  <2>1. /\ queue[t] # <<>> /\ UNCHANGED <<released, rx, cur, waived, life, onScreen>>
        /\ queue' = [queue EXCEPT ![t] = Tail(@)] /\ busy' = [busy EXCEPT ![t] = Append(@, Head(queue[t]))]
    BY <1>6 DEF Take, thread, pairing, history
  <2>2. t = 0 => queue'[1] = queue[1] /\ busy'[1] = busy[1]
    BY <1>n, <1>t, <2>1
  <2>3. t = 1 => queue[1] # <<>>
    BY <2>1
  <2> QED
    BY <1>n, <2>1, <2>2, <2>3 DEF Waiting
<1>7. ASSUME NEW t \in Tiles, NoPicture(t) \/ OnTile(t) PROVE Waiting'
  <2>1. /\ busy[t] # <<>> /\ UNCHANGED <<released, rx, cur, waived, life, queue>>
        /\ busy' = [busy EXCEPT ![t] = Tail(@)]
    BY <1>7 DEF NoPicture, OnTile, thread, history
  <2>2. busy[1] = <<>> => busy'[1] = <<>>
    BY <1>n, <1>t, <2>1
  <2>3. life # "down"
    <3>1. busy[t] \in Seq(Aus)
      BY <1>t
    <3>2. Range(busy[t]) # {}
      BY <2>1, <3>1, Emptied
    <3> QED
      BY <3>2, ItemsAre DEF Swapped
  <2> QED
    BY <2>1, <2>2, <2>3 DEF Waiting
<1>8. CASE StopDecoders
  <2>1. /\ UNCHANGED <<released, rx, cur, waived>> /\ onScreen' = 0
        /\ queue'[1] = <<>> /\ busy'[1] = <<>>
    BY <1>8, <1>n DEF StopDecoders, thread, history
  <2> QED
    BY <2>1 DEF Waiting
<1>9. CASE StartDecoders
  <2>1. /\ rx = "recv" /\ UNCHANGED <<rx, queue, busy>> /\ life' = "up" /\ Items = {}
    BY <1>9 DEF StartDecoders, Swapped
  <2>2. queue[1] = <<>> /\ busy[1] = <<>>
    <3>1. /\ Range(queue[1]) = {} /\ queue[1] \in Seq(Aus)
          /\ Range(busy[1]) = {} /\ busy[1] \in Seq(Aus)
      BY <1>n, <1>t, <2>1, ItemsAre
    <3> QED
      BY <3>1, Emptied
  <2> QED
    BY <2>1, <2>2 DEF Waiting
<1>10. CASE StopRx
  BY <1>10 DEF StopRx, Waiting, thread, decoders, history, pairing
<1>11. ASSUME NEW t \in Tiles, Unusable(t) PROVE Waiting'
  BY <1>11 DEF Unusable, Hear, Waiting, thread, decoders, pairing
<1>12. ASSUME NEW t \in Tiles, Lose(t) PROVE Waiting'
  BY <1>12 DEF Lose, Waiting, thread, decoders, pairing, history
<1>13. CASE AirRestart \/ UNCHANGED vars
  BY <1>13, <1>1 DEF AirRestart, vars, thread, decoders, pairing, history
<1> QED
  BY <1>2, <1>3, <1>4, <1>5, <1>6, <1>7, <1>8, <1>9, <1>10, <1>11, <1>12, <1>13 DEF Next

LEMMA AdmittedFrom ==
  ASSUME NEW X, {sl \in slots' : sl.tile = 0} \subseteq X, Working(0)' \subseteq X,
         Range(queue'[0]) \subseteq X, rx' = "push" => Hand(0)' \subseteq X
  PROVE  Admitted' \subseteq X
BY DEF Admitted

LEMMA AdmittedGrows ==
  ASSUME NEW x, slots' = slots, Working(0)' = Working(0), rx # "push",
         Range(queue'[0]) \subseteq Range(queue[0]) \cup {x}, rx' = "push" => Hand(0)' \subseteq {x}
  PROVE  Admitted' \subseteq Admitted \cup {x}
BY DEF Admitted

(* Tile 0 is let through before the release of tile 1 and by the gate. *)
LEMMA AdmittedMoved ==
  ASSUME Lines, Waiting, waived = {}, [Next]_vars
  PROVE  \/ Admitted' \subseteq Admitted
         \/ Receive(0) /\ ~released /\ Admitted' \subseteq Admitted \cup {Made(0)}
         \/ /\ Receive(0) \/ Drain
            /\ ~GateShut /\ rx # "push"
            /\ \E x \in Aus : Admitted' \subseteq Admitted \cup {x}
<1> USE DEF Lines
<1>n. Tiles = {0, 1}
  BY DEF Tiles
<1>t. queue \in [Tiles -> Seq(Aus)] /\ busy \in [Tiles -> Seq(Aus)]
  BY DEF TypeOK
<1>a. /\ {sl \in slots : sl.tile = 0} \subseteq Admitted /\ Working(0) \subseteq Admitted
      /\ Range(queue[0]) \subseteq Admitted /\ (rx = "push" => Hand(0) \subseteq Admitted)
  BY DEF Admitted
<1>1. ASSUME slots' = slots /\ rx' = rx /\ Stays(0) PROVE Admitted' \subseteq Admitted
  <2>1. Working(0)' = Working(0)
    BY <1>1 DEF Stays, Working
  <2> QED
    BY <1>1, <1>a, <2>1, AdmittedFrom DEF Stays
<1>2. CASE Receive(1)
  <2>1. Stays(0) /\ slots' = slots /\ rx = "recv"
    BY <1>2, <1>n, Entering DEF Receive, Sends, pairing
  <2>2. Hand(0)' = {} /\ Working(0)' = Working(0)
    BY <2>1, HandEmpty DEF Stays, Working
  <2> QED
    BY <1>a, <2>1, <2>2, AdmittedFrom DEF Stays
<1>3. CASE Receive(0)
  <2> DEFINE au == Made(0)
  <2>1. /\ Straight(au) \/ Stagger(au) \/ Gate(au)
        /\ rx = "recv" /\ slots' = slots /\ au.tile = 0 /\ au \in Aus
        /\ Entered(0, au)
    BY <1>3, <1>n, Entering, MadeOK DEF Receive, Made, Sends, pairing
  <2>2. Working(0)' = Working(0)
    BY <2>1 DEF Entered, Working
  <2> HIDE DEF au
  <2>3. CASE Straight(au)
    <3>0. released = (au.tile = 1) /\ rx' = AfterPush /\ PushAu(0, au)
      BY <2>1, <2>3 DEF Straight
    <3>a. au.tile # 1
      BY <2>1
    <3>b. rx' # "push"
      BY <3>0 DEF AfterPush
    <3>1. ~released /\ rx' # "push"
      BY <3>0, <3>a, <3>b
    <3>2. Range(queue'[0]) \subseteq Range(queue[0]) \cup {au}
      BY <1>n, <2>1, <3>0, PushFeeds, FedAdds
    <3>3. Admitted' \subseteq Admitted \cup {au}
      BY <2>1, <2>2, <3>1, <3>2, AdmittedGrows
    <3> QED
      BY <1>3, <3>1, <3>3 DEF au
  <2>4. CASE Hold(au) \/ FlushFor(au)
    <3>1. queue' = queue /\ rx' # "push"
      BY <2>1, <2>4 DEF Hold, FlushFor, thread, decoders
    <3> QED
      BY <1>a, <2>1, <2>2, <3>1, AdmittedFrom
  <2>5. CASE /\ Gate(au) /\ ~GateShut /\ cur' = au
             /\ UNCHANGED <<released, drained, held, decoders>>
    <3>1. queue' = queue /\ Hand(0)' \subseteq {au}
      BY <2>5 DEF decoders, Hand
    <3>2. Admitted' \subseteq Admitted \cup {au}
      BY <2>1, <2>2, <3>1, AdmittedGrows
    <3> QED
      BY <1>3, <2>1, <2>5, <3>2
  <2> QED
    BY <2>1, <2>3, <2>4, <2>5 DEF Stagger, Gate
<1>4. CASE Flush
  <2>1. cur.tile = 1 /\ cur' = cur /\ slots' = slots
    <3>1. cur.tile \in Tiles
      BY <1>4 DEF TypeOK, Flush, Aus
    <3> QED
      BY <1>4, <1>n, <3>1 DEF Waiting, Flush, thread, pairing
  <2>2. Hand(0)' = {}
    BY <2>1 DEF Hand
  <2>3. queue'[0] = queue[0] /\ busy' = busy
    <3>1. CASE UNCHANGED decoders
      BY <3>1 DEF decoders
    <3>2. CASE PushAu(1, Head(held[1]))
      BY <1>n, <3>2, PushFeeds
    <3> QED
      BY <1>4, <2>1, <3>1, <3>2 DEF Flush
  <2>4. Working(0)' = Working(0)
    BY <2>3 DEF Working
  <2> QED
    BY <1>a, <2>1, <2>2, <2>3, <2>4, AdmittedFrom
<1>5. CASE Push
  <2>1. /\ cur \in Aus /\ cur.tile \in Tiles /\ cur # None /\ rx = "push" /\ slots' = slots
        /\ PushAu(cur.tile, cur) /\ cur' = None
    BY <1>5 DEF TypeOK, Push, Aus, None, pairing
  <2>2. Hand(0)' = {}
    BY <2>1 DEF Hand
  <2>3. Range(queue'[0]) \subseteq Range(queue[0]) \cup Hand(0) /\ busy' = busy
    <3>1. CASE cur.tile = 0
      <4>1. Hand(0) = {cur}
        BY <2>1, <3>1 DEF Hand
      <4> QED
        BY <1>n, <2>1, <3>1, <4>1, PushFeeds, FedAdds
    <3>2. CASE cur.tile = 1
      BY <1>n, <2>1, <3>2, PushFeeds
    <3> QED
      BY <1>n, <2>1, <3>1, <3>2
  <2>4. Working(0)' = Working(0)
    BY <2>3 DEF Working
  <2> QED
    BY <1>a, <2>1, <2>2, <2>3, <2>4, AdmittedFrom
<1>6. CASE Drain
  <2>1. /\ rx = "drain" /\ rx' # "push" /\ slots' = slots
    BY <1>6 DEF Drain, pairing
  <2>2. CASE UNCHANGED decoders
    <3>1. queue' = queue /\ Working(0)' = Working(0)
      BY <2>2 DEF decoders, Working
    <3> QED
      BY <1>a, <2>1, <3>1, AdmittedFrom
  <2>3. CASE PushAu(0, Head(held[0])) /\ held[0] # <<>> /\ ~GateShut
    <3>1. Head(held[0]) \in Aus
      BY <1>n, <2>3, Headed DEF TypeOK
    <3>2. Range(queue'[0]) \subseteq Range(queue[0]) \cup {Head(held[0])} /\ busy' = busy
      BY <1>n, <2>3, <3>1, PushFeeds, FedAdds
    <3>3. Working(0)' = Working(0)
      BY <3>2 DEF Working
    <3>4. Admitted' \subseteq Admitted \cup {Head(held[0])}
      BY <2>1, <3>2, <3>3, AdmittedGrows
    <3> QED
      BY <1>6, <2>1, <2>3, <3>1, <3>4
  <2> QED
    BY <1>6, <2>2, <2>3 DEF Drain
<1>7. ASSUME NEW t \in Tiles, Take(t) PROVE Admitted' \subseteq Admitted
  <2>1. /\ queue[t] # <<>> /\ busy' = [busy EXCEPT ![t] = Append(@, Head(queue[t]))]
        /\ queue' = [queue EXCEPT ![t] = Tail(@)] /\ cur' = cur /\ rx' = rx /\ slots' = slots
    BY <1>7 DEF Take, thread, pairing
  <2>2. /\ Range(queue'[0]) \subseteq Range(queue[0])
        /\ Range(busy'[0]) \subseteq Range(busy[0]) \cup Range(queue[0])
    <3>1. CASE t = 0
      <4>1. queue'[0] = Tail(queue[0]) /\ busy'[0] = Append(busy[0], Head(queue[0]))
        BY <1>n, <1>t, <2>1, <3>1
      <4>2. queue[0] \in Seq(Aus) /\ busy[0] \in Seq(Aus) /\ queue[0] # <<>>
        BY <1>n, <1>t, <2>1, <3>1
      <4>3. /\ Head(queue[0]) \in Aus /\ Head(queue[0]) \in Range(queue[0])
            /\ Range(Tail(queue[0])) \subseteq Range(queue[0])
        BY <4>2, Headed
      <4>4. Range(Append(busy[0], Head(queue[0]))) = Range(busy[0]) \cup {Head(queue[0])}
        BY <4>2, <4>3, Appended
      <4> QED
        BY <4>1, <4>3, <4>4
    <3>2. CASE t = 1
      BY <1>n, <1>t, <2>1, <3>2
    <3> QED
      BY <1>n, <3>1, <3>2
  <2>3. Working(0)' \subseteq Working(0) \cup Range(queue[0])
    BY <2>2 DEF Working
  <2> QED
    BY <1>a, <2>1, <2>2, <2>3, HandNext, AdmittedFrom
<1>8. ASSUME NEW t \in Tiles, NoPicture(t) \/ OnTile(t) PROVE Admitted' \subseteq Admitted
  <2>1. /\ busy' = [busy EXCEPT ![t] = Tail(@)] /\ queue' = queue /\ cur' = cur /\ rx' = rx
        /\ busy[t] # <<>> /\ slots' \subseteq slots \cup {Head(busy[t])}
    <3>1. CASE NoPicture(t)
      BY <3>1 DEF NoPicture, thread, pairing
    <3>2. CASE OnTile(t)
      BY <3>2 DEF OnTile, thread, Pair, Again, Park, Evict
    <3> QED
      BY <1>8, <3>1, <3>2
  <2>0. busy[t] \in Seq(Aus)
    BY <1>t
  <2>a. Head(busy[t]) \in Working(t) /\ Range(Tail(busy[t])) \subseteq Range(busy[t])
    BY <2>0, <2>1, Headed DEF Working
  <2>2. Head(busy[t]).tile = t
    BY <2>a, ComingIs DEF OwnTile
  <2>3. {sl \in slots' : sl.tile = 0} \subseteq {sl \in slots : sl.tile = 0} \cup Working(0)
    BY <1>n, <2>1, <2>2, <2>a
  <2>4. Working(0)' \subseteq Working(0)
    <3>1. busy'[0] \in {busy[0], Tail(busy[t])} /\ (t = 1 => busy'[0] = busy[0])
      BY <1>n, <1>t, <2>1
    <3> QED
      BY <1>n, <2>a, <3>1 DEF Working
  <2> QED
    BY <1>a, <2>1, <2>3, <2>4, HandNext, AdmittedFrom
<1>9. CASE StopDecoders
  <2>a. slots' = {} /\ queue'[0] = <<>> /\ busy'[0] = <<>> /\ rx' = "recv"
    BY <1>9, <1>n DEF StopDecoders, thread, Swapped
  <2>1. slots' = {} /\ queue'[0] = <<>> /\ Working(0)' = {} /\ rx' = "recv"
    BY <2>a, RisingEmpty DEF Working
  <2> QED
    BY <2>1, RisingEmpty, AdmittedFrom
<1>10. ASSUME NEW t \in Tiles, Lose(t) \/ Unusable(t) PROVE Admitted' \subseteq Admitted
  <2>1. UNCHANGED <<slots, rx, held, queue, busy, cur>>
    BY <1>10 DEF Lose, Unusable, thread, decoders, pairing
  <2>2. Stays(0)
    BY <2>1, HandNext DEF Stays
  <2> QED
    BY <1>1, <2>1, <2>2
<1>11. CASE AirRestart \/ StopRx \/ StartDecoders \/ UNCHANGED vars
  <2>1. UNCHANGED <<slots, rx, held, queue, busy, cur>>
    BY <1>11 DEF AirRestart, StopRx, StartDecoders, vars, thread, decoders, pairing
  <2>2. Stays(0)
    BY <2>1, HandNext DEF Stays
  <2> QED
    BY <1>1, <2>1, <2>2
<1> QED
  BY <1>n, <1>2, <1>3, <1>4, <1>5, <1>6, <1>7, <1>8, <1>9, <1>10, <1>11 DEF Next

(* What comes out of a decoder, and what stays as it is when nothing does. *)
LEMMA PutOut ==
  ASSUME Lines, "pts" \notin waived, NEW u \in Tiles, OnTile(u)
  PROVE  /\ Head(busy[u]) \in Aus /\ Head(busy[u]).tile = u
         /\ Head(busy[u]) \in Coming(u) /\ Head(busy[u]) \in Known /\ Head(busy[u]) \in Working(u)
         /\ out'[u] = Head(busy[u]).pts /\ \A v \in Tiles \ {u} : out'[v] = out[v]
         /\ slots' \subseteq slots \cup {Head(busy[u])} /\ waived' = waived
         /\ \A t \in Tiles : Coming(t)' \subseteq Coming(t)
         /\ Before({Head(busy[u])}, Coming(u)')
         /\ Before(Past(u), {Head(busy[u])})
<1> USE DEF Lines
<1>1. /\ busy' = [busy EXCEPT ![u] = Tail(@)] /\ queue' = queue /\ held' = held /\ cur' = cur
      /\ out' = [out EXCEPT ![u] = Head(busy[u]).pts] /\ busy[u] # <<>> /\ waived' = waived
  BY DEF OnTile, thread
<1>b. busy[u] \in Seq(Aus) /\ busy \in [Tiles -> Seq(Aus)]
  BY DEF TypeOK
<1>2. busy'[u] = Tail(busy[u]) /\ \A v \in Tiles \ {u} : busy'[v] = busy[v]
  BY <1>1, <1>b
<1>h. Head(busy[u]) \in Working(u) /\ Range(Tail(busy[u])) \subseteq Range(busy[u])
  BY <1>1, <1>b, Headed DEF Working
<1>3. /\ Head(busy[u]) \in Aus /\ Head(busy[u]) \in Coming(u) /\ Head(busy[u]).tile = u
      /\ Head(busy[u]) \in Known
  <2>1. Head(busy[u]) \in Coming(u)
    BY <1>h, ComingIs
  <2>2. Head(busy[u]) \in Known
    BY <2>1 DEF Known, Items, Tiles
  <2> QED
    BY <2>1, <2>2, KnownTyped DEF OwnTile
<1>4. \A t \in Tiles : Coming(t)' \subseteq Coming(t)
  <2> TAKE t \in Tiles
  <2>1. Working(t)' \subseteq Working(t)
    BY <1>2, <1>h DEF Working
  <2> QED
    BY <1>1, <2>1, ComingIs, ComingIsNext, HandNext
<1>5. InLine(u)
  BY DEF InOrder
<1>6. Before({Head(busy[u])}, Coming(u)')
  <2>1. Done(u)
    BY <1>1, <1>2, HandNext DEF Done
  <2> QED
    BY <1>5, <2>1, LineSplit
<1>7. Before(Past(u), {Head(busy[u])})
  BY <1>3, <1>5 DEF InLine, Before
<1>8. slots' \subseteq slots \cup {Head(busy[u])}
  BY DEF OnTile, Pair, Again, Park, Evict
<1>9. out'[u] = Head(busy[u]).pts /\ \A v \in Tiles \ {u} : out'[v] = out[v]
  BY <1>1 DEF TypeOK
<1> QED
  BY <1>1, <1>3, <1>4, <1>6, <1>7, <1>8, <1>9, <1>h

LEMMA NonePutOut ==
  ASSUME [Next]_vars, ~(\E u \in Tiles : OnTile(u))
  PROVE  /\ out' = out /\ slots' \subseteq slots /\ onScreen' \in {onScreen, 0}
         /\ evicted' \in {evicted, {}}
<1>1. CASE StopDecoders \/ StartDecoders
  BY <1>1 DEF StopDecoders, StartDecoders, history
<1>2. ASSUME NEW u \in Tiles, Lose(u) \/ Unusable(u) \/ Receive(u) \/ Take(u) \/ NoPicture(u)
      PROVE  pairing' = pairing /\ evicted' = evicted
  BY <1>2 DEF Lose, Unusable, Receive, Take, NoPicture, history
<1>3. CASE AirRestart \/ Flush \/ Push \/ Drain \/ StopRx \/ UNCHANGED vars
  BY <1>3 DEF AirRestart, Flush, Push, Drain, StopRx, vars, history, pairing
<1> QED
  BY <1>1, <1>2, <1>3 DEF Next, pairing

LEMMA OutsStep ==
  ASSUME Lines, Waiting, Outs, [Next]_vars
  PROVE  Outs'
<1> USE DEF Lines
<1> SUFFICES ASSUME waived' = {}
             PROVE  /\ \A sl \in slots' : sl.pts <= out'[sl.tile]
                    /\ \A a \in Coming(1)' : out'[1] <= a.pts /\ (Begun' => out'[1] < a.pts)
                    /\ Begun' => Behind(1, out[1])'
  BY DEF Outs
<1>n. Tiles = {0, 1}
  BY DEF Tiles
<1>o. out \in [Tiles -> Nat] /\ out[1] \in Nat /\ onScreen \in Nat /\ 1 \in Tiles
  <2>1. out \in [Tiles -> Nat] /\ onScreen \in 0..Holds
    BY DEF TypeOK
  <2> QED
    BY <1>n, <2>1, RfTilesAssumption
<1>1. CASE StartDecoders
  <2>1. Coming(1)' = {} /\ slots' = {} /\ onScreen' = 0
    BY <1>1, Starts DEF StartDecoders, Waiting
  <2> QED
    BY <2>1 DEF Begun
<1>2. CASE ~StartDecoders
  <2>w. waived = {}
    BY <1>2, NotWaived
  <2>o. /\ \A sl \in slots : sl.pts <= out[sl.tile]
        /\ \A a \in Coming(1) : out[1] <= a.pts /\ (Begun => out[1] < a.pts)
        /\ Begun => Behind(1, out[1])
    BY <2>w DEF Outs
  <2>1. CASE ~(\E u \in Tiles : OnTile(u))
    <3>1. /\ out' = out /\ slots' \subseteq slots /\ onScreen' \in {onScreen, 0}
      BY <2>1, NonePutOut
    <3>2. Begun' => Begun
      BY <1>o, <3>1 DEF Begun
    <3>3. Begun' => Behind(1, out[1])'
      <4> SUFFICES ASSUME Begun' PROVE Behind(1, out[1])'
        OBVIOUS
      <4>0. PICK p \in Nat : p = out[1]
        BY <1>o
      <4>1. Behind(1, p)
        BY <2>o, <3>2, <4>0
      <4>2. Behind(1, p)'
        BY <1>2, <1>o, <4>1, BehindKept
      <4>3. out'[1] = p
        BY <3>1, <4>0
      <4> QED
        BY <4>2, <4>3 DEF Behind
    <3>4. ASSUME NEW a \in Coming(1)' PROVE out[1] <= a.pts /\ (Begun => out[1] < a.pts)
      <4>1. CASE a \in Coming(1)
        BY <2>o, <4>1
      <4>2. CASE Receive(1) /\ a = Made(1)
        <5>1. Begun => out[1] < a.pts
          BY <1>o, <2>o, <4>2, BehindPassed
        <5>2. ~(Made(1).pts < out[1])
          <6>1. Hear(1, sent[1]) /\ Made(1).pts = Epoch(sent[1]) + sent[1]
            BY <4>2 DEF Receive, Note, Made
          <6>2. ~Excuse("gate", 1, sent[1])
            BY <6>1 DEF Hear
          <6> QED
            BY <6>1, <6>2 DEF Excuse
        <5>3. Made(1).pts \in Nat
          BY <1>n, MadeOK DEF Aus
        <5> QED
          BY <1>o, <4>2, <5>1, <5>2, <5>3
      <4> QED
        BY <1>n, <3>4, <4>1, <4>2, ComingMoved
    <3> QED
      BY <2>o, <3>1, <3>2, <3>3, <3>4
  <2>2. ASSUME NEW u \in Tiles, OnTile(u)
        PROVE  /\ \A sl \in slots' : sl.pts <= out'[sl.tile]
               /\ \A a \in Coming(1)' : out'[1] <= a.pts /\ (Begun' => out'[1] < a.pts)
               /\ Begun' => Behind(1, out[1])'
    <3> DEFINE au == Head(busy[u])
    <3>1. /\ au \in Aus /\ au.tile = u /\ au \in Coming(u) /\ au \in Known
          /\ out'[u] = au.pts /\ \A v \in Tiles \ {u} : out'[v] = out[v]
          /\ slots' \subseteq slots \cup {au}
          /\ \A t \in Tiles : Coming(t)' \subseteq Coming(t)
          /\ Before({au}, Coming(u)') /\ Before(Past(u), {au})
      BY <2>2, <2>w, PutOut
    <3>2. au.pts \in Nat /\ \A a \in Coming(1)' : a.pts \in Nat
      <4>1. Coming(1)' \subseteq Known /\ Known \subseteq Aus
        BY <1>n, <3>1, KnownTyped DEF Known, Items
      <4> QED
        BY <3>1, <4>1 DEF Aus
    <3>5. ASSUME NEW sl \in slots' PROVE sl.pts <= out'[sl.tile]
      <4> HIDE DEF au
      <4>1. CASE sl = au
        BY <3>1, <3>2, <4>1
      <4>2. CASE sl \in slots /\ sl.tile = u
        <5>1. sl \in Past(u)
          BY <4>2 DEF Past
        <5>2. sl.pts < au.pts
          BY <3>1, <5>1 DEF Before
        <5>3. sl.pts \in Nat
          BY <4>2 DEF TypeOK, Aus
        <5> QED
          BY <3>1, <3>2, <4>2, <5>2, <5>3
      <4>3. CASE sl \in slots /\ sl.tile # u
        <5>1. sl.tile \in Tiles
          BY <4>3 DEF TypeOK, Aus
        <5> QED
          BY <2>o, <3>1, <4>3, <5>1
      <4> QED
        BY <3>1, <3>5, <4>1, <4>2, <4>3
    <3>3. CASE u = 0
      <4>1. out'[0] = au.pts /\ out'[1] = out[1]
        BY <1>n, <3>1, <3>3
      <4>3. Begun' => Begun
        <5>1. CASE onScreen' = onScreen
          <6>1. \A sl \in slots' : sl.tile = 1 => sl \in slots
            BY <3>1, <3>3
          <6> QED
            BY <5>1, <6>1 DEF Begun
        <5>2. CASE onScreen' # onScreen
          <6>1. Pair(au)
            BY <2>2, <5>2 DEF OnTile, Again, Park, Evict
          <6>2. PICK sl \in slots : sl.tile # au.tile
            BY <6>1 DEF Pair, Slot
          <6>3. sl.tile = 1
            <7>1. sl.tile \in Tiles
              BY DEF TypeOK, Aus
            <7> QED
              BY <1>n, <3>1, <3>3, <6>2, <7>1
          <6> QED
            BY <6>3 DEF Begun
        <5> QED
          BY <5>1, <5>2
      <4>4. Begun' => Behind(1, out[1])'
        <5> SUFFICES ASSUME Begun' PROVE Behind(1, out[1])'
          OBVIOUS
        <5>0. PICK p \in Nat : p = out[1]
          BY <1>o
        <5>1. Behind(1, p)
          BY <2>o, <4>3, <5>0
        <5>2. out'[1] = p
          BY <4>1, <5>0
        <5>3. Behind(1, p)'
          BY <1>2, <1>o, <5>1, BehindKept
        <5> QED
          BY <5>2, <5>3 DEF Behind
      <4> QED
        BY <1>n, <2>o, <3>1, <3>5, <4>1, <4>3, <4>4
    <3>4. CASE u = 1
      <4>1. out'[1] = au.pts /\ out'[0] = out[0]
        BY <1>n, <3>1, <3>4
      <4>2. Behind(1, out[1])'
        <5>0. PICK p \in Nat : p = au.pts
          BY <3>2
        <5>1. Behind(1, p)
          BY <2>w, <3>1, <3>4, <5>0, BehindIs, Zenon
        <5>2. out'[1] = p
          BY <4>1, <5>0
        <5>3. Behind(1, p)'
          BY <1>2, <1>o, <5>1, BehindKept
        <5> QED
          BY <5>2, <5>3 DEF Behind
      <4> HIDE DEF au
      <4>3. \A a \in Coming(1)' : au.pts < a.pts
        BY <3>1, <3>4 DEF Before
      <4>4. \A a \in Coming(1)' : out'[1] <= a.pts /\ (Begun' => out'[1] < a.pts)
        BY <3>2, <4>1, <4>3
      <4> QED
        BY <3>5, <4>2, <4>4
    <3> QED
      BY <1>n, <3>3, <3>4
  <2> QED
    BY <2>1, <2>2
<1> QED
  BY <1>1, <1>2

(* A pool of which comp_pool_init need not clamp the window, with a margin and
   a window of two buffers at least; and a stagger that, with the lead of the
   air's tiles over each other, fits into the window.                       *)
Ample ==
  /\ Margin >= 2 /\ MinWindow >= 2 /\ T1Hold >= 1
  /\ Pool - Holds - Margin >= MinWindow
  /\ T1Hold + Lead <= Window + 1

LEMMA Bounds ==
  ASSUME Ample
  PROVE  /\ Window \in Nat /\ Window = Pool - Holds - Margin
         /\ SkewMax \in Nat /\ SkewMax >= 1 /\ InflightMax \in Nat
         /\ SkewMax + InflightMax = Window
         /\ Pool - Holds >= Lead + 2
         /\ Lead \in Nat /\ T1Hold \in Nat /\ Depth \in Nat \ {0} /\ Margin \in Nat
         /\ Pool \in Nat /\ Holds \in Nat /\ Holds >= 1
<1>1. /\ Pool \in Int /\ Holds \in Int /\ Margin \in Int /\ MinWindow \in Int /\ Lead \in Nat
      /\ T1Hold \in Nat /\ Holds >= 1
  BY RfTilesAssumption
<1>d. Depth \in Nat \ {0} /\ Pool \in Nat /\ Holds \in Nat /\ Margin \in Nat
  BY RfTilesAssumption
<1>2. Window = Pool - Holds - Margin /\ Window >= 2
  BY <1>1 DEF Ample, Window
<1>3. Window \in Nat
  BY <1>1, <1>2
<1>4. SkewMax \in Nat /\ SkewMax >= 1 /\ SkewMax <= Window
  BY <1>2, <1>3 DEF SkewMax
<1>5. InflightMax \in Nat /\ SkewMax + InflightMax = Window
  BY <1>3, <1>4 DEF InflightMax
<1>6. Pool - Holds >= Window + 2 /\ Pool >= Window + 3 /\ T1Hold >= 1 /\ T1Hold + Lead <= Window + 1
  BY <1>1, <1>2 DEF Ample
<1>7. Pool - Holds >= Lead + 2
  BY <1>1, <1>3, <1>6
<1> QED
  BY <1>1, <1>2, <1>3, <1>4, <1>5, <1>7, <1>d

(* A half leaves its slot ahead of decoder 1 only for want of a buffer, and
   then it is the oldest.                                                   *)
LEMMA GivenUp ==
  ASSUME Lines, Outs, waived = {}, NEW u \in Tiles, OnTile(u), NEW sl \in slots \ slots',
         sl.pts > out'[1]
  PROVE  /\ sl.tile = 0 /\ \A s \in slots : sl.pts <= s.pts
         /\ Cardinality(slots) >= Pool - onScreen
         /\ slots' = (slots \ {sl}) \cup {Head(busy[u])}
         /\ \A s \in slots : s.pts # Head(busy[u]).pts
<1> USE DEF Lines
<1>n. Tiles = {0, 1}
  BY DEF Tiles
<1> DEFINE au == Head(busy[u])
<1>1. /\ au \in Aus /\ au.tile = u /\ out'[u] = au.pts /\ Before(Past(u), {au})
      /\ \A v \in Tiles \ {u} : out'[v] = out[v]
  BY PutOut
<1>2. sl \in Aus /\ sl.pts \in Nat /\ sl.tile \in Tiles
  BY DEF TypeOK, Aus
<1>a. au.pts \in Nat /\ out[1] \in Nat
  BY <1>1, <1>n DEF TypeOK, Aus
<1>b. sl.tile = u => sl.pts < au.pts
  BY <1>1 DEF Past, Before
<1> HIDE DEF au
<1>3. sl.tile = 0
  <2> SUFFICES ASSUME sl.tile = 1 PROVE FALSE
    BY <1>2, <1>n
  <2>1. CASE u = 0
    <3>1. out'[1] = out[1] /\ sl.pts <= out[1]
      BY <1>1, <1>n, <2>1 DEF Outs
    <3> QED
      BY <1>2, <1>a, <3>1
  <2>2. CASE u = 1
    BY <1>1, <1>2, <1>a, <1>b, <2>2
  <2> QED
    BY <1>n, <2>1, <2>2
<1>4. ~Pair(au)
  <2> SUFFICES ASSUME Pair(au) PROVE FALSE
    OBVIOUS
  <2>1. PICK x \in slots : x.pts = au.pts /\ x.tile # au.tile /\ slots' = slots \ {x}
    BY DEF Pair, Slot
  <2>2. sl = x
    BY <2>1
  <2>3. u = 1
    BY <1>1, <1>3, <1>n, <2>1, <2>2
  <2> QED
    BY <1>1, <1>2, <2>1, <2>2, <2>3
<1>5. ~Again(au)
  <2> SUFFICES ASSUME Again(au) PROVE FALSE
    OBVIOUS
  <2>1. PICK x \in slots : x.pts = au.pts /\ x.tile = au.tile /\ slots' = (slots \ {x}) \cup {au}
    BY DEF Again, Slot
  <2>2. sl = x
    BY <2>1
  <2> QED
    BY <1>1, <1>2, <1>b, <2>1, <2>2
<1>6. ~Park(au)
  BY DEF Park
<1>7. Evict(au)
  BY <1>4, <1>5, <1>6 DEF OnTile, au
<1>8. PICK x \in slots : Oldest(x) /\ slots' = (slots \ {x}) \cup {au}
  BY <1>7 DEF Evict
<1>9. sl = x
  BY <1>8
<1>10. Cardinality(slots) >= Pool - onScreen
  <2>1. Cardinality(slots) + onScreen >= Pool
    BY <1>7 DEF Evict, MayBeDry
  <2>2. Cardinality(slots) \in Nat
    BY FS_CardinalityType DEF SlotsBounded
  <2>3. Pool \in Nat
    BY RfTilesAssumption
  <2>4. onScreen \in 0..Holds /\ Holds \in Nat
    BY RfTilesAssumption DEF TypeOK
  <2> QED
    BY <2>1, <2>2, <2>3, <2>4
<1>11. \A s \in slots : s.pts # au.pts
  BY <1>7 DEF Evict, Slot
<1> QED
  BY <1>3, <1>8, <1>9, <1>10, <1>11 DEF Oldest, au

(* A PTS that loses its slot has passed in tile 1: if the halves that fill
   the pool are all of tile 0, tile 1 cannot be that far behind.            *)
LEMMA OldestBehind ==
  ASSUME Ample, Lines, waived = {}, NEW sl \in slots, \A s \in slots : sl.pts <= s.pts,
         Cardinality(slots) >= Pool - Holds
  PROVE  Behind(1, sl.pts)
<1> USE DEF Lines
<1>n. Tiles = {0, 1}
  BY DEF Tiles
<1>k. slots \subseteq Known /\ slots \subseteq Aus
  BY KnownTyped DEF Known, Items
<1>t. /\ heard \in Nat /\ session \in Nat /\ epoch \in Nat /\ sent[0] \in Nat /\ sent[1] \in Nat
      /\ top \in Int
  <2>1. top \in Nat \cup {-1}
    BY DEF TypeOK
  <2> QED
    BY <1>n, <2>1 DEF TypeOK
<1>s. /\ \A s \in slots : /\ s.session <= heard /\ s.pts <= epoch + top
                          /\ s.session = heard => s.pts = epoch + s.fid
                          /\ s.session < heard => s.pts < epoch
      /\ \A s \in slots : s.session = session => s.fid < sent[s.tile]
  BY <1>k DEF OneEpoch, Numbered, InOrder, Sooner
<1>a. \A s \in slots : s.pts \in Nat /\ s.fid \in Nat /\ s.session \in Nat /\ s.tile \in Tiles
  BY <1>k DEF Aus
<1>1. ASSUME NEW s \in slots, s.tile = 1 PROVE Behind(1, sl.pts)
  <2>1. Behind(1, s.pts)
    BY <1>1, <1>k, BehindIs
  <2>2. sl.pts <= s.pts /\ sl.pts \in Nat /\ s.pts \in Nat /\ sl.pts <= epoch + top
    BY <1>a, <1>s
  <2> QED
    BY <1>t, <2>1, <2>2 DEF Behind
<1>2. CASE heard = session => sl.pts < epoch
  BY <1>2, <1>a, <1>s, <1>t DEF Behind
<1>3. CASE heard = session /\ ~(sl.pts < epoch) /\ \A s \in slots : s.tile = 0
  <2>1. \A s \in slots : s.pts < epoch + sent[0]
    <3> TAKE s \in slots
    <3>1. ~(s.pts < epoch)
      BY <1>3, <1>a, <1>t
    <3>2. s.session = heard
      BY <1>a, <1>s, <1>t, <3>1
    <3>3. s.fid < sent[0] /\ s.pts = epoch + s.fid
      BY <1>3, <1>s, <3>2
    <3> QED
      BY <1>a, <1>t, <3>3
  <2>2. IsFiniteSet(PtsOf(slots)) /\ Cardinality(PtsOf(slots)) = Cardinality(slots)
    BY PtsCounted DEF SlotsBounded
  <2>3. sl.pts < epoch + sent[0] /\ sl.pts \in Nat
    BY <1>a, <2>1
  <2> DEFINE n == epoch + sent[0] - sl.pts
  <2>4. n \in Nat
    BY <1>t, <2>3
  <2>5. PtsOf(slots) \in SUBSET Int /\ \A q \in PtsOf(slots) : sl.pts - 1 < q /\ q <= epoch + sent[0] - 1
    BY <1>a, <1>t, <2>1 DEF PtsOf
  <2>6. (epoch + sent[0] - 1) - (sl.pts - 1) <= n
    BY <1>t, <2>3
  <2>7. sl.pts - 1 \in Int /\ epoch + sent[0] - 1 \in Int
    BY <1>t, <2>3
  <2> HIDE DEF n
  <2>8. AtMost(PtsOf(slots), n)
    BY <2>4, <2>5, <2>6, <2>7, BetweenAtMost
  <2>9. Pool - Holds <= n
    <3>1. Cardinality(slots) \in Nat /\ Pool \in Nat /\ Holds \in Nat
      BY RfTilesAssumption, FS_CardinalityType DEF SlotsBounded
    <3> QED
      BY <2>2, <2>4, <2>8, <3>1 DEF AtMost
  <2>10. sent[0] <= sent[1] + Lead + 1
    BY <1>n DEF Together
  <2>11. Pool - Holds >= Lead + 2 /\ Lead \in Nat /\ Pool \in Nat /\ Holds \in Nat
    BY Bounds, RfTilesAssumption
  <2>12. sl.pts < epoch + sent[1]
    <3>1. Lead + 2 <= epoch + sent[0] - sl.pts
      BY <2>4, <2>9, <2>11 DEF n
    <3> QED
      BY <1>t, <2>3, <2>10, <2>11, <3>1
  <2> QED
    BY <1>s, <2>12 DEF Behind
<1> QED
  BY <1>n, <1>a, <1>1, <1>2, <1>3

LEMMA GoneStep ==
  ASSUME Ample, Lines, Outs, Gone, [Next]_vars
  PROVE  Gone'
<1> USE DEF Lines
<1> SUFFICES ASSUME waived' = {}, NEW p \in evicted'
             PROVE  /\ p \in Nat /\ p <= out'[0] /\ p > out'[1]
                    /\ \A t \in Tiles : Behind(t, p)'
                    /\ \A b \in Coming(0)' : p < b.pts
                    /\ \A sl \in slots' : sl.pts # p
  BY DEF Gone
<1>n. Tiles = {0, 1}
  BY DEF Tiles
<1>1. ~StartDecoders
  BY DEF StartDecoders
<1>2. waived = {}
  BY <1>1, NotWaived
<1>3. evicted \subseteq Nat /\ out[0] \in Nat /\ out[1] \in Nat
  BY <1>n DEF TypeOK
<1>4. CASE p \in evicted
  <2>1. /\ p \in Nat /\ p <= out[0] /\ p > out[1]
        /\ \A t \in Tiles : Behind(t, p)
        /\ \A b \in Coming(0) : p < b.pts
        /\ \A sl \in slots : sl.pts # p
    BY <1>2, <1>3, <1>4 DEF Gone
  <2>2. \A t \in Tiles : Behind(t, p)'
    BY <1>1, <2>1, BehindKept
  <2>3. \A b \in Coming(0)' : p < b.pts
    <3>1. Receive(0) => p < Made(0).pts
      BY <1>n, <2>1, BehindPassed
    <3>2. Coming(0)' \subseteq Coming(0) \/ (Receive(0) /\ Coming(0)' \subseteq Coming(0) \cup {Made(0)})
      BY <1>n, ComingMoved
    <3> QED
      BY <2>1, <3>1, <3>2
  <2>4. CASE ~(\E u \in Tiles : OnTile(u))
    <3>1. out' = out /\ slots' \subseteq slots
      BY <2>4, NonePutOut
    <3> QED
      BY <2>1, <2>2, <2>3, <3>1
  <2>5. ASSUME NEW u \in Tiles, OnTile(u)
        PROVE  p <= out'[0] /\ p > out'[1] /\ \A sl \in slots' : sl.pts # p
    <3> DEFINE au == Head(busy[u])
    <3>1. /\ au \in Aus /\ au \in Coming(u) /\ out'[u] = au.pts
          /\ \A v \in Tiles \ {u} : out'[v] = out[v]
          /\ slots' \subseteq slots \cup {au}
      BY <1>2, <2>5, PutOut
    <3>2. p > out'[1]
      BY <2>5 DEF OnTile
    <3>3. au.pts \in Nat
      BY <3>1 DEF Aus
    <3> HIDE DEF au
    <3>4. CASE u = 0
      <4>1. p < au.pts /\ out'[0] = au.pts
        BY <2>1, <3>1, <3>4
      <4> QED
        BY <2>1, <3>1, <3>2, <3>3, <4>1
    <3>5. CASE u = 1
      <4>1. out'[0] = out[0] /\ out'[1] = au.pts
        BY <1>n, <3>1, <3>5
      <4> QED
        BY <2>1, <3>1, <3>2, <3>3, <4>1
    <3> QED
      BY <1>n, <3>4, <3>5
  <2> QED
    BY <2>1, <2>2, <2>3, <2>4, <2>5
<1>5. CASE p \notin evicted
  <2>1. PICK u \in Tiles : OnTile(u)
    BY <1>5, NonePutOut
  <2>2. PICK sl \in slots \ slots' : p = sl.pts /\ p > out'[1]
    BY <1>5, <2>1 DEF OnTile
  <2> DEFINE au == Head(busy[u])
  <2>3. sl \in Known /\ sl.pts \in Nat
    BY DEF Known, Items, TypeOK, Aus
  <2>4. /\ sl.tile = 0 /\ \A s \in slots : sl.pts <= s.pts
        /\ Cardinality(slots) >= Pool - onScreen
        /\ slots' = (slots \ {sl}) \cup {au} /\ \A s \in slots : s.pts # au.pts
    BY <1>2, <2>1, <2>2, GivenUp
  <2>5. /\ au \in Aus /\ out'[u] = au.pts /\ \A v \in Tiles \ {u} : out'[v] = out[v]
        /\ \A t \in Tiles : Coming(t)' \subseteq Coming(t)
        /\ Before(Past(u), {au})
    BY <1>2, <2>1, PutOut
  <2>6. Behind(0, p)' /\ Behind(1, p)'
    <3>1. Cardinality(slots) >= Pool - Holds
      <4>1. onScreen \in 0..Holds /\ Holds \in Nat /\ Pool \in Nat
        BY RfTilesAssumption DEF TypeOK
      <4>2. Cardinality(slots) \in Nat
        BY FS_CardinalityType DEF SlotsBounded
      <4> QED
        BY <2>4, <4>1, <4>2
    <3>2. Behind(1, sl.pts)
      BY <1>2, <2>4, <3>1, OldestBehind
    <3>3. Behind(0, sl.pts)
      BY <1>2, <2>3, <2>4, BehindIs
    <3>4. p \in Nat /\ Behind(1, p) /\ Behind(0, p)
      BY <2>2, <2>3, <3>2, <3>3
    <3>5. 0 \in Tiles /\ 1 \in Tiles
      BY <1>n
    <3> QED
      BY <1>1, <3>4, <3>5, BehindKept
  <2>7. sl \in Past(0) /\ sl.pts <= out[0]
    BY <1>2, <2>4 DEF Past, Outs
  <2>8. \A b \in Coming(0)' : p < b.pts
    <3>1. Before(Past(0), Coming(0))
      BY <1>2, <1>n DEF InOrder, InLine
    <3> QED
      BY <1>n, <2>2, <2>5, <2>7, <3>1 DEF Before
  <2>9. p <= out'[0]
    <3>1. CASE u = 0
      <4>1. p < au.pts /\ au.pts \in Nat /\ out'[0] = au.pts
        BY <2>2, <2>5, <2>7, <3>1 DEF Before, Aus
      <4> HIDE DEF au
      <4> QED
        BY <2>2, <2>3, <4>1
    <3>2. CASE u = 1
      BY <1>n, <2>2, <2>5, <2>7, <3>2
    <3> QED
      BY <1>n, <3>1, <3>2
  <2>10. \A s \in slots' : s.pts # p
    BY <2>2, <2>4 DEF SlotsBounded
  <2> QED
    BY <1>n, <2>2, <2>3, <2>6, <2>8, <2>9, <2>10
<1> QED
  BY <1>4, <1>5

LEMMA AboveFewer ==
  ASSUME NEW S, NEW T, NEW p, T \subseteq S
  PROVE  Above(T, p) \subseteq Above(S, p)
BY DEF Above

(* A step adds to what has lost its buffer only what had one of tile 0. *)
LEMMA LoadMoved ==
  ASSUME Lines, Outs, waived = {}, [Next]_vars, NEW S, Admitted \subseteq S, Admitted' \subseteq S
  PROVE  Load(Admitted)' \subseteq Load(S)
<1>1. evicted' \subseteq evicted \cup PtsOf(Admitted)
  <2> SUFFICES ASSUME NEW p \in evicted', p \notin evicted PROVE p \in PtsOf(Admitted)
    OBVIOUS
  <2>1. PICK u \in Tiles : OnTile(u)
    BY NonePutOut
  <2>2. PICK sl \in slots \ slots' : p = sl.pts /\ p > out'[1]
    BY <2>1 DEF OnTile
  <2>3. sl.tile = 0
    BY <2>1, <2>2, GivenUp
  <2> QED
    BY <2>2, <2>3 DEF Admitted, PtsOf
<1> QED
  BY <1>1 DEF Load, PtsOf

LEMMA AdmittedIs ==
  Lines =>
    /\ Admitted \subseteq Past(0) \cup Coming(0) /\ Admitted \subseteq Known
    /\ Admitted \subseteq Aus /\ \A x \in Admitted : x.tile = 0
<1> SUFFICES ASSUME Lines
             PROVE  /\ Admitted \subseteq Past(0) \cup Coming(0) /\ Admitted \subseteq Known
                    /\ Admitted \subseteq Aus /\ \A x \in Admitted : x.tile = 0
  OBVIOUS
<1> USE DEF Lines
<1>n. 0 \in Tiles
  BY DEF Tiles
<1>1. Admitted \subseteq {sl \in slots : sl.tile = 0} \cup Coming(0)
  BY ComingIs DEF Admitted
<1>2. Admitted \subseteq Past(0) \cup Coming(0)
  BY <1>1 DEF Past
<1>3. Admitted \subseteq Known
  BY <1>1 DEF Known, Items
<1>4. \A x \in Coming(0) : x.tile = 0
  BY <1>n DEF OwnTile
<1> QED
  BY <1>1, <1>2, <1>3, <1>4, KnownTyped

(* A frame's second tile is not long in coming. *)
LEMMA RoomForArrival ==
  ASSUME Ample, Lines, Lines', Gone, Receive(1), waived' = {}
  PROVE  AtMost(Above(Load(Admitted)', Made(1).pts), Window + 1)
<1>n. Tiles = {0, 1}
  BY DEF Tiles
<1>1. PICK e \in Nat : e = epoch'
  BY DEF Lines, TypeOK
<1>2. /\ Made(1).pts = e + sent[1] /\ heard' = session
  BY <1>1 DEF Receive, Note, Hear, Made
<1>3. /\ sent[0] \in Nat /\ sent[1] \in Nat /\ sent'[0] = sent[0] /\ session' = session
      /\ sent[0] <= sent[1] + Lead + 1 /\ session \in Nat
  <2>1. /\ sent \in [Tiles -> Nat] /\ sent' = [sent EXCEPT ![1] = @ + 1] /\ session' = session
    BY DEF Lines, TypeOK, Receive, Sends
  <2>2. sent[0] <= sent[1 - 0] + Lead + 1
    BY <1>n DEF Lines, Together
  <2>3. session \in Nat
    BY DEF Lines, TypeOK
  <2> QED
    BY <1>n, <2>1, <2>2, <2>3
<1>4. ASSUME NEW x \in Admitted', x.pts > Made(1).pts
      PROVE  x.pts \in Int /\ x.pts <= e + sent[1] + Lead
  <2>a. (x \in slots' /\ x.tile = 0) \/ x \in Coming(0)'
    BY <1>4, ComingIsNext DEF Admitted
  <2>b. x \in Known'
    BY <2>a DEF Known, Items
  <2>c. Known' \subseteq Known \cup {Made(1)} /\ Made(1) \in Aus /\ Known \subseteq Aus
    <3>1. [Next]_vars /\ TypeOK /\ 1 \in Tiles
      BY <1>n DEF Next, Lines
    <3> QED
      BY <3>1, KnownArrived, KnownTyped, MadeOK
  <2>d. x.tile = 0
    <3>1. \A a \in Coming(0)' : a.tile = 0
      BY <1>n DEF Lines, OwnTile
    <3> QED
      BY <2>a, <3>1
  <2>1. x \in Known' /\ x \in Aus /\ x.tile = 0
    BY <2>b, <2>c, <2>d
  <2>2. /\ x.session <= heard'
        /\ x.session = heard' => x.pts = e + x.fid
        /\ x.session < heard' => x.pts < e
        /\ x.session = session' => x.fid < sent'[0]
    <3>1. "pts" \notin waived'
      OBVIOUS
    <3> QED
      BY <1>1, <2>1, <3>1 DEF Lines, OneEpoch, Numbered, InOrder, Sooner
  <2>3. x.pts \in Nat /\ x.fid \in Nat /\ x.session \in Nat
    BY <2>1 DEF Aus
  <2>4. ~(x.pts < e)
    BY <1>2, <1>3, <1>4, <2>3
  <2>5. x.session = session
    BY <1>2, <1>3, <2>2, <2>3, <2>4
  <2>6. x.pts = e + x.fid /\ x.fid < sent[0]
    BY <1>2, <1>3, <2>2, <2>5
  <2>7. Lead \in Nat
    BY RfTilesAssumption
  <2>8. x.fid \in Int /\ x.fid <= sent[1] + Lead
    BY <1>3, <2>3, <2>6, <2>7
  <2> QED
    BY <1>3, <2>3, <2>6, <2>7, <2>8
<1>5. Lead \in Nat /\ Window \in Nat /\ Lead <= Window + 1
  <2>1. Window \in Nat /\ Lead \in Nat /\ T1Hold \in Nat
    BY Bounds
  <2> QED
    BY <2>1 DEF Ample
<1> DEFINE S == Above(Load(Admitted)', Made(1).pts)
<1>a. \A q \in evicted' : ~(q > Made(1).pts)
  <2>1. evicted' = evicted /\ waived = {} /\ [Next]_vars /\ ~StartDecoders
    BY <1>n DEF Receive, Next, Note, Hear, StartDecoders
  <2>2. \A q \in evicted : q \in Nat /\ Behind(1, q)
    BY <1>n, <2>1 DEF Gone
  <2>3. \A q \in evicted : q < Made(1).pts
    BY <1>n, <2>2, BehindPassed
  <2>4. Made(1).pts \in Nat
    BY <1>n, MadeOK DEF Lines, Aus
  <2> QED
    BY <2>1, <2>2, <2>3, <2>4
<1>6. S \in SUBSET Int /\ \A q \in S : e + sent[1] < q /\ q <= e + sent[1] + Lead
  <2>1. \A q \in S : q \in PtsOf(Admitted') /\ q > Made(1).pts
    BY <1>a DEF Above, Load
  <2> HIDE DEF S
  <2> QED
    BY <1>2, <1>4, <2>1 DEF PtsOf
<1> HIDE DEF S
<1>7. AtMost(S, Lead)
  <2>1. e + sent[1] \in Int /\ e + sent[1] + Lead \in Int /\ (e + sent[1] + Lead) - (e + sent[1]) <= Lead
    BY <1>3, <1>5
  <2> QED
    BY <1>5, <1>6, <2>1, BetweenAtMost
<1>8. AtMost(S, Window + 1)
  <2>1. Lead \in Int /\ Window + 1 \in Int
    BY <1>5
  <2> QED
    BY <1>5, <1>7, <2>1, FewerAtMost
<1> QED
  BY <1>8 DEF S

(* Before the release of tile 1 nothing gates tile 0 but the hold's size. *)
LEMMA RoomUngated ==
  ASSUME Ample, Lines, Waiting, Gone, waived' = {}, waived = {}, Receive(0), ~released,
         NEW a \in Coming(1), NEW S, S \subseteq Admitted \cup {Made(0)}
  PROVE  AtMost(Above(Load(S), a.pts), Window + 1)
<1> USE DEF Lines
<1>n. Tiles = {0, 1}
  BY DEF Tiles
<1>1. a \in Range(held[1])
  <2>1. rx = "recv"
    BY DEF Receive, Sends
  <2>2. queue[1] = <<>> /\ Working(1) = {} /\ Hand(1) = {}
    BY <2>1, HandEmpty, RisingEmpty DEF Waiting, Working
  <2> QED
    BY <2>2, ComingIs, RisingEmpty
<1> DEFINE h == Head(held[1])
<1>2. held[1] \in Seq(Aus) /\ held[1] # <<>>
  BY <1>n, <1>1, RisingEmpty DEF TypeOK
<1>3. h \in Aus /\ h.pts \in Nat /\ a.pts \in Nat /\ a \in Aus
  <2>1. h \in Aus
    BY <1>2, Headed
  <2>2. a \in Aus
    BY <1>1, <1>2 DEF Range
  <2> QED
    BY <2>1, <2>2 DEF Aus
<1>4. h.pts <= a.pts
  <2>1. h = held[1][1] /\ DOMAIN held[1] = 1..Len(held[1])
    BY <1>2
  <2>2. PICK i \in DOMAIN held[1] : held[1][i] = a
    BY <1>1 DEF Range
  <2>3. Rising(held[1])
    BY <1>n DEF InOrder, InLine
  <2>4. i > 1 => held[1][1].pts < held[1][i].pts
    BY <2>1, <2>2, <2>3 DEF Rising
  <2> HIDE DEF h
  <2> QED
    BY <1>3, <2>1, <2>2, <2>4
<1>5. Made(0).pts <= h.pts + T1Hold + Lead
  <2>1. Hear(0, sent[0]) /\ Made(0).pts = Epoch(sent[0]) + sent[0]
    BY DEF Receive, Note, Made
  <2>2. ~Ungated(sent[0])
    BY <2>1 DEF Hear, Excuse
  <2>3. ~(Made(0).pts > h.pts + T1Hold + Lead)
    BY <1>2, <2>1, <2>2 DEF Ungated
  <2>4. Made(0).pts \in Nat /\ T1Hold \in Nat /\ Lead \in Nat
    BY <1>n, MadeOK, RfTilesAssumption DEF Aus
  <2> QED
    BY <1>3, <2>3, <2>4
<1>b. \A q \in evicted : q \in Nat /\ q <= Made(0).pts
  <2>1. \A q \in evicted : q \in Nat /\ Behind(0, q)
    BY <1>n DEF Gone
  <2>2. \A q \in evicted : q < Made(0).pts
    BY <1>n, <2>1, BehindPassed
  <2>3. Made(0).pts \in Nat
    BY <1>n, MadeOK DEF Aus
  <2> QED
    BY <2>1, <2>2, <2>3
<1>6. \A x \in S : x.pts \in Nat /\ x.pts <= Made(0).pts
  <2>1. Made(0) \in Aus
    BY <1>n, MadeOK
  <2>2. Before(Past(0) \cup Coming(0), {Made(0)})
    BY <1>n, ArrivesLast DEF InOrder
  <2>3. \A x \in Admitted : x.pts < Made(0).pts /\ x \in Aus
    BY <2>2, AdmittedIs DEF Before
  <2> QED
    BY <2>1, <2>3 DEF Aus
<1>7. Lead \in Nat /\ Window \in Nat /\ T1Hold \in Nat /\ T1Hold + Lead <= Window + 1
  BY Bounds DEF Ample
<1> DEFINE j == h.pts + T1Hold + Lead
<1>8. j \in Nat /\ j - a.pts <= T1Hold + Lead
  BY <1>3, <1>4, <1>7
<1>9. Made(0).pts \in Nat
  BY <1>n, MadeOK DEF Aus
<1> HIDE DEF h, j
<1>c. \A q \in Load(S) : q \in Nat /\ q <= Made(0).pts
  BY <1>b, <1>6 DEF Load, PtsOf
<1>10. Above(Load(S), a.pts) \in SUBSET Int /\ \A q \in Above(Load(S), a.pts) : a.pts < q /\ q <= j
  BY <1>3, <1>5, <1>c, <1>8, <1>9 DEF Above, j
<1>11. j - a.pts <= Window + 1 /\ Window + 1 \in Nat
  BY <1>3, <1>7, <1>8
<1>12. a.pts \in Int /\ j \in Int /\ Window + 1 \in Nat
  BY <1>3, <1>8, <1>11
<1> HIDE DEF Above
<1> QED
  BY <1>10, <1>11, <1>12, BetweenAtMost, Zenon

(* The gate: what came out of decoder 0 is within the skew, and its backlog
   within the rest of the window.                                           *)
LEMMA RoomGated ==
  ASSUME Ample, Lines, Outs, Gone, waived = {}, ~GateShut, rx # "push",
         NEW a \in Coming(1), NEW x, NEW S, S \subseteq Admitted \cup {x}
  PROVE  AtMost(Above(Load(S), a.pts), Room(a))
<1> USE DEF Lines
<1>n. Tiles = {0, 1}
  BY DEF Tiles
<1>1. /\ Window \in Nat /\ SkewMax \in Nat /\ SkewMax >= 1 /\ InflightMax \in Nat
      /\ SkewMax + InflightMax = Window /\ Depth \in Nat
  BY Bounds
<1>2. /\ out[0] \in Nat /\ out[1] \in Nat /\ a.pts \in Nat
  <2>1. a \in Aus
    BY KnownTyped DEF Known, Items
  <2> QED
    BY <1>n, <2>1 DEF TypeOK, Aus
<1>3. /\ out[0] <= out[1] + SkewMax /\ Len(queue[0]) <= InflightMax /\ out[1] <= a.pts
  <2>1. Len(queue[0]) \in Nat
    BY <1>n DEF TypeOK
  <2> QED
    BY <1>1, <1>2, <2>1 DEF GateShut, Outs
<1> DEFINE k == Room(a) - InflightMax - Depth - 1
           A == Above(Load({sl \in slots : sl.tile = 0}), a.pts)
           B == PtsOf(Working(0))
           C == PtsOf(Range(queue[0]))
<1>4. k \in Nat /\ Room(a) \in Nat /\ out[0] - a.pts <= k
  BY <1>1, <1>2, <1>3 DEF Room
<1>5. AtMost(A, k)
  <2>1. \A sl \in slots : sl.tile = 0 => sl.pts <= out[0]
    BY DEF Outs
  <2>2. \A sl \in slots : sl.pts \in Nat
    BY DEF TypeOK, Aus
  <2>a. \A q \in evicted : q \in Nat /\ q <= out[0]
    BY DEF Gone
  <2>b. \A q \in Load({sl \in slots : sl.tile = 0}) : q \in Nat /\ q <= out[0]
    BY <2>1, <2>2, <2>a DEF Load, PtsOf
  <2>3. A \in SUBSET Int /\ \A q \in A : a.pts < q /\ q <= out[0]
    BY <1>2, <2>b DEF Above
  <2>4. a.pts \in Int /\ out[0] \in Int
    BY <1>2
  <2> HIDE DEF A, k
  <2> QED
    BY <1>4, <2>3, <2>4, BetweenAtMost, Zenon
<1>6. AtMost(B, Depth)
  <2>1. busy[0] \in Seq(Aus) /\ Len(busy[0]) \in Int /\ Len(busy[0]) <= Depth
    BY <1>n DEF TypeOK, DepthBounded
  <2>2. AtMost(B, Len(busy[0]))
    BY <2>1, RangeAtMost DEF Working
  <2>3. Depth \in Int
    BY <1>1
  <2> HIDE DEF B
  <2> QED
    BY <2>1, <2>2, <2>3, FewerAtMost
<1>7. AtMost(C, InflightMax)
  <2>1. queue[0] \in Seq(Aus) /\ Len(queue[0]) \in Int
    BY <1>n DEF TypeOK
  <2>2. AtMost(C, Len(queue[0]))
    BY <2>1, RangeAtMost
  <2> HIDE DEF C
  <2> QED
    BY <1>1, <1>3, <2>1, <2>2, FewerAtMost
<1>8. Above(Load(S), a.pts) \subseteq ((A \cup B) \cup C) \cup {x.pts}
  <2>1. S \subseteq {sl \in slots : sl.tile = 0} \cup Working(0) \cup Range(queue[0]) \cup {x}
    BY DEF Admitted
  <2> QED
    BY <2>1 DEF Above, Load, PtsOf
<1> HIDE DEF A, B, C
<1>9. AtMost(A \cup B, k + Depth) /\ k + Depth \in Int /\ k \in Int
  <2>1. k \in Int /\ Depth \in Int
    BY <1>1, <1>4
  <2> HIDE DEF k
  <2> QED
    BY <1>5, <1>6, <2>1, UnionAtMost
<1>10. AtMost((A \cup B) \cup C, k + Depth + InflightMax) /\ k + Depth + InflightMax \in Int
  <2>1. InflightMax \in Int
    BY <1>1
  <2> HIDE DEF k
  <2>2. AtMost((A \cup B) \cup C, (k + Depth) + InflightMax)
    BY <1>7, <1>9, <2>1, UnionAtMost, Zenon
  <2> QED
    BY <1>9, <2>1, <2>2
<1>11. AtMost(((A \cup B) \cup C) \cup {x.pts}, k + Depth + InflightMax + 1)
  <2>1. AtMost({x.pts}, 1)
    BY SomeAtMost
  <2>2. 1 \in Int
    OBVIOUS
  <2> HIDE DEF k
  <2> QED
    BY <1>10, <2>1, <2>2, UnionAtMost, Zenon
<1>12. k + Depth + InflightMax + 1 = Room(a) /\ k + Depth + InflightMax + 1 \in Int
  BY <1>1, <1>4
<1> HIDE DEF k
<1>13. Room(a) \in Int /\ k + Depth + InflightMax + 1 <= Room(a)
  BY <1>4, <1>12
<1> QED
  BY <1>8, <1>11, <1>12, <1>13, FewerAtMost

(* The room in front of an AU is not taken back. *)
LEMMA RoomKept ==
  ASSUME Ample, Lines, Outs, waived = {}, [Next]_vars, NEW a \in Coming(1), a \in Coming(1)'
  PROVE  /\ Room(a) \in Int /\ Room(a)' \in Int
         /\ Room(a) <= Room(a)' /\ Window + 1 <= Room(a)'
<1> USE DEF Lines
<1>n. 1 \in Tiles
  BY DEF Tiles
<1>1. Window \in Nat /\ Depth \in Nat \ {0}
  BY Bounds
<1>2. out'[1] # out[1] => a.pts # out[1]
  <2> SUFFICES ASSUME out'[1] # out[1] PROVE a.pts # out[1]
    OBVIOUS
  <2>1. PICK u \in Tiles : OnTile(u)
    BY NonePutOut
  <2>2. u = 1
    BY <1>n, <2>1, PutOut
  <2>3. Head(busy[1]) \in Coming(1) /\ Before({Head(busy[1])}, Coming(1)')
    BY <1>n, <2>1, <2>2, PutOut
  <2>4. out[1] <= Head(busy[1]).pts /\ Head(busy[1]).pts < a.pts
    BY <2>3 DEF Outs, Before
  <2>5. out[1] \in Nat /\ Head(busy[1]).pts \in Nat /\ a.pts \in Nat
    <3>1. Head(busy[1]) \in Aus /\ a \in Aus
      BY <2>3, KnownTyped DEF Known, Items
    <3> QED
      BY <1>n, <3>1 DEF TypeOK, Aus
  <2> QED
    BY <2>4, <2>5
<1>3. /\ Room(a) = IF a.pts = out[1] THEN Window + Depth + 1 ELSE Window + Depth
      /\ Room(a)' = IF a.pts = out'[1] THEN Window + Depth + 1 ELSE Window + Depth
  BY DEF Room
<1> QED
  BY <1>1, <1>2, <1>3

LEMMA GatedStep ==
  ASSUME Ample, Lines, Lines', Waiting, Outs, Gated, Gone, [Next]_vars
  PROVE  Gated'
<1> SUFFICES ASSUME waived' = {}, NEW a \in Coming(1)'
             PROVE  AtMost(Above(Load(Admitted)', a.pts), Room(a)')
  BY DEF Gated
<1>n. Tiles = {0, 1}
  BY DEF Tiles
<1>1. ~StartDecoders
  BY Starts
<1>2. waived = {}
  BY <1>1, NotWaived
<1>3. a \in Coming(1) \/ (Receive(1) /\ a = Made(1))
  <2>1. 1 \in Tiles /\ TypeOK /\ Swapped /\ Staged
    BY <1>n DEF Lines
  <2> QED
    BY <2>1, ComingMoved
<1>4. CASE Receive(1) /\ a = Made(1)
  <2>1. AtMost(Above(Load(Admitted)', a.pts), Window + 1)
    BY <1>4, RoomForArrival
  <2>2. Room(a)' = IF a.pts = out'[1] THEN Window + Depth + 1 ELSE Window + Depth
    BY DEF Room
  <2>3. Window \in Nat /\ Depth \in Nat \ {0}
    BY Bounds
  <2>4. Window + 1 \in Int /\ Room(a)' \in Int /\ Window + 1 <= Room(a)'
    BY <2>2, <2>3
  <2> QED
    BY <2>1, <2>4, FewerAtMost
<1>5. CASE a \in Coming(1)
  <2>1. /\ Room(a) \in Int /\ Room(a)' \in Int
        /\ Room(a) <= Room(a)' /\ Window + 1 <= Room(a)'
    BY <1>2, <1>5, RoomKept
  <2>2. CASE Admitted' \subseteq Admitted
    <3>1. AtMost(Above(Load(Admitted), a.pts), Room(a))
      BY <1>2, <1>5 DEF Gated
    <3>2. Load(Admitted)' \subseteq Load(Admitted)
      BY <1>2, <2>2, LoadMoved
    <3>3. Above(Load(Admitted)', a.pts) \subseteq Above(Load(Admitted), a.pts)
      BY <3>2, AboveFewer
    <3> QED
      BY <2>1, <3>1, <3>3, FewerAtMost
  <2>3. CASE Receive(0) /\ ~released /\ Admitted' \subseteq Admitted \cup {Made(0)}
    <3> DEFINE S == Admitted \cup {Made(0)}
    <3>1. AtMost(Above(Load(S), a.pts), Window + 1)
      BY <1>2, <1>5, <2>3, RoomUngated
    <3>2. Load(Admitted)' \subseteq Load(S)
      BY <1>2, <2>3, LoadMoved
    <3> HIDE DEF S
    <3>3. Above(Load(Admitted)', a.pts) \subseteq Above(Load(S), a.pts)
      BY <3>2, AboveFewer
    <3>4. Window + 1 \in Int
      BY Bounds
    <3> QED
      BY <2>1, <3>1, <3>3, <3>4, FewerAtMost
  <2>4. ASSUME ~GateShut, rx # "push", NEW x \in Aus, Admitted' \subseteq Admitted \cup {x}
        PROVE  AtMost(Above(Load(Admitted)', a.pts), Room(a)')
    <3> DEFINE S == Admitted \cup {x}
    <3>1. AtMost(Above(Load(S), a.pts), Room(a))
      BY <1>2, <1>5, <2>4, RoomGated
    <3>2. Load(Admitted)' \subseteq Load(S)
      BY <1>2, <2>4, LoadMoved
    <3> HIDE DEF S
    <3>3. Above(Load(Admitted)', a.pts) \subseteq Above(Load(S), a.pts)
      BY <3>2, AboveFewer
    <3> QED
      BY <2>1, <3>1, <3>3, FewerAtMost
  <2> QED
    BY <1>2, <2>2, <2>3, <2>4, AdmittedMoved
<1> QED
  BY <1>3, <1>4, <1>5

(* A non-empty set of naturals has a least element. *)
LEMMA Least ==
  ASSUME NEW S, S \subseteq Nat, S # {}
  PROVE  \E x \in S : \A y \in S : x <= y
<1> DEFINE R == OpToRel(<, Nat)
<1>1. PICK x \in S : \A y \in S : ~ (<<y, x>> \in R)
  <2>1. IsWellFoundedOn(R, Nat)
    BY NatLessThanWellFounded
  <2> HIDE DEF R
  <2> QED
    BY <2>1, WFMin
<1>2. \A y \in S : ~ (y < x)
  BY <1>1 DEF OpToRel
<1> QED
  BY <1>2

(* What is in front of an AU and a full pool leave room for few others. *)
LEMMA RoomIsShort ==
  ASSUME Ample, Lines, Outs, waived = {}, NEW b \in Coming(1), NEW n \in Nat, NEW m \in Nat,
         m >= Pool - onScreen, n + m <= Room(b)
  PROVE  n + 1 <= Excess
<1>1. /\ Window \in Nat /\ Window = Pool - Holds - Margin /\ Depth \in Nat /\ Margin \in Nat
      /\ Pool \in Nat /\ Holds \in Nat /\ Holds >= 1
  BY Bounds
<1>2. onScreen \in Nat /\ onScreen <= Holds
  BY <1>1 DEF Lines, TypeOK
<1>3. b.pts = out[1] => onScreen = 0
  <2>1. b.pts \in Nat
    <3>1. b \in Aus
      BY KnownTyped DEF Lines, Known, Items
    <3> QED
      BY <3>1 DEF Aus
  <2>2. b.pts = out[1] => ~Begun
    BY <2>1 DEF Outs
  <2> QED
    BY <1>2, <2>2 DEF Begun
<1>4. n + m <= Window + Depth + 1 /\ (onScreen # 0 => n + m <= Window + Depth)
  BY <1>1, <1>3 DEF Room
<1>5. n + 1 <= Depth + 1 - Margin
  <2>1. CASE onScreen = 0
    BY <1>1, <1>4, <2>1
  <2>2. CASE onScreen # 0
    BY <1>1, <1>2, <1>4, <2>2
  <2> QED
    BY <2>1, <2>2
<1>6. Depth + 1 > Margin
  BY <1>1, <1>5
<1> QED
  BY <1>5, <1>6 DEF Excess

(* A half gives up its buffer with its partner on its way: what is owed then,
   and what fills the pool, is in front of the next AU of tile 1, and the gate
   has not let through more than its room.                                  *)
LEMMA OwedBounded ==
  ASSUME Ample, Lines, Outs, Gated, Gone, waived = {}, NEW u \in Tiles, OnTile(u),
         NEW sl \in slots \ slots', sl.pts > out'[1], sl.pts \in PtsOf(Coming(1)')
  PROVE  AtMost(Owed', Excess)
<1> USE DEF Lines
<1>n. Tiles = {0, 1}
  BY DEF Tiles
<1> DEFINE au == Head(busy[u])
           P == PtsOf(slots)
           D == Owed' \ {sl.pts}
<1>1. /\ au \in Aus /\ au.tile = u /\ au \in Coming(u) /\ au \in Working(u)
      /\ Coming(1)' \subseteq Coming(1)
      /\ Before({au}, Coming(u)') /\ Before(Past(u), {au})
  BY <1>n, PutOut
<1>2. /\ sl.tile = 0 /\ \A s \in slots : sl.pts <= s.pts
      /\ Cardinality(slots) >= Pool - onScreen
      /\ slots' = (slots \ {sl}) \cup {au}
  BY GivenUp
<1>3. /\ au.pts \in Nat /\ sl.pts \in Nat
      /\ \A s \in slots : s.pts \in Nat /\ s.tile \in Tiles
      /\ \A b \in Coming(1) : b.pts \in Nat
  <2>1. Coming(1) \subseteq Aus
    BY KnownTyped DEF Known, Items
  <2>2. slots \subseteq Aus
    BY DEF TypeOK
  <2> QED
    BY <1>1, <2>1, <2>2 DEF Aus
<1> HIDE DEF au
<1>4. \A s \in slots : s.tile = 0 /\ s \in Admitted /\ s \in Past(0)
  <2> SUFFICES ASSUME NEW s \in slots, s.tile = 1 PROVE FALSE
    BY <1>3, <1>n DEF Admitted, Past
  <2>1. PICK b \in Coming(1) : b.pts = sl.pts
    BY <1>1 DEF PtsOf
  <2>2. s.pts < b.pts
    BY <1>n DEF InOrder, InLine, Before, Past
  <2> QED
    BY <1>2, <1>3, <2>1, <2>2
<1>5. /\ D \subseteq evicted /\ D \subseteq PtsOf(Coming(1)') /\ sl.pts \in Owed'
      /\ Owed' \subseteq Nat /\ Owed' = D \cup {sl.pts}
  <2>1. evicted' = {p \in evicted \cup {x.pts : x \in slots \ slots'} : p > out'[1]}
    BY DEF OnTile
  <2>2. slots \ slots' \subseteq {sl}
    BY <1>2
  <2>3. evicted' \subseteq evicted \cup {sl.pts} /\ sl.pts \in evicted'
    BY <2>1, <2>2
  <2>4. Owed' = PtsOf(Coming(1)') \cap evicted'
    BY DEF Owed, PtsOf
  <2>5. PtsOf(Coming(1)') \subseteq Nat
    BY <1>1, <1>3 DEF PtsOf
  <2> QED
    BY <2>3, <2>4, <2>5
<1>6. PICK m \in Owed' : \A q \in Owed' : m <= q
  BY <1>5, Least
<1>7. PICK a \in Coming(1)' : a.pts = m
  BY <1>5, <1>6 DEF PtsOf
<1>8. a \in Coming(1) /\ m \in Nat
  BY <1>1, <1>5, <1>7
<1>9. D \cap P = {} /\ m \in D \cup P /\ sl.pts \in P
  <2>1. \A p \in evicted : \A s \in slots : s.pts # p
    BY DEF Gone
  <2> QED
    BY <1>5, <1>6, <2>1 DEF PtsOf
<1>10. \A q \in D \cup P : q \in Load(Admitted) /\ q \in Nat /\ m <= q
  <2>1. \A q \in D : q \in Load(Admitted) /\ q \in Nat /\ m <= q
    BY <1>5, <1>6 DEF Load
  <2>2. m <= sl.pts
    BY <1>5, <1>6
  <2>3. ASSUME NEW s \in slots PROVE s.pts \in Load(Admitted) /\ s.pts \in Nat /\ m <= s.pts
    <3>1. s.pts \in Load(Admitted)
      BY <1>4 DEF Load, PtsOf
    <3> QED
      BY <1>2, <1>3, <1>8, <2>2, <3>1
  <2> HIDE DEF D
  <2> QED
    BY <2>1, <2>3 DEF PtsOf
<1>11. IsFiniteSet(P) /\ Cardinality(P) = Cardinality(slots) /\ Cardinality(P) \in Nat
  BY PtsCounted, FS_CardinalityType DEF SlotsBounded
<1> HIDE DEF P, D
(* The least PTS that is owed, and what is in front of it. *)
<1>12. ASSUME u = 0 PROVE \E b \in Coming(1) : AtMost(D \cup P, Room(b))
  <2> DEFINE W == D \cup P
             V == (W \cup {au.pts}) \ {m}
  <2>1. \A q \in W : q < au.pts
    <3>1. \A q \in evicted : q < au.pts
      BY <1>1, <1>12 DEF Gone
    <3>2. \A s \in slots : s.pts < au.pts
      BY <1>1, <1>4, <1>12 DEF Before
    <3> QED
      BY <1>5, <3>1, <3>2 DEF P, PtsOf
  <2>2. au.pts \in Load(Admitted)
    BY <1>1, <1>12 DEF Load, PtsOf, Admitted
  <2>3. V \subseteq Above(Load(Admitted), m)
    <3>1. m < au.pts
      BY <1>9, <2>1
    <3> HIDE DEF W
    <3>2. \A q \in W : q \in Load(Admitted) /\ q \in Nat /\ m <= q
      BY <1>10 DEF W
    <3> QED
      BY <1>8, <2>2, <3>1, <3>2 DEF Above
  <2>4. AtMost(Above(Load(Admitted), m), Room(a))
    BY <1>7, <1>8 DEF Gated
  <2>5. IsFiniteSet(V) /\ Cardinality(V) <= Room(a) /\ Cardinality(V) \in Nat
    <3>1. Room(a) \in Int
      BY Bounds DEF Room
    <3>2. Room(a) <= Room(a)
      BY <3>1
    <3> HIDE DEF V
    <3>3. AtMost(V, Room(a))
      BY <2>3, <2>4, <3>1, <3>2, FewerAtMost, Zenon
    <3> QED
      BY <3>3, FS_CardinalityType DEF AtMost
  <2>6. IsFiniteSet(W) /\ Cardinality(W) = Cardinality(V)
    <3>1. au.pts \notin W /\ m \in W
      <4> HIDE DEF W
      <4>1. \A q \in W : q \in Nat
        BY <1>10 DEF W
      <4> QED
        BY <1>3, <1>9, <2>1, <4>1 DEF W
    <3>2. W \ {m} = V \ {au.pts} /\ au.pts \in V
      <4> HIDE DEF W
      <4> QED
        BY <3>1
    <3>3. IsFiniteSet(V \ {au.pts}) /\ Cardinality(V \ {au.pts}) = Cardinality(V) - 1
      <4> HIDE DEF V
      <4> QED
        BY <2>5, <3>2, FS_RemoveElement
    <3>4. W = (W \ {m}) \cup {m} /\ m \notin W \ {m}
      BY <3>1
    <3> HIDE DEF W, V
    <3>5. IsFiniteSet(W) /\ Cardinality(W) = Cardinality(W \ {m}) + 1
      <4> DEFINE T == W \ {m}
      <4>1. IsFiniteSet(T) /\ m \notin T /\ W = T \cup {m}
        BY <3>2, <3>3, <3>4
      <4> HIDE DEF T
      <4>2. IsFiniteSet(T \cup {m}) /\ Cardinality(T \cup {m}) = Cardinality(T) + 1
        BY <4>1, FS_AddElement
      <4> QED
        BY <4>1, <4>2 DEF T
    <3>6. Cardinality(W \ {m}) = Cardinality(V) - 1
      BY <3>2, <3>3
    <3> QED
      BY <2>5, <3>5, <3>6
  <2>7. AtMost(W, Room(a))
    BY <2>5, <2>6 DEF AtMost
  <2> QED
    BY <1>8, <2>7 DEF W
(* The AU that decoder 1 puts out is in front of it, too. *)
<1>13. ASSUME u = 1 PROVE \E b \in Coming(1) : AtMost(D \cup P, Room(b))
  <2>1. au \in Coming(1) /\ au.pts < m
    BY <1>1, <1>7, <1>13 DEF Before
  <2>2. D \cup P \subseteq Above(Load(Admitted), au.pts)
    BY <1>3, <1>8, <1>10, <2>1 DEF Above
  <2>3. AtMost(Above(Load(Admitted), au.pts), Room(au))
    BY <2>1 DEF Gated
  <2>4. Room(au) \in Int
    BY Bounds DEF Room
  <2>5. Room(au) <= Room(au)
    BY <2>4
  <2>6. AtMost(D \cup P, Room(au))
    BY <2>2, <2>3, <2>4, <2>5, FewerAtMost, Zenon
  <2> QED
    BY <2>1, <2>6
<1>14. PICK b \in Coming(1) : AtMost(D \cup P, Room(b))
  <2>1. CASE u = 0
    BY <1>8, <1>12, <2>1
  <2>2. CASE u = 1
    BY <1>1, <1>13, <2>2
  <2> QED
    BY <1>n, <2>1, <2>2
<1>15. IsFiniteSet(D) /\ Cardinality(D) \in Nat
  BY <1>14, FS_Subset, FS_CardinalityType DEF AtMost
<1>16. Cardinality(D \cup P) = Cardinality(D) + Cardinality(P)
  <2>1. Cardinality(D \cup P) = Cardinality(D) + Cardinality(P) - Cardinality(D \cap P)
    BY <1>11, <1>15, FS_Union
  <2>2. Cardinality(D \cap P) = 0
    BY <1>9, FS_EmptySet
  <2> QED
    BY <1>11, <1>15, <2>1, <2>2
<1>17. Cardinality(D) + 1 <= Excess
  <2>1. Cardinality(D) + Cardinality(P) <= Room(b)
    BY <1>14, <1>16 DEF AtMost
  <2>2. Cardinality(P) >= Pool - onScreen
    BY <1>2, <1>11
  <2> QED
    BY <1>11, <1>14, <1>15, <2>1, <2>2, RoomIsShort, Zenon
<1>18. /\ IsFiniteSet(D \cup {sl.pts})
       /\ Cardinality(D \cup {sl.pts}) \in {Cardinality(D), Cardinality(D) + 1}
  BY <1>15, FS_AddElement
<1>19. Excess \in Int
  BY Bounds DEF Excess
<1>20. Cardinality(D \cup {sl.pts}) <= Excess
  BY <1>15, <1>17, <1>18, <1>19
<1> QED
  BY <1>5, <1>18, <1>20 DEF AtMost

LEMMA SurviveStep ==
  ASSUME Ample, Lines, Outs, Gated, Gone, Survive, [Next]_vars
  PROVE  Survive'
<1> USE DEF Lines
<1>n. Tiles = {0, 1}
  BY DEF Tiles
<1> SUFFICES ASSUME waived' = {} PROVE AtMost(Owed', Excess)
  BY DEF Survive
<1>e. Excess \in Int /\ Excess >= 0
  BY Bounds DEF Excess
<1>o. Owed' = PtsOf(Coming(1)') \cap evicted' /\ Owed = PtsOf(Coming(1)) \cap evicted
  BY DEF Owed, PtsOf
<1>1. CASE StartDecoders
  <2>1. Owed' = {}
    BY <1>1, <1>o DEF StartDecoders
  <2> QED
    BY <1>e, <2>1, FS_EmptySet DEF AtMost
<1>2. CASE ~StartDecoders
  <2>w. waived = {}
    BY <1>2, NotWaived
  <2>1. CASE Owed' \subseteq Owed
    <3>1. AtMost(Owed, Excess) /\ Excess <= Excess
      BY <1>e, <2>w DEF Survive
    <3> QED
      BY <1>e, <2>1, <3>1, FewerAtMost
  <2>2. CASE ~(Owed' \subseteq Owed)
    <3>1. PICK p \in Owed' : p \notin Owed
      BY <2>2
    <3>2. PICK a \in Coming(1)' : a.pts = p
      BY <1>o, <3>1 DEF PtsOf
    <3>3. p \in evicted'
      BY <1>o, <3>1
    <3>4. a \in Coming(1) \/ (Receive(1) /\ a = Made(1))
      <4>1. 1 \in Tiles /\ TypeOK /\ Swapped /\ Staged
        BY <1>n
      <4> QED
        BY <4>1, ComingMoved
    <3>5. ~(Receive(1) /\ a = Made(1))
      <4> SUFFICES ASSUME Receive(1), a = Made(1) PROVE FALSE
        OBVIOUS
      <4>1. evicted' = evicted
        BY DEF Receive
      <4>2. p \in Nat /\ Behind(1, p)
        BY <1>n, <2>w, <3>3, <4>1 DEF Gone
      <4>3. p < Made(1).pts
        BY <1>n, <4>2, BehindPassed
      <4> QED
        BY <3>2, <4>2, <4>3
    <3>6. a \in Coming(1) /\ p \notin evicted
      BY <1>o, <3>1, <3>2, <3>4, <3>5 DEF PtsOf
    <3>7. PICK u \in Tiles : OnTile(u)
      BY <3>3, <3>6, NonePutOut
    <3>8. PICK sl \in slots \ slots' : p = sl.pts /\ p > out'[1]
      BY <3>3, <3>6, <3>7 DEF OnTile
    <3>9. sl.pts \in PtsOf(Coming(1)') /\ sl.pts > out'[1]
      BY <3>2, <3>8 DEF PtsOf
    <3> QED
      BY <2>w, <3>7, <3>9, OwedBounded
  <2> QED
    BY <2>1, <2>2
<1> QED
  BY <1>1, <1>2

LEMMA LinesInit == Init => Lines
<1>1. Init => DepthBounded
  <2>1. Depth \in Nat /\ Len(<<>>) = 0
    BY RfTilesAssumption
  <2> QED
    BY <2>1 DEF Init, DepthBounded
<1> QED
  BY <1>1, TypeInit, SwappedInit, NumberedInit, OrderInit, BoundsInit DEF Lines

(* Of the halves whose other tile is still on its way to the goggle's second
   decoder, no more than the excess are without a buffer at a time, if the
   pool is ample -- and none, if the margin is above what a decoder holds:
   what the gate of tile 0 lets through is within the window that the pool
   was sized for, and what the decoder holds unseen by the gate (rf_rx,
   comp_pool_init, comp_get).                                               *)
THEOREM FewPairsEverLost == ASSUME Ample PROVE Spec => []FewPairsLost
<1> DEFINE I == Lines /\ Waiting /\ Outs /\ Gated /\ Gone /\ Survive
<1>1. Init => I
  <2> SUFFICES ASSUME Init PROVE I
    OBVIOUS
  <2>1. /\ \A t \in Tiles : held[t] = <<>> /\ queue[t] = <<>> /\ busy[t] = <<>> /\ Hand(t) = {}
        /\ slots = {} /\ evicted = {} /\ onScreen = 0 /\ rx = "recv" /\ 1 \in Tiles
    BY DEF Init, Hand, Tiles
  <2>2. Coming(1) = {}
    <3>1. Working(1) = {}
      BY <2>1, RisingEmpty DEF Working
    <3> QED
      BY <2>1, <3>1, RisingEmpty, ComingIs
  <2>3. Lines
    BY LinesInit
  <2>4. Waiting
    BY <2>1 DEF Init, Waiting
  <2>5. Survive
    <3>1. Owed = {}
      BY <2>1 DEF Owed
    <3>2. Excess \in Int /\ Excess >= 0
      BY Bounds DEF Excess
    <3> QED
      BY <3>1, <3>2, FS_EmptySet DEF Survive, AtMost
  <2>6. Outs /\ Gated /\ Gone
    BY <2>1, <2>2 DEF Outs, Begun, Gated, Gone
  <2> QED
    BY <2>3, <2>4, <2>5, <2>6
<1>2. I /\ [Next]_vars => I'
  <2> SUFFICES ASSUME I, [Next]_vars PROVE I'
    OBVIOUS
  <2>1. Lines'
    BY LinesStep
  <2>2. Waiting'
    BY WaitingStep
  <2>3. Outs' /\ Gone' /\ Survive'
    BY OutsStep, GoneStep, SurviveStep
  <2>4. Gated'
    BY <2>1, GatedStep
  <2> QED
    BY <2>1, <2>2, <2>3, <2>4
<1>3. I => FewPairsLost
  BY DEF Survive, Owed, AtMost, PtsOf, FewPairsLost
<1> QED
  BY <1>1, <1>2, <1>3, PTL DEF Spec
=============================================================================
