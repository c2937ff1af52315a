------------------------------ MODULE RfTiles ------------------------------
(***************************************************************************)
(* The goggle's RF receiver and tile pairing (ml-pipeline/mlp-rf.c, with   *)
(* the pool of mlp-compose.c), in composite mode.  The air sends each      *)
(* frame as two access units (AUs), one per tile.  The receive thread      *)
(* turns the frame number of a session into a PTS, staggers and gates what *)
(* it feeds the two decoders, and the decoders' threads pair the tiles by  *)
(* PTS in buffers of the composition pool.                                 *)
(*                                                                         *)
(* Abstracted: bytes (the input queue's bound counts AUs), seams and blits,*)
(* and the encoder, which is off and holds no buffer.  Behind its appsrc a *)
(* decoder is a parser, the hardware and its buffers: it holds some AUs,   *)
(* puts them out in order, and may put out nothing for one.  A slot whose  *)
(* two halves are in is handed over at once, so a slot that is parked has  *)
(* one half; and every slot has a pool buffer, of which there are fewer    *)
(* than slots (COMP_POOL, NSLOT), so the slot table itself never fills.    *)
(***************************************************************************)
EXTENDS Integers, Sequences, FiniteSets, Functions

CONSTANTS
  Pool,        \* comp_n
  Holds,       \* buffers the display keeps (4)
  Margin,      \* the safety margin of comp_pool_init (2)
  MinWindow,   \* its least pairing window (4)
  Slack,       \* how far a FrameId may fall within a session (8)
  Depth,       \* AUs a decoder holds between its input queue and on_tile
  T1Hold, T0Hold, QueueMax, DrainMax, \* t1_hold, t0_hold, AU_QUEUE_MAX, AUs per drain
  Irap,        \* the frame numbers at which the air sends a key frame
  Lead,        \* frames one tile of the air may be ahead of the other
  LastFid,     \* bound: the last frame number of each session
  LastLoss,    \* bound: AUs that the radio or a decoder loses
  LastSwap     \* bound: how often playback takes the decoders down

ASSUME RfTilesAssumption ==
  /\ Pool \in Nat /\ Holds \in Nat \ {0} /\ Pool > Holds
  /\ Margin \in Nat /\ MinWindow \in Nat /\ Depth \in Nat \ {0} /\ Slack \in Nat
  /\ T1Hold \in Nat /\ T0Hold \in Nat /\ QueueMax \in Nat /\ DrainMax \in Nat
  /\ Irap \subseteq Nat /\ Lead \in 0..Slack
  /\ LastFid \in Seq(Nat) /\ LastFid # <<>>
  /\ LastLoss \in Nat /\ LastSwap \in Nat

Tiles == {0, 1}

VARIABLES
  session,  \* the air's session
  sent,     \* for each tile, the frame number the air sends next
  heard,    \* history: the session of the last datagram that came in
  lastFid,  \* last_fid
  epoch,    \* pts_epoch, in frames
  started,  \* started[]
  released, \* t1_released
  up,       \* samples[0] > 0
  rx,       \* where the receive thread is
  cur,      \* the AU it has in hand
  drained,  \* AUs fed by the drain in progress
  held,     \* t0_hold and t1_hold
  queue,    \* the input queue of each decoder
  sync,     \* drop_sync[]
  busy,     \* the AUs each decoder works on, from the oldest
  out,      \* out_pts[]
  slots,    \* the halves that wait for their partner
  onScreen, \* how many buffers the display may have had so far
  life,     \* how far the main thread is in a playback swap
  losses, swaps, \* bounds
  shown,    \* history: the two halves of the last composite
  evicted,  \* history: the PTSs that left their slot ahead of decoder 1
  top,      \* history: the highest frame number taken of that session
  waived    \* history: what excuses a frame that is mixed or dropped

air == <<session, sent>>
input == <<heard, lastFid, epoch, started>>
thread == <<released, rx, cur, drained>>
decoders == <<queue, sync, busy>>
pairing == <<out, slots, onScreen, up>>
bounds == <<losses, swaps>>
history == <<shown, evicted, top, waived>>
vars == <<air, input, thread, held, decoders, pairing, life, bounds, history>>

None == [tile |-> 0, pts |-> -1, session |-> 0, fid |-> -1]
NoFrame == <<None, None>>

(* comp_pool_init derives the two bounds of the input gate from the pool. *)
Window == IF Pool - Holds - Margin < MinWindow THEN MinWindow ELSE Pool - Holds - Margin
SkewMax == Window \div 2
InflightMax == Window - SkewMax

Init ==
  /\ session = 1 /\ sent = [t \in Tiles |-> 0]
  /\ heard = 1 /\ lastFid = -1 /\ epoch = 0 /\ started = [t \in Tiles |-> FALSE]
  /\ released = FALSE /\ up = FALSE
  /\ rx = "recv" /\ cur = None /\ drained = 0
  /\ held = [t \in Tiles |-> <<>>]
  /\ queue = [t \in Tiles |-> <<>>] /\ sync = [t \in Tiles |-> FALSE]
  /\ busy = [t \in Tiles |-> <<>>]
  /\ out = [t \in Tiles |-> 0] /\ slots = {} /\ onScreen = 0
  /\ life = "up" /\ losses = 0 /\ swaps = 0
  /\ shown = NoFrame /\ evicted = {} /\ top = -1 /\ waived = {}

-----------------------------------------------------------------------------
(* The air and the radio.  The two tiles of a frame leave it close together.
   What the air does while the receive thread has an AU in hand waits in the
   socket, so it may as well happen afterwards.                            *)

Sends(t) ==
  /\ rx = "recv"
  /\ sent[t] <= LastFid[session]
  /\ sent[t] <= sent[1 - t] + Lead
  /\ sent' = [sent EXCEPT ![t] = @ + 1]
  /\ UNCHANGED session

Lost == losses < LastLoss /\ losses' = losses + 1 /\ UNCHANGED swaps

(* During a playback nobody listens. *)
Lose(t) ==
  /\ Sends(t)
  /\ IF life = "up" THEN Lost ELSE UNCHANGED bounds
  /\ UNCHANGED <<input, thread, held, decoders, pairing, life, history>>

(* A new session starts at frame 0. *)
AirRestart ==
  /\ rx = "recv" /\ session < Len(LastFid)
  /\ session' = session + 1
  /\ sent' = [t \in Tiles |-> 0]
  /\ UNCHANGED <<input, thread, held, decoders, pairing, life, bounds, history>>

-----------------------------------------------------------------------------
(* The receive thread, rf_rx.                                              *)

(* The FrameId fell: a new session, whose PTSs go on after the last one's. *)
Wrapped(fid) == lastFid >= 0 /\ fid < lastFid - Slack

Epoch_LastFid(fid) == IF Wrapped(fid) THEN epoch + lastFid ELSE epoch
Epoch(fid) == IF Wrapped(fid) THEN epoch + lastFid + 1 ELSE epoch

Started(t, fid) == started[t] /\ ~Wrapped(fid)

Highest(a, b) == IF a > b THEN a ELSE b

(* Tile 0 is not gated before tile 1 is released, which takes a datagram of
   tile 1: more of them than the stagger lasts were lost.                  *)
Ungated(fid) ==
  ~released /\ held[1] # <<>> /\ Epoch(fid) + fid > Head(held[1]).pts + T1Hold + Lead

(* A session begins at a FrameId that rf_rx does not see fall, or after one
   of which the last AU was not of the highest frame.                      *)
Unseen(fid) ==
  session # heard /\ lastFid >= 0 /\ (~Wrapped(fid) \/ lastFid < top)

Excuse(e, t, fid) ==
  \/ e = "pts" /\ Unseen(fid)
  \/ e = "gate" /\ t = 1 /\ Epoch(fid) + fid < out[1]
  \/ e = "gate" /\ t = 0 /\ Ungated(fid)
  \/ e = "gate" /\ t = 0 /\ released /\ Len(held[0]) = T0Hold

Hear(t, fid) ==
  /\ heard' = session
  /\ epoch' = Epoch(fid)
  /\ waived' = waived \cup {e \in {"pts", "gate"} : Excuse(e, t, fid)}

(* An AU before its tile's first key frame is dropped. *)
Unusable(t) ==
  /\ life = "up"
  /\ Sends(t)
  /\ ~Started(t, sent[t]) /\ sent[t] \notin Irap
  /\ Hear(t, sent[t])
  /\ IF Wrapped(sent[t])
       THEN started' = [u \in Tiles |-> FALSE] /\ lastFid' = -1
       ELSE UNCHANGED <<started, lastFid>>
  /\ top' = IF session = heard THEN top ELSE -1
  /\ UNCHANGED <<thread, held, decoders, pairing, life, bounds, shown, evicted>>

Note(au) ==
  /\ Hear(au.tile, au.fid)
  /\ started' = [t \in Tiles |-> t = au.tile \/ Started(t, au.fid)]
  /\ lastFid' = au.fid
  /\ top' = IF session = heard THEN Highest(top, au.fid) ELSE au.fid

(* push_au: over the bound, AUs are dropped until the next key frame.  The
   push itself fails only while the pipeline goes down, and the receive
   thread is joined before that.                                           *)
PushAu(t, au) ==
  /\ IF sync[t]
       THEN sync' = [sync EXCEPT ![t] = au.fid \notin Irap]
       ELSE sync' = [sync EXCEPT ![t] = Len(queue[t]) >= QueueMax]
  /\ queue' = IF sync'[t] THEN queue ELSE [queue EXCEPT ![t] = Append(@, au)]
  /\ UNCHANGED busy

Hold(au) ==
  /\ held' = [held EXCEPT ![au.tile] = Append(@, au)]
  /\ UNCHANGED <<thread, decoders>>

FlushFor(au) ==
  /\ rx' = "flush" /\ cur' = au
  /\ UNCHANGED <<released, drained, held, decoders>>

(* Tile 1 waits for the other decoder to be up, but only a few AUs long.    *)
Stagger_OneMore(au) ==
  /\ au.tile = 1 /\ ~released
  /\ IF up \/ Len(held[1]) > T1Hold THEN FlushFor(au) ELSE Hold(au)

Stagger(au) ==
  /\ au.tile = 1 /\ ~released
  /\ IF up \/ Len(held[1]) >= T1Hold THEN FlushFor(au) ELSE Hold(au)

(* The gate of tile 0: the skew of what came out, and the backlog.          *)
GateShut_SkewOnly == out[0] > out[1] + SkewMax

GateShut ==
  \/ out[0] > out[1] + SkewMax
  \/ Len(queue[0]) > InflightMax

Gate_Overtakes(au) ==
  /\ au.tile = 0 /\ released
  /\ IF ~GateShut
       THEN rx' = "push" /\ cur' = au /\ UNCHANGED <<released, drained, held, decoders>>
       ELSE IF Len(held[0]) < T0Hold THEN Hold(au) ELSE FlushFor(au)

Gate(au) ==
  /\ au.tile = 0 /\ released
  /\ IF held[0] = <<>> /\ ~GateShut
       THEN rx' = "push" /\ cur' = au /\ UNCHANGED <<released, drained, held, decoders>>
       ELSE IF Len(held[0]) < T0Hold THEN Hold(au) ELSE FlushFor(au)

AfterPush == IF held[0] = <<>> THEN "recv" ELSE "drain"

Straight(au) ==
  /\ released = (au.tile = 1)
  /\ PushAu(au.tile, au)
  /\ rx' = AfterPush
  /\ UNCHANGED <<released, cur, drained, held>>

Receive(t) ==
  /\ life = "up"
  /\ Sends(t)
  /\ Started(t, sent[t]) \/ sent[t] \in Irap
  /\ \E au \in {[tile |-> t, pts |-> Epoch(sent[t]) + sent[t], session |-> session,
                 fid |-> sent[t]]} :
       /\ Note(au)
       /\ Straight(au) \/ Stagger(au) \/ Gate(au)
  /\ UNCHANGED <<pairing, life, bounds, shown, evicted>>

(* What is held goes first, and then the AU in hand. *)
Flush ==
  /\ rx = "flush"
  /\ LET t == cur.tile IN
       IF held[t] # <<>>
         THEN /\ PushAu(t, Head(held[t]))
              /\ held' = [held EXCEPT ![t] = Tail(@)]
              /\ UNCHANGED thread
         ELSE /\ rx' = "push" /\ released' = TRUE
              /\ UNCHANGED <<held, decoders, cur, drained>>
  /\ UNCHANGED <<air, input, pairing, life, bounds, history>>

(* An AU of tile 1 that ended the stagger is not followed by a drain, but
   nothing is held then.                                                   *)
Push ==
  /\ rx = "push"
  /\ PushAu(cur.tile, cur)
  /\ rx' = AfterPush /\ cur' = None
  /\ UNCHANGED <<air, input, released, drained, held, pairing, life, bounds, history>>

Drain_OneMore ==
  /\ rx = "drain"
  /\ IF held[0] # <<>> /\ drained <= DrainMax /\ ~GateShut
       THEN /\ PushAu(0, Head(held[0]))
            /\ held' = [held EXCEPT ![0] = Tail(@)]
            /\ drained' = drained + 1
            /\ UNCHANGED rx
       ELSE /\ rx' = "recv" /\ drained' = 0
            /\ UNCHANGED <<held, decoders>>
  /\ UNCHANGED <<air, input, released, cur, pairing, life, bounds, history>>

Drain ==
  /\ rx = "drain"
  /\ IF held[0] # <<>> /\ drained < DrainMax /\ ~GateShut
       THEN /\ PushAu(0, Head(held[0]))
            /\ held' = [held EXCEPT ![0] = Tail(@)]
            /\ drained' = drained + 1
            /\ UNCHANGED rx
       ELSE /\ rx' = "recv" /\ drained' = 0
            /\ UNCHANGED <<held, decoders>>
  /\ UNCHANGED <<air, input, released, cur, pairing, life, bounds, history>>

-----------------------------------------------------------------------------
(* The decoders, and on_tile on each one's thread under comp_lock.         *)

Take(t) ==
  /\ life # "down" /\ Len(busy[t]) < Depth /\ queue[t] # <<>>
  /\ busy' = [busy EXCEPT ![t] = Append(@, Head(queue[t]))]
  /\ queue' = [queue EXCEPT ![t] = Tail(@)]
  /\ UNCHANGED <<air, input, thread, held, sync, pairing, life, bounds, history>>

(* No picture for the AU, or one that cannot be mapped. *)
NoPicture(t) ==
  /\ busy[t] # <<>> /\ Lost
  /\ busy' = [busy EXCEPT ![t] = Tail(@)]
  /\ UNCHANGED <<air, input, thread, held, queue, sync, pairing, life, history>>

Slot(au) == {sl \in slots : sl.pts = au.pts}

(* The tile completes its frame, which goes to the display. *)
Pair(au) ==
  \E sl \in Slot(au) :
    /\ sl.tile # au.tile
    /\ shown' = IF au.tile = 0 THEN <<au, sl>> ELSE <<sl, au>>
    /\ slots' = slots \ {sl}
    /\ onScreen' = IF onScreen = Holds THEN onScreen ELSE onScreen + 1

Again(au) ==
  \E sl \in Slot(au) :
    /\ sl.tile = au.tile
    /\ slots' = (slots \ {sl}) \cup {au}
    /\ UNCHANGED <<onScreen, shown>>

(* comp_get: of its buffers the display may have given any number back.     *)
MayHaveFree == Cardinality(slots) < Pool
MayBeDry == Cardinality(slots) + onScreen >= Pool

Park(au) ==
  /\ Slot(au) = {}
  /\ MayHaveFree
  /\ slots' = slots \cup {au}
  /\ UNCHANGED <<onScreen, shown>>

Oldest(sl) == sl \in slots /\ \A s \in slots : sl.pts <= s.pts

(* The pool is dry: the oldest half gives up its buffer. *)
Evict(au) ==
  /\ Slot(au) = {} /\ MayBeDry
  /\ \E sl \in slots :
       /\ Oldest(sl)
       /\ slots' = (slots \ {sl}) \cup {au}
  /\ UNCHANGED <<onScreen, shown>>

OnTile(t) ==
  /\ busy[t] # <<>>
  /\ busy' = [busy EXCEPT ![t] = Tail(@)]
  /\ up' = (up \/ t = 0)
  /\ out' = [out EXCEPT ![t] = Head(busy[t]).pts]
  /\ \E au \in {Head(busy[t])} : Pair(au) \/ Again(au) \/ Park(au) \/ Evict(au)
  /\ evicted' = {p \in evicted \cup {sl.pts : sl \in slots \ slots'} : p > out'[1]}
  /\ UNCHANGED <<air, input, thread, held, queue, sync, life, bounds, top, waived>>

-----------------------------------------------------------------------------
(* The main thread: rf_decode_stop and rf_decode_start around a playback.  *)

(* The display is down, and its buffers are back, before the receive thread
   is joined.                                                              *)
StopRx ==
  /\ life = "up" /\ rx = "recv" /\ swaps < LastSwap
  /\ life' = "stopping"
  /\ UNCHANGED <<air, input, thread, held, decoders, pairing, bounds, history>>

StopDecoders ==
  /\ life = "stopping"
  /\ queue' = [t \in Tiles |-> <<>>] /\ busy' = [t \in Tiles |-> <<>>]
  /\ slots' = {} /\ onScreen' = 0
  /\ held' = [t \in Tiles |-> <<>>]
  /\ life' = "down"
  /\ UNCHANGED <<air, input, thread, sync, out, up, bounds, history>>

(* pts_epoch and out_pts are not reset. *)
StartDecoders ==
  /\ life = "down"
  /\ lastFid' = -1 /\ started' = [t \in Tiles |-> FALSE] /\ up' = FALSE
  /\ sync' = [t \in Tiles |-> FALSE] /\ released' = FALSE
  /\ life' = "up" /\ swaps' = swaps + 1 /\ UNCHANGED losses
  /\ shown' = NoFrame /\ evicted' = {} /\ top' = -1 /\ waived' = {}
  /\ UNCHANGED <<air, heard, epoch, rx, cur, drained, held, queue, busy, out, slots, onScreen>>

-----------------------------------------------------------------------------
Next ==
  \/ \E t \in Tiles : Lose(t) \/ Unusable(t) \/ Receive(t)
  \/ AirRestart
  \/ Flush \/ Push \/ Drain
  \/ \E t \in Tiles : Take(t) \/ NoPicture(t) \/ OnTile(t)
  \/ StopRx \/ StopDecoders \/ StartDecoders

Spec == Init /\ [][Next]_vars

-----------------------------------------------------------------------------
(* Properties.                                                             *)

Aus == [tile : Tiles, pts : Nat, session : 1..Len(LastFid), fid : Nat]

TypeOK ==
  /\ session \in 1..Len(LastFid) /\ heard \in 1..session
  /\ sent \in [Tiles -> Nat]
  /\ lastFid \in Nat \cup {-1} /\ epoch \in Nat
  /\ started \in [Tiles -> BOOLEAN] /\ released \in BOOLEAN /\ up \in BOOLEAN
  /\ rx \in {"recv", "flush", "push", "drain"}
  /\ cur \in Aus \cup {None} /\ (cur = None <=> rx \in {"recv", "drain"})
  /\ drained \in 0..DrainMax
  /\ held \in [Tiles -> Seq(Aus)] /\ queue \in [Tiles -> Seq(Aus)]
  /\ sync \in [Tiles -> BOOLEAN] /\ busy \in [Tiles -> Seq(Aus)]
  /\ out \in [Tiles -> Nat]
  /\ slots \subseteq Aus /\ onScreen \in 0..Holds
  /\ life \in {"up", "stopping", "down"} /\ losses \in 0..LastLoss /\ swaps \in 0..LastSwap
  /\ waived \subseteq {"pts", "gate"}
  /\ top \in Nat \cup {-1}
  /\ shown \in (Aus \cup {None}) \X (Aus \cup {None}) /\ evicted \subseteq Nat

(* The holds keep to their bounds, beyond its own a queue has key frames
   only, a PTS has one slot, and the pool is never overdrawn (slot_get,
   push_au).                                                               *)
Bounded ==
  /\ Len(held[1]) <= T1Hold /\ Len(held[0]) <= T0Hold
  /\ \A t \in Tiles : \A i \in DOMAIN queue[t] : i > QueueMax => queue[t][i].fid \in Irap
  /\ \A a, b \in slots : a.pts = b.pts => a = b
  /\ Cardinality(slots) <= Pool

(* A frame on the panel has two halves of one frame of one session, whatever
   was lost, held back, evicted or restarted in between -- unless rf_rx did
   not see, or misjudged, where a session begins (on_tile, rf_rx).         *)
SameFrame ==
  "pts" \notin waived =>
    shown[1].session = shown[2].session /\ shown[1].fid = shown[2].fid

(* Frames reach the panel in the air's order, each once.                   *)
Later(f, g) == f.session > g.session \/ (f.session = g.session /\ f.fid > g.fid)

ShownInOrder ==
  [][shown' # shown /\ shown' # NoFrame /\ "pts" \notin waived'
       => Later(shown'[1], shown[1])]_vars

(* The AUs of a tile that are still to come out of its decoder. *)
Coming(t) ==
  Range(held[t]) \cup Range(queue[t]) \cup Range(busy[t])
    \cup (IF cur.tile = t THEN {cur} \ {None} ELSE {})

(* The gate counts what came out of decoder 0 and what waits before it.  The
   margin has to make up for what the decoder holds and the AU let through. *)
Excess == IF Depth + 1 > Margin THEN Depth + 1 - Margin ELSE 0

(* No half of tile 0 loses its buffer while the other half is still on its
   way, as long as the margin covers what a decoder holds; beyond that no
   more of them are lost at a time than the excess -- unless the hold of
   tile 0 overflowed, too much of tile 1 was lost before it was released, or
   out_pts was past what is still to come of tile 1 (rf_rx, comp_pool_init,
   on_tile).                                                                *)
FewPairsLost ==
  waived = {} => Cardinality({au.pts : au \in Coming(1)} \cap evicted) <= Excess

=============================================================================
