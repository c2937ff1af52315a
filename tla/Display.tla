------------------------------ MODULE Display ------------------------------
(***************************************************************************)
(* The goggle's display sink (ml-pipeline/mlp-display.c, composite mode,   *)
(* which is what gst-rf-up.sh starts).  The compositor parks its newest    *)
(* frame in a mailbox; the compositor or the display thread flips to it    *)
(* when no flip is in flight; the flip's event hands an older frame back   *)
(* to the composition pool.  The HUD may ask for the no-signal splash, and *)
(* the main thread takes the display down and up again around playback.    *)
(*                                                                         *)
(* The display controller (DC) is modelled from the comments of the source:*)
(* the address that was written is latched at the frame's edge, and the    *)
(* edge's interrupt, a little later, completes the flip in flight, even one*)
(* that was written after the edge and is not latched yet.                 *)
(*                                                                         *)
(* Abstracted: pixels, PTS, pacing and statistics; the pacing of polls     *)
(* (a pass of the display thread that finds nothing to do is a stutter).   *)
(***************************************************************************)
EXTENDS Naturals

CONSTANTS Frames,      \* the buffers of the composition pool
          None, Idle, Off, \* no frame; the splash; a panel whose buffer was removed
          SplashEdges, ParkEdges, \* frame edges in the two sleeps of the code
          EventSpace   \* completions the driver keeps for the process

ASSUME DisplayAssumption ==
  /\ None \notin Frames /\ Idle \notin Frames /\ Off \notin Frames
  /\ None # Idle /\ None # Off /\ Idle # Off
  /\ SplashEdges \in Nat \ {0} /\ ParkEdges \in Nat \ {0, 1} /\ EventSpace \in Nat

VARIABLES
  free,      \* comp_free
  next,      \* next_it, the mailbox
  pending,   \* pending_it, the frame of the flip in flight
  front,     \* front_it
  prev,      \* prev_it, retired one flip late
  inHand,    \* the display thread's local of the first modeset
  modeset,   \* modeset_done
  showIdle,  \* show_idle
  idleShown, \* idle_shown
  pc,        \* where the display thread is
  comp,      \* where the compositor is
  life,      \* how far the main thread is in taking the display down
  armed,     \* what the DC's address was last set to
  scan,      \* what the DC fetches
  edge,      \* a frame edge whose interrupt has not run yet
  flying,    \* whose flip the driver has yet to complete
  events,    \* for each token, completed flips that are not read yet
  sleep,     \* edges until the sleep in progress ends
  crossed,   \* history: a flip was issued during one of the sleeps, or the
             \* modeset before the sleep failed
  lost       \* history: frames a re-initialisation forgot before it ever lit the panel

slots == <<next, pending, front, prev, inHand>>
flags == <<modeset, showIdle, idleShown>>
dc == <<armed, scan, edge, flying, events>>
vars == <<free, slots, flags, pc, comp, life, dc, sleep, crossed, lost>>

(* drm_flip_handler tells its process's flips from those of one that died. *)
Tokens == {"own", "stale"}

NoEvents == [t \in Tokens |-> 0]

Queued == events["own"] + events["stale"]

TypeOK ==
  /\ free \subseteq Frames
  /\ next \in Frames \cup {None} /\ pending \in Frames \cup {None}
  /\ front \in Frames \cup {None} /\ prev \in Frames \cup {None}
  /\ inHand \in Frames \cup {None}
  /\ modeset \in BOOLEAN /\ showIdle \in BOOLEAN /\ idleShown \in BOOLEAN
  /\ pc \in {"poll", "rearm", "idle", "blank", "shown", "next", "light", "lit", "gone"}
  /\ comp \in {"compose", "submit"}
  /\ life \in {"up", "stopping", "parked", "removed", "down", "closed"}
  /\ armed \in Frames \cup {Idle, Off} /\ scan \in Frames \cup {Idle, Off}
  /\ edge \in BOOLEAN /\ crossed \in BOOLEAN
  /\ flying \in Tokens \cup {"none"}
  /\ events \in [Tokens -> Nat] /\ Queued <= EventSpace
  /\ sleep \in 0..(SplashEdges + ParkEdges)
  /\ lost \subseteq Frames

Init ==
  /\ free = Frames
  /\ next = None /\ pending = None /\ front = None /\ prev = None /\ inHand = None
  /\ modeset = FALSE /\ showIdle = FALSE /\ idleShown = FALSE
  /\ pc = "gone" /\ comp = "compose" /\ life = "closed"
  /\ armed = Idle /\ scan = Idle /\ edge = FALSE
  /\ flying = "none" /\ events = NoEvents
  /\ sleep = 0 /\ crossed = FALSE /\ lost = {}

-----------------------------------------------------------------------------
(* disp_try_submit, under disp_lock: the newest parked frame goes out unless
   a flip is in flight or the panel was never lit.  The driver refuses a
   second flip, and one to a framebuffer that was removed.                 *)
Ready == modeset /\ pending = None /\ next # None

Accepted ==
  /\ flying = "none" /\ Queued < EventSpace
  /\ life \in {"up", "stopping", "parked"}

FlipOut ==
  /\ Ready /\ Accepted
  /\ pending' = next /\ next' = None
  /\ armed' = next /\ flying' = "own"
  /\ showIdle' = FALSE /\ idleShown' = FALSE
  /\ crossed' = (crossed \/ pc = "blank" \/ life = "parked")
  /\ UNCHANGED <<free, front, prev, inHand, modeset, scan, edge, events, lost>>

FlipRefused ==
  /\ Ready /\ ~Accepted
  /\ next' = None /\ free' = free \cup {next}
  /\ showIdle' = FALSE /\ idleShown' = FALSE
  /\ UNCHANGED <<pending, front, prev, inHand, modeset, dc, crossed, lost>>

NoFlip == ~Ready /\ UNCHANGED <<free, slots, flags, dc, crossed, lost>>

TrySubmit == FlipOut \/ FlipRefused \/ NoFlip

-----------------------------------------------------------------------------
(* The compositor.                                                         *)

(* drm_disp_submit, its first critical section: newest wins, and the frame
   it displaces goes back to the pool.                                     *)
Park_DropsDisplaced(f) ==
  /\ comp = "compose" /\ life # "closed"
  /\ f \in free
  /\ next' = f /\ free' = free \ {f}
  /\ comp' = "submit"
  /\ UNCHANGED <<pending, front, prev, inHand, flags, pc, life, dc, sleep, crossed, lost>>

Park(f) ==
  /\ comp = "compose" /\ life # "closed"
  /\ f \in free
  /\ next' = f
  /\ free' = (free \ {f}) \cup ({next} \ {None})
  /\ comp' = "submit"
  /\ UNCHANGED <<pending, front, prev, inHand, flags, pc, life, dc, sleep, crossed, lost>>

(* ... and its second. *)
SubmitParked ==
  /\ comp = "submit"
  /\ TrySubmit
  /\ comp' = "compose"
  /\ UNCHANGED <<pc, life, sleep>>

(* The main thread takes MLM_CMD_SHOW_IDLE. *)
AskIdle ==
  /\ life = "up" /\ ~showIdle
  /\ showIdle' = TRUE
  /\ UNCHANGED <<free, slots, modeset, idleShown, pc, comp, life, dc, sleep, crossed, lost>>

-----------------------------------------------------------------------------
(* The display thread, drm_disp_run.                                       *)

(* drm_flip_handler under the lock: only this process's token counts.      *)
Retire_AtOnce(token) ==
  IF token = "own"
    THEN /\ free' = free \cup ({front} \ {None})
         /\ front' = pending /\ pending' = None
         /\ UNCHANGED prev
    ELSE UNCHANGED <<free, prev, front, pending>>

Retire(token) ==
  IF token = "own"
    THEN /\ free' = free \cup ({prev} \ {None})
         /\ prev' = front /\ front' = pending /\ pending' = None
    ELSE UNCHANGED <<free, prev, front, pending>>

FlipEvent ==
  /\ pc = "poll" /\ life = "up"
  /\ \E t \in Tokens :
       /\ events[t] > 0
       /\ events' = [events EXCEPT ![t] = @ - 1]
       /\ Retire(t)
       /\ pc' = IF t = "own" THEN "rearm" ELSE "poll"
  /\ UNCHANGED <<next, inHand, flags, comp, life, armed, scan, edge, flying,
                 sleep, crossed, lost>>

(* The handler's tail.  drmHandleEvent may have read another event; with a
   flip in flight the pass ends.                                           *)
Rearm ==
  /\ pc = "rearm"
  /\ TrySubmit
  /\ pc' \in IF pending' = None THEN {"poll", "idle"} ELSE {"poll"}
  /\ UNCHANGED <<comp, life, sleep>>

(* The completion of the flip in flight will not come. *)
Overdue == pending # None /\ flying = "none" /\ Queued = 0

(* A pass with no event to read.  A flip that is in flight ends the pass,
   or is force-retired when it is overdue: the handler is called with the
   context for a token.                                                    *)
Pass ==
  /\ pc = "poll" /\ life = "up" /\ Queued = 0
  /\ pending = None \/ Overdue
  /\ Retire(IF Overdue THEN "context" ELSE "none")
  /\ pc' = "idle"
  /\ UNCHANGED <<next, inHand, flags, comp, life, dc, sleep, crossed, lost>>

(* drm_show_idle: the splash is scanned out, and the thread sleeps past the
   latch without the lock.  A modeset that fails is reported, and no more. *)
ShowSplash ==
  /\ pc = "idle"
  /\ IF showIdle /\ ~idleShown
       THEN /\ sleep' = SplashEdges /\ pc' = "blank"
            /\ \/ /\ armed' = Idle
                  /\ crossed' = (crossed \/ (pending # None /\ ~Overdue))
               \/ crossed' = TRUE /\ UNCHANGED armed
       ELSE UNCHANGED <<armed, sleep, crossed>> /\ pc' = "next"
  /\ UNCHANGED <<free, slots, flags, comp, life, scan, edge, flying, events, lost>>

(* Then every frame that was on its way is handed back. *)
SplashOver_EmptyToo ==
  /\ pc = "blank" /\ sleep = 0
  /\ free' = free \cup {prev, front, pending}
  /\ prev' = None /\ front' = None /\ pending' = None
  /\ pc' = "shown"
  /\ UNCHANGED <<next, inHand, flags, comp, life, dc, sleep, crossed, lost>>

SplashOver ==
  /\ pc = "blank" /\ sleep = 0
  /\ free' = free \cup ({prev, front, pending} \ {None})
  /\ prev' = None /\ front' = None /\ pending' = None
  /\ pc' = "shown"
  /\ UNCHANGED <<next, inHand, flags, comp, life, dc, sleep, crossed, lost>>

NoteSplash ==
  /\ pc = "shown"
  /\ idleShown' = TRUE
  /\ pc' = "next"
  /\ UNCHANGED <<free, slots, modeset, showIdle, comp, life, dc, sleep, crossed, lost>>

(* A lit panel: the fallback re-arm. *)
Fallback_Skipped ==
  /\ pc = "next" /\ modeset
  /\ pc' = "poll"
  /\ UNCHANGED <<free, slots, flags, dc, crossed, lost, comp, life, sleep>>

Fallback ==
  /\ pc = "next" /\ modeset
  /\ TrySubmit
  /\ pc' = "poll"
  /\ UNCHANGED <<comp, life, sleep>>

(* The first frame after an initialisation goes through a modeset.         *)
TakeFirst ==
  /\ pc = "next" /\ ~modeset
  /\ inHand' = next /\ next' = None
  /\ pc' = IF next = None THEN "poll" ELSE "light"
  /\ UNCHANGED <<free, pending, front, prev, flags, comp, life, dc, sleep, crossed, lost>>

Light ==
  /\ pc = "light"
  /\ showIdle' = FALSE /\ idleShown' = FALSE
  /\ \/ /\ armed' = inHand /\ modeset' = TRUE
        /\ pc' = "lit"
        /\ UNCHANGED <<free, inHand>>
     \/ /\ free' = free \cup {inHand} /\ inHand' = None \* the modeset failed
        /\ pc' = "poll"
        /\ UNCHANGED <<armed, modeset>>
  /\ UNCHANGED <<next, pending, front, prev, comp, life, scan, edge, flying, events,
                 sleep, crossed, lost>>

(* front_it is set after modeset_done, without the lock. *)
Lit ==
  /\ pc = "lit"
  /\ front' = inHand /\ inHand' = None
  /\ pc' = "poll"
  /\ UNCHANGED <<free, next, pending, prev, flags, comp, life, dc, sleep, crossed, lost>>

ThreadEnds ==
  /\ pc = "poll" /\ life = "stopping"
  /\ pc' = "gone"
  /\ UNCHANGED <<free, slots, flags, comp, life, dc, sleep, crossed, lost>>

DisplayThread ==
  \/ FlipEvent \/ Rearm \/ Pass \/ ShowSplash \/ SplashOver \/ NoteSplash
  \/ Fallback \/ TakeFirst \/ Light \/ Lit \/ ThreadEnds

-----------------------------------------------------------------------------
(* The main thread: drm_disp_shutdown, rf_decode_stop, drm_disp_init.      *)

Stop ==
  /\ life = "up"
  /\ life' = "stopping"
  /\ UNCHANGED <<free, slots, flags, pc, comp, dc, sleep, crossed, lost>>

(* The thread is joined and the CRTC parked on the splash; nothing looks at
   whether the modeset failed.                                             *)
ParkCrtc ==
  /\ life = "stopping" /\ pc = "gone"
  /\ \/ armed' = Idle /\ UNCHANGED crossed
     \/ crossed' = TRUE /\ UNCHANGED armed
  /\ sleep' = ParkEdges
  /\ life' = "parked"
  /\ UNCHANGED <<free, slots, flags, pc, comp, scan, edge, flying, events, lost>>

(* Removing the framebuffer that is scanned out powers the panel off. *)
RemoveFbs ==
  /\ life = "parked" /\ sleep = 0
  /\ armed' = IF armed \in Frames THEN Off ELSE armed
  /\ life' = "removed"
  /\ UNCHANGED <<free, slots, flags, pc, comp, scan, edge, flying, events, sleep,
                 crossed, lost>>

ReleaseAll ==
  /\ life = "removed"
  /\ free' = free \cup ({prev, front, pending, next} \ {None})
  /\ prev' = None /\ front' = None /\ pending' = None /\ next' = None
  /\ life' = "down"
  /\ UNCHANGED <<inHand, flags, pc, comp, dc, sleep, crossed, lost>>

(* The decoders stop only now. *)
StopDecoders ==
  /\ life = "down" /\ comp = "compose"
  /\ life' = "closed"
  /\ UNCHANGED <<free, slots, flags, pc, comp, dc, sleep, crossed, lost>>

(* drm_disp_init: the slots are cleared, not released; events that are
   queued are drained; then the decoders start.                            *)
Open ==
  /\ life = "closed"
  /\ next' = None /\ pending' = None /\ front' = None /\ prev' = None
  /\ lost' = IF modeset THEN lost ELSE lost \cup ({next} \ {None})
  /\ modeset' = FALSE /\ showIdle' = FALSE /\ idleShown' = FALSE
  /\ events' = NoEvents
  /\ pc' = "poll" /\ life' = "up"
  /\ UNCHANGED <<free, inHand, comp, armed, scan, edge, flying, sleep, crossed>>

(* The process is killed and started again: a new pool and a new token, and
   what the DC fetched is taken off it by comp_pool_reclaim before the first
   Open; the driver's flip and its events stay on the drm_file.            *)
Restart ==
  /\ life # "closed"
  /\ free' = Frames /\ lost' = {}
  /\ next' = None /\ pending' = None /\ front' = None /\ prev' = None /\ inHand' = None
  /\ modeset' = FALSE /\ showIdle' = FALSE /\ idleShown' = FALSE
  /\ pc' = "gone" /\ comp' = "compose" /\ life' = "closed"
  /\ armed' = Idle /\ scan' = Idle
  /\ flying' = IF flying = "none" THEN "none" ELSE "stale"
  /\ events' = [NoEvents EXCEPT !["stale"] = Queued]
  /\ sleep' = 0 /\ crossed' = FALSE
  /\ UNCHANGED edge

MainThread == ParkCrtc \/ RemoveFbs \/ ReleaseAll \/ StopDecoders \/ Open

-----------------------------------------------------------------------------
(* The display controller and its driver.                                  *)

Edge ==
  /\ ~edge
  /\ scan' = armed /\ edge' = TRUE
  /\ sleep' = IF sleep = 0 THEN 0 ELSE sleep - 1
  /\ UNCHANGED <<free, slots, flags, pc, comp, life, armed, flying, events, crossed, lost>>

Interrupt ==
  /\ edge
  /\ edge' = FALSE
  /\ flying' = "none"
  /\ events' = IF flying = "none" THEN events ELSE [events EXCEPT ![flying] = @ + 1]
  /\ UNCHANGED <<free, slots, flags, pc, comp, life, armed, scan, sleep, crossed, lost>>

(* The completion is lost with the edge's interrupt. *)
LoseEvent ==
  /\ edge /\ flying # "none"
  /\ edge' = FALSE
  /\ flying' = "none"
  /\ UNCHANGED <<free, slots, flags, pc, comp, life, armed, scan, events, sleep, crossed, lost>>

Next ==
  \/ \E f \in Frames : Park(f)
  \/ SubmitParked \/ AskIdle
  \/ DisplayThread
  \/ Stop \/ MainThread \/ Restart
  \/ Edge \/ Interrupt \/ LoseEvent

(* The threads are scheduled and the panel is refreshed; nothing makes the
   compositor, the HUD or the user act, or an interrupt be lost.           *)
Fairness ==
  /\ WF_vars(SubmitParked) /\ WF_vars(DisplayThread) /\ WF_vars(MainThread)
  /\ SF_vars(StopDecoders) /\ WF_vars(Edge) /\ WF_vars(Interrupt)

Spec == Init /\ [][Next]_vars
FairSpec == Spec /\ Fairness

-----------------------------------------------------------------------------
(* Properties.                                                             *)

Held == {next, pending, front, prev, inHand} \ {None}

(* No buffer is lost and none is handed out twice: each is in the pool or in
   exactly one slot of the display, whoever flips, is refused, or shuts the
   display down at the same time.                                          *)
PoolWhole ==
  /\ free \cup Held \cup lost = Frames
  /\ free \cap Held = {} /\ (free \cup Held) \cap lost = {}
  /\ \A i, j \in 1..5 : i # j /\ slots[i] # None => slots[i] # slots[j]

(* Neither the buffer the DC fetches nor the one it latches next is in the
   pool, where the compositor may write it, and neither has lost its
   framebuffer -- unless a flip was issued during the splash's or the
   shutdown's sleep, or the modeset to the splash before it failed
   (drm_flip_handler, drm_show_idle, drm_disp_shutdown).                   *)
ScanoutHeld == ~crossed => armed # Off /\ {armed, scan} \cap free = {}

(* The same without the exception, as mlp-display.c:320-322 and 719-721 have it. *)
NeverFreesScanout == armed # Off /\ {armed, scan} \cap free = {}

(* The mailbox is emptied over and over, by a flip, a modeset or a release,
   however the newest-wins hand-off, the flips in flight and the splash
   interleave, until a completion is lost (disp_try_submit).               *)
MailboxDrains == []<>(next = None \/ Overdue)

(* What mlp-display.c:376-380 says of a lost completion. *)
FlipEnds == \A f \in Frames : pending = f ~> pending # f
=============================================================================
