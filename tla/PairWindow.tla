----------------------------- MODULE PairWindow -----------------------------
(***************************************************************************)
(* What the air unit's bind button promises, whatever the radio does: the  *)
(* peer recorded on disk changes only when a pair window that collected    *)
(* enough candidate sightings closes, and then it becomes a peer sighted   *)
(* in that window.                                                         *)
(***************************************************************************)
EXTENDS Naturals

CONSTANTS Macs,      \* addresses of the ground units that may answer
          NoMac,     \* no address
          HitsNeeded \* sightings a window needs before it may bind

VARIABLES open,      \* a pair window is open
          sighted,   \* peers sighted in this window
          sightings, \* how many times one was sighted in this window
          bound      \* the peer recorded on disk

wvars == <<open, sighted, sightings, bound>>

WInit ==
  /\ open = FALSE
  /\ sighted = {}
  /\ sightings = 0
  /\ bound \in Macs \cup {NoMac}

OpenWindow ==
  /\ ~open
  /\ open' = TRUE
  /\ UNCHANGED <<sighted, sightings, bound>>

Sight(m) ==
  /\ open
  /\ sighted' = sighted \cup {m}
  /\ sightings' = sightings + 1
  /\ UNCHANGED <<open, bound>>

(* The window closes and its sightings are forgotten; it may bind, to a    *)
(* peer it sighted, only when it has enough sightings.                     *)
CloseWindow ==
  /\ open
  /\ open' = FALSE
  /\ \/ bound' = bound
     \/ sightings >= HitsNeeded /\ bound' \in sighted
  /\ sighted' = {}
  /\ sightings' = 0

WNext ==
  \/ OpenWindow
  \/ \E m \in Macs : Sight(m)
  \/ CloseWindow

WSpec == WInit /\ [][WNext]_wvars
=============================================================================
