------------------------------- MODULE RxBind -------------------------------
(***************************************************************************)
(* The goggle's bind sequence (ml-linkd/ml-rx-bind.c): pair mode on, the   *)
(* chip polled until it has shown a candidate often enough or the window   *)
(* is over, pair mode off, the candidate locked, and saved if that was     *)
(* asked for.  The reader fills the last reply while the main thread reads *)
(* it, so a hit and the MAC taken for it are read in two steps.            *)
(*                                                                         *)
(* Abstracted: the events for the HUD, the bytes of a MAC.                 *)
(***************************************************************************)
EXTENDS RxOwner

CONSTANTS Macs,      \* the air units that may be in pair mode
          HitsNeeded \* BIND_HITS

NoMac == "zero"  \* the MAC of a reply without a candidate
NoReplyYet == "" \* no reply since the last poll

ASSUME BindAssumption ==
  /\ NoMac \notin Macs /\ NoReplyYet \notin Macs
  /\ HitsNeeded \in Nat \ {0}

VARIABLES
  wantBind, \* g_pending_bind with g_bind_persist: "none", "dry", "save"
  save,     \* rx_bind_service: persist
  hits,     \* bind_run: hits
  mac,      \* bind_run: mac
  pair,     \* g_pair_hit and g_pair_mac, if g_pair_seq moved since the poll
  pairing,  \* the chip: "off", in pair mode, "stuck" in it as a frame was lost
  peer,     \* the chip: the MAC locked
  saved,    \* the config: the MAC written last
  pairLate  \* history: a reply of this window was still out at the next poll

bvars == <<wantBind, save, hits, mac, pair, pairing, peer, saved, pairLate>>

Peers == Macs \cup {NoMac}

BindTypeOK ==
  /\ wantBind \in {"none", "dry", "save"} /\ save \in BOOLEAN
  /\ hits \in 0..HitsNeeded
  /\ mac \in Peers /\ pair \in Peers \cup {NoReplyYet}
  /\ pairing \in {"off", "on", "stuck"}
  /\ peer \in Peers /\ saved \in Peers
  /\ pairLate \in BOOLEAN

BindInit ==
  /\ wantBind = "none" /\ save = FALSE
  /\ hits = 0 /\ mac = NoMac /\ pair = NoReplyYet
  /\ pairing = "off" /\ peer = NoMac /\ saved = NoMac
  /\ pairLate = FALSE

BindStages == {"arg", "pairon", "poll", "wait", "copy", "pairoff", "lock", "save"}

PairReply(who) == [kind |-> "pair", of |-> who]
PairsUnread == \E i \in DOMAIN replies : replies[i].kind = "pair"

-----------------------------------------------------------------------------
(* The UDP thread: refused while an air unit is alive or a bind is queued.  *)
RequestBind(how) ==
  /\ air = "gone"
  /\ wantBind = "none"
  /\ wantBind' = how
  /\ UNCHANGED <<pc, replies, air, save, hits, mac, pair, pairing, peer, saved, pairLate>>

(* The reader: rx_bind_on_pair.  Nobody reads a reply outside a poll.       *)
ReadPair ==
  /\ Read("pair")
  /\ pair' = IF pc \in {"wait", "copy"} THEN Head(replies).of ELSE NoReplyYet
  /\ UNCHANGED <<wantBind, save, hits, mac, pairing, peer, saved, pairLate>>

-----------------------------------------------------------------------------
(* rx_bind_service takes the request, and then reads how it was asked: what
   the next request asks, if one was queued in between.                     *)
NoBind ==
  /\ Stage("bind", "cadence")
  /\ wantBind = "none"
  /\ UNCHANGED <<replies, air, bvars>>

TakeBind ==
  /\ Stage("bind", "arg")
  /\ wantBind # "none"
  /\ save' = (wantBind = "save")
  /\ wantBind' = "none"
  /\ UNCHANGED <<replies, air, hits, mac, pair, pairing, peer, saved, pairLate>>

BindArg ==
  /\ Stage("arg", "pairon")
  /\ save' = IF wantBind = "none" THEN save ELSE wantBind = "save"
  /\ UNCHANGED <<replies, air, wantBind, hits, mac, pair, pairing, peer, saved, pairLate>>

(* bind_run.  An air unit that came up since the request still refuses it.  *)
BindRefused ==
  /\ Stage("pairon", "cadence")
  /\ air # "gone"
  /\ save' = FALSE
  /\ UNCHANGED <<replies, air, wantBind, hits, mac, pair, pairing, peer, saved, pairLate>>

PairOn ==
  /\ Stage("pairon", "poll")
  /\ air = "gone"
  /\ pairing' \in {pairing, "on"}
  /\ UNCHANGED <<replies, air, wantBind, save, hits, mac, pair, peer, saved, pairLate>>

PairPoll ==
  /\ Stage("poll", "wait")
  /\ hits < HitsNeeded
  /\ pair' = NoReplyYet
  /\ \E who \in IF pairing = "off" THEN {NoMac} ELSE Peers : Ask(PairReply(who))
  /\ pairLate' = (pairLate \/ PairsUnread)
  /\ UNCHANGED <<air, wantBind, save, hits, mac, pairing, peer, saved>>

(* A poll without an answer, or without a candidate in it, counts nothing.  *)
PairMiss ==
  /\ Stage("wait", "poll")
  /\ pair \in {NoReplyYet, NoMac}
  /\ pair' = NoReplyYet
  /\ UNCHANGED <<replies, air, wantBind, save, hits, mac, pairing, peer, saved, pairLate>>

PairHit ==
  /\ Stage("wait", "copy")
  /\ pair \in Macs
  /\ hits' = hits + 1
  /\ UNCHANGED <<replies, air, wantBind, save, mac, pair, pairing, peer, saved, pairLate>>

PairCopy ==
  /\ Stage("copy", "poll")
  /\ mac' = pair
  /\ pair' = NoReplyYet
  /\ UNCHANGED <<replies, air, wantBind, save, hits, pairing, peer, saved, pairLate>>

WindowOver_StaysOn ==
  /\ Stage("poll", "cadence")
  /\ hits < HitsNeeded
  /\ hits' = 0 /\ mac' = NoMac /\ save' = FALSE
  /\ UNCHANGED <<replies, air, wantBind, pair, pairing, peer, saved, pairLate>>

WindowOver ==
  /\ Stage("poll", "pairoff")
  /\ hits < HitsNeeded
  /\ UNCHANGED <<replies, air, bvars>>

EnoughHits ==
  /\ Stage("poll", "pairoff")
  /\ hits = HitsNeeded
  /\ UNCHANGED <<replies, air, bvars>>

(* Pair mode is left on every way out, before the lock.                     *)
LeavePairMode ==
  pairing' \in {"off", IF pairing = "off" THEN "off" ELSE "stuck"}

BindOver ==
  hits' = 0 /\ mac' = NoMac /\ save' = FALSE /\ pairLate' = FALSE

PairOffFails ==
  /\ Stage("pairoff", "cadence")
  /\ hits < HitsNeeded
  /\ LeavePairMode
  /\ BindOver
  /\ UNCHANGED <<replies, air, wantBind, pair, peer, saved>>

PairOff_Always ==
  /\ Stage("pairoff", "lock")
  /\ LeavePairMode
  /\ UNCHANGED <<replies, air, wantBind, save, hits, mac, pair, peer, saved, pairLate>>

PairOff ==
  /\ Stage("pairoff", "lock")
  /\ hits = HitsNeeded
  /\ LeavePairMode
  /\ UNCHANGED <<replies, air, wantBind, save, hits, mac, pair, peer, saved, pairLate>>

PairLock ==
  /\ Stage("lock", "save")
  /\ peer' \in {peer, mac}
  /\ UNCHANGED <<replies, air, wantBind, save, hits, mac, pair, pairing, saved, pairLate>>

(* bind_persist: the helper writes the config, or fails.                    *)
Persist ==
  /\ Stage("save", "cadence")
  /\ saved' \in {saved, IF save THEN mac ELSE saved}
  /\ BindOver
  /\ UNCHANGED <<replies, air, wantBind, pair, pairing, peer>>

-----------------------------------------------------------------------------
BindOwner ==
  \/ NoBind
  \/ TakeBind
  \/ BindArg
  \/ BindRefused
  \/ PairOn
  \/ PairPoll
  \/ PairMiss
  \/ PairHit
  \/ PairCopy
  \/ WindowOver
  \/ EnoughHits
  \/ PairOffFails
  \/ PairOff
  \/ PairLock
  \/ Persist

BindRequests == \E how \in {"dry", "save"} : RequestBind(how)
=============================================================================
