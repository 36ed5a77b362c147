------------------------------ MODULE Loopback ------------------------------
(***************************************************************************)
(* Two transports joined in memory (softmodem-transport/src/loopback.rs).  *)
(* Offers go through a queue, and the answer to one comes back through a   *)
(* channel of its own, which closes when the dial is given up.             *)
(***************************************************************************)
EXTENDS Naturals, Sequences, FiniteSets

CONSTANTS Sides,     \* the two ends
          MaxOffers  \* bound: dials, of both ends

ASSUME LoopAssumption ==
  MaxOffers \in Nat /\ \E s, t \in Sides : s # t /\ Sides = {s, t}

VARIABLES side,    \* what each end does: idle, dialling or in a call, and which
          offers,  \* the offers each end has not looked at
          knocks,  \* ringing: the offer that rings at each end, 0 if none
          reply,   \* what came back for each offer
          placed   \* how many offers were made

loopVars == <<side, offers, knocks, reply, placed>>

Offer == 1..MaxOffers
Other(s) == CHOOSE t \in Sides : t # s
Doing(what, offer) == [what |-> what, offer |-> offer]
Rest == Doing("idle", 0)

LoopTypeOK ==
  /\ side \in [Sides -> [what : {"idle", "dialling", "call"}, offer : 0 .. placed]]
  /\ offers \in [Sides -> Seq(1 .. placed)]
  /\ knocks \in [Sides -> 0 .. placed]
  /\ reply \in [Offer -> {"open", "closed", "busy", "call", "over"}]
  /\ placed \in 0 .. MaxOffers

LoopInit ==
  /\ side = [s \in Sides |-> Rest]
  /\ offers = [s \in Sides |-> <<>>]
  /\ knocks = [s \in Sides |-> 0]
  /\ reply = [o \in Offer |-> "open"]
  /\ placed = 0

(* dial, after the modem has refused what rings.                           *)
LoopDial(s) ==
  /\ side[s] = Rest /\ placed < MaxOffers
  /\ placed' = placed + 1
  /\ side' = [side EXCEPT ![s] = Doing("dialling", placed')]
  /\ offers' = [offers EXCEPT ![Other(s)] = Append(@, placed')]
  /\ reply' = IF knocks[s] = 0 \/ reply[knocks[s]] # "open" THEN reply
              ELSE [reply EXCEPT ![knocks[s]] = "busy"]
  /\ knocks' = [knocks EXCEPT ![s] = 0]

LoopGivesUp(s) ==
  /\ side[s].what = "dialling"
  /\ reply' = [reply EXCEPT ![side[s].offer] =
                 CASE @ = "open" -> "closed" [] @ = "call" -> "over" [] OTHER -> @]
  /\ side' = [side EXCEPT ![s] = Rest]
  /\ UNCHANGED <<offers, knocks, placed>>

(* The dial hears the reply.                                               *)
LoopDialled(s) ==
  /\ side[s].what = "dialling" /\ reply[side[s].offer] \in {"call", "over", "busy"}
  /\ side' = [side EXCEPT ![s] =
                IF reply[side[s].offer] = "busy" THEN Rest ELSE Doing("call", side[s].offer)]
  /\ UNCHANGED <<offers, knocks, reply, placed>>

(* incoming: a ringing offer that closed is seen before another offer.     *)
LoopRings(s) ==
  /\ side[s] = Rest /\ knocks[s] = 0 /\ offers[s] # <<>>
  /\ knocks' = [knocks EXCEPT ![s] = Head(offers[s])]
  /\ offers' = [offers EXCEPT ![s] = Tail(@)]
  /\ UNCHANGED <<side, reply, placed>>

LoopGone(s) ==
  /\ side[s] = Rest /\ knocks[s] # 0 /\ reply[knocks[s]] = "closed"
  /\ knocks' = [knocks EXCEPT ![s] = 0]
  /\ UNCHANGED <<side, offers, reply, placed>>

LoopSecond(s) ==
  /\ side[s] = Rest /\ knocks[s] # 0 /\ reply[knocks[s]] # "closed" /\ offers[s] # <<>>
  /\ offers' = [offers EXCEPT ![s] = Tail(@)]
  /\ reply' = IF reply[Head(offers[s])] = "open"
              THEN [reply EXCEPT ![Head(offers[s])] = "busy"] ELSE reply
  /\ UNCHANGED <<side, knocks, placed>>

(* connect: the answerer has a call only if the caller can still get it.   *)
Answerable(o) == reply[o] = "open"

LoopAnswer(s) ==
  /\ side[s] = Rest /\ knocks[s] # 0
  /\ LET o == knocks[s]
     IN /\ side' = [side EXCEPT ![s] = IF Answerable(o) THEN Doing("call", o) ELSE Rest]
        /\ reply' = [reply EXCEPT ![o] = IF @ = "open" THEN "call" ELSE @]
  /\ knocks' = [knocks EXCEPT ![s] = 0]
  /\ UNCHANGED <<offers, placed>>

LoopReject(s) ==
  /\ side[s] = Rest /\ knocks[s] # 0
  /\ reply' = IF reply[knocks[s]] = "open" THEN [reply EXCEPT ![knocks[s]] = "busy"]
              ELSE reply
  /\ knocks' = [knocks EXCEPT ![s] = 0]
  /\ UNCHANGED <<side, offers, placed>>

(* The call is dropped, which closes the other end's audio.                *)
LoopHangUp(s) ==
  /\ side[s].what = "call"
  /\ side' = [side EXCEPT ![s] = Rest]
  /\ reply' = [reply EXCEPT ![side[s].offer] = "over"]
  /\ UNCHANGED <<offers, knocks, placed>>

LoopEnd(s) ==
  /\ side[s].what = "call" /\ reply[side[s].offer] = "over"
  /\ side' = [side EXCEPT ![s] = Rest]
  /\ UNCHANGED <<offers, knocks, reply, placed>>

LoopNext ==
  \E s \in Sides :
    \/ LoopDial(s) \/ LoopGivesUp(s) \/ LoopDialled(s)
    \/ LoopRings(s) \/ LoopGone(s) \/ LoopSecond(s)
    \/ LoopAnswer(s) \/ LoopReject(s) \/ LoopHangUp(s) \/ LoopEnd(s)

(* An end is in a call only with the other end of the same offer, or has   *)
(* just been left by it: nobody answers a caller who has given up, however *)
(* the two cross (loopback.rs connect).                                    *)
LoopJoined ==
  \A s \in Sides : side[s].what = "call" =>
    reply[side[s].offer] = "over" \/ side[Other(s)].offer = side[s].offer
=============================================================================
