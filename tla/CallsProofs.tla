----------------------------- MODULE CallsProofs -----------------------------
(***************************************************************************)
(* What the transports keep for any number of calls, callers and ends.     *)
(***************************************************************************)
EXTENDS Calls, SequenceTheorems, FunctionTheorems, FiniteSetTheorems,
        WellFoundedInduction, TLAPS

-----------------------------------------------------------------------------
(***************************************************************************)
(* SIP.                                                                    *)
(***************************************************************************)

\* The modem knows which call it is about, and a phone is up only in a call
\* whose signalling task will tell it of the end, or that was let go of.
SipKnown ==
  /\ modem.state = "Idle" <=> modem.call = Nobody
  /\ modem.state \in {"Waiting", "Dialling"} => modem.call \in Dials
  /\ modem.state = "Answering" => modem.call \in Callers
  /\ modem.state # "Idle" => bell = Nobody
  /\ \A x \in Everyone : phone[x] = "up" => x \in joined \cup letGo

\* Nobody comes twice: who rings, or waits to, is in no call.
SipFresh ==
  /\ \A i \in DOMAIN invites :
       /\ invites[i] \notin joined /\ invites[i] # bell /\ invites[i] # modem.call
       /\ phone[invites[i]] # "quiet" /\ invites[i] \notin letGo
  /\ \A i, j \in DOMAIN invites : invites[i] = invites[j] => i = j
  /\ bell \notin joined /\ (bell # Nobody => phone[bell] # "quiet")
  /\ modem.state = "Answering" => modem.call \notin joined
  /\ \A c \in Callers :
       phone[c] = "quiet" => c \notin joined /\ c # modem.call /\ c \notin letGo

SipInv == SipTypeOK /\ SipKnown /\ NobodyLeft /\ CallsCounted /\ SipFresh

\* A modem on hook without a call or a caller.
LEMMA SipInitially == SipInit => SipInv
BY SipAssumption, SMT DEF SipInit, SipInv, SipTypeOK, SipKnown, NobodyLeft,
  CallsCounted, SipFresh, SipStates, PhoneStates, OnHook, At, Everyone

\* The steps that the modem takes.
SipByModem ==
  \/ \E d \in Dials : BeginsDial(d)
  \/ SipModem \/ SipIncoming \/ GivesUp \/ Answers \/ Rejects \/ HangsUp

\* The steps of the phones and of the calls' own tasks.
SipByOthers ==
  \/ \E d \in Dials : Alerts(d) \/ PicksUp(d) \/ Refuses(d) \/ SipTask(d)
  \/ \E c \in Callers : Invite(c)
  \/ \E x \in Everyone : PutsDown(x) \/ SipCall(x)

LEMMA SipModemTyped == SipInv /\ SipByModem => SipTypeOK'
<1> SUFFICES ASSUME SipInv, SipByModem PROVE SipTypeOK'
  OBVIOUS
<1> USE SipAssumption DEF SipInv, SipTypeOK, SipStates, PhoneStates, OnHook, At,
      Listening, Declined, Over, far, Everyone
<1>1. ASSUME NEW d \in Dials, BeginsDial(d) PROVE SipTypeOK'
  BY <1>1, SMT DEF BeginsDial
<1>2. CASE Dial
  BY <1>2, SMT DEF Dial, SipKnown
<1>3. CASE Connected
  BY <1>3, SMT DEF Connected, SipKnown
<1>4. CASE Failed
  BY <1>4, SMT DEF Failed
<1>5. CASE Accepted
  BY <1>5, SMT DEF Accepted, LetsGo, DropCallUp, SipKnown
<1>6. CASE HungUp
  BY <1>6, SMT DEF HungUp
<1>7. CASE HangsUp
  BY <1>7, SMT DEF HangsUp
<1>8. CASE SipIncoming
  <2>1. CASE Gone
    BY <2>1, SMT DEF Gone
  <2>2. CASE Rings
    BY <2>2, SMT DEF Rings
  <2>3. CASE SecondCaller
    BY <2>3, SMT DEF SecondCaller
  <2> QED
    BY <1>8, <2>1, <2>2, <2>3 DEF SipIncoming
<1>9. CASE GivesUp
  BY <1>9, SMT DEF GivesUp, SipKnown
<1>10. CASE Answers
  BY <1>10, SMT DEF Answers, LetsGo
<1>11. CASE Rejects
  BY <1>11, SMT DEF Rejects
<1> QED
  BY <1>1, <1>2, <1>3, <1>4, <1>5, <1>6, <1>7, <1>8, <1>9, <1>10, <1>11
     DEF SipByModem, SipModem, EndHeard

LEMMA SipOthersTyped == SipInv /\ SipByOthers => SipTypeOK'
<1> SUFFICES ASSUME SipInv, SipByOthers PROVE SipTypeOK'
  OBVIOUS
<1> USE SipAssumption DEF SipInv, SipTypeOK, SipStates, PhoneStates, Over, far, Everyone
<1>1. ASSUME NEW d \in Dials, Alerts(d) \/ PicksUp(d) \/ Refuses(d)
      PROVE SipTypeOK'
  BY <1>1, SMT DEF Alerts, PicksUp, Refuses
<1>2. ASSUME NEW d \in Dials, SipTask(d) PROVE SipTypeOK'
  BY <1>2, SMT DEF SipTask, FirstResponse, MakeFails, Completes, Refused, Cancels,
    CompletionFails, Finishes, FinishFails, LetsGo, Result
<1>3. ASSUME NEW c \in Callers, Invite(c) PROVE SipTypeOK'
  <2>1. /\ UNCHANGED <<modem, bell, task, outcome, calls_up, joined, audio, letGo>>
        /\ \E p \in PhoneStates : phone' = [phone EXCEPT ![c] = p]
        /\ invites' \in {invites, Append(invites, c)}
    BY <1>3, Zenon DEF Invite
  <2>2. invites' \in Seq(Callers)
    BY <2>1, AppendProperties
  <2> QED
    BY <2>1, <2>2, SMT
<1>4. ASSUME NEW x \in Everyone, PutsDown(x) PROVE SipTypeOK'
  BY <1>4, SMT DEF PutsDown
<1>5. ASSUME NEW x \in Everyone, SipCall(x) PROVE SipTypeOK'
  BY <1>5, SMT DEF SipCall, AudioEnds, Terminates, Terminated, DropCallUp
<1> QED
  BY <1>1, <1>2, <1>3, <1>4, <1>5 DEF SipByOthers

LEMMA SipModemKeeps == SipInv /\ SipByModem => (SipKnown /\ NobodyLeft)'
<1> SUFFICES ASSUME SipInv, SipByModem PROVE (SipKnown /\ NobodyLeft)'
  OBVIOUS
<1> USE SipAssumption DEF SipInv, SipTypeOK, SipKnown, NobodyLeft, OnHook, At,
      Listening, Declined, Over, far, Everyone
<1>1. ASSUME NEW d \in Dials, BeginsDial(d) PROVE (SipKnown /\ NobodyLeft)'
  BY <1>1, SMT DEF BeginsDial
<1>2. CASE Dial
  BY <1>2, SMT DEF Dial
<1>3. CASE Connected
  BY <1>3, SMT DEF Connected
<1>4. CASE Failed
  BY <1>4, SMT DEF Failed
<1>5. CASE Accepted
  BY <1>5, SMT DEF Accepted, LetsGo, DropCallUp
<1>6. CASE HungUp
  BY <1>6, SMT DEF HungUp
<1>7. CASE HangsUp
  BY <1>7, SMT DEF HangsUp
<1>8. CASE Gone
  BY <1>8, SMT DEF Gone
<1>9. CASE Rings
  <2>1. /\ 1 \in DOMAIN invites /\ Head(invites) = invites[1]
        /\ invites[1] \in Callers /\ invites[1] \notin joined \cup letGo
    BY <1>9, SMT DEF Rings, SipFresh
  <2> QED
    BY <1>9, <2>1, SMT DEF Rings, CallsCounted
<1>10. CASE SecondCaller
  BY <1>10, SMT DEF SecondCaller
<1>11. CASE GivesUp
  BY <1>11, SMT DEF GivesUp
<1>12. CASE Answers
  BY <1>12, SMT DEF Answers, LetsGo, CallsCounted, SipFresh
<1>13. CASE Rejects
  BY <1>13, SMT DEF Rejects
<1> QED
  BY <1>1, <1>2, <1>3, <1>4, <1>5, <1>6, <1>7, <1>8, <1>9, <1>10, <1>11, <1>12,
     <1>13 DEF SipByModem, SipModem, SipIncoming, EndHeard
LEMMA SipOthersKeep == SipInv /\ SipByOthers => (SipKnown /\ NobodyLeft)'
<1> SUFFICES ASSUME SipInv, SipByOthers PROVE (SipKnown /\ NobodyLeft)'
  OBVIOUS
<1> USE SipAssumption DEF SipInv, SipTypeOK, SipKnown, NobodyLeft, At, Over, far, Everyone
<1>1. ASSUME NEW d \in Dials, Alerts(d) \/ PicksUp(d) \/ Refuses(d)
      PROVE (SipKnown /\ NobodyLeft)'
  BY <1>1, SMT DEF Alerts, PicksUp, Refuses
<1>2. ASSUME NEW d \in Dials, SipTask(d) PROVE (SipKnown /\ NobodyLeft)'
  BY <1>2, SMT DEF SipTask, FirstResponse, MakeFails, Completes, Refused, Cancels,
    CompletionFails, Finishes, FinishFails, LetsGo, Result
<1>3. ASSUME NEW c \in Callers, Invite(c) PROVE (SipKnown /\ NobodyLeft)'
  BY <1>3, SMT DEF Invite
<1>4. ASSUME NEW x \in Everyone, PutsDown(x) PROVE (SipKnown /\ NobodyLeft)'
  BY <1>4, SMT DEF PutsDown
<1>5. ASSUME NEW x \in Everyone, SipCall(x) PROVE (SipKnown /\ NobodyLeft)'
  BY <1>5, SMT DEF SipCall, AudioEnds, Terminates, Terminated, DropCallUp
<1> QED
  BY <1>1, <1>2, <1>3, <1>4, <1>5 DEF SipByOthers

LEMMA SipModemCounts == SipInv /\ SipByModem => (CallsCounted /\ SipFresh)'
<1> SUFFICES ASSUME SipInv, SipByModem PROVE (CallsCounted /\ SipFresh)'
  OBVIOUS
<1> USE SipAssumption DEF SipInv, SipTypeOK, SipKnown, CallsCounted, SipFresh,
      OnHook, At, Listening, Declined, Over, far, Everyone
<1>1. ASSUME NEW d \in Dials, BeginsDial(d) PROVE (CallsCounted /\ SipFresh)'
  BY <1>1, SMT DEF BeginsDial
<1>2. CASE Dial
  BY <1>2, SMT DEF Dial
<1>3. CASE Connected
  BY <1>3, SMT DEF Connected
<1>4. CASE Failed
  BY <1>4, SMT DEF Failed
<1>5. CASE Accepted
  BY <1>5, SMT DEF Accepted, LetsGo, DropCallUp
<1>6. CASE HungUp
  BY <1>6, SMT DEF HungUp
<1>7. CASE HangsUp
  BY <1>7, SMT DEF HangsUp
<1>8. CASE Gone
  BY <1>8, SMT DEF Gone
<1>9. CASE Rings
  BY <1>9, SMT DEF Rings
<1>10. CASE SecondCaller
  BY <1>10, SMT DEF SecondCaller
<1>11. CASE GivesUp
  BY <1>11, SMT DEF GivesUp
<1>12. CASE Answers
  BY <1>12, SMT DEF Answers, LetsGo
<1>13. CASE Rejects
  BY <1>13, SMT DEF Rejects
<1> QED
  BY <1>1, <1>2, <1>3, <1>4, <1>5, <1>6, <1>7, <1>8, <1>9, <1>10, <1>11, <1>12,
     <1>13 DEF SipByModem, SipModem, SipIncoming, EndHeard

LEMMA SipOthersCount == SipInv /\ SipByOthers => (CallsCounted /\ SipFresh)'
<1> SUFFICES ASSUME SipInv, SipByOthers PROVE (CallsCounted /\ SipFresh)'
  OBVIOUS
<1> USE SipAssumption DEF SipInv, SipTypeOK, SipKnown, CallsCounted, SipFresh, At,
      Over, far, Everyone
<1>1. ASSUME NEW d \in Dials, Alerts(d) \/ PicksUp(d) \/ Refuses(d)
      PROVE (CallsCounted /\ SipFresh)'
  BY <1>1, SMT DEF Alerts, PicksUp, Refuses
<1>2. ASSUME NEW d \in Dials, SipTask(d) PROVE (CallsCounted /\ SipFresh)'
  BY <1>2, SMT DEF SipTask, FirstResponse, MakeFails, Completes, Refused, Cancels,
    CompletionFails, Finishes, FinishFails, LetsGo, Result
<1>3. ASSUME NEW c \in Callers, Invite(c) PROVE (CallsCounted /\ SipFresh)'
  <2>1. CASE Busy
    BY <1>3, <2>1, SMT DEF Invite
  <2>2. CASE ~Busy
    <3>1. /\ c \notin joined /\ c # modem.call /\ c # bell
          /\ \A i \in DOMAIN invites : invites[i] # c
      BY <1>3, SMT DEF Invite
    <3>2. /\ invites' = Append(invites, c) /\ invites \in Seq(Callers)
          /\ phone' = [phone EXCEPT ![c] = "invited"]
          /\ c \notin letGo /\ UNCHANGED <<modem, bell, calls_up, joined, letGo>>
      BY <1>3, <2>2, Zenon DEF Invite
    <3>3. \A i \in DOMAIN invites' :
            invites'[i] = c \/ (i \in DOMAIN invites /\ invites'[i] = invites[i])
      BY <3>2, AppendProperties
    <3>4. \A i, j \in DOMAIN invites' : invites'[i] = invites'[j] => i = j
      BY <3>1, <3>2, AppendProperties
    <3> QED
      BY <3>1, <3>2, <3>3, <3>4, SMT
  <2> QED
    BY <2>1, <2>2
<1>4. ASSUME NEW x \in Everyone, PutsDown(x) PROVE (CallsCounted /\ SipFresh)'
  BY <1>4, SMT DEF PutsDown
<1>5. ASSUME NEW x \in Everyone, SipCall(x) PROVE (CallsCounted /\ SipFresh)'
  <2>1. CASE AudioEnds(x)
    BY <2>1, SMT DEF AudioEnds
  <2>2. CASE Terminates(x) \/ Terminated(x)
    <3>1. /\ x \in joined
          /\ joined' = joined \ {x} /\ calls_up' = calls_up \ {x}
          /\ UNCHANGED <<modem, bell, invites, letGo>>
          /\ \A y \in Everyone : phone'[y] = "quiet" => phone[y] = "quiet"
          /\ \A y \in Everyone : phone[y] # "quiet" => phone'[y] # "quiet"
      BY <2>2, SMT DEF Terminates, Terminated, SaysBye, DropCallUp
    <3>2. CallsCounted'
      BY <3>1, SMT
    <3>3. SipFresh'
      BY <3>1, SMT
    <3> QED
      BY <3>2, <3>3
  <2> QED
    BY <1>5, <2>1, <2>2 DEF SipCall
<1> QED
  BY <1>1, <1>2, <1>3, <1>4, <1>5 DEF SipByOthers

LEMMA SipKeeps == SipInv /\ [SipNext]_sipVars => SipInv'
<1> SUFFICES ASSUME SipInv, [SipNext]_sipVars PROVE SipInv'
  OBVIOUS
<1>1. CASE SipByModem
  BY <1>1, SipModemTyped, SipModemKeeps, SipModemCounts DEF SipInv
<1>2. CASE SipByOthers
  BY <1>2, SipOthersTyped, SipOthersKeep, SipOthersCount DEF SipInv
<1>3. CASE UNCHANGED sipVars
  BY <1>3 DEF sipVars, far, SipInv, SipTypeOK, SipKnown, NobodyLeft, CallsCounted, SipFresh
<1> QED
  BY <1>1, <1>2, <1>3 DEF SipNext, SipByModem, SipByOthers

-----------------------------------------------------------------------------
(***************************************************************************)
(* The loopback.                                                           *)
(***************************************************************************)

\* The other of the two ends.
LEMMA OtherEnd ==
  /\ \A s \in Sides : Other(s) \in Sides /\ Other(s) # s
  /\ \A s, t \in Sides : t = s \/ t = Other(s)
  /\ \A s \in Sides : Other(Other(s)) = s
BY LoopAssumption DEF Other

\* An offer that an end has not answered, or that rings there.
Comes(o, s) == knocks[s] = o \/ \E i \in DOMAIN offers[s] : offers[s][i] = o

\* An offer is open for just as long as its dial waits, and answered only
\* while the end that answered is in the call.
Resting == \A s \in Sides : side[s].what = "idle" <=> side[s].offer = 0
OpenMeansDialling ==
  \A s \in Sides : \A o \in 1 .. placed :
    Comes(o, s) /\ reply[o] = "open" => side[Other(s)] = Doing("dialling", o)
AnsweredMeansCall ==
  \A s \in Sides :
    side[s].what = "dialling" /\ reply[side[s].offer] = "call"
      => side[Other(s)] = Doing("call", side[s].offer)
CallMeansAnswered ==
  \A s \in Sides : side[s].what = "call" => reply[side[s].offer] \in {"call", "over"}
NotMadeIsOpen == \A o \in Offer : o > placed => reply[o] = "open"

OffersKept ==
  /\ Resting /\ OpenMeansDialling /\ AnsweredMeansCall /\ CallMeansAnswered
  /\ NotMadeIsOpen

LoopInv == LoopTypeOK /\ OffersKept /\ LoopJoined

LEMMA LoopInitially == LoopInit => LoopInv
BY LoopAssumption, SMT DEF LoopInit, LoopInv, LoopTypeOK, OffersKept, LoopJoined,
  Resting, OpenMeansDialling, AnsweredMeansCall, CallMeansAnswered, NotMadeIsOpen,
  Rest, Doing, Offer, Comes

LEMMA LoopTyped ==
  ASSUME LoopTypeOK, OffersKept, LoopNext
  PROVE  LoopTypeOK'
<1> USE DEF LoopTypeOK, Rest, Doing, Offer
<1>0. MaxOffers \in Nat
  BY LoopAssumption
<1>1. ASSUME NEW s \in Sides, LoopDial(s) PROVE LoopTypeOK'
  <2>1. /\ placed' = placed + 1 /\ placed' \in 0 .. MaxOffers
        /\ side' = [side EXCEPT ![s] = [what |-> "dialling", offer |-> placed']]
        /\ offers' = [offers EXCEPT ![Other(s)] = Append(@, placed')]
        /\ knocks' = [knocks EXCEPT ![s] = 0]
        /\ reply' \in [Offer -> {"open", "closed", "busy", "call", "over"}]
    BY <1>0, <1>1, SMT DEF LoopDial
  <2>2. 0 .. placed \subseteq 0 .. placed' /\ 1 .. placed \subseteq 1 .. placed'
    BY <2>1
  <2>3. \A t \in Sides : offers[t] \in Seq(1 .. placed')
    BY <2>2, SeqMonotonic
  <2>4. \A t \in Sides : Append(offers[t], placed') \in Seq(1 .. placed')
    BY <2>1, <2>3, AppendProperties
  <2>5. offers' \in [Sides -> Seq(1 .. placed')]
    BY <2>1, <2>3, <2>4
  <2>6. side' \in [Sides -> [what : {"idle", "dialling", "call"}, offer : 0 .. placed']]
    BY <2>1, <2>2
  <2>7. knocks' \in [Sides -> 0 .. placed']
    BY <2>1, <2>2
  <2> QED
    BY <2>1, <2>5, <2>6, <2>7
<1>2. ASSUME NEW s \in Sides, LoopGivesUp(s) PROVE LoopTypeOK'
  <2>1. /\ side' = [side EXCEPT ![s] = [what |-> "idle", offer |-> 0]]
        /\ UNCHANGED <<offers, knocks, placed>>
    BY <1>2 DEF LoopGivesUp
  <2>2. side' \in [Sides -> [what : {"idle", "dialling", "call"}, offer : 0 .. placed]]
    BY <2>1
  <2>3. PICK r \in {"open", "closed", "busy", "call", "over", reply[side[s].offer]} :
          reply' = [reply EXCEPT ![side[s].offer] = r]
    BY <1>2, Zenon DEF LoopGivesUp
  <2>4. reply' \in [Offer -> {"open", "closed", "busy", "call", "over"}]
    BY <2>3, Zenon
  <2> QED
    BY <2>1, <2>2, <2>4
<1>3. ASSUME NEW s \in Sides, LoopDialled(s) PROVE LoopTypeOK'
  BY <1>0, <1>3, SMT DEF LoopDialled
<1>4. ASSUME NEW s \in Sides, LoopRings(s) PROVE LoopTypeOK'
  <2>1. offers[s] \in Seq(1 .. placed) /\ offers[s] # <<>>
    BY <1>4 DEF LoopRings
  <2>2. Head(offers[s]) \in 1 .. placed /\ Tail(offers[s]) \in Seq(1 .. placed)
    BY <2>1, HeadTailProperties
  <2> QED
    BY <1>4, <2>2, SMT DEF LoopRings
<1>5. ASSUME NEW s \in Sides, LoopGone(s) PROVE LoopTypeOK'
  BY <1>0, <1>5, SMT DEF LoopGone
<1>6. ASSUME NEW s \in Sides, LoopSecond(s) PROVE LoopTypeOK'
  <2>1. offers[s] \in Seq(1 .. placed) /\ offers[s] # <<>>
    BY <1>6 DEF LoopSecond
  <2>2. Head(offers[s]) \in 1 .. placed /\ Tail(offers[s]) \in Seq(1 .. placed)
    BY <2>1, HeadTailProperties
  <2>3. reply' = reply \/ reply' = [reply EXCEPT ![Head(offers[s])] = "busy"]
    BY <1>6, Zenon DEF LoopSecond
  <2>4. reply' \in [Offer -> {"open", "closed", "busy", "call", "over"}]
    BY <2>3
  <2>5. offers' = [offers EXCEPT ![s] = Tail(offers[s])] /\ UNCHANGED <<side, knocks, placed>>
    BY <1>6 DEF LoopSecond
  <2>6. offers' \in [Sides -> Seq(1 .. placed)]
    BY <2>2, <2>5
  <2> QED
    BY <2>4, <2>5, <2>6
<1>7. ASSUME NEW s \in Sides, LoopAnswer(s) PROVE LoopTypeOK'
  <2>1. /\ knocks[s] \in 1 .. placed
        /\ knocks' = [knocks EXCEPT ![s] = 0] /\ UNCHANGED <<offers, placed>>
    BY <1>7 DEF LoopAnswer
  <2>2. PICK x \in {[what |-> "call", offer |-> knocks[s]], [what |-> "idle", offer |-> 0]} :
          side' = [side EXCEPT ![s] = x]
    BY <1>7, Zenon DEF LoopAnswer
  <2>3. PICK r \in {"call", reply[knocks[s]]} : reply' = [reply EXCEPT ![knocks[s]] = r]
    BY <1>7, Zenon DEF LoopAnswer
  <2>4. reply' \in [Offer -> {"open", "closed", "busy", "call", "over"}]
    BY <2>1, <2>3
  <2>5. side' \in [Sides -> [what : {"idle", "dialling", "call"}, offer : 0 .. placed]]
    BY <2>1, <2>2
  <2>6. knocks' \in [Sides -> 0 .. placed]
    BY <2>1
  <2> QED
    BY <2>1, <2>4, <2>5, <2>6
<1>8. ASSUME NEW s \in Sides, LoopReject(s) PROVE LoopTypeOK'
  BY <1>0, <1>8, SMT DEF LoopReject
<1>9. ASSUME NEW s \in Sides, LoopHangUp(s) PROVE LoopTypeOK'
  <2>1. side' = [side EXCEPT ![s] = [what |-> "idle", offer |-> 0]]
    BY <1>9 DEF LoopHangUp
  <2>2. side' \in [Sides -> [what : {"idle", "dialling", "call"}, offer : 0 .. placed]]
    BY <2>1
  <2>3. reply' \in [Offer -> {"open", "closed", "busy", "call", "over"}]
    BY <1>9, Zenon DEF LoopHangUp
  <2> QED
    BY <1>9, <2>2, <2>3 DEF LoopHangUp
<1>10. ASSUME NEW s \in Sides, LoopEnd(s) PROVE LoopTypeOK'
  BY <1>0, <1>10, SMT DEF LoopEnd
<1> QED
  BY <1>1, <1>2, <1>3, <1>4, <1>5, <1>6, <1>7, <1>8, <1>9, <1>10 DEF LoopNext

\* An offer comes to nobody who did not have it before, but for a new one.
LEMMA NoneComesAnew ==
  ASSUME LoopTypeOK, LoopNext, NEW s \in Sides, NEW o \in Nat \ {0}, Comes(o, s)'
  PROVE  Comes(o, s) \/ (placed' = placed + 1 /\ o = placed')
<1> USE DEF LoopTypeOK, Comes
<1>1. ASSUME NEW t \in Sides, LoopDial(t)
      PROVE  Comes(o, s) \/ (placed' = placed + 1 /\ o = placed')
  <2>1. /\ knocks' = [knocks EXCEPT ![t] = 0] /\ placed' = placed + 1
        /\ offers' = [offers EXCEPT ![Other(t)] = Append(@, placed')]
    BY <1>1 DEF LoopDial
  <2>2. CASE knocks'[s] = o
    BY <2>1, <2>2
  <2>3. ASSUME NEW i \in DOMAIN offers'[s], offers'[s][i] = o
        PROVE  Comes(o, s) \/ (placed' = placed + 1 /\ o = placed')
    <3>1. CASE s = Other(t)
      <4>1. offers'[s] = Append(offers[s], placed') /\ offers[s] \in Seq(1 .. placed)
        BY <2>1, <3>1
      <4> QED
        BY <4>1, <2>1, <2>3, AppendProperties
    <3>2. CASE s # Other(t)
      BY <2>1, <2>3, <3>2
    <3> QED
      BY <3>1, <3>2
  <2> QED
    BY <2>2, <2>3
<1>2. ASSUME NEW t \in Sides, LoopRings(t) \/ LoopSecond(t) PROVE Comes(o, s)
  <2>1. /\ offers[t] \in Seq(1 .. placed) /\ offers[t] # <<>>
        /\ offers' = [offers EXCEPT ![t] = Tail(@)]
        /\ knocks'[s] = knocks[s] \/ (s = t /\ knocks'[s] = Head(offers[s]))
    BY <1>2, SMT DEF LoopRings, LoopSecond
  <2>2. CASE s = t
    <3>1. /\ offers'[s] = Tail(offers[s]) /\ 1 \in DOMAIN offers[s]
          /\ Head(offers[s]) = offers[s][1]
          /\ \A i \in DOMAIN Tail(offers[s]) :
               i + 1 \in DOMAIN offers[s] /\ Tail(offers[s])[i] = offers[s][i + 1]
      BY <2>1, <2>2, HeadTailProperties
    <3> QED
      BY <2>1, <2>2, <3>1, Zenon
  <2>3. CASE s # t
    BY <2>1, <2>3
  <2> QED
    BY <2>2, <2>3
<1>3. ASSUME NEW t \in Sides, LoopGone(t) \/ LoopAnswer(t) \/ LoopReject(t)
      PROVE  Comes(o, s)
  BY <1>3, SMT DEF LoopGone, LoopAnswer, LoopReject
<1>4. ASSUME NEW t \in Sides,
             LoopGivesUp(t) \/ LoopDialled(t) \/ LoopHangUp(t) \/ LoopEnd(t)
      PROVE  Comes(o, s)
  BY <1>4, Zenon DEF LoopGivesUp, LoopDialled, LoopHangUp, LoopEnd
<1> QED
  BY <1>1, <1>2, <1>3, <1>4 DEF LoopNext

\* What an action of the end at t does to it, to the other end and to the replies.
LoopDoes(t) ==
  \/ LoopDial(t) \/ LoopGivesUp(t) \/ LoopDialled(t)
  \/ LoopRings(t) \/ LoopGone(t) \/ LoopSecond(t)
  \/ LoopAnswer(t) \/ LoopReject(t) \/ LoopHangUp(t) \/ LoopEnd(t)

OnlyRefuses ==
  \A o \in Offer :
    reply'[o] = reply[o] \/ (reply[o] = "open" /\ reply'[o] = "busy" /\ o <= placed)
Replied(q, r) == \A o \in Offer : reply'[o] = IF o = q THEN r ELSE reply[o]

DialBegins(t) ==
  /\ side[t].what = "idle" /\ placed' = placed + 1 /\ placed + 1 \in Offer
  /\ side'[t] = Doing("dialling", placed + 1) /\ OnlyRefuses
SeesOffers(t) == side'[t] = side[t] /\ OnlyRefuses
LeavesDial(t) ==
  /\ side[t].what = "dialling" /\ side'[t] = Rest
  /\ reply'[side[t].offer] \in {"closed", "over", "busy"}
  /\ reply[side[t].offer] \in {"call", "over"} => reply'[side[t].offer] = "over"
  /\ \A o \in Offer : o # side[t].offer => reply'[o] = reply[o]
GetsCall(t) ==
  /\ side[t].what = "dialling" /\ reply[side[t].offer] \in {"call", "over"}
  /\ side'[t] = Doing("call", side[t].offer) /\ OnlyRefuses
OfferTaken(t) ==
  /\ side[t].what = "idle" /\ knocks[t] \in Offer /\ reply[knocks[t]] = "open"
  /\ side'[t] = Doing("call", knocks[t]) /\ Replied(knocks[t], "call")
LeavesCall(t) ==
  side[t].what = "call" /\ side'[t] = Rest /\ Replied(side[t].offer, "over")

LEMMA LoopFields ==
  ASSUME LoopInv, NEW t \in Sides
  PROVE  /\ side[t].what \in {"idle", "dialling", "call"} /\ side[t].offer \in 0 .. placed
         /\ side[t] = Doing(side[t].what, side[t].offer)
         /\ side[t].what = "idle" <=> side[t].offer = 0
         /\ side[t].offer # 0 => side[t].offer \in Offer
         /\ knocks[t] \in 0 .. placed /\ (knocks[t] # 0 => knocks[t] \in Offer)
         /\ \A o \in Offer : reply[o] \in {"open", "closed", "busy", "call", "over"}
         /\ placed \in Nat /\ 0 \notin Offer /\ MaxOffers \in Nat
         /\ Rest.what = "idle" /\ Rest.offer = 0
         /\ \A w, o : Doing(w, o).what = w /\ Doing(w, o).offer = o
BY LoopAssumption DEF Rest, LoopInv, LoopTypeOK, OffersKept, Resting, Offer, Doing

LEMMA LoopEffect ==
  ASSUME LoopInv, NEW t \in Sides, LoopDoes(t)
  PROVE  /\ side'[Other(t)] = side[Other(t)]
         /\ \/ DialBegins(t) /\ LoopDial(t)
            \/ /\ placed' = placed
               /\ \/ SeesOffers(t) \/ LeavesDial(t) \/ GetsCall(t) \/ OfferTaken(t)
                  \/ LeavesCall(t)
<1> DEFINE E == /\ side'[Other(t)] = side[Other(t)]
                /\ \/ DialBegins(t) /\ LoopDial(t)
                   \/ /\ placed' = placed
                      /\ \/ SeesOffers(t) \/ LeavesDial(t) \/ GetsCall(t) \/ OfferTaken(t)
                         \/ LeavesCall(t)
           s == side[t]
           k == knocks[t]
<1>0. /\ DOMAIN side = Sides /\ DOMAIN reply = Offer
      /\ offers[t] # <<>> => Head(offers[t]) \in 1 .. placed
  BY HeadTailProperties DEF LoopInv, LoopTypeOK
<1>a. /\ Other(t) \in Sides /\ Other(t) # t
  BY OtherEnd
<1>b. reply' = reply => OnlyRefuses
  BY DEF OnlyRefuses
<1>1. CASE LoopDial(t)
  <2>1. /\ side' = [side EXCEPT ![t] = Doing("dialling", placed + 1)]
        /\ placed' = placed + 1 /\ placed < MaxOffers /\ side[t] = Rest
        /\ reply' = IF k = 0 \/ reply[k] # "open" THEN reply ELSE [reply EXCEPT ![k] = "busy"]
    BY <1>1 DEF LoopDial
  <2>2. side'[t] = Doing("dialling", placed + 1) /\ side'[Other(t)] = side[Other(t)]
    BY <1>0, <1>a, <2>1, Zenon
  <2>3. placed + 1 \in Offer
    BY <2>1, LoopFields DEF Offer
  <2>4. OnlyRefuses
    <3>1. k # 0 => k \in Offer /\ k <= placed
      BY LoopFields
    <3> QED
      BY <1>0, <2>1, <3>1 DEF OnlyRefuses
  <2> QED
    BY <1>1, <2>1, <2>2, <2>3, <2>4, LoopFields DEF DialBegins
<1>2. CASE LoopGivesUp(t)
  <2>1. /\ s.what = "dialling" /\ side' = [side EXCEPT ![t] = Rest] /\ placed' = placed
        /\ reply' = [reply EXCEPT ![s.offer] =
                       CASE reply[s.offer] = "open" -> "closed"
                         [] reply[s.offer] = "call" -> "over" [] OTHER -> reply[s.offer]]
    BY <1>2 DEF LoopGivesUp
  <2>2. side'[t] = Rest /\ side'[Other(t)] = side[Other(t)]
    BY <1>0, <1>a, <2>1, Zenon
  <2>3. s.offer \in Offer /\ reply[s.offer] \in {"open", "closed", "busy", "call", "over"}
    BY <2>1, LoopFields
  <2>4. \A o \in Offer : o # s.offer => reply'[o] = reply[o]
    BY <1>0, <2>1
  <2>5. /\ reply'[s.offer] \in {"closed", "over", "busy"}
        /\ reply[s.offer] \in {"call", "over"} => reply'[s.offer] = "over"
    <3>1. CASE reply[s.offer] = "open" BY <1>0, <2>1, <2>3, <3>1
    <3>2. CASE reply[s.offer] = "call" BY <1>0, <2>1, <2>3, <3>2
    <3>3. CASE reply[s.offer] \notin {"open", "call"} BY <1>0, <2>1, <2>3, <3>3
    <3> QED BY <3>1, <3>2, <3>3
  <2> QED
    BY <2>1, <2>2, <2>4, <2>5 DEF LeavesDial
<1>3. CASE LoopDialled(t)
  <2>1. /\ s.what = "dialling" /\ reply[s.offer] \in {"call", "over", "busy"}
        /\ reply' = reply /\ placed' = placed
        /\ side' = [side EXCEPT ![t] = IF reply[s.offer] = "busy" THEN Rest
                                       ELSE Doing("call", s.offer)]
    BY <1>3 DEF LoopDialled
  <2>2. /\ side'[Other(t)] = side[Other(t)]
        /\ side'[t] = IF reply[s.offer] = "busy" THEN Rest ELSE Doing("call", s.offer)
    BY <1>0, <1>a, <2>1, Zenon
  <2>4. CASE reply[s.offer] = "busy"
    BY <2>1, <2>2, <2>4 DEF LeavesDial
  <2>5. CASE reply[s.offer] # "busy"
    BY <1>b, <2>1, <2>2, <2>5 DEF GetsCall
  <2> QED
    BY <2>4, <2>5
<1>4. CASE LoopRings(t) \/ LoopGone(t)
  <2>1. side' = side /\ reply' = reply /\ placed' = placed
    BY <1>4 DEF LoopRings, LoopGone
  <2> QED
    BY <2>1, <1>b DEF SeesOffers
<1>5. CASE LoopSecond(t) \/ LoopReject(t)
  <2>1. PICK q \in 1 .. placed :
          /\ side' = side /\ placed' = placed
          /\ reply' = IF reply[q] = "open" THEN [reply EXCEPT ![q] = "busy"] ELSE reply
    <3>1. CASE LoopSecond(t)
      BY <1>0, <3>1 DEF LoopSecond
    <3>2. CASE LoopReject(t)
      <4>1. k # 0 /\ k \in 1 .. placed BY <3>2, LoopFields DEF LoopReject
      <4> QED BY <3>2, <4>1 DEF LoopReject
    <3> QED BY <1>5, <3>1, <3>2
  <2>2. q \in Offer /\ q <= placed
    BY <2>1, LoopFields DEF Offer, LoopInv, LoopTypeOK
  <2>3. OnlyRefuses
    BY <1>0, <2>1, <2>2 DEF OnlyRefuses
  <2> QED
    BY <2>1, <2>3 DEF SeesOffers
<1>6. CASE LoopAnswer(t)
  <2>1. /\ s = Rest /\ k # 0 /\ placed' = placed
        /\ side' = [side EXCEPT ![t] = IF reply[k] = "open" THEN Doing("call", k) ELSE Rest]
        /\ reply' = [reply EXCEPT ![k] = IF reply[k] = "open" THEN "call" ELSE reply[k]]
    BY <1>6 DEF LoopAnswer, Answerable
  <2>2. /\ side'[Other(t)] = side[Other(t)]
        /\ side'[t] = IF reply[k] = "open" THEN Doing("call", k) ELSE Rest
        /\ k \in Offer
    BY <1>0, <1>a, <2>1, LoopFields, Zenon
  <2>3. CASE reply[k] = "open"
    <3>1. Replied(k, "call")
      BY <1>0, <2>1, <2>3 DEF Replied
    <3> QED
      BY <2>1, <2>2, <2>3, <3>1, LoopFields DEF OfferTaken
  <2>4. CASE reply[k] # "open"
    <3>1. OnlyRefuses
      BY <1>0, <2>1, <2>4 DEF OnlyRefuses
    <3> QED
      BY <2>1, <2>2, <2>4, <3>1 DEF SeesOffers
  <2> QED
    BY <2>3, <2>4
<1>7. CASE LoopHangUp(t) \/ LoopEnd(t)
  <2>1. /\ s.what = "call" /\ side' = [side EXCEPT ![t] = Rest] /\ placed' = placed
        /\ reply' = [reply EXCEPT ![s.offer] = "over"]
           \/ (reply' = reply /\ reply[s.offer] = "over")
    BY <1>7 DEF LoopHangUp, LoopEnd
  <2>2. side'[t] = Rest /\ side'[Other(t)] = side[Other(t)]
    BY <1>0, <1>a, <2>1, Zenon
  <2>3. Replied(s.offer, "over")
    BY <1>0, <2>1, Zenon DEF Replied
  <2> QED
    BY <2>1, <2>2, <2>3 DEF LeavesCall
<1> QED
  BY <1>1, <1>2, <1>3, <1>4, <1>5, <1>6, <1>7 DEF LoopDoes

\* What becomes of the replies, whoever acts.
LEMMA LoopReplies ==
  ASSUME LoopInv, NEW t \in Sides, LoopDoes(t), NEW o \in Offer
  PROVE  /\ reply'[o] = "open" => reply[o] = "open"
         /\ reply[o] = "over" => reply'[o] = "over"
         /\ reply[o] = "call" => reply'[o] \in {"call", "over"}
         /\ reply'[o] = "call" /\ reply[o] # "call" => OfferTaken(t) /\ o = knocks[t]
         /\ o > placed => reply'[o] = "open"
<1>1. reply[o] \in {"open", "closed", "busy", "call", "over"} /\ (o > placed => reply[o] = "open")
  BY LoopFields DEF LoopInv, OffersKept, NotMadeIsOpen
<1>2. CASE OnlyRefuses
  BY <1>1, <1>2, LoopFields DEF OnlyRefuses, Offer
<1>3. CASE LeavesDial(t)
  BY <1>1, <1>3, LoopFields DEF LeavesDial, Offer
<1>4. CASE OfferTaken(t)
  BY <1>1, <1>4, LoopFields DEF OfferTaken, Replied, Offer
<1>5. CASE LeavesCall(t)
  BY <1>1, <1>5, LoopFields DEF LeavesCall, Replied, Offer
<1> QED
  BY <1>2, <1>3, <1>4, <1>5, LoopEffect DEF DialBegins, SeesOffers, GetsCall

\* An offer is closed when its dial is given up, and open until it is answered.
LEMMA LoopKeepsOffers ==
  ASSUME LoopInv, NEW t \in Sides, LoopDoes(t)
  PROVE  (Resting /\ OpenMeansDialling /\ CallMeansAnswered /\ NotMadeIsOpen)'
<1> USE OtherEnd
<1>0. LoopNext
  BY Zenon DEF LoopNext, LoopDoes
<1>1. LoopTypeOK /\ LoopTypeOK' /\ placed <= placed'
  <2>1. LoopTypeOK /\ LoopTypeOK'
    BY <1>0, LoopTyped DEF LoopInv
  <2>2. placed' = placed \/ placed' = placed + 1
    BY LoopEffect, LoopFields DEF DialBegins
  <2> QED
    BY <2>1, <2>2, SMT DEF LoopTypeOK
<1>2. Resting'
  <2>1. side'[t].what = "idle" <=> side'[t].offer = 0
    BY LoopEffect, LoopFields DEF DialBegins, SeesOffers, LeavesDial, GetsCall, OfferTaken,
      LeavesCall
  <2>2. side'[Other(t)].what = "idle" <=> side'[Other(t)].offer = 0
    BY LoopEffect, LoopFields
  <2> QED
    BY <2>1, <2>2 DEF Resting
<1>3. CallMeansAnswered'
  <2>1. side'[t].what = "call" => reply'[side'[t].offer] \in {"call", "over"}
    <3>1. CASE SeesOffers(t)
      <4>1. side[t].what = "call" =>
              side[t].offer \in Offer /\ reply[side[t].offer] \in {"call", "over"}
        BY LoopFields DEF LoopInv, OffersKept, CallMeansAnswered
      <4>2. side[t].what = "call" => reply'[side[t].offer] \in {"call", "over"}
        BY <4>1, LoopReplies
      <4>3. side'[t] = side[t]
        BY <3>1 DEF SeesOffers
      <4> QED
        BY <4>2, <4>3
    <3>2. CASE GetsCall(t)
      BY <3>2, LoopFields, LoopReplies DEF GetsCall
    <3>3. CASE OfferTaken(t)
      BY <3>3, LoopFields DEF OfferTaken, Replied
    <3> QED
      BY <3>1, <3>2, <3>3, LoopEffect, LoopFields DEF DialBegins, LeavesDial, LeavesCall
  <2>2. side'[Other(t)].what = "call" => reply'[side'[Other(t)].offer] \in {"call", "over"}
    BY LoopEffect, LoopFields, LoopReplies DEF LoopInv, OffersKept, CallMeansAnswered
  <2> QED
    BY <2>1, <2>2 DEF CallMeansAnswered
<1>4. NotMadeIsOpen'
  BY <1>1, LoopReplies, SMT DEF NotMadeIsOpen, LoopTypeOK, Offer
<1>5. OpenMeansDialling'
  <2> SUFFICES ASSUME NEW s \in Sides, NEW o \in 1 .. placed',
                      Comes(o, s)', reply'[o] = "open"
               PROVE  side'[Other(s)] = Doing("dialling", o)
    BY DEF OpenMeansDialling, Doing
  <2>1. o \in Offer /\ o \in Nat \ {0}
    BY <1>1, LoopAssumption, SMT DEF LoopTypeOK, Offer
  <2>2. CASE Comes(o, s) /\ o \in 1 .. placed
    <3>1. reply[o] = "open"
      BY <2>1, LoopReplies
    <3>2. side[Other(s)] = Doing("dialling", o)
      BY <2>2, <3>1, Zenon DEF LoopInv, OffersKept, OpenMeansDialling
    <3>3. CASE Other(s) = t
      <4>0. side[t].what = "dialling" /\ side[t].offer = o
        BY <3>2, <3>3, LoopFields
      <4>1. ~LeavesDial(t) /\ ~GetsCall(t)
        BY <2>1, <3>1, <4>0 DEF LeavesDial, GetsCall
      <4>2. ~DialBegins(t) /\ ~OfferTaken(t) /\ ~LeavesCall(t)
        BY <4>0 DEF DialBegins, OfferTaken, LeavesCall
      <4> QED
        BY <3>2, <3>3, <4>1, <4>2, LoopEffect DEF SeesOffers
    <3>4. CASE Other(s) # t
      BY <3>2, <3>4, LoopEffect, LoopFields
    <3> QED
      BY <3>3, <3>4
  <2>3. CASE ~(Comes(o, s) /\ o \in 1 .. placed)
    <3>1. Comes(o, s) => o \in 1 .. placed
      <4>1. offers[s] \in Seq(1 .. placed) /\ knocks[s] \in 0 .. placed
        BY <1>1 DEF LoopTypeOK
      <4>2. \A i \in DOMAIN offers[s] : offers[s][i] \in 1 .. placed
        BY <4>1, ElementOfSeq, LenProperties
      <4> QED
        BY <2>1, <4>1, <4>2, LoopFields DEF Comes
    <3>2. placed' = placed + 1 /\ o = placed'
      BY <1>0, <1>1, <2>1, <2>3, <3>1, NoneComesAnew
    <3>3. LoopDial(t) /\ DialBegins(t)
      BY <3>2, LoopEffect, LoopFields
    <3>4. side'[t] = Doing("dialling", o)
      BY <3>2, <3>3 DEF DialBegins
    <3>5. s # t
      <4> SUFFICES ASSUME s = t PROVE FALSE
        OBVIOUS
      <4>1. knocks'[s] = 0 /\ offers'[s] = offers[s]
        BY <1>1, <3>3, SMT DEF LoopDial, LoopTypeOK
      <4>2. Comes(o, s)
        BY <2>1, <4>1, Zenon DEF Comes
      <4> QED
        BY <1>1, <3>1, <3>2, <4>2, SMT DEF LoopTypeOK
    <3> QED
      BY <3>4, <3>5
  <2> QED
    BY <2>2, <2>3
<1> QED
  BY <1>2, <1>3, <1>4, <1>5

\* Both ends have the call, or it is over.
LEMMA LoopKeepsCalls ==
  ASSUME LoopInv, NEW t \in Sides, LoopDoes(t)
  PROVE  (AnsweredMeansCall /\ LoopJoined)'
<1> USE OtherEnd
<1>0. LoopNext
  BY Zenon DEF LoopNext, LoopDoes
<1>1. LoopTypeOK /\ LoopTypeOK'
  BY <1>0, LoopTyped DEF LoopInv
<1>2. Other(t) \in Sides
  OBVIOUS
<1>4. side[Other(t)].what = "dialling" /\ reply[side[Other(t)].offer] = "call"
        => side[t] = Doing("call", side[Other(t)].offer)
  BY Zenon DEF LoopInv, OffersKept, AnsweredMeansCall
<1>5. side[t].what = "dialling" /\ reply[side[t].offer] = "call"
        => side[Other(t)] = Doing("call", side[t].offer)
  BY Zenon DEF LoopInv, OffersKept, AnsweredMeansCall
<1>6. side[t].what = "call" => reply[side[t].offer] \in {"call", "over"}
  BY DEF LoopInv, OffersKept, CallMeansAnswered
<1>7. side[Other(t)].what = "call" =>
        /\ reply[side[Other(t)].offer] \in {"call", "over"}
        /\ reply[side[Other(t)].offer] = "over" \/ side[t].offer = side[Other(t)].offer
  BY Zenon DEF LoopInv, OffersKept, CallMeansAnswered, LoopJoined
<1>8. side[t].what = "call" =>
        reply[side[t].offer] = "over" \/ side[Other(t)].offer = side[t].offer
  BY DEF LoopInv, LoopJoined
<1>9. knocks[t] # 0 /\ reply[knocks[t]] = "open"
        => side[Other(t)] = Doing("dialling", knocks[t])
  <2> SUFFICES ASSUME knocks[t] # 0, reply[knocks[t]] = "open"
               PROVE  side[Other(t)] = Doing("dialling", knocks[t])
    OBVIOUS
  <2>1. knocks[t] \in 1 .. placed
    BY <1>1, SMT DEF LoopTypeOK
  <2>2. Comes(knocks[t], t)
    BY DEF Comes
  <2> QED
    BY <2>1, <2>2, Zenon DEF LoopInv, OffersKept, OpenMeansDialling
<1>10. side'[t].what = "dialling" /\ reply'[side'[t].offer] = "call"
         => side'[Other(t)] = Doing("call", side'[t].offer)
  <2>1. CASE DialBegins(t)
    <3>1. reply'[placed + 1] = "open" /\ side'[t].offer = placed + 1
      BY <2>1, LoopFields, LoopReplies DEF DialBegins
    <3> QED
      BY <3>1
  <2>2. CASE SeesOffers(t)
    <3>1. ~OfferTaken(t)
      BY <2>2, LoopFields DEF SeesOffers, OfferTaken
    <3>2. side'[t].what = "dialling" /\ reply'[side'[t].offer] = "call"
            => reply[side[t].offer] = "call"
      BY <2>2, <3>1, LoopFields, LoopReplies DEF SeesOffers
    <3> QED
      BY <1>5, <2>2, <3>2, LoopEffect, LoopFields DEF SeesOffers
  <2> QED
    BY <2>1, <2>2, LoopEffect, LoopFields DEF LeavesDial, GetsCall, OfferTaken, LeavesCall
<1>11. side'[Other(t)].what = "dialling" /\ reply'[side'[Other(t)].offer] = "call"
         => side'[t] = Doing("call", side'[Other(t)].offer)
  <2> SUFFICES ASSUME side[Other(t)].what = "dialling",
                      reply'[side[Other(t)].offer] = "call"
               PROVE  side'[t] = Doing("call", side[Other(t)].offer)
    BY LoopEffect, LoopFields
  <2>1. side[Other(t)].offer \in Offer
    BY <1>2, LoopFields
  <2>2. CASE reply[side[Other(t)].offer] = "call"
    <3>1. side[t] = Doing("call", side[Other(t)].offer)
      BY <1>4, <2>2
    <3>2. ~LeavesCall(t)
      BY <2>1, <3>1, LoopFields DEF LeavesCall, Replied
    <3> QED
      BY <3>1, <3>2, LoopEffect, LoopFields DEF DialBegins, SeesOffers, LeavesDial, GetsCall, OfferTaken
  <2>3. CASE reply[side[Other(t)].offer] # "call"
    BY <2>1, <2>3, LoopReplies DEF OfferTaken
  <2> QED
    BY <2>2, <2>3
<1>12. side'[t].what = "call" =>
         reply'[side'[t].offer] = "over" \/ side'[Other(t)].offer = side'[t].offer
  <2>1. CASE SeesOffers(t)
    BY <1>8, <2>1, LoopEffect, LoopFields, LoopReplies DEF SeesOffers
  <2>2. CASE GetsCall(t)
    BY <1>5, <2>2, LoopEffect, LoopFields, LoopReplies DEF GetsCall
  <2>3. CASE OfferTaken(t)
    BY <1>9, <2>3, LoopEffect, LoopFields DEF OfferTaken
  <2> QED
    BY <2>1, <2>2, <2>3, LoopEffect, LoopFields DEF DialBegins, LeavesDial, LeavesCall
<1>13. side'[Other(t)].what = "call" =>
         reply'[side'[Other(t)].offer] = "over" \/ side'[t].offer = side'[Other(t)].offer
  <2> SUFFICES ASSUME side[Other(t)].what = "call",
                      reply'[side[Other(t)].offer] # "over"
               PROVE  side'[t].offer = side[Other(t)].offer
    BY LoopEffect, LoopFields
  <2>0. side[Other(t)].offer \in Offer
    BY <1>2, LoopFields
  <2>1. /\ reply[side[Other(t)].offer] = "call" /\ side[t].offer = side[Other(t)].offer
        /\ side[t].what \in {"dialling", "call"}
    BY <1>2, <1>7, <2>0, LoopFields, LoopReplies
  <2>2. ~LeavesCall(t)
    BY <2>0, <2>1 DEF LeavesCall, Replied
  <2>3. ~LeavesDial(t)
    BY <2>0, <2>1 DEF LeavesDial, Replied
  <2> QED
    BY <2>1, <2>2, <2>3, LoopEffect, LoopFields DEF DialBegins, SeesOffers, GetsCall, OfferTaken
<1> QED
  BY <1>10, <1>11, <1>12, <1>13, Zenon DEF AnsweredMeansCall, LoopJoined, Doing

LEMMA LoopKeeps == LoopInv /\ [LoopNext]_loopVars => LoopInv'
<1> SUFFICES ASSUME LoopInv, [LoopNext]_loopVars PROVE LoopInv'
  OBVIOUS
<1>1. ASSUME NEW t \in Sides, LoopDoes(t) PROVE LoopInv'
  <2>1. LoopTypeOK'
    BY <1>1, LoopTyped, Zenon DEF LoopInv, LoopNext, LoopDoes
  <2> QED
    BY <1>1, <2>1, LoopKeepsOffers, LoopKeepsCalls DEF LoopInv, OffersKept
<1>2. CASE UNCHANGED loopVars
  BY <1>2 DEF loopVars, LoopInv, LoopTypeOK, OffersKept, LoopJoined, Resting,
    OpenMeansDialling, AnsweredMeansCall, CallMeansAnswered, NotMadeIsOpen, Comes
<1> QED
  BY <1>1, <1>2 DEF LoopNext, LoopDoes

-----------------------------------------------------------------------------
(***************************************************************************)
(* The wire.  What a caller's call rests on: an ANSWER under way, or a     *)
(* call, says that the computer there has answered one of the caller's     *)
(* dials; a DIAL under way, a phone that rings and a dial that waits are   *)
(* about a dial that their caller made.                                    *)
(***************************************************************************)
Kinds == {"DIAL", "ANSWER", "BUSY", "BYE"}
Queue == {q \in Seq(Message) : Len(q) <= LineLength}

\* The computer at f has answered a dial of e's; and about names a dial of e's: when
\* the ends have made so many dials, and these are picked up.
HasPickedUp(made, picked, f, e) == \E d \in 1 .. made[e] : <<f, <<e, d>>>> \in picked
NamesDial(made, e, about) == \E d \in 1 .. made[e] : <<e, d>> \in about

\* A message from e to f.
MessageKnown(made, picked, e, f, m) ==
  /\ m.kind = "ANSWER" => HasPickedUp(made, picked, e, f)
  /\ m.kind = "DIAL" => NamesDial(made, e, m.about)

StateKnown(made, picked, e, s) ==
  /\ s.state = "Call" /\ s.answering => HasPickedUp(made, picked, e, s.far)
  /\ s.state = "Call" /\ ~s.answering => HasPickedUp(made, picked, s.far, e)
  /\ s.state = "Ringing" => NamesDial(made, s.far, s.about)
  /\ s.state \in {"Waiting", "Dialling"} => NamesDial(made, e, s.about)

WireKnown(made, picked, ends, n) ==
  /\ \A e, f \in Ends : \A i \in DOMAIN n[e][f] :
       MessageKnown(made, picked, e, f, n[e][f][i])
  /\ \A e \in Ends : StateKnown(made, picked, e, ends[e])

WireTyped ==
  /\ end \in [Ends -> EndState]
  /\ net \in [Ends -> [Ends -> Queue]]
  /\ dials \in [Ends -> Nat]
  /\ pickedUp \subseteq Ends \X DialId /\ departed \subseteq Ends \X DialId
  /\ plan \in Plans /\ upsets \in 0 .. plan.upsets
  /\ \A e \in Ends : (end[e].state = "Idle") = (end[e].far = None)

WireInv == WireTyped /\ WireKnown(dials, pickedUp, end, net)

\* What is in n2 was in n, but for some of ms from a to b.
NetGains(n, n2, a, b, ms) ==
  \A e, f \in Ends : \A i \in DOMAIN n2[e][f] :
    \/ \E j \in DOMAIN n[e][f] : n2[e][f][i] = n[e][f][j]
    \/ e = a /\ f = b /\ n2[e][f][i] \in ms

\* The queue that a message is added to holds it, or what it held, and no more than it may.
LEMMA AddedHolds ==
  ASSUME NEW q \in Queue, NEW ms \in Seq(Message)
  PROVE  /\ Added(q, ms) \in Queue
         /\ \A i \in DOMAIN Added(q, ms) :
              \/ \E j \in DOMAIN q : Added(q, ms)[i] = q[j]
              \/ \E j \in DOMAIN ms : Added(q, ms)[i] = ms[j]
<1> DEFINE c == q \o ms
<1> LineLength \in Nat BY WireAssumption
<1>1. /\ q \in Seq(Message) /\ c \in Seq(Message) /\ Len(c) = Len(q) + Len(ms)
      /\ \A i \in 1 .. Len(c) : c[i] = IF i <= Len(q) THEN q[i] ELSE ms[i - Len(q)]
  BY ConcatProperties DEF Queue
<1>2. \A i \in DOMAIN c :
        (\E j \in DOMAIN q : c[i] = q[j]) \/ (\E j \in DOMAIN ms : c[i] = ms[j])
  <2> SUFFICES ASSUME NEW i \in 1 .. Len(c)
               PROVE (\E j \in 1 .. Len(q) : c[i] = q[j]) \/ (\E j \in 1 .. Len(ms) : c[i] = ms[j])
    BY <1>1, LenProperties
  <2>1. CASE i <= Len(q)
    BY <2>1, <1>1, LenProperties
  <2>2. CASE i > Len(q)
    <3>1. Len(q) \in Nat /\ Len(ms) \in Nat BY <1>1, LenProperties
    <3>2. i - Len(q) \in 1 .. Len(ms) BY <2>2, <3>1, <1>1
    <3> QED BY <2>2, <3>1, <3>2, <1>1
  <2> QED BY <2>1, <2>2, <1>1, LenProperties
<1>3. CASE Len(c) <= LineLength
  BY <1>1, <1>2, <1>3 DEF Added, Queue
<1>4. CASE ~(Len(c) <= LineLength)
  <2> DEFINE s == SubSeq(c, 1, LineLength)
  <2>1. Len(c) \in Nat /\ LineLength < Len(c) BY <1>1, <1>4, LenProperties
  <2>2. /\ s \in Seq(Message) /\ Len(s) = LineLength
        /\ \A i \in 1 .. LineLength : s[i] = c[i]
    BY <1>1, <2>1, SubSeqProperties
  <2>3. Added(q, ms) = s BY <1>4 DEF Added
  <2>4. DOMAIN s = 1 .. LineLength BY <2>2, LenProperties
  <2>5. DOMAIN s \subseteq DOMAIN c BY <2>1, <2>4, <1>1, LenProperties
  <2> HIDE DEF s, c
  <2>6. \A i \in DOMAIN s :
          (\E j \in DOMAIN q : s[i] = q[j]) \/ (\E j \in DOMAIN ms : s[i] = ms[j])
    BY <2>2, <2>4, <2>5, <1>2
  <2>7. s \in Queue BY <2>2 DEF Queue
  <2> QED BY <2>3, <2>6, <2>7
<1> QED BY <1>3, <1>4

\* What sending does to the net: one queue gains messages of one kind and dial.
LEMMA SendHolds ==
  ASSUME NEW n \in [Ends -> [Ends -> Queue]], NEW a \in Ends, NEW b \in Ends,
         NEW kind \in Kinds, NEW about \in SUBSET DialId, NEW times \in Nat
  PROVE  LET m == [kind |-> kind, about |-> about]
             sent == SendTimes(n, a, b, kind, about, times)
         IN  /\ sent \in [Ends -> [Ends -> Queue]]
             /\ NetGains(n, sent, a, b, {m})
<1> DEFINE m == [kind |-> kind, about |-> about]
           ms == [i \in 1 .. times |-> m]
           sent == SendTimes(n, a, b, kind, about, times)
<1>1. m \in Message BY DEF Message, Kinds
<1>2. ms \in Seq(Message) BY <1>1, IsASeq
<1>3. n[a][b] \in Queue OBVIOUS
<1>4. /\ Added(n[a][b], ms) \in Queue
      /\ \A i \in DOMAIN Added(n[a][b], ms) :
           \/ \E j \in DOMAIN n[a][b] : Added(n[a][b], ms)[i] = n[a][b][j]
           \/ \E j \in DOMAIN ms : Added(n[a][b], ms)[i] = ms[j]
  BY <1>2, <1>3, AddedHolds
<1> DEFINE q == Added(n[a][b], ms)
<1>5. sent = [n EXCEPT ![a] = [n[a] EXCEPT ![b] = q]]
  BY DEF SendTimes
<1>6. \A e, f \in Ends : sent[e][f] = IF e = a /\ f = b THEN q ELSE n[e][f]
  <2> HIDE DEF q, sent
  <2> QED BY <1>5
<1>7. sent \in [Ends -> [Ends -> Queue]]
  <2> HIDE DEF q, sent
  <2> QED BY <1>4, <1>5 DEF q
<1>8. \A i \in DOMAIN q : (\E j \in DOMAIN n[a][b] : q[i] = n[a][b][j]) \/ q[i] = m
  BY <1>4
<1> HIDE DEF q, sent, m
<1>9. \A e, f \in Ends : \A i \in DOMAIN sent[e][f] :
        \/ \E j \in DOMAIN n[e][f] : sent[e][f][i] = n[e][f][j]
        \/ e = a /\ f = b /\ sent[e][f][i] = m
  BY <1>6, <1>8
<1> QED BY <1>7, <1>9 DEF sent, m, NetGains

\* A message that is read or lost leaves the rest as it was.
LEMMA TailHolds ==
  ASSUME NEW n \in [Ends -> [Ends -> Queue]], NEW a \in Ends, NEW b \in Ends,
         n[a][b] # <<>>
  PROVE  LET read == [n EXCEPT ![a][b] = Tail(@)]
         IN  /\ read \in [Ends -> [Ends -> Queue]]
             /\ NetGains(n, read, a, b, {})
<1> DEFINE q == n[a][b]
           t == Tail(q)
           read == [n EXCEPT ![a][b] = Tail(@)]
<1>1. q \in Queue OBVIOUS
<1>2. q \in Seq(Message) /\ Len(q) <= LineLength BY <1>1 DEF Queue
<1>3. /\ Head(q) \in Message /\ t \in Seq(Message)
      /\ Len(t) = Len(q) - 1 /\ Head(q) = q[1] /\ Len(q) \in Nat \ {0}
      /\ \A i \in 1 .. Len(t) : t[i] = q[i + 1]
  BY <1>2, HeadTailProperties, LenProperties, EmptySeq
<1>4. DOMAIN q = 1 .. Len(q) /\ DOMAIN t = 1 .. Len(t) BY <1>2, <1>3, LenProperties
<1>5. LineLength \in Nat BY WireAssumption
<1> HIDE DEF q, t
<1>6. t \in Queue BY <1>2, <1>3, <1>5 DEF Queue
<1>7. \A i \in DOMAIN t : \E j \in DOMAIN q : t[i] = q[j]
  <2> SUFFICES ASSUME NEW i \in 1 .. Len(t) PROVE \E j \in 1 .. Len(q) : t[i] = q[j]
    BY <1>4
  <2>1. i + 1 \in 1 .. Len(q) /\ t[i] = q[i + 1] BY <1>3
  <2> QED BY <2>1
<1>8. read = [n EXCEPT ![a] = [n[a] EXCEPT ![b] = t]] BY DEF t, q
<1>9. \A e, f \in Ends : read[e][f] = IF e = a /\ f = b THEN t ELSE n[e][f]
  <2> HIDE DEF read
  <2> QED BY <1>8
<1>10. read \in [Ends -> [Ends -> Queue]]
  <2> HIDE DEF read
  <2> QED BY <1>6, <1>8
<1> HIDE DEF read
<1>11. \A e, f \in Ends : \A i \in DOMAIN read[e][f] :
         \E j \in DOMAIN n[e][f] : read[e][f][i] = n[e][f][j]
  BY <1>7, <1>9 DEF q
<1> QED BY <1>10, <1>11 DEF read, q, NetGains

\* What is read had been sent.
LEMMA HeadHolds ==
  ASSUME NEW q \in Queue, q # <<>>
  PROVE  Head(q) \in Message /\ \E j \in DOMAIN q : Head(q) = q[j]
BY HeadTailProperties, LenProperties, EmptySeq DEF Queue

\* A step of e, which goes to s, may answer a dial, make one, and gain messages of ms from
\* a to b that say what they know.
Moves(e, s, a, b, ms) ==
  /\ end' = [end EXCEPT ![e] = s] /\ (s.state = "Idle" <=> s.far = None)
  /\ dials' \in [Ends -> Nat] /\ \A f \in Ends : dials[f] <= dials'[f]
  /\ pickedUp \subseteq pickedUp' /\ StateKnown(dials', pickedUp', e, s)
  /\ net' \in [Ends -> [Ends -> Queue]] /\ NetGains(net, net', a, b, ms)
  /\ \A m \in ms : MessageKnown(dials', pickedUp', a, b, m)
  /\ pickedUp' \subseteq Ends \X DialId /\ departed' \subseteq Ends \X DialId
  /\ plan' = plan /\ upsets' \in 0 .. plan.upsets

\* What the others know they go on knowing.
LEMMA WireMoves ==
  ASSUME WireInv, NEW e \in Ends, NEW s \in EndState, NEW a \in Ends, NEW b \in Ends,
         NEW ms, Moves(e, s, a, b, ms)
  PROVE  WireInv'
<1> USE DEF Moves
<1> DEFINE D == dials
           D2 == dials'
           P == pickedUp
           P2 == pickedUp'
<1>1. D \in [Ends -> Nat] /\ end \in [Ends -> EndState] BY DEF WireInv, WireTyped
<1>2. \A x \in Ends : 1 .. D[x] \subseteq 1 .. D2[x]
  BY <1>1
<1>3. \A x, y \in Ends : HasPickedUp(D, P, x, y) => HasPickedUp(D2, P2, x, y)
  BY <1>2 DEF HasPickedUp
<1>4. \A x \in Ends : \A about : NamesDial(D, x, about) => NamesDial(D2, x, about)
  BY <1>2 DEF NamesDial
<1>5. \A x, y \in Ends : \A m : MessageKnown(D, P, x, y, m) => MessageKnown(D2, P2, x, y, m)
  BY <1>3, <1>4 DEF MessageKnown
<1>6. WireKnown(D, P, end, net) BY DEF WireInv
<1>7. \A x \in Ends : end[x].state # "Idle" => end[x].far \in Ends
  BY <1>1 DEF WireInv, WireTyped, EndState
<1>8. \A x \in Ends : StateKnown(D, P, x, end[x]) => StateKnown(D2, P2, x, end[x])
  BY <1>3, <1>4, <1>7 DEF StateKnown
<1> HIDE DEF D, D2, P, P2
<1>9. \A x \in Ends : end'[x] = IF x = e THEN s ELSE end[x]
  BY <1>1
<1>10. \A x \in Ends : StateKnown(D2, P2, x, end'[x])
  BY <1>6, <1>8, <1>9 DEF WireKnown, D2, P2
<1>11. ASSUME NEW x \in Ends, NEW y \in Ends, NEW i \in DOMAIN net'[x][y]
       PROVE  MessageKnown(D2, P2, x, y, net'[x][y][i])
  <2>1. CASE \E j \in DOMAIN net[x][y] : net'[x][y][i] = net[x][y][j]
    BY <2>1, <1>5, <1>6 DEF WireKnown
  <2>2. CASE x = a /\ y = b /\ net'[x][y][i] \in ms
    BY <2>2 DEF D2, P2
  <2> QED BY <2>1, <2>2 DEF NetGains
<1>12. WireKnown(D2, P2, end', net')
  BY <1>10, <1>11 DEF WireKnown
<1>13. /\ end' \in [Ends -> EndState]
       /\ \A x \in Ends : (end'[x].state = "Idle") = (end'[x].far = None)
  BY <1>1, <1>9 DEF WireInv, WireTyped
<1>14. WireTyped'
  BY <1>13 DEF WireInv, WireTyped
<1> QED BY <1>12, <1>14 DEF WireInv, D2, P2

\* The parts of an end's state.
LEMMA WireEnd ==
  ASSUME WireInv, NEW e \in Ends
  PROVE  /\ end[e] \in EndState /\ end[e].about \in SUBSET DialId
         /\ end[e].state \in States /\ end[e].answering \in BOOLEAN
         /\ end[e].state # "Idle" => end[e].far \in Ends
         /\ end[e].state = "Idle" => end[e].far = None
         /\ StateKnown(dials, pickedUp, e, end[e])
         /\ Idle \in EndState /\ Idle.state = "Idle" /\ Idle.far = None
BY WireAssumption DEF WireInv, WireTyped, WireKnown, EndState, States, Idle

LEMMA NetStays == \A n : \A a, b \in Ends : \A ms : NetGains(n, n, a, b, ms)
BY DEF NetGains

\* Who may leave what.
LEMMA LeftTyped ==
  ASSUME WireInv, NEW e \in Ends, NEW t
  PROVE  Left(end[e], t, e) \subseteq Ends \X DialId
BY WireEnd DEF WireInv, WireTyped, Left

\* An end gives up what it does, and may tell the far end so.
LEMMA WireGivesUp ==
  ASSUME WireInv, NEW e \in Ends, end' = [end EXCEPT ![e] = Idle],
         NEW kind \in {"BUSY", "BYE"}, NEW times \in Nat,
         \/ net' = net
         \/ /\ end[e].state # "Idle"
            /\ net' = SendTimes(net, e, end[e].far, kind, end[e].about, times),
         UNCHANGED <<plan, dials, pickedUp>>, upsets' \in 0 .. plan.upsets,
         departed' \subseteq Ends \X DialId
  PROVE  WireInv'
<1>1. /\ StateKnown(dials', pickedUp', e, Idle)
      /\ dials' \in [Ends -> Nat] /\ \A f \in Ends : dials[f] <= dials'[f]
      /\ pickedUp' \subseteq Ends \X DialId
      /\ net \in [Ends -> [Ends -> Queue]]
  BY DEF StateKnown, Idle, WireInv, WireTyped
<1>2. CASE net' = net
  <2>1. NetGains(net, net', e, e, {}) BY <1>2, NetStays
  <2>2. Moves(e, Idle, e, e, {})
    BY <1>1, <1>2, <2>1, WireEnd DEF Moves
  <2> QED BY <2>2, WireEnd, WireMoves
<1>3. CASE end[e].state # "Idle"
           /\ net' = SendTimes(net, e, end[e].far, kind, end[e].about, times)
  <2> DEFINE f == end[e].far
             m == [kind |-> kind, about |-> end[e].about]
  <2>1. f \in Ends /\ end[e].about \in SUBSET DialId BY <1>3, WireEnd
  <2>2. net' \in [Ends -> [Ends -> Queue]] /\ NetGains(net, net', e, f, {m})
    BY <1>1, <1>3, <2>1, SendHolds DEF Kinds
  <2>3. \A x \in {m} : MessageKnown(dials', pickedUp', e, f, x)
    BY DEF MessageKnown
  <2> HIDE DEF m, f
  <2>4. Moves(e, Idle, e, f, {m})
    BY <1>1, <2>1, <2>2, <2>3, WireEnd DEF Moves
  <2> QED BY <2>1, <2>4, WireEnd, WireMoves
<1> QED BY <1>2, <1>3

LEMMA WireAsks ==
  ASSUME WireInv, NEW e \in Ends,
         \/ PlaceCall(e) \/ StartDial(e) \/ RepeatDial(e) \/ Answer(e)
  PROVE  WireInv'
<1>0. /\ end \in [Ends -> EndState] /\ net \in [Ends -> [Ends -> Queue]]
      /\ dials \in [Ends -> Nat] /\ upsets \in 0 .. plan.upsets
      /\ pickedUp \subseteq Ends \X DialId /\ departed \subseteq Ends \X DialId
      /\ \A f \in Ends : f # None
  BY WireAssumption DEF WireInv, WireTyped
<1>1. ASSUME PlaceCall(e) PROVE WireInv'
  <2> DEFINE s == [state |-> "Waiting", far |-> Peer[e], answering |-> FALSE,
                   about |-> {<<e, dials'[e]>>}]
  <2>1. /\ dials' = [dials EXCEPT ![e] = @ + 1] /\ end' = [end EXCEPT ![e] = s]
        /\ UNCHANGED <<plan, pickedUp, departed, upsets>>
    BY <1>1 DEF PlaceCall
  <2>2. /\ dials' \in [Ends -> Nat] /\ \A f \in Ends : dials[f] <= dials'[f]
        /\ dials'[e] \in Nat \ {0}
    BY <1>0, <2>1
  <2>3. Peer[e] \in Ends BY WireAssumption
  <2>4. s \in EndState /\ s.state = "Waiting" /\ s.far # None
    BY <1>0, <2>2, <2>3 DEF EndState, States, DialId
  <2>5. NamesDial(dials', e, s.about)
    BY <2>2 DEF NamesDial
  <2>6. StateKnown(dials', pickedUp', e, s)
    BY <2>5 DEF StateKnown
  <2> HIDE DEF s
  <2>7. CASE end[e].state = "Ringing"
    <3> DEFINE f == end[e].far
               m == [kind |-> "BUSY", about |-> end[e].about]
    <3>1. net' = SendTimes(net, e, f, "BUSY", end[e].about, 1)
      BY <1>1, <2>7 DEF PlaceCall, Send
    <3>2. f \in Ends /\ end[e].about \in SUBSET DialId BY <2>7, WireEnd
    <3>3. net' \in [Ends -> [Ends -> Queue]] /\ NetGains(net, net', e, f, {m})
      BY <1>0, <3>1, <3>2, SendHolds DEF Kinds
    <3>4. \A x \in {m} : MessageKnown(dials', pickedUp', e, f, x)
      BY DEF MessageKnown
    <3> HIDE DEF f, m
    <3>5. Moves(e, s, e, f, {m})
      BY <1>0, <2>1, <2>2, <2>4, <2>6, <3>3, <3>4 DEF Moves
    <3> QED BY <2>4, <3>2, <3>5, WireMoves
  <2>8. CASE end[e].state # "Ringing"
    <3>1. net' = net BY <1>1, <2>8 DEF PlaceCall
    <3>2. NetGains(net, net', e, e, {}) BY <3>1, NetStays
    <3>3. Moves(e, s, e, e, {})
      BY <1>0, <2>1, <2>2, <2>4, <2>6, <3>1, <3>2 DEF Moves
    <3> QED BY <2>4, <3>3, WireMoves
  <2> QED BY <2>7, <2>8
<1>2. ASSUME StartDial(e) \/ RepeatDial(e) PROVE WireInv'
  <2> DEFINE s == [end[e] EXCEPT !.state = "Dialling"]
             f == end[e].far
             m == [kind |-> "DIAL", about |-> end[e].about]
  <2>1. /\ end[e].state \in {"Waiting", "Dialling"}
        /\ net' = SendTimes(net, e, f, "DIAL", end[e].about, 1)
        /\ UNCHANGED <<plan, dials, pickedUp, departed, upsets>>
    BY <1>2 DEF StartDial, RepeatDial, Send
  <2>2. end' = [end EXCEPT ![e] = s]
    <3>1. CASE StartDial(e) BY <3>1, <1>0 DEF StartDial
    <3>2. CASE RepeatDial(e) BY <3>2, <1>0 DEF RepeatDial, EndState
    <3> QED BY <1>2, <3>1, <3>2
  <2>3. f \in Ends /\ end[e].about \in SUBSET DialId /\ end[e] \in EndState
    BY <2>1, WireEnd
  <2>4. s \in EndState /\ s.state = "Dialling" /\ s.far = f /\ s.about = end[e].about
    BY <2>3 DEF EndState, States
  <2>5. NamesDial(dials, e, end[e].about)
    BY <2>1, WireEnd DEF StateKnown
  <2>6. StateKnown(dials', pickedUp', e, s)
    BY <2>1, <2>4, <2>5 DEF StateKnown
  <2>7. net' \in [Ends -> [Ends -> Queue]] /\ NetGains(net, net', e, f, {m})
    BY <1>0, <2>1, <2>3, SendHolds DEF Kinds
  <2>8. \A x \in {m} : MessageKnown(dials', pickedUp', e, f, x)
    BY <2>1, <2>5 DEF MessageKnown
  <2>9. dials' \in [Ends -> Nat] /\ \A x \in Ends : dials[x] <= dials'[x]
    BY <1>0, <2>1
  <2> HIDE DEF s, f, m
  <2>10. Moves(e, s, e, f, {m})
    BY <1>0, <2>1, <2>2, <2>3, <2>4, <2>6, <2>7, <2>8, <2>9 DEF Moves
  <2> QED BY <2>3, <2>4, <2>10, WireMoves
<1>3. ASSUME Answer(e) PROVE WireInv'
  <2> DEFINE f == end[e].far
             about == end[e].about
             s == CallWith(f, TRUE, about)
             m == [kind |-> "ANSWER", about |-> about]
  <2>1. /\ end[e].state = "Ringing" /\ end' = [end EXCEPT ![e] = s]
        /\ net' = SendTimes(net, e, f, "ANSWER", about, 1)
        /\ pickedUp' = pickedUp \cup ({e} \X about)
        /\ UNCHANGED <<plan, dials, departed, upsets>>
    BY <1>3, <1>0 DEF Answer, Send
  <2>2. f \in Ends /\ about \in SUBSET DialId
    BY <2>1, WireEnd
  <2>3. s \in EndState /\ s.state = "Call" /\ s.far = f /\ s.answering
    BY <2>2 DEF EndState, States, CallWith
  <2>4. NamesDial(dials, f, about)
    BY <2>1, WireEnd DEF StateKnown
  <2>5. HasPickedUp(dials', pickedUp', e, f)
    <3>1. PICK d \in 1 .. dials[f] : <<f, d>> \in about BY <2>4 DEF NamesDial
    <3>2. <<e, <<f, d>>>> \in pickedUp' BY <2>1, <3>1
    <3> QED BY <2>1, <3>1, <3>2 DEF HasPickedUp
  <2>6. StateKnown(dials', pickedUp', e, s)
    BY <2>3, <2>5 DEF StateKnown
  <2>7. net' \in [Ends -> [Ends -> Queue]] /\ NetGains(net, net', e, f, {m})
    BY <1>0, <2>1, <2>2, SendHolds DEF Kinds
  <2>8. \A x \in {m} : MessageKnown(dials', pickedUp', e, f, x)
    BY <2>5 DEF MessageKnown
  <2>9. /\ dials' \in [Ends -> Nat] /\ \A x \in Ends : dials[x] <= dials'[x]
        /\ pickedUp \subseteq pickedUp' /\ pickedUp' \subseteq Ends \X DialId
    BY <1>0, <2>1, <2>2
  <2> HIDE DEF s, f, m, about
  <2>10. Moves(e, s, e, f, {m})
    BY <1>0, <2>1, <2>2, <2>3, <2>6, <2>7, <2>8, <2>9 DEF Moves
  <2> QED BY <2>2, <2>3, <2>10, WireMoves
<1> QED BY <1>1, <1>2, <1>3

\* What a handler makes of a message of f that is known.
Handled(e, f, m, o) ==
  /\ o.state \in EndState /\ (o.state.state = "Idle") = (o.state.far = None)
  /\ StateKnown(dials, pickedUp, e, o.state)
  /\ o.reply # None =>
       /\ o.reply \in Kinds
       /\ MessageKnown(dials, pickedUp, e, f, [kind |-> o.reply, about |-> m.about])

LEMMA HandlersKnow ==
  ASSUME WireInv, NEW e \in Ends, NEW f \in Ends, NEW m \in Message,
         MessageKnown(dials, pickedUp, f, e, m)
  PROVE  /\ end[e].state \in {"Idle", "Ringing"} => Handled(e, f, m, Incoming(end[e], f, m))
         /\ end[e].state = "Dialling" => Handled(e, f, m, Dialling(end[e], f, m))
         /\ end[e].state = "Call" => Handled(e, f, m, InSession(end[e], f, m))
<1> DEFINE s == end[e]
<1>1. /\ s \in EndState /\ s.about \in SUBSET DialId
      /\ s.state # "Idle" => s.far \in Ends
      /\ s.state = "Idle" => s.far = None
      /\ StateKnown(dials, pickedUp, e, s)
      /\ Idle \in EndState /\ Idle.state = "Idle" /\ Idle.far = None
  BY WireEnd
<1>2. f # None /\ (s.state # "Idle" => s.far # None) BY <1>1, WireAssumption
<1>3. m.kind \in Kinds /\ m.about \in SUBSET DialId BY DEF Message, Kinds
<1> HIDE DEF s
<1>4. StateKnown(dials, pickedUp, e, Idle) BY DEF StateKnown, Idle
<1>5. Handled(e, f, m, Outcome(s, None)) BY <1>1, <1>2 DEF Handled, Outcome
<1>6. Handled(e, f, m, Outcome(s, "BUSY"))
  BY <1>1, <1>2 DEF Handled, Outcome, Kinds, MessageKnown
<1>7. Handled(e, f, m, Outcome(Idle, None)) BY <1>1, <1>4 DEF Handled, Outcome
<1>8. ASSUME s.state \in {"Idle", "Ringing"} PROVE Handled(e, f, m, Incoming(s, f, m))
  <2>1. CASE m.kind = "DIAL" /\ s.state = "Idle"
    <3> DEFINE t == RingingFor(f, m.about)
    <3>1. t \in EndState /\ t.state = "Ringing" /\ t.far = f /\ t.about = m.about
      BY <1>3 DEF EndState, States, RingingFor
    <3>2. NamesDial(dials, f, m.about) BY <2>1 DEF MessageKnown
    <3>3. StateKnown(dials, pickedUp, e, t) BY <3>1, <3>2 DEF StateKnown
    <3>4. Incoming(s, f, m) = Outcome(t, None) BY <2>1 DEF Incoming
    <3> HIDE DEF t
    <3> QED BY <1>2, <3>1, <3>3, <3>4 DEF Handled, Outcome
  <2>2. CASE m.kind = "DIAL" /\ s.state = "Ringing" /\ f = s.far
    <3> DEFINE t == [s EXCEPT !.about = m.about]
    <3>1. t \in EndState /\ t.state = "Ringing" /\ t.far = f /\ t.about = m.about
      BY <1>1, <1>3, <2>2 DEF EndState
    <3>2. NamesDial(dials, f, m.about) BY <2>2 DEF MessageKnown
    <3>3. StateKnown(dials, pickedUp, e, t) BY <3>1, <3>2 DEF StateKnown
    <3>4. Incoming(s, f, m) = Outcome(t, None) BY <2>2 DEF Incoming
    <3> HIDE DEF t
    <3> QED BY <1>2, <3>1, <3>3, <3>4 DEF Handled, Outcome
  <2>3. CASE m.kind = "DIAL" /\ s.state = "Ringing" /\ f # s.far
    BY <2>3, <1>6 DEF Incoming
  <2>4. CASE m.kind = "BYE" /\ s.state = "Ringing" /\ f = s.far
    BY <2>4, <1>7 DEF Incoming
  <2>5. CASE ~(m.kind = "DIAL" \/ (m.kind = "BYE" /\ s.state = "Ringing" /\ f = s.far))
    BY <2>5, <1>5 DEF Incoming
  <2> QED BY <1>8, <2>1, <2>2, <2>3, <2>4, <2>5
<1>9. ASSUME s.state = "Dialling" PROVE Handled(e, f, m, Dialling(s, f, m))
  <2>1. CASE f = s.far /\ m.kind = "ANSWER"
    <3> DEFINE t == CallWith(f, FALSE, s.about \cup m.about)
    <3>1. t \in EndState /\ t.state = "Call" /\ t.far = f /\ ~t.answering
      BY <1>1, <1>3 DEF EndState, States, CallWith
    <3>2. HasPickedUp(dials, pickedUp, f, e) BY <2>1 DEF MessageKnown
    <3>3. StateKnown(dials, pickedUp, e, t) BY <3>1, <3>2 DEF StateKnown
    <3>4. Dialling(s, f, m) = Outcome(t, None) BY <2>1 DEF Dialling
    <3> HIDE DEF t
    <3> QED BY <1>2, <3>1, <3>3, <3>4 DEF Handled, Outcome
  <2>2. CASE f = s.far /\ m.kind = "BUSY"
    BY <2>2, <1>7 DEF Dialling
  <2>3. CASE ~(f = s.far /\ m.kind \in {"ANSWER", "BUSY"})
    BY <2>3, <1>5 DEF Dialling
  <2> QED BY <2>1, <2>2, <2>3
<1>10. ASSUME s.state = "Call" PROVE Handled(e, f, m, InSession(s, f, m))
  <2>1. CASE f # s.far /\ m.kind = "DIAL"
    BY <2>1, <1>6 DEF InSession
  <2>2. CASE f = s.far /\ m.kind = "BYE"
    BY <2>2, <1>7 DEF InSession
  <2>3. CASE f = s.far /\ m.kind = "DIAL" /\ s.answering
    <3> DEFINE t == [s EXCEPT !.about = @ \cup m.about]
    <3>1. t \in EndState /\ t.state = "Call" /\ t.far = f /\ t.answering
      BY <1>1, <1>3, <1>10, <2>3 DEF EndState
    <3>2. HasPickedUp(dials, pickedUp, e, f)
      BY <1>1, <1>10, <2>3 DEF StateKnown
    <3>3. StateKnown(dials, pickedUp, e, t) BY <3>1, <3>2 DEF StateKnown
    <3>4. InSession(s, f, m) = Outcome(t, "ANSWER") BY <2>3 DEF InSession
    <3> HIDE DEF t
    <3> QED BY <1>2, <3>1, <3>2, <3>3, <3>4 DEF Handled, Outcome, Kinds, MessageKnown
  <2>4. CASE ~(\/ f # s.far /\ m.kind = "DIAL"
               \/ f = s.far /\ m.kind = "BYE"
               \/ f = s.far /\ m.kind = "DIAL" /\ s.answering)
    BY <2>4, <1>5 DEF InSession
  <2> QED BY <2>1, <2>2, <2>3, <2>4
<1> QED BY <1>8, <1>9, <1>10 DEF s

LEMMA WireReads ==
  ASSUME WireInv, NEW e \in Ends, NEW f \in Ends, Read(e, f)
  PROVE  WireInv'
<1> DEFINE m == Head(net[f][e])
           read == [net EXCEPT ![f][e] = Tail(@)]
           s == end[e]
           o == CASE s.state \in {"Idle", "Ringing"} -> Incoming(s, f, m)
                  [] s.state = "Dialling" -> Dialling(s, f, m)
                  [] s.state = "Call" -> InSession(s, f, m)
<1>0. /\ end \in [Ends -> EndState] /\ net \in [Ends -> [Ends -> Queue]]
      /\ dials \in [Ends -> Nat] /\ upsets \in 0 .. plan.upsets
      /\ pickedUp \subseteq Ends \X DialId /\ departed \subseteq Ends \X DialId
  BY DEF WireInv, WireTyped
<1>1. /\ net[f][e] # <<>> /\ s.state # "Waiting"
      /\ end' = [end EXCEPT ![e] = o.state]
      /\ net' = IF o.reply = None THEN read
                ELSE SendTimes(read, e, f, o.reply, m.about, 1)
      /\ UNCHANGED <<plan, dials, pickedUp, upsets>>
      /\ departed' = Left(end[e], end'[e], e)
  BY DEF Read, Send
<1>2. /\ read \in [Ends -> [Ends -> Queue]] /\ NetGains(net, read, f, e, {})
      /\ m \in Message /\ \E j \in DOMAIN net[f][e] : m = net[f][e][j]
  <2>1. net \in [Ends -> [Ends -> Queue]] /\ net[f][e] # <<>>
    BY <1>0, <1>1
  <2>2. read \in [Ends -> [Ends -> Queue]] /\ NetGains(net, read, f, e, {})
    BY <2>1, TailHolds
  <2>3. net[f][e] \in Queue
    BY <2>1
  <2>4. m \in Message /\ \E j \in DOMAIN net[f][e] : m = net[f][e][j]
    BY <2>1, <2>3, HeadHolds
  <2> QED
    BY <2>2, <2>4
<1>3. MessageKnown(dials, pickedUp, f, e, m)
  BY <1>2 DEF WireInv, WireKnown
<1>4. s.state \in States /\ s.state # "Waiting" BY <1>1, WireEnd
<1>5. Handled(e, f, m, o)
  <2> HIDE DEF m
  <2>1. CASE s.state \in {"Idle", "Ringing"} BY <2>1, <1>2, <1>3, HandlersKnow
  <2>2. CASE s.state = "Dialling" BY <2>2, <1>2, <1>3, HandlersKnow
  <2>3. CASE s.state = "Call" BY <2>3, <1>2, <1>3, HandlersKnow
  <2> QED BY <1>4, <2>1, <2>2, <2>3 DEF States
<1>6. m.about \in SUBSET DialId BY <1>2 DEF Message
<1>7. departed' \subseteq Ends \X DialId BY <1>1, LeftTyped
<1> HIDE DEF m, read, s, o
<1> DEFINE t == [kind |-> o.reply, about |-> m.about]
           ms == IF o.reply = None THEN {} ELSE {t}
<1>8. net' \in [Ends -> [Ends -> Queue]] /\ NetGains(net, net', e, f, ms)
  <2>1. CASE o.reply = None
    BY <2>1, <1>1, <1>2 DEF NetGains
  <2>2. CASE o.reply # None
    <3>1. o.reply \in Kinds BY <2>2, <1>5 DEF Handled
    <3>2. net' \in [Ends -> [Ends -> Queue]] /\ NetGains(read, net', e, f, {t})
      BY <1>1, <1>2, <1>6, <2>2, <3>1, SendHolds
    <3> HIDE DEF t
    <3>3. ASSUME NEW x \in Ends, NEW y \in Ends, NEW i \in DOMAIN net'[x][y]
          PROVE  \/ \E j \in DOMAIN net[x][y] : net'[x][y][i] = net[x][y][j]
                 \/ x = e /\ y = f /\ net'[x][y][i] \in {t}
      <4>1. CASE x = e /\ y = f /\ net'[x][y][i] \in {t} BY <4>1
      <4>2. ASSUME NEW k \in DOMAIN read[x][y], net'[x][y][i] = read[x][y][k]
            PROVE  \E j \in DOMAIN net[x][y] : net'[x][y][i] = net[x][y][j]
        <5>1. \E j \in DOMAIN net[x][y] : read[x][y][k] = net[x][y][j]
          BY <1>2 DEF NetGains
        <5> QED BY <4>2, <5>1
      <4> QED BY <3>2, <4>1, <4>2 DEF NetGains
    <3> QED BY <2>2, <3>2, <3>3 DEF NetGains
  <2> QED BY <2>1, <2>2
<1>9. \A x \in ms : MessageKnown(dials', pickedUp', e, f, x)
  BY <1>1, <1>5 DEF Handled
<1>10. /\ StateKnown(dials', pickedUp', e, o.state) /\ o.state \in EndState
       /\ (o.state.state = "Idle") = (o.state.far = None)
  BY <1>1, <1>5 DEF Handled
<1>11. dials' \in [Ends -> Nat] /\ \A x \in Ends : dials[x] <= dials'[x]
  BY <1>0, <1>1
<1> HIDE DEF ms
<1>12. Moves(e, o.state, e, f, ms)
  BY <1>0, <1>1, <1>7, <1>8, <1>9, <1>10, <1>11 DEF Moves
<1> QED BY <1>10, <1>12, WireMoves

LEMMA WireInitially == WireInit => WireInv
<1> SUFFICES ASSUME WireInit PROVE WireInv
  OBVIOUS
<1> USE DEF WireInit
<1>1. Idle \in EndState /\ \A e \in Ends : end[e] = Idle
  BY DEF EndState, States, Idle
<1>2. <<>> \in Queue
  BY WireAssumption DEF Queue
<1>3. plan.upsets \in Nat
  BY WireAssumption
<1>4. WireTyped
  BY <1>1, <1>2, <1>3 DEF WireTyped, Idle
<1>5. WireKnown(dials, pickedUp, end, net)
  BY <1>1 DEF WireKnown, StateKnown, Idle
<1> QED BY <1>4, <1>5 DEF WireInv

LEMMA WireKeeps == WireInv /\ [WireNext]_wireVars => WireInv'
<1> SUFFICES ASSUME WireInv, [WireNext]_wireVars PROVE WireInv'
  OBVIOUS
<1>0. /\ upsets \in 0 .. plan.upsets /\ departed \subseteq Ends \X DialId
      /\ \A p \in Plans : p.upsets \in Nat
      /\ 1 \in Nat /\ ByeRepeats \in Nat
  BY WireAssumption DEF WireInv, WireTyped
<1>1. ASSUME NEW e \in Ends, DropDial(e) \/ HangUp(e) \/ Reject(e) PROVE WireInv'
  <2>1. end[e].state # "Idle" /\ end' = [end EXCEPT ![e] = Idle]
    BY <1>1 DEF DropDial, HangUp, Reject
  <2>2. departed' \subseteq Ends \X DialId
    BY <1>0, <1>1, LeftTyped DEF DropDial, HangUp, Reject
  <2>3. upsets' \in 0 .. plan.upsets /\ UNCHANGED <<plan, dials, pickedUp>>
    BY <1>0, <1>1 DEF DropDial, HangUp, Reject
  <2>4. CASE net' = net BY <2>1, <2>2, <2>3, <2>4, <1>0, WireGivesUp
  <2>5. CASE net' = SendTimes(net, e, end[e].far, "BYE", end[e].about, 1)
    BY <2>1, <2>2, <2>3, <2>5, <1>0, WireGivesUp
  <2>6. CASE net' = SendTimes(net, e, end[e].far, "BYE", end[e].about, ByeRepeats)
    BY <2>1, <2>2, <2>3, <2>6, <1>0, WireGivesUp
  <2>7. CASE net' = SendTimes(net, e, end[e].far, "BUSY", end[e].about, 1)
    BY <2>1, <2>2, <2>3, <2>7, <1>0, WireGivesUp
  <2> QED BY <1>1, <2>4, <2>5, <2>6, <2>7 DEF DropDial, HangUp, Reject, Send
<1>2. ASSUME NEW e \in Ends, RingTimeout(e) \/ FarEndSilent(e) \/ EarlyTimer(e)
      PROVE  WireInv'
  <2>1. /\ end' = [end EXCEPT ![e] = Idle] /\ net' = net
        /\ UNCHANGED <<plan, dials, pickedUp>>
    BY <1>2 DEF RingTimeout, FarEndSilent, EarlyTimer
  <2>2. departed' \subseteq Ends \X DialId
    BY <1>0, <1>2, LeftTyped DEF RingTimeout, FarEndSilent, EarlyTimer
  <2>3. upsets' \in 0 .. plan.upsets
    <3>1. plan.upsets \in Nat BY <1>0 DEF WireInv, WireTyped
    <3> QED BY <1>0, <1>2, <3>1 DEF RingTimeout, FarEndSilent, EarlyTimer
  <2> QED BY <2>1, <2>2, <2>3, <1>0, WireGivesUp
<1>3. ASSUME NEW e \in Ends, NEW f \in Ends, Lose(e, f) PROVE WireInv'
  <2>0. /\ end \in [Ends -> EndState] /\ net \in [Ends -> [Ends -> Queue]]
        /\ dials \in [Ends -> Nat] /\ plan.upsets \in Nat
        /\ pickedUp \subseteq Ends \X DialId
    BY <1>0 DEF WireInv, WireTyped
  <2>1. /\ net[e][f] # <<>> /\ upsets < plan.upsets /\ upsets' = upsets + 1
        /\ net' = [net EXCEPT ![e][f] = Tail(@)]
        /\ UNCHANGED <<end, plan, dials, pickedUp, departed>>
    BY <1>3 DEF Lose, Pending
  <2>2. net' \in [Ends -> [Ends -> Queue]] /\ NetGains(net, net', e, f, {})
    BY <2>0, <2>1, TailHolds
  <2>3. /\ end[e] \in EndState /\ (end[e].state = "Idle") = (end[e].far = None)
        /\ StateKnown(dials', pickedUp', e, end[e])
        /\ end' = [end EXCEPT ![e] = end[e]]
    BY <2>0, <2>1, WireEnd DEF WireInv, WireTyped
  <2>4. upsets' \in 0 .. plan.upsets /\ dials' \in [Ends -> Nat]
        /\ \A x \in Ends : dials[x] <= dials'[x]
    BY <1>0, <2>0, <2>1
  <2>5. Moves(e, end[e], e, f, {})
    BY <1>0, <2>0, <2>1, <2>2, <2>3, <2>4 DEF Moves
  <2> QED BY <2>3, <2>5, WireMoves
<1>4. ASSUME NEW e \in Ends, PlaceCall(e) \/ StartDial(e) \/ RepeatDial(e) \/ Answer(e)
      PROVE  WireInv'
  BY <1>4, WireAsks
<1>5. ASSUME NEW e \in Ends, NEW f \in Ends, Read(e, f) PROVE WireInv'
  BY <1>5, WireReads
<1>6. CASE UNCHANGED wireVars
  BY <1>6 DEF wireVars, WireInv, WireTyped
<1> QED BY <1>1, <1>2, <1>3, <1>4, <1>5, <1>6 DEF WireNext

\* Known is enough for nobody to barge in, and the type invariant of Wire follows too.
LEMMA WireHolds == WireInv => WireTypeOK /\ NoBargingIn
<1> SUFFICES ASSUME WireInv PROVE WireTypeOK /\ NoBargingIn
  OBVIOUS
<1>1. WireTypeOK
  <2>1. /\ net \in [Ends -> [Ends -> Queue]] /\ WireTyped BY DEF WireInv, WireTyped
  <2>2. \A e, f \in Ends : net[e][f] \in Queue BY <2>1
  <2>3. \A e, f \in Ends : net[e][f] \in Seq(Message) /\ Len(net[e][f]) <= LineLength
    BY <2>2 DEF Queue
  <2>4. net \in [Ends -> [Ends -> Seq(Message)]] BY <2>1, <2>3
  <2> QED BY <2>1, <2>3, <2>4 DEF WireTyped, WireTypeOK
<1>2. NoBargingIn
  <2> SUFFICES ASSUME NEW e \in Ends, NEW f \in Ends, InCallWith(e, f), ~end[e].answering
               PROVE  \E d \in 1 .. dials[e] : <<f, <<e, d>>>> \in pickedUp
    BY DEF NoBargingIn
  <2> QED BY WireEnd DEF InCallWith, StateKnown, HasPickedUp
<1> QED BY <1>1, <1>2

-----------------------------------------------------------------------------
(***************************************************************************)
(* Whose call it is.  A DIAL or an ANSWER under way, a phone that rings    *)
(* and a call are about a dial that the far end has left, or that it is    *)
(* still about, and then no BYE of the far end's is on its way behind it.  *)
(* It is because a socket keeps the order of what is sent: a BYE about an  *)
(* earlier call is read before the DIAL or the ANSWER of the next.         *)
(***************************************************************************)
About(f, e, d) ==
  end[f].state \in {"Dialling", "Call"} /\ end[f].far = e /\ d \in end[f].about

NoBye(q, i) == \A j \in DOMAIN q : j > i => q[j].kind # "BYE"

\* What is said of f behind place i of its messages to e.
Vouched(f, e, about, i) ==
  \E d \in about :
    <<f, d>> \in departed \/ (About(f, e, d) /\ NoBye(net[f][e], i))

Backed ==
  /\ \A f, e \in Ends : \A i \in DOMAIN net[f][e] :
       net[f][e][i].kind \in {"DIAL", "ANSWER"} => Vouched(f, e, net[f][e][i].about, i)
  /\ \A e \in Ends :
       /\ end[e].state \in {"Ringing", "Call"} => Vouched(end[e].far, e, end[e].about, 0)
       /\ end[e].state \in {"Waiting", "Dialling"} => end[e].about # {}

\* q has become q2: k messages of it have been read, and some of ms were added.
Shifted(q, q2, k, ms) ==
  \A i \in DOMAIN q2 :
    IF i + k \in DOMAIN q THEN q2[i] = q[i + k] ELSE q2[i] \in ms

\* A step of e: read[f][g] messages from f to g are read, and some of said[f][g] sent.
Steps(e, read, said) ==
  /\ departed \subseteq departed' /\ net' \in [Ends -> [Ends -> Queue]]
  /\ \A f \in Ends : f # e => end'[f] = end[f]
  /\ \A f, g \in Ends :
       /\ read[f][g] \in Nat /\ Shifted(net[f][g], net'[f][g], read[f][g], said[f][g])
       /\ f # e => said[f][g] = {}
       /\ \A m \in said[f][g] : m.kind \in {"DIAL", "ANSWER"} =>
            /\ \A m2 \in said[f][g] : m2.kind # "BYE"
            /\ \E d \in m.about : About(f, g, d)'
  /\ \A g \in Ends : \A d : About(e, g, d) =>
       \/ <<e, d>> \in departed'
       \/ About(e, g, d)' /\ \A m \in said[e][g] : m.kind # "BYE"

LEMMA VouchedStays ==
  ASSUME WireInv, NEW e \in Ends, NEW read, NEW said, Steps(e, read, said),
         NEW f \in Ends, NEW g \in Ends, NEW about, NEW i \in Nat, NEW i2 \in Nat,
         i2 + read[f][g] >= i, Vouched(f, g, about, i)
  PROVE  Vouched(f, g, about, i2)'
<1>1. PICK d \in about :
        <<f, d>> \in departed \/ (About(f, g, d) /\ NoBye(net[f][g], i))
  BY DEF Vouched
<1>2. CASE <<f, d>> \in departed
  BY <1>2 DEF Steps, Vouched
<1>3. CASE About(f, g, d) /\ NoBye(net[f][g], i)
  <2> DEFINE q == net[f][g]
             q2 == net'[f][g]
             k == read[f][g]
             ms == said[f][g]
  <2>1. <<f, d>> \in departed' \/ (About(f, g, d)' /\ \A m \in ms : m.kind # "BYE")
    <3>1. CASE f = e
      BY <1>3, <3>1 DEF Steps
    <3>2. CASE f # e
      BY <1>3, <3>2 DEF Steps, About
    <3> QED
      BY <3>1, <3>2
  <2>2. q \in Seq(Message) /\ q2 \in Seq(Message) /\ k \in Nat /\ Shifted(q, q2, k, ms)
    BY DEF Steps, WireInv, WireTyped, Queue
  <2>3. DOMAIN q = 1 .. Len(q) /\ DOMAIN q2 = 1 .. Len(q2) /\ i2 + k >= i
    BY <2>2, LenProperties
  <2> HIDE DEF q, q2, k, ms
  <2>4. ASSUME \A m \in ms : m.kind # "BYE" PROVE NoBye(q2, i2)
    <3> SUFFICES ASSUME NEW j \in DOMAIN q2, j > i2 PROVE q2[j].kind # "BYE"
      BY DEF NoBye
    <3>1. CASE j + k \in DOMAIN q
      <4>1. j + k > i
        BY <2>2, <2>3
      <4> QED
        BY <1>3, <2>2, <3>1, <4>1 DEF Shifted, NoBye, q
    <3>2. CASE ~(j + k \in DOMAIN q)
      BY <2>2, <2>4, <3>2 DEF Shifted
    <3> QED
      BY <3>1, <3>2
  <2> QED
    BY <2>1, <2>4 DEF Vouched, q2
<1> QED
  BY <1>1, <1>2, <1>3

\* What the end that takes a step goes on knowing is left to show.
LEMMA BackedStays ==
  ASSUME WireInv, Backed, NEW e \in Ends, NEW read, NEW said, Steps(e, read, said),
         end'[e].state \in {"Ringing", "Call"} => Vouched(end[e].far, e, end[e].about, 0)',
         end'[e].state \in {"Waiting", "Dialling"} => end'[e].about # {}
  PROVE  Backed'
<1>1. ASSUME NEW f \in Ends, NEW g \in Ends, NEW i \in DOMAIN net'[f][g],
             net'[f][g][i].kind \in {"DIAL", "ANSWER"},
             NEW a, a = net'[f][g][i].about
      PROVE  Vouched(f, g, a, i)'
  <2> DEFINE q == net[f][g]
             q2 == net'[f][g]
             k == read[f][g]
             ms == said[f][g]
             m == q2[i]
  <2>1. q \in Seq(Message) /\ q2 \in Seq(Message) /\ k \in Nat /\ Shifted(q, q2, k, ms)
    BY DEF Steps, WireInv, WireTyped, Queue
  <2>2. DOMAIN q = 1 .. Len(q) /\ DOMAIN q2 = 1 .. Len(q2) /\ Len(q) \in Nat
    BY <2>1, LenProperties
  <2>3. i \in Nat /\ i >= 1
    BY <2>2
  <2>4. CASE i + k \in DOMAIN q
    <3>1. m = q[i + k]
      BY <2>1, <2>4 DEF Shifted
    <3>2. Vouched(f, g, a, i + k)
      BY <1>1, <2>4, <3>1 DEF Backed
    <3>3. i + k \in Nat /\ i + k >= i + k
      BY <2>1, <2>3
    <3> HIDE DEF m, q, q2
    <3> QED
      BY <2>3, <3>2, <3>3, VouchedStays
  <2>5. CASE ~(i + k \in DOMAIN q)
    <3>1. m \in ms
      BY <2>1, <2>5 DEF Shifted
    <3>2. /\ \A m2 \in ms : m2.kind # "BYE"
          /\ \E d \in a : About(f, g, d)'
      BY <1>1, <3>1 DEF Steps
    <3>3. NoBye(q2, i)
      <4> HIDE DEF q, q2, k, ms, m
      <4> SUFFICES ASSUME NEW j \in DOMAIN q2, j > i PROVE q2[j].kind # "BYE"
        BY DEF NoBye
      <4>1. ~(j + k \in DOMAIN q)
        BY <2>1, <2>2, <2>3, <2>5
      <4> QED
        BY <2>1, <3>2, <4>1 DEF Shifted
    <3> QED
      BY <3>2, <3>3 DEF Vouched
  <2> QED
    BY <2>4, <2>5
<1>2. ASSUME NEW g \in Ends, g # e
      PROVE  /\ end'[g].state \in {"Ringing", "Call"}
                  => Vouched(end[g].far, g, end[g].about, 0)'
             /\ end'[g].state \in {"Waiting", "Dialling"} => end'[g].about # {}
  <2>1. end'[g] = end[g]
    BY <1>2 DEF Steps
  <2>2. ASSUME end[g].state \in {"Ringing", "Call"}
        PROVE  Vouched(end[g].far, g, end[g].about, 0)'
    <3>1. end[g].far \in Ends /\ Vouched(end[g].far, g, end[g].about, 0)
      BY <2>2, WireEnd DEF Backed
    <3>2. PICK f \in Ends, a \in {end[g].about} : f = end[g].far /\ a = end[g].about
      BY <3>1
    <3>3. read[f][g] \in Nat /\ 0 + read[f][g] >= 0
      BY DEF Steps
    <3>4. Vouched(f, g, a, 0)'
      BY <3>1, <3>2, <3>3, VouchedStays
    <3> QED
      BY <2>1, <3>2, <3>4 DEF Vouched
  <2> QED
    BY <2>1, <2>2 DEF Backed
<1> QED
  BY <1>1, <1>2 DEF Backed

\* One pair of ends apart.
For(a, b, v, w) == [x \in Ends |-> [y \in Ends |-> IF x = a /\ y = b THEN v ELSE w]]

\* What sending does to the queues, and what reading or losing does.
LEMMA SendShifts ==
  ASSUME NEW n \in [Ends -> [Ends -> Queue]], NEW a \in Ends, NEW b \in Ends,
         NEW kind \in Kinds, NEW about \in SUBSET DialId, NEW times \in Nat
  PROVE  \A f, g \in Ends :
           Shifted(n[f][g], SendTimes(n, a, b, kind, about, times)[f][g], 0,
                   For(a, b, {[kind |-> kind, about |-> about]}, {})[f][g])
<1> DEFINE m == [kind |-> kind, about |-> about]
           ms == [i \in 1 .. times |-> m]
           q == n[a][b]
           c == q \o ms
           q2 == Added(q, ms)
           sent == SendTimes(n, a, b, kind, about, times)
<1>1. m \in Message
  BY DEF Message, Kinds
<1>2. ms \in Seq(Message) /\ Len(ms) = times /\ \A i \in 1 .. times : ms[i] = m
  BY <1>1, IsASeq
<1>3. q \in Seq(Message) /\ Len(q) <= LineLength /\ LineLength \in Nat /\ Len(q) \in Nat
  BY WireAssumption, LenProperties DEF Queue
<1>4. /\ c \in Seq(Message) /\ Len(c) = Len(q) + times
      /\ \A i \in 1 .. Len(c) : c[i] = IF i <= Len(q) THEN q[i] ELSE ms[i - Len(q)]
  <2> HIDE DEF ms, q
  <2> QED
    BY <1>2, <1>3, ConcatProperties
<1>5. DOMAIN q = 1 .. Len(q) /\ DOMAIN c = 1 .. Len(c)
  BY <1>3, <1>4, LenProperties
<1> HIDE DEF m, ms, q, c
<1>6. Shifted(q, c, 0, {m})
  <2> SUFFICES ASSUME NEW i \in 1 .. Len(c)
               PROVE  IF i + 0 \in DOMAIN q THEN c[i] = q[i + 0] ELSE c[i] \in {m}
    BY <1>5 DEF Shifted
  <2>1. CASE i <= Len(q)
    BY <2>1, <1>3, <1>4, <1>5
  <2>2. CASE i > Len(q)
    <3>1. i - Len(q) \in 1 .. times /\ ~(i + 0 \in DOMAIN q)
      BY <2>2, <1>3, <1>4, <1>5
    <3> QED
      BY <2>2, <3>1, <1>2, <1>3, <1>4
  <2> QED
    BY <2>1, <2>2, <1>3
<1>7. Shifted(q, q2, 0, {m})
  <2>1. CASE Len(c) <= LineLength
    BY <2>1, <1>6 DEF Added, c
  <2>2. CASE ~(Len(c) <= LineLength)
    <3> DEFINE s == SubSeq(c, 1, LineLength)
    <3>1. /\ s \in Seq(Message) /\ Len(s) = LineLength
          /\ \A i \in 1 .. LineLength : s[i] = c[i]
      BY <1>3, <1>4, <2>2, SubSeqProperties
    <3>2. DOMAIN s = 1 .. LineLength /\ DOMAIN s \subseteq DOMAIN c
      BY <3>1, <1>3, <1>4, <1>5, <2>2, LenProperties
    <3>3. q2 = s
      BY <2>2 DEF Added, c
    <3> HIDE DEF s, q2
    <3> QED
      BY <3>1, <3>2, <3>3, <1>6 DEF Shifted
  <2> QED
    BY <2>1, <2>2
<1>8. sent = [n EXCEPT ![a] = [n[a] EXCEPT ![b] = q2]]
  BY DEF SendTimes, q, ms, m
<1> HIDE DEF q2
<1>9. \A f, g \in Ends : sent[f][g] = IF f = a /\ g = b THEN q2 ELSE n[f][g]
  <2> HIDE DEF sent
  <2> QED
    BY <1>8
<1>10. \A f, g \in Ends : \A i \in DOMAIN n[f][g] : i + 0 = i
  <2>1. \A f, g \in Ends : n[f][g] \in Seq(Message)
    BY DEF Queue
  <2> QED
    BY <2>1, LenProperties
<1> HIDE DEF sent
<1>11. ASSUME NEW f \in Ends, NEW g \in Ends
       PROVE  Shifted(n[f][g], sent[f][g], 0, For(a, b, {m}, {})[f][g])
  <2>1. For(a, b, {m}, {})[f][g] = IF f = a /\ g = b THEN {m} ELSE {}
    BY DEF For
  <2>2. CASE f = a /\ g = b
    BY <2>1, <2>2, <1>7, <1>9 DEF q
  <2>3. CASE ~(f = a /\ g = b)
    BY <2>3, <1>9, <1>10 DEF Shifted
  <2> QED
    BY <2>2, <2>3
<1> QED
  BY <1>11 DEF sent, m

LEMMA TailShifts ==
  ASSUME NEW n \in [Ends -> [Ends -> Queue]], NEW a \in Ends, NEW b \in Ends,
         n[a][b] # <<>>
  PROVE  \A f, g \in Ends :
           Shifted(n[f][g], [n EXCEPT ![a][b] = Tail(@)][f][g], For(a, b, 1, 0)[f][g], {})
<1> DEFINE q == n[a][b]
           t == Tail(q)
           read == [n EXCEPT ![a][b] = Tail(@)]
<1>1. q \in Seq(Message)
  BY DEF Queue
<1>2. /\ t \in Seq(Message) /\ Len(t) = Len(q) - 1 /\ Len(q) \in Nat \ {0}
      /\ \A i \in 1 .. Len(t) : t[i] = q[i + 1]
  BY <1>1, HeadTailProperties, LenProperties, EmptySeq
<1>3. DOMAIN q = 1 .. Len(q) /\ DOMAIN t = 1 .. Len(t)
  BY <1>1, <1>2, LenProperties
<1>4. read = [n EXCEPT ![a] = [n[a] EXCEPT ![b] = t]]
  OBVIOUS
<1> HIDE DEF q, t
<1>5. Shifted(q, t, 1, {})
  BY <1>2, <1>3 DEF Shifted
<1>6. \A f, g \in Ends : read[f][g] = IF f = a /\ g = b THEN t ELSE n[f][g]
  <2> HIDE DEF read
  <2> QED
    BY <1>4
<1>7. \A f, g \in Ends : \A i \in DOMAIN n[f][g] : i + 0 = i
  <2>1. \A f, g \in Ends : n[f][g] \in Seq(Message)
    BY DEF Queue
  <2> QED
    BY <2>1, LenProperties
<1> HIDE DEF read
<1>8. ASSUME NEW f \in Ends, NEW g \in Ends
      PROVE  Shifted(n[f][g], read[f][g], For(a, b, 1, 0)[f][g], {})
  <2>1. For(a, b, 1, 0)[f][g] = IF f = a /\ g = b THEN 1 ELSE 0
    BY DEF For
  <2>2. CASE f = a /\ g = b
    BY <2>1, <2>2, <1>5, <1>6 DEF q
  <2>3. CASE ~(f = a /\ g = b)
    BY <2>1, <2>3, <1>6, <1>7 DEF Shifted
  <2> QED
    BY <2>2, <2>3
<1> QED
  BY <1>8 DEF read

LEMMA ForTyped ==
  ASSUME NEW a, NEW b, NEW v, NEW w, NEW f \in Ends, NEW g \in Ends
  PROVE  For(a, b, v, w)[f][g] = IF f = a /\ g = b THEN v ELSE w
BY DEF For

\* Nothing is read or sent.
LEMMA NothingShifts ==
  ASSUME NEW n \in [Ends -> [Ends -> Queue]]
  PROVE  \A f, g \in Ends : Shifted(n[f][g], n[f][g], 0, {})
<1>1. \A f, g \in Ends : n[f][g] \in Seq(Message)
  BY DEF Queue
<1>2. \A f, g \in Ends : \A i \in DOMAIN n[f][g] : i + 0 = i
  BY <1>1, LenProperties
<1> QED
  BY <1>2 DEF Shifted

\* An end that gives up has left what it dialled or was in a call about.
LEMMA GivingUpBacked ==
  ASSUME WireInv, Backed, NEW e \in Ends, end' = [end EXCEPT ![e] = Idle],
         NEW kind \in {"BUSY", "BYE"}, NEW times \in Nat,
         \/ net' = net
         \/ /\ end[e].state # "Idle"
            /\ net' = SendTimes(net, e, end[e].far, kind, end[e].about, times),
         departed \subseteq departed',
         end[e].state \in {"Dialling", "Call"} => {e} \X end[e].about \subseteq departed'
  PROVE  Backed'
<1>0. /\ end \in [Ends -> EndState] /\ net \in [Ends -> [Ends -> Queue]]
      /\ end'[e].state = "Idle"
  BY DEF WireInv, WireTyped, Idle
<1>1. \A f \in Ends : f # e => end'[f] = end[f]
  BY <1>0
<1>2. \A g \in Ends : \A d : About(e, g, d) => <<e, d>> \in departed'
  BY DEF About
<1>3. CASE net' = net
  <2> DEFINE read == For(e, e, 0, 0)
             said == For(e, e, {}, {})
  <2>1. \A f, g \in Ends : read[f][g] = 0 /\ said[f][g] = {}
    BY ForTyped
  <2>2. \A f, g \in Ends : Shifted(net[f][g], net'[f][g], read[f][g], said[f][g])
    <3> HIDE DEF read, said
    <3>1. \A f, g \in Ends : Shifted(net[f][g], net[f][g], 0, {})
      BY <1>0, NothingShifts
    <3> QED
      BY <1>3, <2>1, <3>1
  <2> HIDE DEF read, said
  <2>3. Steps(e, read, said)
    BY <1>0, <1>1, <1>2, <1>3, <2>1, <2>2 DEF Steps
  <2> QED
    BY <1>0, <2>3, BackedStays
<1>4. CASE end[e].state # "Idle"
           /\ net' = SendTimes(net, e, end[e].far, kind, end[e].about, times)
  <2> DEFINE g0 == end[e].far
             m == [kind |-> kind, about |-> end[e].about]
             read == For(e, e, 0, 0)
             said == For(e, g0, {m}, {})
  <2>1. g0 \in Ends /\ end[e].about \in SUBSET DialId /\ kind \in Kinds
    BY <1>4, WireEnd DEF Kinds
  <2>2. \A f, g \in Ends :
          read[f][g] = 0 /\ said[f][g] = IF f = e /\ g = g0 THEN {m} ELSE {}
    BY ForTyped
  <2>3. \A f, g \in Ends : Shifted(net[f][g], net'[f][g], 0, said[f][g])
    BY <1>0, <1>4, <2>1, SendShifts
  <2>4. net' \in [Ends -> [Ends -> Queue]]
    BY <1>0, <1>4, <2>1, SendHolds
  <2>5. m.kind \notin {"DIAL", "ANSWER"}
    OBVIOUS
  <2> HIDE DEF read, said, m, g0
  <2>6. Steps(e, read, said)
    BY <1>1, <1>2, <2>2, <2>3, <2>4, <2>5 DEF Steps
  <2> QED
    BY <1>0, <2>6, BackedStays
<1> QED
  BY <1>3, <1>4

LEMMA AskingBacked ==
  ASSUME WireInv, Backed, NEW e \in Ends,
         \/ PlaceCall(e) \/ StartDial(e) \/ RepeatDial(e) \/ Answer(e)
  PROVE  Backed'
<1>0. /\ end \in [Ends -> EndState] /\ net \in [Ends -> [Ends -> Queue]]
  BY DEF WireInv, WireTyped
<1>1. ASSUME PlaceCall(e) PROVE Backed'
  <2> DEFINE g0 == end[e].far
             m == [kind |-> "BUSY", about |-> end[e].about]
             ms == IF end[e].state = "Ringing" THEN {m} ELSE {}
             read == For(e, e, 0, 0)
             said == For(e, g0, ms, {})
  <2>1. /\ end[e].state \in {"Idle", "Ringing"} /\ departed' = departed
        /\ end'[e].state = "Waiting" /\ end'[e].about # {}
        /\ \A f \in Ends : f # e => end'[f] = end[f]
    BY <1>0, <1>1 DEF PlaceCall
  <2>2. \A f, g \in Ends :
          read[f][g] = 0 /\ said[f][g] = IF f = e /\ g = g0 THEN ms ELSE {}
    BY ForTyped
  <2>3. /\ net' \in [Ends -> [Ends -> Queue]]
        /\ \A f, g \in Ends : Shifted(net[f][g], net'[f][g], 0, said[f][g])
    <3>1. CASE end[e].state = "Ringing"
      <4>1. g0 \in Ends /\ end[e].about \in SUBSET DialId
        BY <3>1, WireEnd
      <4>2. net' = SendTimes(net, e, g0, "BUSY", end[e].about, 1)
        BY <1>1, <3>1 DEF PlaceCall, Send
      <4>3. net' \in [Ends -> [Ends -> Queue]]
        BY <1>0, <4>1, <4>2, SendHolds DEF Kinds
      <4>4. \A f, g \in Ends :
              Shifted(net[f][g], net'[f][g], 0, For(e, g0, {m}, {})[f][g])
        BY <1>0, <4>1, <4>2, SendShifts DEF Kinds
      <4>5. said = For(e, g0, {m}, {})
        BY <3>1
      <4> HIDE DEF said
      <4> QED
        BY <4>3, <4>4, <4>5
    <3>2. CASE end[e].state # "Ringing"
      <4>1. net' = net /\ ms = {}
        BY <1>1, <3>2 DEF PlaceCall
      <4>2. \A f, g \in Ends : said[f][g] = {}
        BY <2>2, <4>1
      <4>3. \A f, g \in Ends : Shifted(net[f][g], net[f][g], 0, {})
        BY <1>0, NothingShifts
      <4> HIDE DEF said, ms
      <4> QED
        BY <1>0, <4>1, <4>2, <4>3
    <3> QED
      BY <3>1, <3>2
  <2>4. \A m2 \in ms : m2.kind \notin {"DIAL", "ANSWER"}
    OBVIOUS
  <2>5. \A g \in Ends : \A d : ~About(e, g, d)
    BY <2>1 DEF About
  <2> HIDE DEF read, said, ms, g0
  <2>6. Steps(e, read, said)
    BY <2>1, <2>2, <2>3, <2>4, <2>5 DEF Steps
  <2> QED
    BY <2>1, <2>6, BackedStays
<1>2. ASSUME StartDial(e) \/ RepeatDial(e) PROVE Backed'
  <2>0. PICK g0 \in Ends, about \in SUBSET DialId :
          g0 = end[e].far /\ about = end[e].about
    BY <1>2, WireEnd DEF StartDial, RepeatDial
  <2> DEFINE m == [kind |-> "DIAL", about |-> about]
             read == For(e, e, 0, 0)
             said == For(e, g0, {m}, {})
  <2>1. /\ end[e].state \in {"Waiting", "Dialling"} /\ departed' = departed
        /\ net' = SendTimes(net, e, g0, "DIAL", about, 1)
    BY <1>2, <2>0 DEF StartDial, RepeatDial, Send
  <2>2. /\ end'[e].state = "Dialling" /\ end'[e].far = g0 /\ end'[e].about = about
        /\ \A f \in Ends : f # e => end'[f] = end[f]
    <3>1. end[e] \in EndState
      BY <1>0
    <3>2. CASE StartDial(e)
      BY <2>0, <3>1, <3>2, <1>0 DEF StartDial, EndState
    <3>3. CASE RepeatDial(e)
      BY <2>0, <3>3, <1>0 DEF RepeatDial
    <3> QED
      BY <1>2, <3>2, <3>3
  <2>3. about # {}
    BY <2>0, <2>1 DEF Backed
  <2>4. \A f, g \in Ends :
          read[f][g] = 0 /\ said[f][g] = IF f = e /\ g = g0 THEN {m} ELSE {}
    BY ForTyped
  <2>5. net' \in [Ends -> [Ends -> Queue]]
    BY <1>0, <2>1, SendHolds DEF Kinds
  <2>6. \A f, g \in Ends : Shifted(net[f][g], net'[f][g], 0, said[f][g])
    BY <1>0, <2>1, SendShifts DEF Kinds
  <2>7. m.kind = "DIAL" /\ m.about = about
    OBVIOUS
  <2> HIDE DEF read, said, m
  <2>8. \A d \in about : About(e, g0, d)'
    BY <2>2 DEF About
  <2>9. \A g \in Ends : \A d : About(e, g, d) => About(e, g, d)'
    BY <2>0, <2>2 DEF About
  <2>10. Steps(e, read, said)
    BY <2>1, <2>2, <2>3, <2>4, <2>5, <2>6, <2>7, <2>8, <2>9 DEF Steps
  <2> QED
    BY <2>2, <2>3, <2>10, BackedStays
<1>3. ASSUME Answer(e) PROVE Backed'
  <2>0. PICK g0 \in Ends, about \in SUBSET DialId :
          g0 = end[e].far /\ about = end[e].about
    BY <1>3, WireEnd DEF Answer
  <2> DEFINE m == [kind |-> "ANSWER", about |-> about]
             read == For(e, e, 0, 0)
             said == For(e, g0, {m}, {})
  <2>1. /\ end[e].state = "Ringing" /\ departed' = departed
        /\ net' = SendTimes(net, e, g0, "ANSWER", about, 1)
    BY <1>3, <2>0 DEF Answer, Send
  <2>2. /\ end'[e].state = "Call" /\ end'[e].far = g0 /\ end'[e].about = about
        /\ \A f \in Ends : f # e => end'[f] = end[f]
    BY <1>0, <1>3, <2>0 DEF Answer, CallWith
  <2>3. Vouched(g0, e, about, 0)
    BY <2>0, <2>1 DEF Backed
  <2>4. PICK d0 \in about : TRUE
    BY <2>3 DEF Vouched
  <2>5. \A f, g \in Ends :
          read[f][g] = 0 /\ said[f][g] = IF f = e /\ g = g0 THEN {m} ELSE {}
    BY ForTyped
  <2>6. net' \in [Ends -> [Ends -> Queue]]
    BY <1>0, <2>1, <2>3, SendHolds DEF Kinds
  <2>7. \A f, g \in Ends : Shifted(net[f][g], net'[f][g], 0, said[f][g])
    BY <1>0, <2>1, <2>3, SendShifts DEF Kinds
  <2>8. m.kind = "ANSWER" /\ m.about = about
    OBVIOUS
  <2> HIDE DEF read, said, m
  <2>9. About(e, g0, d0)'
    BY <2>2, <2>4 DEF About
  <2>10. \A g \in Ends : \A d : ~About(e, g, d)
    BY <2>1 DEF About
  <2>11. Steps(e, read, said)
    BY <2>1, <2>2, <2>4, <2>5, <2>6, <2>7, <2>8, <2>9, <2>10 DEF Steps
  <2>12. Vouched(g0, e, about, 0)'
    <3>1. 0 + read[g0][e] >= 0
      BY <2>5
    <3> QED
      BY <2>3, <2>11, <3>1, VouchedStays
  <2>13. Vouched(end[e].far, e, end[e].about, 0)'
    BY <2>2, <2>12 DEF Vouched
  <2> QED
    BY <2>2, <2>11, <2>13, BackedStays
<1> QED
  BY <1>1, <1>2, <1>3

\* What a handler makes of an end and a message.
Responds(s, f, m, o) ==
  /\ \/ o.reply = None \/ o.reply = "BUSY"
     \/ /\ o.reply = "ANSWER" /\ m.kind = "DIAL" /\ s.far = f
        /\ o.state.state = "Call" /\ o.state.far = f /\ m.about \subseteq o.state.about
  /\ s.state \in {"Dialling", "Call"} =>
       \/ o.state.state = "Idle"
       \/ /\ o.state.state \in {"Dialling", "Call"}
          /\ o.state.far = s.far /\ s.about \subseteq o.state.about
  /\ o.state.state \in {"Ringing", "Call"} =>
       \/ /\ s.state \in {"Ringing", "Call"}
          /\ o.state.far = s.far /\ s.about \subseteq o.state.about
       \/ o.state.far = f /\ m.kind \in {"DIAL", "ANSWER"} /\ m.about \subseteq o.state.about
  /\ o.state.state \in {"Waiting", "Dialling"} => o.state = s
  /\ s.state = "Call" /\ o.state.state = "Idle" => f = s.far /\ m.kind = "BYE"

LEMMA HandlersRespond ==
  ASSUME NEW s \in EndState, NEW f \in Ends, NEW m \in Message
  PROVE  /\ s.state \in {"Idle", "Ringing"} => Responds(s, f, m, Incoming(s, f, m))
         /\ s.state = "Dialling" => Responds(s, f, m, Dialling(s, f, m))
         /\ s.state = "Call" => Responds(s, f, m, InSession(s, f, m))
<1>0. \A r : Outcome(s, r).state = s /\ Outcome(s, r).reply = r
  BY DEF Outcome
<1>1. ASSUME s.state # "Waiting", NEW r, r = None \/ r = "BUSY"
      PROVE  Responds(s, f, m, Outcome(s, r))
  BY <1>1 DEF Responds, Outcome
<1>2. ASSUME s.state = "Call" => f = s.far /\ m.kind = "BYE"
      PROVE  Responds(s, f, m, Outcome(Idle, None))
  BY <1>2 DEF Responds, Outcome, Idle
<1>3. ASSUME s.state \in {"Idle", "Ringing"} PROVE Responds(s, f, m, Incoming(s, f, m))
  <2>1. CASE m.kind = "DIAL" /\ s.state = "Idle"
    <3>1. Incoming(s, f, m) = Outcome(RingingFor(f, m.about), None)
      BY <2>1 DEF Incoming
    <3> QED
      BY <2>1, <3>1 DEF Outcome, RingingFor, Responds
  <2>2. CASE m.kind = "DIAL" /\ s.state = "Ringing" /\ f = s.far
    <3> DEFINE t == [s EXCEPT !.about = m.about]
    <3>1. t.state = "Ringing" /\ t.far = f /\ t.about = m.about
      BY <2>2 DEF EndState
    <3>2. Incoming(s, f, m) = Outcome(t, None)
      BY <2>2 DEF Incoming
    <3> HIDE DEF t
    <3> QED
      BY <2>2, <3>1, <3>2 DEF Outcome, Responds
  <2>3. CASE m.kind = "DIAL" /\ s.state = "Ringing" /\ f # s.far
    BY <2>3, <1>1 DEF Incoming
  <2>4. CASE m.kind = "BYE" /\ s.state = "Ringing" /\ f = s.far
    BY <2>4, <1>2 DEF Incoming
  <2>5. CASE ~(m.kind = "DIAL" \/ (m.kind = "BYE" /\ s.state = "Ringing" /\ f = s.far))
    BY <1>3, <2>5, <1>1 DEF Incoming
  <2> QED
    BY <1>3, <2>1, <2>2, <2>3, <2>4, <2>5
<1>4. ASSUME s.state = "Dialling" PROVE Responds(s, f, m, Dialling(s, f, m))
  <2>1. CASE f = s.far /\ m.kind = "ANSWER"
    <3>1. Dialling(s, f, m) = Outcome(CallWith(f, FALSE, s.about \cup m.about), None)
      BY <2>1 DEF Dialling
    <3> QED
      BY <1>4, <2>1, <3>1 DEF Outcome, CallWith, Responds
  <2>2. CASE f = s.far /\ m.kind = "BUSY"
    BY <1>4, <2>2, <1>2 DEF Dialling
  <2>3. CASE ~(f = s.far /\ m.kind \in {"ANSWER", "BUSY"})
    BY <1>4, <2>3, <1>1 DEF Dialling
  <2> QED
    BY <2>1, <2>2, <2>3
<1>5. ASSUME s.state = "Call" PROVE Responds(s, f, m, InSession(s, f, m))
  <2>1. CASE f # s.far /\ m.kind = "DIAL"
    BY <1>5, <2>1, <1>1 DEF InSession
  <2>2. CASE f = s.far /\ m.kind = "BYE"
    BY <2>2, <1>2 DEF InSession
  <2>3. CASE f = s.far /\ m.kind = "DIAL" /\ s.answering
    <3> DEFINE t == [s EXCEPT !.about = @ \cup m.about]
    <3>1. t.state = "Call" /\ t.far = f /\ t.about = s.about \cup m.about
      BY <1>5, <2>3 DEF EndState
    <3>2. InSession(s, f, m) = Outcome(t, "ANSWER")
      BY <2>3 DEF InSession
    <3> HIDE DEF t
    <3> QED
      BY <1>5, <2>3, <3>1, <3>2 DEF Outcome, Responds
  <2>4. CASE ~(\/ f # s.far /\ m.kind = "DIAL"
               \/ f = s.far /\ m.kind = "BYE"
               \/ f = s.far /\ m.kind = "DIAL" /\ s.answering)
    BY <1>5, <2>4, <1>1 DEF InSession
  <2> QED
    BY <2>1, <2>2, <2>3, <2>4
<1> QED
  BY <1>3, <1>4, <1>5

\* The end and the net after a message m of f is read.
HasRead(e, f, m, o) ==
  /\ Responds(end[e], f, m, o) /\ end[e].state # "Waiting"
  /\ end' = [end EXCEPT ![e] = o.state]
  /\ net' = IF o.reply = None THEN [net EXCEPT ![f][e] = Tail(@)]
            ELSE SendTimes([net EXCEPT ![f][e] = Tail(@)], e, f, o.reply, m.about, 1)
  /\ departed' = Left(end[e], o.state, e)
  /\ m \in Message /\ net[f][e] # <<>> /\ 1 \in DOMAIN net[f][e] /\ m = net[f][e][1]

LEMMA ReadMeans ==
  ASSUME WireInv, NEW e \in Ends, NEW f \in Ends, Read(e, f)
  PROVE  \E m, o : HasRead(e, f, m, o)
<1> DEFINE m == Head(net[f][e])
           s == end[e]
           o == CASE s.state \in {"Idle", "Ringing"} -> Incoming(s, f, m)
                  [] s.state = "Dialling" -> Dialling(s, f, m)
                  [] s.state = "Call" -> InSession(s, f, m)
<1>0. end \in [Ends -> EndState] /\ net[f][e] \in Seq(Message)
  BY DEF WireInv, WireTyped, Queue
<1>1. /\ net[f][e] # <<>> /\ s.state # "Waiting"
      /\ end' = [end EXCEPT ![e] = o.state]
      /\ net' = IF o.reply = None THEN [net EXCEPT ![f][e] = Tail(@)]
                ELSE SendTimes([net EXCEPT ![f][e] = Tail(@)], e, f, o.reply, m.about, 1)
      /\ departed' = Left(end[e], end'[e], e)
  BY DEF Read, Send
<1>2. m \in Message /\ m = net[f][e][1] /\ 1 \in DOMAIN net[f][e]
  <2>1. Len(net[f][e]) \in Nat \ {0}
    BY <1>0, <1>1, EmptySeq, LenProperties
  <2> QED
    BY <1>0, <1>1, <2>1, HeadTailProperties, LenProperties
<1>3. s \in EndState /\ s.state \in States
  BY WireEnd
<1>4. Responds(s, f, m, o)
  <2> HIDE DEF m, s
  <2>1. CASE s.state \in {"Idle", "Ringing"} BY <2>1, <1>2, <1>3, HandlersRespond
  <2>2. CASE s.state = "Dialling" BY <2>2, <1>2, <1>3, HandlersRespond
  <2>3. CASE s.state = "Call" BY <2>3, <1>2, <1>3, HandlersRespond
  <2> QED BY <1>1, <1>3, <2>1, <2>2, <2>3 DEF States
<1>5. end'[e] = o.state
  <2> HIDE DEF o
  <2> QED
    BY <1>0, <1>1
<1> HIDE DEF o, m
<1>6. HasRead(e, f, m, o)
  BY <1>1, <1>2, <1>4, <1>5 DEF HasRead
<1> QED
  BY <1>6

LEMMA ReadBacked ==
  ASSUME WireInv, Backed, NEW e \in Ends, NEW f \in Ends, Read(e, f)
  PROVE  Backed'
<1>0. /\ end \in [Ends -> EndState] /\ net \in [Ends -> [Ends -> Queue]]
  BY DEF WireInv, WireTyped
<1>1. PICK m, o : HasRead(e, f, m, o)
  BY ReadMeans
<1>2. PICK s : s = end[e]
  OBVIOUS
<1> DEFINE m2 == [kind |-> o.reply, about |-> m.about]
           ms == IF o.reply = None THEN {} ELSE {m2}
           mid == [net EXCEPT ![f][e] = Tail(@)]
           read == For(f, e, 1, 0)
           said == For(e, f, ms, {})
<1>3. \A x, y \in Ends :
        /\ read[x][y] = IF x = f /\ y = e THEN 1 ELSE 0
        /\ said[x][y] = IF x = e /\ y = f THEN ms ELSE {}
  BY ForTyped
<1>4. /\ mid \in [Ends -> [Ends -> Queue]]
      /\ \A x, y \in Ends : Shifted(net[x][y], mid[x][y], read[x][y], {})
  <2>1. net[f][e] # <<>>
    BY <1>1 DEF HasRead
  <2>2. mid \in [Ends -> [Ends -> Queue]]
    BY <1>0, <2>1, TailHolds
  <2>3. \A x, y \in Ends : Shifted(net[x][y], mid[x][y], read[x][y], {})
    BY <1>0, <2>1, TailShifts
  <2> QED
    BY <2>2, <2>3
<1>5. m.about \in SUBSET DialId /\ (o.reply # None => o.reply \in {"BUSY", "ANSWER"})
  BY <1>1 DEF HasRead, Responds, Message
<1> HIDE DEF read
<1>6. /\ net' \in [Ends -> [Ends -> Queue]]
      /\ \A x, y \in Ends : Shifted(net[x][y], net'[x][y], read[x][y], said[x][y])
  <2>1. CASE o.reply = None
    <3>1. net' = mid /\ ms = {}
      BY <1>1, <2>1 DEF HasRead
    <3>2. \A x, y \in Ends : said[x][y] = {}
      BY <1>3, <3>1
    <3> HIDE DEF mid, said, ms
    <3> QED
      BY <1>4, <3>1, <3>2
  <2>2. CASE o.reply # None
    <3>1. net' = SendTimes(mid, e, f, o.reply, m.about, 1) /\ ms = {m2}
      BY <1>1, <2>2 DEF HasRead
    <3>2. o.reply \in Kinds
      BY <1>5, <2>2 DEF Kinds
    <3> HIDE DEF mid
    <3>3. net' \in [Ends -> [Ends -> Queue]]
      BY <1>4, <1>5, <3>1, <3>2, SendHolds
    <3>4. \A x, y \in Ends : Shifted(mid[x][y], net'[x][y], 0, For(e, f, {m2}, {})[x][y])
      BY <1>4, <1>5, <3>1, <3>2, SendShifts
    <3>5. said = For(e, f, {m2}, {})
      BY <3>1
    <3> HIDE DEF said, ms
    <3>6. ASSUME NEW x \in Ends, NEW y \in Ends
          PROVE  Shifted(net[x][y], net'[x][y], read[x][y], said[x][y])
      <4> DEFINE q == net[x][y]
                 q1 == mid[x][y]
                 q2 == net'[x][y]
                 k == read[x][y]
      <4>1. /\ q \in Seq(Message) /\ q1 \in Seq(Message) /\ q2 \in Seq(Message) /\ k \in Nat
            /\ Shifted(q, q1, k, {}) /\ Shifted(q1, q2, 0, said[x][y])
        <5>1. q \in Seq(Message) /\ q1 \in Seq(Message) /\ q2 \in Seq(Message)
          BY <1>0, <1>4, <3>3 DEF Queue
        <5>2. k \in Nat
          BY <1>3
        <5>3. Shifted(q, q1, k, {})
          BY <1>4
        <5>4. Shifted(q1, q2, 0, said[x][y])
          BY <3>4, <3>5
        <5> QED
          BY <5>1, <5>2, <5>3, <5>4
      <4>2. /\ DOMAIN q = 1 .. Len(q) /\ DOMAIN q1 = 1 .. Len(q1) /\ DOMAIN q2 = 1 .. Len(q2)
        BY <4>1, LenProperties
      <4>3. Len(q1) >= Len(q) - k
        <5>1. CASE x = f /\ y = e
          <6>1. q1 = Tail(q) /\ k = 1 /\ q # <<>>
            BY <1>0, <1>1, <1>3, <5>1 DEF mid, HasRead
          <6>2. Len(q1) = Len(q) - 1
            BY <4>1, <6>1, HeadTailProperties
          <6> QED
            BY <4>1, <6>1, <6>2, LenProperties
        <5>2. CASE ~(x = f /\ y = e)
          <6>1. q1 = q /\ k = 0
            BY <1>0, <1>3, <5>2 DEF mid
          <6> QED
            BY <4>1, <6>1, LenProperties
        <5> QED
          BY <5>1, <5>2
      <4> HIDE DEF q, q1, q2, k
      <4>4. Len(q) \in Nat /\ Len(q1) \in Nat
        BY <4>1, LenProperties
      <4> SUFFICES ASSUME NEW i \in 1 .. Len(q2)
                   PROVE  IF i + k \in DOMAIN q THEN q2[i] = q[i + k]
                          ELSE q2[i] \in said[x][y]
        BY <4>2 DEF Shifted, q, q2, k
      <4>5. CASE i \in DOMAIN q1
        <5>1. i + 0 \in DOMAIN q1 /\ q2[i] = q1[i + 0] /\ i + 0 = i
          BY <4>1, <4>2, <4>5 DEF Shifted
        <5>2. i + k \in DOMAIN q /\ q1[i] = q[i + k]
          BY <4>1, <4>5 DEF Shifted
        <5> QED
          BY <5>1, <5>2
      <4>6. CASE ~(i \in DOMAIN q1)
        <5>1. ~(i + 0 \in DOMAIN q1) /\ ~(i + k \in DOMAIN q)
          BY <4>1, <4>2, <4>3, <4>4, <4>6
        <5> QED
          BY <4>1, <4>2, <5>1 DEF Shifted
      <4> QED
        BY <4>5, <4>6
    <3> QED
      BY <3>3, <3>6
  <2> QED
    BY <2>1, <2>2
<1>7. /\ end'[e] = o.state /\ Responds(s, f, m, o) /\ departed' = Left(s, o.state, e)
      /\ \A x \in Ends : x # e => end'[x] = end[x]
  BY <1>0, <1>1, <1>2 DEF HasRead
<1>8. m.kind \in {"DIAL", "ANSWER"} => Vouched(f, e, m.about, 1)
  BY <1>1 DEF HasRead, Backed
<1>9. \A a \in ms : /\ a.kind # "BYE"
                    /\ a.kind \in {"DIAL", "ANSWER"} => \E d \in a.about : About(e, f, d)'
  <2> SUFFICES ASSUME o.reply # None
               PROVE  /\ o.reply # "BYE"
                      /\ o.reply \in {"DIAL", "ANSWER"} => \E d \in m.about : About(e, f, d)'
    OBVIOUS
  <2>1. CASE o.reply = "ANSWER"
    <3>1. /\ m.kind = "DIAL" /\ o.state.state = "Call" /\ o.state.far = f
          /\ m.about \subseteq o.state.about
      BY <1>7, <2>1 DEF Responds
    <3>2. PICK d \in m.about : TRUE
      BY <1>8, <3>1 DEF Vouched
    <3> QED
      BY <1>7, <2>1, <3>1, <3>2 DEF About
  <2>2. CASE o.reply # "ANSWER"
    BY <1>5, <2>2
  <2> QED
    BY <2>1, <2>2
<1>10. \A g \in Ends : \A d : About(e, g, d) => <<e, d>> \in departed' \/ About(e, g, d)'
  BY <1>2, <1>7 DEF About, Responds, Left
<1>11. departed \subseteq departed'
  BY <1>7 DEF Left
<1> HIDE DEF said, ms
<1>12. Steps(e, read, said)
  BY <1>3, <1>6, <1>7, <1>9, <1>10, <1>11 DEF Steps
<1>13. ASSUME end'[e].state \in {"Ringing", "Call"}
       PROVE  Vouched(end[e].far, e, end[e].about, 0)'
  <2>1. CASE /\ s.state \in {"Ringing", "Call"}
             /\ o.state.far = s.far /\ s.about \subseteq o.state.about
    <3>1. PICK g \in Ends, a \in {s.about} : g = s.far /\ a = s.about
      BY <1>2, <2>1, WireEnd
    <3>2. Vouched(g, e, a, 0) /\ 0 + read[g][e] >= 0
      BY <1>2, <1>3, <2>1, <3>1 DEF Backed
    <3>3. Vouched(g, e, a, 0)'
      BY <1>12, <3>2, VouchedStays
    <3> QED
      BY <1>7, <2>1, <3>1, <3>3 DEF Vouched
  <2>2. CASE o.state.far = f /\ m.kind \in {"DIAL", "ANSWER"} /\ m.about \subseteq o.state.about
    <3>1. PICK a : a = m.about
      OBVIOUS
    <3>2. Vouched(f, e, a, 1) /\ 0 + read[f][e] >= 1
      BY <1>3, <1>8, <2>2, <3>1
    <3>3. Vouched(f, e, a, 0)'
      BY <1>12, <3>2, VouchedStays
    <3> QED
      BY <1>7, <2>2, <3>1, <3>3 DEF Vouched
  <2> QED
    BY <1>7, <1>13, <2>1, <2>2 DEF Responds
<1>14. end'[e].state \in {"Waiting", "Dialling"} => end'[e].about # {}
  BY <1>2, <1>7 DEF Responds, Backed
<1> QED
  BY <1>12, <1>13, <1>14, BackedStays

LEMMA LosingBacked ==
  ASSUME WireInv, Backed, NEW e \in Ends, NEW f \in Ends, Lose(e, f)
  PROVE  Backed'
<1> DEFINE read == For(e, f, 1, 0)
           said == For(e, f, {}, {})
<1>0. net \in [Ends -> [Ends -> Queue]]
  BY DEF WireInv, WireTyped
<1>1. /\ net[e][f] # <<>> /\ net' = [net EXCEPT ![e][f] = Tail(@)]
      /\ UNCHANGED <<end, departed>>
  BY DEF Lose, Pending
<1>2. \A x, y \in Ends :
        /\ read[x][y] = IF x = e /\ y = f THEN 1 ELSE 0
        /\ said[x][y] = {}
  BY ForTyped
<1>3. /\ net' \in [Ends -> [Ends -> Queue]]
      /\ \A x, y \in Ends : Shifted(net[x][y], net'[x][y], read[x][y], {})
  <2>1. net' \in [Ends -> [Ends -> Queue]]
    BY <1>0, <1>1, TailHolds
  <2>2. \A x, y \in Ends : Shifted(net[x][y], net'[x][y], read[x][y], {})
    BY <1>0, <1>1, TailShifts
  <2> QED
    BY <2>1, <2>2
<1>4. \A g \in Ends : \A d : About(e, g, d) => About(e, g, d)'
  BY <1>1 DEF About
<1> HIDE DEF read, said
<1>5. Steps(e, read, said)
  <2>1. ASSUME NEW x \in Ends, NEW y \in Ends
        PROVE  Shifted(net[x][y], net'[x][y], read[x][y], said[x][y])
    <3>1. said[x][y] = {} /\ Shifted(net[x][y], net'[x][y], read[x][y], {})
      BY <1>2, <1>3
    <3> QED
      BY <3>1
  <2>2. end' = end /\ departed' = departed
    BY <1>1
  <2>3. \A x, y \in Ends : read[x][y] \in Nat
    BY <1>2
  <2> QED
    BY <1>2, <1>3, <1>4, <2>1, <2>2, <2>3 DEF Steps
<1>6. ASSUME end[e].state \in {"Ringing", "Call"}
      PROVE  Vouched(end[e].far, e, end[e].about, 0)'
  <2>1. PICK g \in Ends, a \in {end[e].about} : g = end[e].far /\ a = end[e].about
    BY <1>6, WireEnd
  <2>2. Vouched(g, e, a, 0) /\ 0 + read[g][e] >= 0
    BY <1>2, <1>6, <2>1 DEF Backed
  <2>3. Vouched(g, e, a, 0)'
    BY <1>5, <2>2, VouchedStays
  <2> QED
    BY <1>1, <2>1, <2>3 DEF Vouched
<1> QED
  BY <1>1, <1>5, <1>6, BackedStays DEF Backed

LEMMA BackedInitially == WireInit => Backed
BY DEF WireInit, Backed, Idle

LEMMA BackedKept == WireInv /\ Backed /\ [WireNext]_wireVars => Backed'
<1> SUFFICES ASSUME WireInv, Backed, [WireNext]_wireVars PROVE Backed'
  OBVIOUS
<1>0. 1 \in Nat /\ ByeRepeats \in Nat
  BY WireAssumption
<1>1. ASSUME NEW e \in Ends, DropDial(e) \/ HangUp(e) \/ Reject(e) PROVE Backed'
  <2>1. end[e].state # "Idle" /\ end' = [end EXCEPT ![e] = Idle]
    BY <1>1 DEF DropDial, HangUp, Reject
  <2>2. /\ departed \subseteq departed'
        /\ end[e].state \in {"Dialling", "Call"} => {e} \X end[e].about \subseteq departed'
    <3>1. end'[e].state = "Idle"
      BY <2>1 DEF WireInv, WireTyped, Idle
    <3> QED
      BY <1>1, <3>1 DEF DropDial, HangUp, Reject, Left
  <2>4. CASE net' = net BY <2>1, <2>2, <2>4, <1>0, GivingUpBacked
  <2>5. CASE net' = SendTimes(net, e, end[e].far, "BYE", end[e].about, 1)
    BY <2>1, <2>2, <2>5, <1>0, GivingUpBacked
  <2>6. CASE net' = SendTimes(net, e, end[e].far, "BYE", end[e].about, ByeRepeats)
    BY <2>1, <2>2, <2>6, <1>0, GivingUpBacked
  <2>7. CASE net' = SendTimes(net, e, end[e].far, "BUSY", end[e].about, 1)
    BY <2>1, <2>2, <2>7, <1>0, GivingUpBacked
  <2> QED BY <1>1, <2>4, <2>5, <2>6, <2>7 DEF DropDial, HangUp, Reject, Send
<1>2. ASSUME NEW e \in Ends, RingTimeout(e) \/ FarEndSilent(e) \/ EarlyTimer(e)
      PROVE  Backed'
  <2>1. end' = [end EXCEPT ![e] = Idle] /\ net' = net
    BY <1>2 DEF RingTimeout, FarEndSilent, EarlyTimer
  <2>2. /\ departed \subseteq departed'
        /\ end[e].state \in {"Dialling", "Call"} => {e} \X end[e].about \subseteq departed'
    <3>1. end'[e].state = "Idle"
      BY <2>1 DEF WireInv, WireTyped, Idle
    <3> QED
      BY <1>2, <3>1 DEF RingTimeout, FarEndSilent, EarlyTimer, Left
  <2> QED BY <2>1, <2>2, <1>0, GivingUpBacked
<1>3. ASSUME NEW e \in Ends, PlaceCall(e) \/ StartDial(e) \/ RepeatDial(e) \/ Answer(e)
      PROVE  Backed'
  BY <1>3, AskingBacked
<1>4. ASSUME NEW e \in Ends, NEW f \in Ends, Read(e, f) PROVE Backed'
  BY <1>4, ReadBacked
<1>5. ASSUME NEW e \in Ends, NEW f \in Ends, Lose(e, f) PROVE Backed'
  BY <1>5, LosingBacked
<1>6. CASE UNCHANGED wireVars
  BY <1>6 DEF wireVars, Backed, Vouched, About
<1> QED BY <1>1, <1>2, <1>3, <1>4, <1>5, <1>6 DEF WireNext

\* Who leaves a call that nobody gave up too early hangs up, or the far end has left.
FarEndEnds(e) ==
  end[e].state = "Call" /\ end'[e].state = "Idle" /\ upsets' = upsets
    => HangUp(e) \/ \E d \in end[e].about : <<end[e].far, d>> \in departed

LEMMA CallsEndedByFar ==
  ASSUME WireInv, Backed, WireNext, NEW e \in Ends
  PROVE  FarEndEnds(e)
<1> SUFFICES ASSUME end[e].state = "Call", end'[e].state = "Idle", upsets' = upsets,
                    ~HangUp(e)
             PROVE  \E d \in end[e].about : <<end[e].far, d>> \in departed
  BY DEF FarEndEnds
<1>0. /\ end \in [Ends -> EndState] /\ upsets \in Nat /\ end[e].far \in Ends
      /\ Vouched(end[e].far, e, end[e].about, 0)
  <2>1. plan.upsets \in Nat
    BY WireAssumption DEF WireInv, WireTyped
  <2> QED
    BY <2>1, WireEnd DEF WireInv, WireTyped, Backed
<1>1. PICK d \in end[e].about :
        \/ <<end[e].far, d>> \in departed
        \/ About(end[e].far, e, d) /\ NoBye(net[end[e].far][e], 0)
  BY <1>0 DEF Vouched
<1>2. CASE FarEndSilent(e)
  BY <1>1, <1>2 DEF FarEndSilent, Hears, About
<1>3. ASSUME NEW f \in Ends, Read(e, f)
      PROVE  <<end[e].far, d>> \in departed
  <2>1. PICK m, o : HasRead(e, f, m, o)
    BY <1>3, ReadMeans
  <2>2. /\ f = end[e].far /\ m.kind = "BYE"
        /\ 1 \in DOMAIN net[f][e] /\ m = net[f][e][1]
    BY <1>0, <2>1 DEF HasRead, Responds
  <2>3. ~NoBye(net[f][e], 0)
    BY <2>2 DEF NoBye
  <2> QED
    BY <1>1, <2>2, <2>3
<1>4. FarEndSilent(e) \/ \E f \in Ends : Read(e, f)
  <2>1. ~EarlyTimer(e)
    BY <1>0 DEF EarlyTimer
  <2>2. ~PlaceCall(e) /\ ~StartDial(e) /\ ~RepeatDial(e) /\ ~DropDial(e)
    BY DEF PlaceCall, StartDial, RepeatDial, DropDial
  <2>3. ~Answer(e) /\ ~Reject(e) /\ ~RingTimeout(e)
    BY DEF Answer, Reject, RingTimeout
  <2>4. ASSUME NEW x \in Ends, NEW s, end' = [end EXCEPT ![x] = s] PROVE x = e
    BY <1>0, <2>4
  <2>5. ASSUME NEW x \in Ends, PlaceCall(x) \/ StartDial(x) \/ DropDial(x) \/ Answer(x)
                                 \/ Reject(x) \/ HangUp(x)
        PROVE  x = e
    <3>1. StartDial(x) => end' = [end EXCEPT ![x] = [end[x] EXCEPT !.state = "Dialling"]]
      BY <1>0 DEF StartDial
    <3>2. PICK s : end' = [end EXCEPT ![x] = s]
      BY <1>0, <2>5, <3>1 DEF PlaceCall, DropDial, Answer, Reject, HangUp
    <3> QED
      BY <2>4, <3>2
  <2>6. ASSUME NEW x \in Ends, RingTimeout(x) \/ FarEndSilent(x) \/ EarlyTimer(x)
        PROVE  x = e
    BY <2>4, <2>6 DEF RingTimeout, FarEndSilent, EarlyTimer
  <2>7. ASSUME NEW x \in Ends, NEW f \in Ends, Read(x, f) PROVE x = e
    <3>1. PICK m, o : HasRead(x, f, m, o)
      BY <2>7, ReadMeans
    <3> QED
      BY <2>4, <3>1 DEF HasRead
  <2>8. ASSUME NEW x \in Ends PROVE ~RepeatDial(x) /\ \A f \in Ends : ~Lose(x, f)
    BY DEF RepeatDial, Lose
  <2> QED
    BY <2>1, <2>2, <2>3, <2>5, <2>6, <2>7, <2>8 DEF WireNext
<1> QED
  BY <1>2, <1>3, <1>4

-----------------------------------------------------------------------------
(***************************************************************************)
(* Audio.  The receiver sees numbers and timestamps that wrap, and has to  *)
(* place packets by them: that a number ahead of the next one by so much   *)
(* is the packet that was sent so much later needs that the network moves  *)
(* packets by less than the receiver takes for another stream              *)
(* (NetworkAssumption), that the sender counts (SenderAssumption) and that *)
(* the next packet, or a held one not far before, has just arrived.        *)
(***************************************************************************)
\* Some number of a set of natural numbers is the least: induction, for what
\* is defined by recursion.
LEMMA LeastOf ==
  ASSUME NEW T \in SUBSET Nat, T # {}
  PROVE  \E n \in T : \A m \in T : n <= m
<1>1. PICK n \in T : \A m \in T : ~(<<m, n>> \in OpToRel(<, Nat))
  BY NatLessThanWellFounded, WFMin, Zenon
<1>2. \A m \in T : ~(m < n)
  BY <1>1 DEF OpToRel
<1> QED
  BY <1>2

LEMMA Divided ==
  ASSUME NEW N \in Nat \ {0}, NEW a \in Int
  PROVE  /\ a % N \in 0 .. N - 1
         /\ \E k \in Int : a = k * N + (a % N)
<1>1. a % N \in 0 .. N - 1
  OBVIOUS
<1>2. a \div N \in Int /\ a = (a \div N) * N + (a % N)
  OBVIOUS
<1> QED
  BY <1>1, <1>2

LEMMA Turned ==
  ASSUME NEW N \in Nat \ {0}, NEW j \in Int, NEW k \in Int, j < k
  PROVE  j * N + N <= k * N
<1>1. PICK c \in Nat : k = j + 1 + c
  <2>1. k - j - 1 \in Nat /\ k = j + 1 + (k - j - 1)
    OBVIOUS
  <2> QED
    BY <2>1
<1>2. k * N = j * N + N + c * N
  BY <1>1
<1>3. j * N \in Int /\ c * N \in Nat
  BY <1>1
<1> QED
  BY <1>2, <1>3

LEMMA OneRemainder ==
  ASSUME NEW N \in Nat \ {0}, NEW j \in Int, NEW k \in Int,
         NEW r \in 0 .. N - 1, NEW q \in 0 .. N - 1, j * N + r = k * N + q
  PROVE  r = q
<1>0. j * N \in Int /\ k * N \in Int
  OBVIOUS
<1>1. ASSUME j < k PROVE FALSE
  <2>1. j * N + N <= k * N
    BY <1>1, Turned
  <2> DEFINE x == j * N  y == k * N
  <2>2. x \in Int /\ y \in Int /\ x + N <= y /\ x + r = y + q
    BY <1>0, <2>1
  <2> HIDE DEF x, y
  <2> QED
    BY <2>2
<1>2. ASSUME k < j PROVE FALSE
  <2>1. k * N + N <= j * N
    BY <1>2, Turned
  <2> DEFINE x == j * N  y == k * N
  <2>2. x \in Int /\ y \in Int /\ y + N <= x /\ x + r = y + q
    BY <1>0, <2>1
  <2> HIDE DEF x, y
  <2> QED
    BY <2>2
<1>3. j = k
  BY <1>1, <1>2
<1>4. j * N + r = j * N + q
  BY <1>3
<1> QED
  BY <1>0, <1>4

\* Numbers that are turns apart have one remainder.
LEMMA TurnsAway ==
  ASSUME NEW N \in Nat \ {0}, NEW a \in Int, NEW b \in Int, NEW k \in Int,
         a = k * N + b
  PROVE  a % N = b % N
<1>1. PICK i \in Int : a = i * N + (a % N)
  BY Divided
<1>2. PICK j \in Int : b = j * N + (b % N)
  BY Divided
<1>3. a % N \in 0 .. N - 1 /\ b % N \in 0 .. N - 1
  BY Divided
<1> DEFINE r == a % N  q == b % N
<1>4. /\ r \in 0 .. N - 1 /\ q \in 0 .. N - 1
      /\ a = i * N + r /\ b = j * N + q /\ a = k * N + b
  BY <1>1, <1>2, <1>3
<1> HIDE DEF r, q
<1>5. /\ i * N + r = (k + j) * N + q
      /\ k + j \in Int /\ N \in Nat \ {0}
  BY <1>4
<1>6. r = q
  BY <1>4, <1>5, OneRemainder, Zenon
<1> QED
  BY <1>6 DEF r, q

LEMMA Remains ==
  ASSUME NEW N \in Nat \ {0}, NEW r \in 0 .. N - 1, NEW k \in Int
  PROVE  (k * N + r) % N = r
<1>1. k * N + r \in Int
  OBVIOUS
<1>2. PICK j \in Int : k * N + r = j * N + ((k * N + r) % N)
  BY <1>1, Divided
<1>3. (k * N + r) % N \in 0 .. N - 1
  BY <1>1, Divided
<1> QED
  BY <1>2, <1>3, OneRemainder

\* Numbers that are less than half of their range apart, by how many.
LEMMA Apart ==
  ASSUME NEW number \in Int, NEW sequence \in Int, NEW x \in Int, NEW k \in Int,
         number - sequence = k * Numbers + x,
         -(Numbers \div 2) < x, x < Numbers \div 2
  PROVE  Distance(number, sequence) = x
<1> DEFINE half == Numbers \div 2
<1>1. half \in Nat /\ half + half <= Numbers /\ Numbers \in Nat \ {0}
  BY ReorderAssumption
<1>2. (number - sequence) % Numbers = IF x >= 0 THEN x ELSE x + Numbers
  <2>1. CASE x >= 0
    <3>1. x \in 0 .. Numbers - 1
      BY <1>1, <2>1
    <3> QED
      BY <1>1, <2>1, <3>1, Remains
  <2>2. CASE x < 0
    <3>1. x + Numbers \in 0 .. Numbers - 1 /\ k - 1 \in Int
      BY <1>1, <2>2
    <3>2. k * Numbers + x = (k - 1) * Numbers + (x + Numbers)
      BY <1>1
    <3>3. ((k - 1) * Numbers + (x + Numbers)) % Numbers = x + Numbers
      BY <1>1, <3>1, Remains
    <3> QED
      BY <2>2, <3>2, <3>3
  <2> QED
    BY <2>1, <2>2
<1> HIDE DEF half
<1>3. CASE x >= 0
  <2>1. (number - sequence) % Numbers = x /\ x < half
    BY <1>2, <1>3 DEF half
  <2> QED
    BY <2>1 DEF Distance, half
<1>4. CASE x < 0
  <2>1. (number - sequence) % Numbers = x + Numbers /\ ~(x + Numbers < half)
    BY <1>1, <1>2, <1>4 DEF half
  <2> QED
    BY <1>1, <2>1 DEF Distance, half
<1> QED
  BY <1>3, <1>4

\* Only what a number leaves when it is divided matters to how far it is.
LEMMA ApartAlike ==
  ASSUME NEW number \in Int, NEW a \in Int, NEW b \in Int, a % Numbers = b % Numbers
  PROVE  Distance(number, a) = Distance(number, b)
<1>1. Numbers \in Nat \ {0}
  BY ReorderAssumption
<1>2. PICK i \in Int : a = i * Numbers + (a % Numbers)
  BY <1>1, Divided
<1>3. PICK j \in Int : b = j * Numbers + (b % Numbers)
  BY <1>1, Divided
<1>4. a % Numbers \in Int
  BY <1>1, Divided
<1>5. \A x, y, k \in Int : x = k * Numbers + y => x % Numbers = y % Numbers
  BY <1>1, TurnsAway
<1>6. /\ number - a = (j - i) * Numbers + (number - b)
      /\ number - a \in Int /\ number - b \in Int /\ j - i \in Int
  BY <1>1, <1>2, <1>3, <1>4
<1>7. (number - a) % Numbers = (number - b) % Numbers
  BY <1>5, <1>6, Zenon
<1> QED
  BY <1>7 DEF Distance

\* How far a packet of the same stream is from the one that is to leave next.
LEMMA PacketsApart ==
  ASSUME NEW last \in Ids, NEW id \in Ids, NEW sequence \in Int,
         sequence % Numbers = (SequenceOf(last) + 1) % Numbers,
         Together(last, id), Together(id, last),
         -(Numbers \div 2) < id - last - 1, id - last - 1 < Numbers \div 2
  PROVE  Distance(SequenceOf(id), sequence) = id - last - 1
<1> DEFINE a == SequenceOf(last)  b == SequenceOf(id)
<1>0. /\ last \in Int /\ id \in Int /\ Numbers \in Nat \ {0}
      /\ a \in 0 .. Numbers - 1 /\ b \in 0 .. Numbers - 1
  BY ReorderAssumption DEF Ids
<1>1. last < id => b = (a + id - last) % Numbers
  BY SenderAssumption
<1>2. id < last => a = (b + last - id) % Numbers
  BY SenderAssumption
<1> HIDE DEF a, b
<1>3. PICK k \in Int : b - (a + 1) = k * Numbers + (id - last - 1)
  <2>1. CASE last < id
    <3>0. a + id - last \in Int
      BY <1>0
    <3>1. PICK k \in Int : a + id - last = k * Numbers + b
      BY <1>0, <1>1, <2>1, <3>0, Divided
    <3>2. -k \in Int /\ b - (a + 1) = (-k) * Numbers + (id - last - 1)
      BY <1>0, <3>1
    <3> QED
      BY <3>2
  <2>2. CASE id < last
    <3>0. b + last - id \in Int
      BY <1>0
    <3>1. PICK k \in Int : b + last - id = k * Numbers + a
      BY <1>0, <1>2, <2>2, <3>0, Divided
    <3>2. b - (a + 1) = k * Numbers + (id - last - 1)
      BY <1>0, <3>1
    <3> QED
      BY <3>2
  <2>3. CASE id = last
    <3>1. b - (a + 1) = 0 * Numbers + (id - last - 1)
      BY <1>0, <2>3 DEF a, b
    <3> QED
      BY <3>1
  <2> QED
    BY <1>0, <2>1, <2>2, <2>3
<1>4. Distance(b, a + 1) = id - last - 1
  <2>1. a + 1 \in Int /\ b \in Int /\ id - last - 1 \in Int
    BY <1>0
  <2> QED
    BY <1>3, <2>1, Apart
<1>5. Distance(b, sequence) = Distance(b, a + 1)
  <2>1. a + 1 \in Int /\ b \in Int /\ sequence % Numbers = (a + 1) % Numbers
    BY <1>0 DEF a
  <2> QED
    BY <2>1, ApartAlike
<1> QED
  BY <1>4, <1>5 DEF b

\* The last packet that has left.
Newest == out[Len(out)]

\* No packet is held beside another with its number.
Distinct(packets) == \A p, q \in packets : p.sequence = q.sequence => p = q

\* A packet may leave after those that have: it was sent later than the last
\* of them, or before a jump that the last is behind.
After(ids, id) ==
  \/ ids = <<>>
  \/ ids[Len(ids)] < id
  \/ ~Together(id, ids[Len(ids)])

\* What leaves is in the order it was sent, but for turning back over a jump.
Steady(ids) ==
  \A i \in 1 .. Len(ids) - 1 : ids[i] < ids[i + 1] \/ ~Together(ids[i + 1], ids[i])

Receivers == [next : Position, held : SUBSET Held, out : Seq(Ids), played : Nat]

\* The same, of a receiver's state.
LastOut(s) == s.out[Len(s.out)]

\* A packet that waits is one of the stream of the last that left, with as many
\* numbers between as packets.
Waits(s, p) ==
  LET last == LastOut(s)
  IN  /\ last < p.id /\ Together(last, p.id)
      /\ p.sequence - s.next.sequence = p.id - last - 1
      /\ p.id - last - 1 <= ResyncDistance
      /\ p.stamp = StampOf(p.id)
      /\ \/ p.id - last <= 2 * Reach
         \/ \E q \in s.held : q.id < p.id /\ p.id - q.id <= 2 * Reach

\* The next number and timestamp are those after the last packet that left.
Follows(s) ==
  LET last == LastOut(s)
  IN  /\ s.next.known /\ s.out # <<>> /\ Steady(s.out)
      /\ s.next.sequence % Numbers = (SequenceOf(last) + 1) % Numbers
      /\ s.next.stamp = (StampOf(last) + Samples) % Stamps

Kept(s) ==
  /\ s \in Receivers /\ IsFiniteSet(s.held) /\ Follows(s)
  /\ \A p \in s.held : Waits(s, p)

\* What the receiver knows of what the network has delivered.  Packets that are
\* neither passed nor waited for are from before the stream turned back.
Knows ==
  /\ start <= Newest /\ Together(start, Newest)
  /\ Newest \in arrived /\ \A p \in held : p.id \in arrived
  /\ \A a \in arrived :
       a <= Newest \/ (\E p \in held : a <= p.id) \/ a <= start + Reach

\* A packet that has been passed over has left or had to wait too long.
PassedOver ==
  \A id \in Ids :
    start <= id /\ id <= Newest =>
      \/ \E i \in 1 .. Len(out) : out[i] = id
      \/ Cardinality({a \in arrived : a > id}) > Window

AudioInv ==
  /\ TypeOK /\ IsFiniteSet(held)
  /\ ~next.known => arrived = {} /\ out = <<>> /\ held = {}
  /\ next.known =>
       /\ Kept(State) /\ Cardinality(held) <= Window
       /\ \A p \in held : p.sequence > next.sequence
       /\ ~ended => Knows /\ PassedOver

Below(packets, p) == {q \in packets : q.sequence < p.sequence}

\* Of packets with different numbers one has as many before it as one likes.
LEMMA Ranked ==
  ASSUME NEW packets \in SUBSET Held, IsFiniteSet(packets), Distinct(packets),
         NEW i \in 0 .. Cardinality(packets) - 1
  PROVE  \E p \in packets : Cardinality(Below(packets, p)) = i
<1> DEFINE n == Cardinality(packets)
           Among(j) == \E p \in packets : Cardinality(Below(packets, p)) = j
           Wrong == {j \in Nat : j < n /\ ~Among(j)}
<1>0. n \in Nat
  BY FS_CardinalityType
<1>1. SUFFICES ASSUME Wrong # {} PROVE FALSE
  BY <1>0
<1>2. PICK k \in Wrong : \A m \in Wrong : k <= m
  BY <1>1, LeastOf
<1>3. k \in Nat /\ k < n /\ ~Among(k)
  BY <1>2
<1>a. \A p \in packets : p.sequence \in Nat
  BY DEF Held
<1>4. ASSUME NEW qs \in SUBSET packets, qs # {}
      PROVE  \E p \in qs : \A q \in qs : p.sequence <= q.sequence
  <2> DEFINE T == {q.sequence : q \in qs}
  <2>1. T \in SUBSET Nat /\ T # {}
    BY <1>4, <1>a
  <2>2. PICK m \in T : \A l \in T : m <= l
    BY <2>1, LeastOf
  <2> QED
    BY <2>2
<1>5. CASE k = 0
  <2>1. packets # {}
    BY <1>0, <1>3, <1>5, FS_EmptySet
  <2>2. PICK p \in packets : \A q \in packets : p.sequence <= q.sequence
    BY <1>4, <2>1
  <2>3. Below(packets, p) = {}
    BY <1>a, <2>2 DEF Below
  <2>4. Cardinality(Below(packets, p)) = 0
    BY <2>3, FS_EmptySet
  <2> QED
    BY <1>3, <1>5, <2>4
<1>6. CASE k # 0
  <2>1. k - 1 \in Nat /\ k - 1 < n /\ k - 1 \notin Wrong
    BY <1>0, <1>2, <1>3, <1>6
  <2>2. PICK p \in packets : Cardinality(Below(packets, p)) = k - 1
    BY <2>1
  <2> DEFINE B == Below(packets, p)
             U == {q \in packets : p.sequence < q.sequence}
  <2>3. IsFiniteSet(B) /\ p \notin B
    BY <1>a, FS_Subset DEF Below
  <2>4. IsFiniteSet(B \cup {p}) /\ Cardinality(B \cup {p}) = k
    <3>1. IsFiniteSet(B \cup {p}) /\ Cardinality(B \cup {p}) = Cardinality(B) + 1
      BY <2>3, FS_AddElement, Zenon
    <3> QED
      BY <1>3, <2>2, <3>1
  <2>5. packets = (B \cup {p}) \cup U
    BY <1>a DEF Below, Distinct
  <2>6. U # {}
    <3> SUFFICES ASSUME U = {} PROVE FALSE
      OBVIOUS
    <3>1. packets = B \cup {p}
      BY <2>5, Zenon
    <3>2. n = k
      BY <2>4, <3>1, Zenon
    <3> QED
      BY <1>3, <3>2
  <2>7. PICK q \in U : \A r \in U : q.sequence <= r.sequence
    BY <1>4, <2>6
  <2>8. Below(packets, q) = B \cup {p}
    <3>1. \A r \in packets : r.sequence < q.sequence <=> r.sequence < p.sequence \/ r = p
      BY <1>a, <2>7 DEF Distinct
    <3> QED
      BY <3>1 DEF Below
  <2> QED
    BY <1>3, <2>4, <2>7, <2>8
<1> QED
  BY <1>5, <1>6

\* InOrder is a sequence of just the packets, the one with the lower number first.
LEMMA Ordered ==
  ASSUME NEW packets \in SUBSET Held, IsFiniteSet(packets), Distinct(packets)
  PROVE  /\ Cardinality(packets) \in Nat
         /\ InOrder(packets) \in Seq(packets)
         /\ Len(InOrder(packets)) = Cardinality(packets)
         /\ \A i, j \in 1 .. Cardinality(packets) :
              i < j => InOrder(packets)[i].sequence < InOrder(packets)[j].sequence
         /\ \A p \in packets : \E i \in 1 .. Cardinality(packets) : InOrder(packets)[i] = p
<1> DEFINE n == Cardinality(packets)
           ps == InOrder(packets)
<1>0. n \in Nat
  BY FS_CardinalityType
<1>a. \A p \in packets : p.sequence \in Nat
  BY DEF Held
<1>1. \A i \in 1 .. n : ps[i] \in packets /\ Cardinality(Below(packets, ps[i])) = i - 1
  <2> SUFFICES ASSUME NEW i \in 1 .. n
               PROVE  ps[i] \in packets /\ Cardinality(Below(packets, ps[i])) = i - 1
    OBVIOUS
  <2>1. i - 1 \in 0 .. n - 1
    BY <1>0
  <2>2. \E p \in packets : Cardinality(Below(packets, p)) = i - 1
    BY <2>1, Ranked
  <2>3. ps[i] = CHOOSE p \in packets : Cardinality(Below(packets, p)) = i - 1
    BY DEF InOrder, Below
  <2> QED
    BY <2>2, <2>3, Zenon
<1>2. ps \in Seq(packets) /\ Len(ps) = n
  <2> DEFINE e(i) == CHOOSE p \in packets :
                       Cardinality({q \in packets : q.sequence < p.sequence}) = i - 1
  <2>0. ps = [i \in 1 .. n |-> e(i)]
    BY DEF InOrder
  <2> HIDE DEF e
  <2>1. ps = [i \in 1 .. n |-> ps[i]]
    BY <2>0
  <2>2. \A i \in 1 .. n : ps[i] \in packets
    BY <1>1
  <2> HIDE DEF ps, n
  <2> QED
    BY <1>0, <2>1, <2>2
<1> HIDE DEF n, ps
<1>3. \A i, j \in 1 .. n : i < j => ps[i].sequence < ps[j].sequence
  <2> SUFFICES ASSUME NEW i \in 1 .. n, NEW j \in 1 .. n, i < j,
                      ~(ps[i].sequence < ps[j].sequence)
               PROVE  FALSE
    OBVIOUS
  <2> DEFINE A == Below(packets, ps[i])  B == Below(packets, ps[j])
  <2>1. ps[i] \in packets /\ ps[j] \in packets /\ i \in Int /\ j \in Int
        /\ Cardinality(A) = i - 1 /\ Cardinality(B) = j - 1
    BY <1>0, <1>1
  <2>2. B \subseteq A
    BY <1>a, <2>1 DEF Below
  <2>3. IsFiniteSet(A)
    BY FS_Subset DEF Below
  <2>4. Cardinality(B) <= Cardinality(A)
    BY <2>2, <2>3, FS_Subset
  <2> QED
    BY <2>1, <2>4
<1>4. \A p \in packets : \E i \in 1 .. n : ps[i] = p
  <2> SUFFICES ASSUME NEW p \in packets PROVE \E i \in 1 .. n : ps[i] = p
    OBVIOUS
  <2> DEFINE B == Below(packets, p)
             i == Cardinality(B) + 1
  <2>1. B \subseteq packets /\ p \notin B
    BY <1>a DEF Below
  <2>2. IsFiniteSet(B) /\ Cardinality(B) \in Nat /\ Cardinality(B) <= n
        /\ (Cardinality(B) = n => B = packets)
    BY <2>1, FS_Subset, FS_CardinalityType DEF n
  <2>3. i \in 1 .. n
    BY <1>0, <2>1, <2>2
  <2>4. ps[i] \in packets /\ Cardinality(Below(packets, ps[i])) = Cardinality(B)
    BY <1>1, <2>2, <2>3
  <2>5. ps[i].sequence = p.sequence
    <3>1. ASSUME NEW a \in packets, NEW b \in packets, a.sequence < b.sequence
          PROVE  Cardinality(Below(packets, a)) # Cardinality(Below(packets, b))
      <4>1. /\ Below(packets, a) \subseteq Below(packets, b)
            /\ a \in Below(packets, b) /\ a \notin Below(packets, a)
        BY <1>a, <3>1 DEF Below
      <4>2. IsFiniteSet(Below(packets, b))
        BY FS_Subset DEF Below
      <4> QED
        BY <4>1, <4>2, FS_Subset
    <3> QED
      BY <1>a, <2>4, <3>1
  <2> QED
    BY <2>3, <2>4, <2>5 DEF Distinct
<1> QED
  BY <1>0, <1>2, <1>3, <1>4 DEF n, ps

\* When the packet at a place is due, and how many samples leave with those up to it.
Due(stamp, ps, i) == IF i = 1 THEN stamp ELSE DueAfter(ps[i - 1])
Lengths(f, stamp, ps, n) ==
  f = [i \in 0 .. n |->
         IF i = 0 THEN 0
         ELSE f[i - 1] + Silence(Due(stamp, ps, i), ps[i].stamp) + Samples]

LEMMA LengthsExist ==
  ASSUME NEW stamp, NEW ps, NEW n \in Nat
  PROVE  \E f : Lengths(f, stamp, ps, n)
<1> DEFINE More(i) == Silence(Due(stamp, ps, i), ps[i].stamp) + Samples
           Without == {k \in Nat : ~\E f : Lengths(f, stamp, ps, k)}
<1>1. SUFFICES ASSUME Without # {} PROVE FALSE
  BY Zenon
<1>2. PICK k \in Without : \A m \in Without : k <= m
  BY <1>1, LeastOf
<1>3. k # 0
  <2>1. Lengths([i \in 0 .. 0 |-> 0], stamp, ps, 0)
    BY DEF Lengths
  <2> QED
    BY <2>1
<1>4. k - 1 \in Nat /\ k - 1 \notin Without
  BY <1>2, <1>3
<1>5. PICK g : Lengths(g, stamp, ps, k - 1)
  BY <1>4
<1> DEFINE f == [i \in 0 .. k |->
                   IF i = 0 THEN 0
                   ELSE g[i - 1] + Silence(Due(stamp, ps, i), ps[i].stamp) + Samples]
<1>6. \A j \in 0 .. k - 1 : f[j] = g[j]
  BY <1>5 DEF Lengths
<1> HIDE DEF f
<1>7. \A i \in 0 .. k :
        f[i] = IF i = 0 THEN 0
               ELSE f[i - 1] + Silence(Due(stamp, ps, i), ps[i].stamp) + Samples
  <2> SUFFICES ASSUME NEW i \in 0 .. k, i # 0
               PROVE  f[i] = f[i - 1] + Silence(Due(stamp, ps, i), ps[i].stamp) + Samples
    BY DEF f
  <2>1. i - 1 \in 0 .. k - 1
    BY <1>4
  <2>2. f[i] = g[i - 1] + Silence(Due(stamp, ps, i), ps[i].stamp) + Samples
    BY DEF f
  <2> QED
    BY <1>6, <2>1, <2>2
<1>8. Lengths(f, stamp, ps, k)
  <2>1. f = [i \in 0 .. k |-> f[i]]
    BY DEF f
  <2> QED
    BY <1>7, <2>1, Zenon DEF Lengths
<1> QED
  BY <1>8

\* Samples and silence together keep time, where no gap is too long.
LEMMA PlayedRight ==
  ASSUME NEW stamp \in 0 .. Stamps - 1, NEW ps \in Seq(Held), ps # <<>>
  PROVE  /\ PlayedWith(stamp, ps) \in Nat
         /\ (\A i \in 1 .. Len(ps) : (ps[i].stamp - Due(stamp, ps, i)) % Stamps <= MaxGap)
              => PlayedWith(stamp, ps) % Stamps
                   = (DueAfter(ps[Len(ps)]) - stamp) % Stamps
<1> DEFINE n == Len(ps)
           f == CHOOSE f : Lengths(f, stamp, ps, n)
           Close == \A i \in 1 .. n : (ps[i].stamp - Due(stamp, ps, i)) % Stamps <= MaxGap
           Here(i) == IF i = 0 THEN stamp ELSE DueAfter(ps[i])
<1>0. n \in Nat \ {0} /\ Stamps \in Nat \ {0} /\ Samples \in Nat /\ MaxGap \in Nat
  BY ReorderAssumption
<1>1. PlayedWith(stamp, ps) = f[n]
  BY DEF PlayedWith, Lengths, Due
<1>2. Lengths(f, stamp, ps, n)
  <2>1. \E g : Lengths(g, stamp, ps, n)
    BY <1>0, LengthsExist, Zenon
  <2> QED
    BY <2>1, Zenon
<1> HIDE DEF f
<1>3. /\ f[0] = 0
      /\ \A i \in 1 .. n : f[i] = f[i - 1] + Silence(Here(i - 1), ps[i].stamp) + Samples
  <2>1. f[0] = 0
    BY <1>0, <1>2 DEF Lengths
  <2>2. ASSUME NEW i \in 1 .. n
        PROVE  f[i] = f[i - 1] + Silence(Here(i - 1), ps[i].stamp) + Samples
    <3>1. f[i] = f[i - 1] + Silence(Due(stamp, ps, i), ps[i].stamp) + Samples
      BY <1>0, <1>2 DEF Lengths
    <3>2. Due(stamp, ps, i) = Here(i - 1)
      BY <1>0 DEF Due
    <3> QED
      BY <3>1, <3>2
  <2> QED
    BY <2>1, <2>2
<1>4. \A i \in 1 .. n : ps[i].stamp \in 0 .. Stamps - 1
  <2>1. \A i \in 1 .. n : ps[i] \in Held
    OBVIOUS
  <2> QED
    BY <2>1 DEF Held
<1>5. \A i \in 0 .. n : Here(i) \in 0 .. Stamps - 1
  <2> SUFFICES ASSUME NEW i \in 1 .. n PROVE DueAfter(ps[i]) \in 0 .. Stamps - 1
    BY <1>0
  <2>1. ps[i].stamp + Samples \in Int
    BY <1>0, <1>4
  <2> QED
    BY <1>0, <2>1, Divided DEF DueAfter
<1>6. \A i \in 1 .. n : Close => (ps[i].stamp - Here(i - 1)) % Stamps <= MaxGap
  BY <1>0 DEF Due
<1> HIDE DEF Close
<1> DEFINE Right(i) == /\ f[i] \in Nat
                       /\ Close => \E k \in Int : f[i] + stamp = k * Stamps + Here(i)
           Wrong == {i \in Nat : i <= n /\ ~Right(i)}
<1>7. Right(0)
  <2>1. f[0] + stamp = 0 * Stamps + Here(0)
    BY <1>0, <1>3
  <2> QED
    BY <1>3, <2>1
<1>8. ASSUME NEW i \in 1 .. n, Right(i - 1) PROVE Right(i)
  <2> DEFINE a == Here(i - 1)
             b == ps[i].stamp
             d == (b - a) % Stamps
             e == (b + Samples) % Stamps
  <2>1. /\ a \in 0 .. Stamps - 1 /\ b \in 0 .. Stamps - 1 /\ f[i - 1] \in Nat
        /\ b - a \in Int /\ b + Samples \in Int
    BY <1>0, <1>4, <1>5, <1>8
  <2>2. d \in 0 .. Stamps - 1 /\ e \in 0 .. Stamps - 1
    BY <1>0, <2>1, Divided
  <2>3. f[i] = f[i - 1] + (IF d <= MaxGap THEN d ELSE 0) + Samples
    BY <1>3 DEF Silence
  <2>4. PICK j \in Int : b - a = j * Stamps + d
    BY <1>0, <2>1, Divided
  <2>5. PICK l \in Int : b + Samples = l * Stamps + e
    BY <1>0, <2>1, Divided
  <2>6. Here(i) = e
    BY <1>0 DEF DueAfter
  <2>7. Close => d <= MaxGap
    BY <1>6
  <2>8. Close => \E k \in Int : f[i - 1] + stamp = k * Stamps + a
    BY <1>8
  <2> HIDE DEF a, b, d, e, Here
  <2>9. f[i] \in Nat
    BY <1>0, <2>1, <2>2, <2>3
  <2>10. ASSUME Close PROVE \E k \in Int : f[i] + stamp = k * Stamps + e
    <3>1. PICK k \in Int : f[i - 1] + stamp = k * Stamps + a
      BY <2>8, <2>10
    <3>2. f[i] = f[i - 1] + d + Samples
      BY <2>3, <2>7, <2>10
    <3>0. (k - j + l) * Stamps = k * Stamps - j * Stamps + l * Stamps
      BY <1>0
    <3> DEFINE x == k * Stamps  y == j * Stamps  z == l * Stamps
    <3>a. x \in Int /\ y \in Int /\ z \in Int
      BY <1>0
    <3>b. /\ f[i - 1] + stamp = x + a /\ b - a = y + d /\ b + Samples = z + e
          /\ (k - j + l) * Stamps = x - y + z
      BY <2>4, <2>5, <3>0, <3>1
    <3> HIDE DEF x, y, z
    <3>c. f[i] + stamp = x - y + z + e
      <4>1. /\ a \in Int /\ b \in Int /\ d \in Int /\ e \in Int /\ Samples \in Int
            /\ f[i - 1] \in Int /\ stamp \in Int
        BY <1>0, <2>1, <2>2
      <4> DEFINE p == f[i - 1]
      <4>2. p \in Int /\ f[i] = p + d + Samples /\ p + stamp = x + a
        BY <3>2, <3>b, <4>1
      <4> HIDE DEF p
      <4>3. b = a + y + d /\ z + e = b + Samples
        BY <3>a, <3>b, <4>1
      <4>4. f[i] + stamp = x + a + d + Samples
        BY <3>a, <4>1, <4>2
      <4> QED
        BY <3>a, <4>1, <4>3, <4>4
    <3>3. f[i] + stamp = (k - j + l) * Stamps + e
      BY <3>b, <3>c
    <3>4. k - j + l \in Int
      OBVIOUS
    <3> QED
      BY <3>3, <3>4
  <2> QED
    BY <2>6, <2>9, <2>10
<1> HIDE DEF Here, f, n
<1>9. Wrong = {}
  <2> SUFFICES ASSUME Wrong # {} PROVE FALSE
    OBVIOUS
  <2>1. PICK i \in Wrong : \A m \in Wrong : i <= m
    BY LeastOf
  <2>2. i \in Nat /\ i <= n /\ ~Right(i)
    BY <2>1
  <2>3. i # 0
    BY <1>7, <2>2
  <2>4. i \in 1 .. n /\ i - 1 \in Nat /\ i - 1 <= n /\ ~(i <= i - 1)
    BY <1>0, <2>2, <2>3
  <2>5. Right(i - 1)
    BY <2>1, <2>4
  <2> QED
    BY <1>8, <2>2, <2>4, <2>5
<1>10. Right(n)
  <2>1. n \in Nat /\ n <= n
    BY <1>0
  <2> QED
    BY <1>9, <2>1
<1> USE DEF Here
<1>11. ASSUME Close
       PROVE  PlayedWith(stamp, ps) % Stamps = (DueAfter(ps[n]) - stamp) % Stamps
  <2>1. PICK k \in Int : f[n] + stamp = k * Stamps + Here(n)
    BY <1>10, <1>11
  <2>2. f[n] \in Int /\ Here(n) \in Int /\ Here(n) - stamp \in Int
    BY <1>0, <1>5, <1>10
  <2>3. Here(n) = DueAfter(ps[n])
    BY <1>0
  <2> HIDE DEF Here
  <2>4. f[n] = k * Stamps + (Here(n) - stamp)
    BY <1>0, <2>1, <2>2
  <2>5. \A x, y, j \in Int : x = j * Stamps + y => x % Stamps = y % Stamps
    BY <1>0, TurnsAway
  <2>6. f[n] % Stamps = (Here(n) - stamp) % Stamps
    BY <2>2, <2>4, <2>5, Zenon
  <2> QED
    BY <1>1, <2>3, <2>6
<1> QED
  BY <1>1, <1>10, <1>11 DEF Close, n

Among(ids, id) == \E i \in 1 .. Len(ids) : ids[i] = id

\* What Release does: the packets have left, in order, and the next one is that
\* after the last of them.
LEMMA Released ==
  ASSUME NEW s \in Receivers, NEW packets \in SUBSET s.held, packets # {},
         IsFiniteSet(packets), Distinct(packets), Steady(s.out),
         \A p \in packets : After(s.out, p.id),
         \A p, q \in packets : p.sequence < q.sequence => p.id < q.id
  PROVE  LET r == Release(s, packets)
         IN  /\ r \in Receivers /\ r.held = s.held \ packets
             /\ r.out # <<>> /\ Steady(r.out)
             /\ \A id : Among(r.out, id) <=> Among(s.out, id) \/ \E p \in packets : p.id = id
             /\ \E top \in packets :
                  /\ \A p \in packets : p.sequence <= top.sequence
                  /\ r.out[Len(r.out)] = top.id
                  /\ r.next = [known |-> TRUE, sequence |-> top.sequence + 1,
                               stamp |-> DueAfter(top)]
<1> DEFINE ps == InOrder(packets)
           n == Len(ps)
           ids == [i \in 1 .. n |-> ps[i].id]
           r == Release(s, packets)
<1>0. /\ Stamps \in Nat \ {0} /\ Samples \in Nat
      /\ s.next \in Position /\ s.held \subseteq Held /\ s.out \in Seq(Ids) /\ s.played \in Nat
      /\ packets \in SUBSET Held
  BY ReorderAssumption DEF Receivers
<1>1. /\ n \in Nat /\ ps \in Seq(packets)
      /\ \A i, j \in 1 .. n : i < j => ps[i].sequence < ps[j].sequence
      /\ \A p \in packets : \E i \in 1 .. n : ps[i] = p
  BY <1>0, Ordered
<1>2. \A i \in 1 .. n : ps[i] \in packets
  BY <1>1
<1>3. n # 0
  BY <1>1
<1>4. ps \in Seq(Held) /\ ps # <<>> /\ s.next.stamp \in 0 .. Stamps - 1
  BY <1>0, <1>1, <1>3 DEF Position
<1>5. PlayedWith(s.next.stamp, ps) \in Nat
  BY <1>4, PlayedRight
<1>6. r = [s EXCEPT !.held = @ \ packets, !.out = @ \o ids,
                    !.played = @ + PlayedWith(s.next.stamp, ps),
                    !.next = [known |-> TRUE, sequence |-> ps[n].sequence + 1,
                              stamp |-> DueAfter(ps[n])]]
  BY DEF Release
<1> HIDE DEF r, ps
<1>7. \A p \in packets : /\ p.id \in Ids /\ p.sequence \in Nat
                         /\ p.stamp \in 0 .. Stamps - 1 /\ DueAfter(p) \in 0 .. Stamps - 1
  <2> SUFFICES ASSUME NEW p \in packets
               PROVE  /\ p.id \in Ids /\ p.sequence \in Nat
                      /\ p.stamp \in 0 .. Stamps - 1 /\ DueAfter(p) \in 0 .. Stamps - 1
    OBVIOUS
  <2>1. p.id \in Ids /\ p.sequence \in Nat /\ p.stamp \in 0 .. Stamps - 1
    BY <1>0 DEF Held
  <2>2. p.stamp + Samples \in Int
    BY <1>0, <2>1
  <2> QED
    BY <1>0, <2>1, <2>2, Divided DEF DueAfter
<1>8. ids \in Seq(Ids) /\ Len(ids) = n /\ \A i \in 1 .. n : ids[i] = ps[i].id
  BY <1>1, <1>2, <1>7
<1>9. /\ r.held = s.held \ packets /\ r.out = s.out \o ids
      /\ r.next = [known |-> TRUE, sequence |-> ps[n].sequence + 1,
                   stamp |-> DueAfter(ps[n])]
      /\ r.played = s.played + PlayedWith(s.next.stamp, ps)
  BY <1>6 DEF Receivers
<1>10. n \in 1 .. n /\ ps[n] \in packets
  BY <1>1, <1>2, <1>3
<1>11. r \in Receivers
  <2>1. r.next \in Position
    BY <1>7, <1>9, <1>10 DEF Position
  <2>2. r.out \in Seq(Ids)
    BY <1>0, <1>8, <1>9, ConcatProperties
  <2>3. r.played \in Nat /\ r.held \in SUBSET Held
    BY <1>0, <1>5, <1>9
  <2>4. r = [next |-> r.next, held |-> r.held, out |-> r.out, played |-> r.played]
    BY <1>6 DEF Receivers
  <2> QED
    BY <2>1, <2>2, <2>3, <2>4, Zenon DEF Receivers
<1> DEFINE m == Len(s.out)
<1>12. /\ m \in Nat /\ Len(r.out) = m + n
       /\ \A i \in 1 .. m : r.out[i] = s.out[i]
       /\ \A i \in m + 1 .. m + n : r.out[i] = ids[i - m]
       /\ \A i \in 1 .. m : s.out[i] \in Ids
  <2> DEFINE u == s.out
  <2>0. u \in Seq(Ids) /\ ids \in Seq(Ids) /\ Len(ids) = n /\ r.out = u \o ids /\ m = Len(u)
    BY <1>0, <1>8, <1>9
  <2> HIDE DEF u, ids, n, m
  <2>a. \A v, w \in Seq(Ids) :
          /\ Len(v) \in Nat /\ Len(w) \in Nat /\ Len(v \o w) = Len(v) + Len(w)
          /\ \A i \in 1 .. Len(v) + Len(w) :
               (v \o w)[i] = IF i <= Len(v) THEN v[i] ELSE w[i - Len(v)]
    BY ConcatProperties, LenProperties
  <2>1. /\ Len(u) \in Nat /\ Len(ids) \in Nat /\ Len(u \o ids) = Len(u) + Len(ids)
        /\ \A i \in 1 .. Len(u) + Len(ids) :
             (u \o ids)[i] = IF i <= Len(u) THEN u[i] ELSE ids[i - Len(u)]
    BY <2>0, <2>a
  <2>2. \A i \in 1 .. m : i \in 1 .. m + n /\ i <= m
    BY <2>0, <2>1
  <2>3. \A i \in m + 1 .. m + n : i \in 1 .. m + n /\ ~(i <= m)
    BY <2>0, <2>1
  <2>4. \A i \in 1 .. m : u[i] \in Ids
    BY <2>0
  <2> QED
    BY <2>0, <2>1, <2>2, <2>3, <2>4 DEF u
<1> HIDE DEF n, m, ids
<1>a. \A i \in 1 .. m : s.out[i] \in Int
  BY <1>12 DEF Ids
<1>b. \A i \in 1 .. n : ids[i] \in Int /\ \E p \in packets : ids[i] = p.id
  BY <1>2, <1>7, <1>8 DEF Ids
<1>13. Steady(r.out)
  <2>a. m \in Int /\ n \in Int /\ Len(r.out) = m + n
    BY <1>1, <1>12
  <2>0. Len(r.out) - 1 = m + n - 1
    BY <2>a
  <2> SUFFICES ASSUME NEW i \in 1 .. m + n - 1
               PROVE  r.out[i] < r.out[i + 1] \/ ~Together(r.out[i + 1], r.out[i])
    BY <2>0, Zenon DEF Steady
  <2>1. CASE i < m
    <3>1. i \in 1 .. m /\ i + 1 \in 1 .. m /\ i \in 1 .. m - 1
      BY <1>1, <1>12, <2>1
    <3>2. s.out[i] < s.out[i + 1] \/ ~Together(s.out[i + 1], s.out[i])
      BY <3>1 DEF Steady, m
    <3> QED
      BY <1>12, <3>1, <3>2
  <2>2. CASE i = m
    <3>1. i \in 1 .. m /\ i + 1 \in m + 1 .. m + n /\ (i + 1) - m = 1 /\ 1 \in 1 .. n
      BY <1>1, <1>3, <1>12, <2>2
    <3>2. PICK p \in packets : ids[1] = p.id
      BY <1>b, <3>1
    <3>3. r.out[i] = s.out[m] /\ r.out[i + 1] = p.id
      BY <1>12, <2>2, <3>1, <3>2
    <3>4. s.out # <<>>
      BY <2>2, <3>1 DEF m
    <3>5. s.out[m] < p.id \/ ~Together(p.id, s.out[m])
      BY <3>4 DEF After, m
    <3> QED
      BY <3>3, <3>5
  <2>3. CASE i > m
    <3>1. /\ i \in m + 1 .. m + n /\ i + 1 \in m + 1 .. m + n
          /\ i - m \in 1 .. n /\ (i + 1) - m \in 1 .. n /\ i - m < (i + 1) - m
      BY <1>1, <1>12, <2>3
    <3>2. ps[i - m].sequence < ps[(i + 1) - m].sequence
      BY <1>1, <3>1
    <3>3. ps[i - m].id < ps[(i + 1) - m].id
      BY <1>2, <3>1, <3>2
    <3>4. ids[i - m] < ids[(i + 1) - m]
      BY <1>8, <3>1, <3>3
    <3> QED
      BY <1>12, <3>1, <3>4
  <2> QED
    BY <1>1, <1>12, <2>1, <2>2, <2>3
<1>14. ASSUME NEW id
       PROVE  Among(r.out, id) <=> Among(s.out, id) \/ \E p \in packets : p.id = id
  <2>1. ASSUME Among(r.out, id) PROVE Among(s.out, id) \/ \E p \in packets : p.id = id
    <3>1. PICK i \in 1 .. m + n : r.out[i] = id
      BY <1>12, <2>1 DEF Among
    <3>2. CASE i <= m
      <4>1. i \in 1 .. m /\ s.out[i] = id
        BY <1>12, <3>1, <3>2
      <4> QED
        BY <4>1 DEF Among, m
    <3>3. CASE i > m
      <4>1. i \in m + 1 .. m + n /\ i - m \in 1 .. n
        BY <1>1, <1>12, <3>3
      <4> QED
        BY <1>12, <1>b, <3>1, <4>1
    <3> QED
      BY <1>12, <3>2, <3>3
  <2>2. ASSUME Among(s.out, id) PROVE Among(r.out, id)
    <3>1. PICK i \in 1 .. m : s.out[i] = id
      BY <2>2 DEF Among, m
    <3>2. i \in 1 .. m + n /\ r.out[i] = id
      BY <1>1, <1>12, <3>1
    <3> QED
      BY <1>12, <3>2 DEF Among
  <2>3. ASSUME NEW p \in packets, p.id = id PROVE Among(r.out, id)
    <3>1. PICK i \in 1 .. n : ps[i] = p
      BY <1>1
    <3>2. m + i \in m + 1 .. m + n /\ m + i \in 1 .. m + n /\ (m + i) - m = i
      BY <1>1, <1>12
    <3>3. r.out[m + i] = id
      BY <1>8, <1>12, <2>3, <3>1, <3>2
    <3> QED
      BY <1>12, <3>2, <3>3 DEF Among
  <2> QED
    BY <2>1, <2>2, <2>3
<1>15. /\ \A p \in packets : p.sequence <= ps[n].sequence
       /\ r.out # <<>> /\ r.out[Len(r.out)] = ps[n].id
  <2>1. ASSUME NEW p \in packets PROVE p.sequence <= ps[n].sequence
    <3>1. PICK i \in 1 .. n : ps[i] = p
      BY <1>1
    <3>2. i = n \/ i < n
      BY <1>1
    <3>3. p.sequence = ps[n].sequence \/ p.sequence < ps[n].sequence
      BY <1>1, <1>10, <3>1, <3>2
    <3> QED
      BY <1>7, <1>10, <3>3
  <2>2. m + n \in m + 1 .. m + n /\ (m + n) - m = n
    BY <1>1, <1>12, <1>10
  <2>3. r.out[m + n] = ps[n].id
    BY <1>8, <1>10, <1>12, <2>2
  <2>4. r.out # <<>>
    BY <1>1, <1>10, <1>12
  <2> QED
    BY <1>12, <2>1, <2>3, <2>4
<1>16. \E top \in packets :
         /\ \A p \in packets : p.sequence <= top.sequence
         /\ r.out[Len(r.out)] = top.id
         /\ r.next = [known |-> TRUE, sequence |-> top.sequence + 1, stamp |-> DueAfter(top)]
  BY <1>9, <1>10, <1>15
<1> QED
  BY <1>9, <1>11, <1>13, <1>14, <1>15, <1>16 DEF r

\* Packets that leave without too long a gap between them keep time.
LEMMA ReleasedOnTime ==
  ASSUME NEW s \in Receivers, NEW packets \in SUBSET s.held, packets # {},
         IsFiniteSet(packets), Distinct(packets),
         \A p \in packets :
           (\A q \in packets : p.sequence <= q.sequence)
             => (p.stamp - s.next.stamp) % Stamps <= MaxGap,
         \A p, q \in packets :
           p.sequence < q.sequence =>
             \/ \E o \in packets : p.sequence < o.sequence /\ o.sequence < q.sequence
             \/ (q.stamp - DueAfter(p)) % Stamps <= MaxGap
  PROVE  LET r == Release(s, packets)
         IN  (r.played - s.played) % Stamps = (r.next.stamp - s.next.stamp) % Stamps
<1> DEFINE ps == InOrder(packets)
           n == Len(ps)
           r == Release(s, packets)
<1>0. /\ s.next.stamp \in 0 .. Stamps - 1 /\ s.played \in Nat /\ packets \in SUBSET Held
  BY DEF Receivers, Position
<1>a. \A p \in packets : p.sequence \in Nat
  BY <1>0 DEF Held
<1>1. /\ n \in Nat /\ ps \in Seq(packets)
      /\ \A i, j \in 1 .. n : i < j => ps[i].sequence < ps[j].sequence
      /\ \A p \in packets : \E i \in 1 .. n : ps[i] = p
  BY <1>0, Ordered
<1>b. n \in Nat
  BY <1>1
<1>2. \A i \in 1 .. n : ps[i] \in packets
  BY <1>1
<1>3. n # 0 /\ ps \in Seq(Held) /\ ps # <<>>
  BY <1>0, <1>1
<1>4. /\ r.played = s.played + PlayedWith(s.next.stamp, ps)
      /\ r.next.stamp = DueAfter(ps[n])
  BY DEF Release, Receivers
<1> HIDE DEF r, ps
<1>5. ASSUME NEW i \in 1 .. n
      PROVE  (ps[i].stamp - Due(s.next.stamp, ps, i)) % Stamps <= MaxGap
  <2>1. CASE i = 1
    <3>1. \A q \in packets : ps[i].sequence <= q.sequence
      <4> SUFFICES ASSUME NEW j \in 1 .. n PROVE ps[i].sequence <= ps[j].sequence
        BY <1>1
      <4>1. j = 1 \/ 1 < j
        BY <1>1
      <4>2. ps[i].sequence = ps[j].sequence \/ ps[i].sequence < ps[j].sequence
        BY <1>1, <2>1, <4>1
      <4> QED
        BY <1>a, <1>2, <4>2
    <3> QED
      BY <1>2, <2>1, <3>1 DEF Due
  <2>2. CASE i # 1
    <3>1. i - 1 \in 1 .. n /\ i - 1 < i
      BY <1>1, <2>2
    <3>2. ps[i - 1].sequence < ps[i].sequence
      BY <1>1, <3>1
    <3>3. ASSUME NEW j \in 1 .. n
          PROVE  ~(ps[i - 1].sequence < ps[j].sequence /\ ps[j].sequence < ps[i].sequence)
      <4>1. j < i - 1 \/ j = i - 1 \/ j = i \/ i < j
        BY <1>b
      <4>2. \/ ps[j].sequence < ps[i - 1].sequence \/ ps[j].sequence = ps[i - 1].sequence
            \/ ps[j].sequence = ps[i].sequence \/ ps[i].sequence < ps[j].sequence
        BY <1>1, <3>1, <4>1
      <4> QED
        BY <1>a, <1>2, <3>1, <4>2
    <3>4. ~\E o \in packets : ps[i - 1].sequence < o.sequence /\ o.sequence < ps[i].sequence
      BY <1>1, <3>3
    <3>5. (ps[i].stamp - DueAfter(ps[i - 1])) % Stamps <= MaxGap
      BY <1>2, <3>1, <3>2, <3>4
    <3> QED
      BY <2>2, <3>5 DEF Due
  <2> QED
    BY <2>1, <2>2
<1>6. /\ PlayedWith(s.next.stamp, ps) \in Nat
      /\ PlayedWith(s.next.stamp, ps) % Stamps = (DueAfter(ps[n]) - s.next.stamp) % Stamps
  BY <1>0, <1>3, <1>5, PlayedRight
<1>7. r.played - s.played = PlayedWith(s.next.stamp, ps)
  BY <1>0, <1>4, <1>6
<1> QED
  BY <1>4, <1>6, <1>7 DEF r

\* The silence between two packets of one stream that came near enough.
LEMMA ShortGap ==
  ASSUME NEW a \in Ids, NEW b \in Ids, a < b, Together(a, b), b - a <= 2 * Reach
  PROVE  (StampOf(b) - ((StampOf(a) + Samples) % Stamps)) % Stamps <= MaxGap
<1> DEFINE e == (StampOf(a) + Samples) % Stamps
           x == StampOf(b) - e
           y == StampOf(b) - StampOf(a) - Samples
<1>1. /\ Stamps \in Nat \ {0} /\ Samples \in Nat
      /\ StampOf(a) \in Int /\ StampOf(b) \in Int /\ StampOf(a) + Samples \in Int
  BY ReorderAssumption
<1>2. y % Stamps <= MaxGap
  BY SenderAssumption
<1>3. e \in Int
  BY <1>1, Divided
<1>4. PICK k \in Int : StampOf(a) + Samples = k * Stamps + e
  BY <1>1, Divided
<1> HIDE DEF e
<1>5. x = k * Stamps + y /\ x \in Int /\ y \in Int
  <2> DEFINE u == k * Stamps
  <2>1. u \in Int /\ StampOf(a) + Samples = u + e
    BY <1>1, <1>4
  <2> HIDE DEF u
  <2>2. x = u + y /\ x \in Int /\ y \in Int
    BY <1>1, <1>3, <2>1
  <2> QED
    BY <2>2 DEF u
<1> HIDE DEF x, y
<1>6. \A v, w, j \in Int : v = j * Stamps + w => v % Stamps = w % Stamps
  BY <1>1, TurnsAway
<1>7. x % Stamps = y % Stamps
  BY <1>5, <1>6, Zenon
<1> QED
  BY <1>2, <1>7 DEF e, x, y

\* A packet's number goes on from that of an earlier one of the same stream.
LEMMA NumberedOn ==
  ASSUME NEW last \in Ids, NEW id \in Ids, NEW sequence \in Int,
         last < id, Together(last, id),
         sequence % Numbers = (SequenceOf(last) + 1) % Numbers
  PROVE  (sequence + (id - last - 1) + 1) % Numbers = (SequenceOf(id) + 1) % Numbers
<1> DEFINE a == SequenceOf(last)
           b == SequenceOf(id)
           x == sequence + (id - last - 1) + 1
           y == b + 1
           e == (a + 1) % Numbers
<1>1. /\ Numbers \in Nat \ {0} /\ last \in Int /\ id \in Int
      /\ a \in Int /\ b \in Int /\ a + id - last \in Int /\ a + 1 \in Int
  BY ReorderAssumption DEF Ids
<1>2. b = (a + id - last) % Numbers
  BY SenderAssumption
<1>3. PICK i \in Int : a + id - last = i * Numbers + b
  BY <1>1, <1>2, Divided
<1>4. PICK j \in Int : sequence = j * Numbers + e
  BY <1>1, Divided
<1>5. PICK k \in Int : a + 1 = k * Numbers + e
  BY <1>1, Divided
<1>6. e \in Int
  BY <1>1, Divided
<1> HIDE DEF a, b, e
<1>7. x = (j - k + i) * Numbers + y
  <2> DEFINE u == i * Numbers  v == j * Numbers  w == k * Numbers
  <2>1. u \in Int /\ v \in Int /\ w \in Int /\ (j - k + i) * Numbers = v - w + u
    BY <1>1
  <2>2. a + id - last = u + b /\ sequence = v + e /\ a + 1 = w + e
    BY <1>3, <1>4, <1>5
  <2> HIDE DEF u, v, w
  <2>3. x = v - w + u + y
    BY <1>1, <1>6, <2>1, <2>2
  <2> QED
    BY <2>1, <2>3
<1>8. x \in Int /\ y \in Int /\ j - k + i \in Int
  BY <1>1
<1> HIDE DEF x, y
<1>9. \A v, w, l \in Int : v = l * Numbers + w => v % Numbers = w % Numbers
  BY <1>1, TurnsAway
<1>10. x % Numbers = y % Numbers
  <2>1. PICK l \in Int : x = l * Numbers + y
    BY <1>7, <1>8
  <2> QED
    BY <1>8, <1>9, <2>1, Zenon
<1> QED
  BY <1>10 DEF b, x, y

LEMMA KeptMeans ==
  ASSUME NEW s, Kept(s)
  PROVE  /\ s \in Receivers /\ IsFiniteSet(s.held) /\ s.next.known /\ s.next.sequence \in Nat
         /\ s.out \in Seq(Ids) /\ s.out # <<>> /\ Steady(s.out)
         /\ LastOut(s) \in Ids /\ LastOut(s) \in Int /\ Among(s.out, LastOut(s))
         /\ \A p \in s.held : p \in Held /\ p.id \in Ids /\ p.id \in Int /\ p.sequence \in Nat
         /\ Distinct(s.held)
         /\ \A p, q \in s.held : p.sequence < q.sequence <=> p.id < q.id
<1> DEFINE outs == s.out
           n == Len(outs)
           last == LastOut(s)
<1>1. /\ s \in Receivers /\ IsFiniteSet(s.held) /\ s.next.known
      /\ s.out \in Seq(Ids) /\ s.out # <<>> /\ Steady(s.out)
      /\ s.next \in Position /\ s.held \in SUBSET Held
      /\ \A p \in s.held : Waits(s, p)
  BY DEF Kept, Follows, Receivers
<1>2. n \in Nat /\ n # 0 /\ \A i \in 1 .. n : outs[i] \in Ids
  BY <1>1
<1>3. n \in 1 .. n /\ last = outs[n]
  BY <1>2 DEF LastOut
<1>4. last \in Ids /\ last \in Int /\ Among(s.out, last)
  BY <1>2, <1>3 DEF Among, Ids
<1>6. s.next.sequence \in Nat
  BY <1>1 DEF Position
<1>7. \A p \in s.held : p \in Held /\ p.id \in Ids /\ p.id \in Int /\ p.sequence \in Nat
  BY <1>1 DEF Held, Ids
<1>8. \A p \in s.held : p.sequence - s.next.sequence = p.id - last - 1 /\ p.stamp = StampOf(p.id)
  BY <1>1 DEF Waits
<1> HIDE DEF last
<1>9. \A p, q \in s.held : p.sequence < q.sequence <=> p.id < q.id
  BY <1>4, <1>6, <1>7, <1>8
<1>10. Distinct(s.held)
  <2> SUFFICES ASSUME NEW p \in s.held, NEW q \in s.held, p.sequence = q.sequence
               PROVE  p = q
    BY DEF Distinct
  <2>1. p.id = q.id
    BY <1>4, <1>6, <1>7, <1>8
  <2>2. p.stamp = q.stamp
    BY <1>8, <2>1
  <2>3. p \in Held /\ q \in Held
    BY <1>7
  <2> QED
    BY <2>1, <2>2, <2>3 DEF Held
<1> QED
  BY <1>1, <1>4, <1>6, <1>7, <1>9, <1>10 DEF last

\* When the first packets that wait leave, the rest goes on waiting for what is
\* next, and the receiver keeps time.
LEMMA KeptReleased ==
  ASSUME NEW s, Kept(s), NEW packets \in SUBSET s.held, packets # {},
         \A p \in packets : \A q \in s.held \ packets : p.sequence < q.sequence
  PROVE  LET r == Release(s, packets)
         IN  /\ Kept(r) /\ r.held = s.held \ packets
             /\ \A id : Among(r.out, id) <=> Among(s.out, id) \/ \E p \in packets : p.id = id
             /\ \E top \in packets :
                  /\ \A p \in packets : p.id <= top.id /\ p.sequence <= top.sequence
                  /\ LastOut(r) = top.id /\ r.next.sequence = top.sequence + 1
             /\ (r.played - s.played) % Stamps = (r.next.stamp - s.next.stamp) % Stamps
<1> DEFINE r == Release(s, packets)
           last == LastOut(s)
<1>1. /\ s \in Receivers /\ IsFiniteSet(s.held) /\ s.next.known /\ s.next.sequence \in Nat
      /\ s.out \in Seq(Ids) /\ s.out # <<>> /\ Steady(s.out)
      /\ last \in Ids /\ last \in Int
      /\ \A p \in s.held : p \in Held /\ p.id \in Ids /\ p.id \in Int /\ p.sequence \in Nat
      /\ Distinct(s.held)
      /\ \A p, q \in s.held : p.sequence < q.sequence <=> p.id < q.id
  BY KeptMeans
<1>2. /\ s.next.sequence % Numbers = (SequenceOf(last) + 1) % Numbers
      /\ s.next.stamp = (StampOf(last) + Samples) % Stamps
      /\ \A p \in s.held :
           /\ last < p.id /\ Together(last, p.id)
           /\ p.sequence - s.next.sequence = p.id - last - 1
           /\ p.id - last - 1 <= ResyncDistance
           /\ p.stamp = StampOf(p.id)
           /\ \/ p.id - last <= 2 * Reach
              \/ \E q \in s.held : q.id < p.id /\ p.id - q.id <= 2 * Reach
  BY DEF Kept, Follows, Waits
<1>3. IsFiniteSet(packets) /\ Distinct(packets)
  BY <1>1, FS_Subset DEF Distinct
<1>0. ResyncDistance \in Int /\ Reach \in Int
  BY ReorderAssumption, NetworkAssumption
<1> HIDE DEF last, r
<1>4. \A p \in packets : After(s.out, p.id)
  BY <1>2 DEF After, last, LastOut
<1>5. \A p, q \in packets : p.sequence < q.sequence => p.id < q.id
  BY <1>1
<1>6. /\ r \in Receivers /\ r.held = s.held \ packets
      /\ r.out # <<>> /\ Steady(r.out)
      /\ \A id : Among(r.out, id) <=> Among(s.out, id) \/ \E p \in packets : p.id = id
      /\ \E top \in packets :
           /\ \A p \in packets : p.sequence <= top.sequence
           /\ r.out[Len(r.out)] = top.id
           /\ r.next = [known |-> TRUE, sequence |-> top.sequence + 1,
                        stamp |-> DueAfter(top)]
  BY <1>1, <1>3, <1>4, <1>5, Released DEF r
<1>7. PICK top \in packets :
        /\ \A p \in packets : p.sequence <= top.sequence
        /\ r.out[Len(r.out)] = top.id
        /\ r.next = [known |-> TRUE, sequence |-> top.sequence + 1, stamp |-> DueAfter(top)]
  BY <1>6
<1>8. \A p \in packets : p.id <= top.id /\ p.sequence <= top.sequence
  BY <1>1, <1>7
<1>9. LastOut(r) = top.id /\ top.id \in Ids /\ top.id \in Int /\ r.next.known
      /\ r.next.sequence = top.sequence + 1 /\ r.next.stamp = DueAfter(top)
  BY <1>1, <1>7 DEF LastOut
<1>10. ASSUME NEW q \in r.held PROVE Waits(r, q)
  <2>1. q \in s.held /\ top \in s.held /\ top.sequence < q.sequence /\ top.id < q.id
    BY <1>1, <1>6
  <2>2. Together(top.id, q.id)
    <3> SUFFICES ASSUME NEW j \in Jumps, top.id < j, j <= q.id PROVE FALSE
      BY DEF Together
    <3>1. last < top.id /\ j \in Int
      BY <1>2, NetworkAssumption DEF Ids
    <3>2. last < j
      BY <1>1, <1>9, <3>1
    <3> QED
      BY <1>2, <2>1, <3>2 DEF Together
  <2>3. /\ q.sequence - r.next.sequence = q.id - top.id - 1
        /\ q.id - top.id - 1 <= ResyncDistance
    <3>1. /\ q.sequence - s.next.sequence = q.id - last - 1
          /\ top.sequence - s.next.sequence = top.id - last - 1
          /\ q.id - last - 1 <= ResyncDistance /\ last < top.id
      BY <1>2, <2>1
    <3>2. /\ q.sequence \in Int /\ top.sequence \in Int /\ s.next.sequence \in Int
          /\ q.id \in Int /\ top.id \in Int /\ last \in Int
          /\ r.next.sequence = top.sequence + 1
      BY <1>1, <1>9, <2>1
    <3> QED
      BY <1>0, <3>1, <3>2
  <2>4. \/ q.id - top.id <= 2 * Reach
        \/ \E o \in r.held : o.id < q.id /\ q.id - o.id <= 2 * Reach
    <3>1. CASE q.id - last <= 2 * Reach
      <4>1. last < top.id
        BY <1>2
      <4> QED
        BY <1>0, <1>1, <1>9, <2>1, <3>1, <4>1
    <3>2. ASSUME NEW o \in s.held, o.id < q.id, q.id - o.id <= 2 * Reach
          PROVE  \/ q.id - top.id <= 2 * Reach
                 \/ \E x \in r.held : x.id < q.id /\ q.id - x.id <= 2 * Reach
      <4>1. o \in packets => q.id - top.id <= 2 * Reach
        BY <1>0, <1>1, <1>8, <1>9, <2>1, <3>2
      <4> QED
        BY <1>6, <3>2, <4>1
    <3> QED
      BY <1>2, <2>1, <3>1, <3>2
  <2> QED
    BY <1>2, <1>9, <2>1, <2>2, <2>3, <2>4 DEF Waits
<1>11. Follows(r)
  <2>1. top.sequence + 1 = s.next.sequence + (top.id - last - 1) + 1
    BY <1>1, <1>2
  <2>2. s.next.sequence \in Int /\ last < top.id /\ Together(last, top.id)
    BY <1>1, <1>2
  <2>3. (s.next.sequence + (top.id - last - 1) + 1) % Numbers = (SequenceOf(top.id) + 1) % Numbers
    BY <1>1, <1>2, <1>9, <2>2, NumberedOn
  <2>4. DueAfter(top) = (StampOf(top.id) + Samples) % Stamps
    BY <1>2 DEF DueAfter
  <2> QED
    BY <1>6, <1>9, <2>1, <2>3, <2>4 DEF Follows
<1>12. Kept(r)
  <2>1. IsFiniteSet(r.held)
    BY <1>1, <1>6, FS_Subset
  <2> QED
    BY <1>6, <1>10, <1>11, <2>1 DEF Kept
<1>13. (r.played - s.played) % Stamps = (r.next.stamp - s.next.stamp) % Stamps
  <2>1. ASSUME NEW p \in packets, \A q \in packets : p.sequence <= q.sequence
        PROVE  (p.stamp - s.next.stamp) % Stamps <= MaxGap
    <3>1. p.id - last <= 2 * Reach
      <4> SUFFICES ASSUME NEW q \in s.held, q.id < p.id PROVE FALSE
        BY <1>2
      <4>1. q.sequence < p.sequence
        BY <1>1
      <4>2. q \in packets
        BY <1>1, <4>1
      <4> QED
        BY <1>1, <2>1, <4>1, <4>2
    <3>2. last < p.id /\ Together(last, p.id) /\ p.id \in Ids /\ p.stamp = StampOf(p.id)
      BY <1>1, <1>2
    <3> QED
      BY <1>1, <1>2, <3>1, <3>2, ShortGap
  <2>2. ASSUME NEW p \in packets, NEW q \in packets, p.sequence < q.sequence,
               ~\E o \in packets : p.sequence < o.sequence /\ o.sequence < q.sequence
        PROVE  (q.stamp - DueAfter(p)) % Stamps <= MaxGap
    <3>0. p \in s.held /\ q \in s.held /\ p.id < q.id
      BY <1>1, <2>2
    <3>1. q.id - p.id <= 2 * Reach
      <4>1. CASE q.id - last <= 2 * Reach
        BY <1>0, <1>1, <1>2, <3>0, <4>1
      <4>2. ASSUME NEW o \in s.held, o.id < q.id, q.id - o.id <= 2 * Reach
            PROVE  q.id - p.id <= 2 * Reach
        <5>1. o.sequence < q.sequence
          BY <1>1, <3>0, <4>2
        <5>2. o \in packets
          BY <1>1, <5>1
        <5>3. ~(p.sequence < o.sequence)
          BY <2>2, <5>1, <5>2
        <5>4. ~(p.id < o.id)
          BY <1>1, <3>0, <5>3
        <5> QED
          BY <1>0, <1>1, <3>0, <4>2, <5>4
      <4> QED
        BY <1>2, <3>0, <4>1, <4>2
    <3>2. Together(p.id, q.id)
      <4> SUFFICES ASSUME NEW j \in Jumps, p.id < j, j <= q.id PROVE FALSE
        BY DEF Together
      <4>1. last < p.id /\ j \in Int
        BY <1>2, NetworkAssumption DEF Ids
      <4>2. last < j
        BY <1>1, <3>0, <4>1
      <4> QED
        BY <1>2, <4>2 DEF Together
    <3>3. p.id \in Ids /\ q.id \in Ids /\ p.stamp = StampOf(p.id) /\ q.stamp = StampOf(q.id)
      BY <1>1, <1>2
    <3> QED
      BY <3>0, <3>1, <3>2, <3>3, ShortGap DEF DueAfter
  <2>3. \A p \in packets :
          (\A q \in packets : p.sequence <= q.sequence)
            => (p.stamp - s.next.stamp) % Stamps <= MaxGap
    BY <2>1
  <2>4. \A p, q \in packets :
          p.sequence < q.sequence =>
            \/ \E o \in packets : p.sequence < o.sequence /\ o.sequence < q.sequence
            \/ (q.stamp - DueAfter(p)) % Stamps <= MaxGap
    BY <2>2
  <2>5. s \in Receivers
    BY <1>1
  <2> QED
    BY <1>3, <2>3, <2>4, <2>5, ReleasedOnTime, Zenon DEF r
<1> QED
  BY <1>6, <1>8, <1>9, <1>12, <1>13 DEF r

\* A run of numbers is before the rest, and the rest is not next to it.
LEMMA RunsLeave ==
  ASSUME NEW s, Kept(s), NEW from \in Nat, \A p \in s.held : from <= p.sequence,
         NEW run, run = RunFrom(s.held, from)
  PROVE  /\ run \in SUBSET s.held
         /\ \A p \in run : \A q \in s.held \ run : p.sequence < q.sequence
         /\ \A p \in run : \A q \in s.held \ run : q.sequence # p.sequence + 1
         /\ \A p \in run : \A n \in from .. p.sequence : \E q \in run : q.sequence = n
         /\ \A p \in s.held : p.sequence = from => p \in run
<1>1. \A p \in s.held : p.sequence \in Nat
  BY KeptMeans
<1>2. \A p : p \in run <=> /\ p \in s.held
                           /\ \A n \in from .. p.sequence : \E q \in s.held : q.sequence = n
  BY DEF RunFrom
<1>3. ASSUME NEW p \in run, NEW q \in s.held, q.sequence <= p.sequence + 1
      PROVE  q \in run
  <2> SUFFICES ASSUME NEW n \in from .. q.sequence
               PROVE  \E o \in s.held : o.sequence = n
    BY <1>2
  <2>1. p \in s.held /\ p.sequence \in Nat /\ q.sequence \in Nat
    BY <1>1, <1>2
  <2>2. n = q.sequence \/ n \in from .. p.sequence
    BY <1>3, <2>1
  <2> QED
    BY <1>2, <2>2
<1>4. run \in SUBSET s.held
  BY <1>2
<1>5. ASSUME NEW p \in run, NEW q \in s.held \ run
      PROVE  p.sequence < q.sequence /\ q.sequence # p.sequence + 1
  <2>1. p.sequence \in Nat /\ q.sequence \in Nat /\ ~(q.sequence <= p.sequence + 1)
    BY <1>1, <1>3, <1>4
  <2> QED
    BY <2>1
<1>6. ASSUME NEW p \in run, NEW n \in from .. p.sequence
      PROVE  \E q \in run : q.sequence = n
  <2>1. PICK q \in s.held : q.sequence = n
    BY <1>2
  <2>2. q.sequence <= p.sequence + 1
    BY <1>1, <1>4, <2>1
  <2> QED
    BY <1>3, <2>1, <2>2
<1>7. ASSUME NEW p \in s.held, p.sequence = from PROVE p \in run
  <2>1. \A n \in from .. p.sequence : p.sequence = n
    BY <1>7
  <2> QED
    BY <1>2, <2>1
<1> QED
  BY <1>4, <1>5, <1>6, <1>7

\* What a receiver does with what it holds: it goes on in step with the sender.
GoesOn(s, r) ==
  /\ Kept(r) /\ r.held \subseteq s.held /\ LastOut(s) <= LastOut(r)
  /\ LastOut(r) = LastOut(s) \/ \E p \in s.held \ r.held : LastOut(r) = p.id
  /\ \A p \in s.held \ r.held : p.id <= LastOut(r)
  /\ \A id : Among(r.out, id) <=> Among(s.out, id) \/ \E p \in s.held \ r.held : p.id = id
  /\ (r.played - s.played) % Stamps = (r.next.stamp - s.next.stamp) % Stamps

LEMMA GoesOnReleased ==
  ASSUME NEW s, Kept(s), NEW packets \in SUBSET s.held, packets # {},
         \A p \in packets : \A q \in s.held \ packets : p.sequence < q.sequence
  PROVE  LET r == Release(s, packets)
         IN  /\ GoesOn(s, r) /\ r.held = s.held \ packets
             /\ \E top \in packets :
                  /\ \A p \in packets : p.id <= top.id /\ p.sequence <= top.sequence
                  /\ LastOut(r) = top.id /\ r.next.sequence = top.sequence + 1
<1> DEFINE r == Release(s, packets)
<1>1. /\ Kept(r) /\ r.held = s.held \ packets
      /\ \A id : Among(r.out, id) <=> Among(s.out, id) \/ \E p \in packets : p.id = id
      /\ \E top \in packets :
           /\ \A p \in packets : p.id <= top.id /\ p.sequence <= top.sequence
           /\ LastOut(r) = top.id /\ r.next.sequence = top.sequence + 1
      /\ (r.played - s.played) % Stamps = (r.next.stamp - s.next.stamp) % Stamps
  BY KeptReleased
<1> HIDE DEF r
<1>2. PICK top \in packets : LastOut(r) = top.id /\ \A p \in packets : p.id <= top.id
  BY <1>1
<1>3. LastOut(s) <= LastOut(r)
  <2>1. LastOut(s) \in Int /\ top.id \in Int
    BY KeptMeans
  <2>2. LastOut(s) < top.id
    BY DEF Kept, Waits
  <2> QED
    BY <1>2, <2>1, <2>2
<1>4. s.held \ r.held = packets
  BY <1>1
<1>5. /\ \E p \in s.held \ r.held : LastOut(r) = p.id
      /\ \A p \in s.held \ r.held : p.id <= LastOut(r)
  BY <1>2, <1>4
<1> QED
  BY <1>1, <1>3, <1>4, <1>5 DEF GoesOn, r

LEMMA GoesOnSame ==
  ASSUME NEW s, Kept(s)
  PROVE  GoesOn(s, s)
<1>1. LastOut(s) \in Int /\ s \in Receivers
  BY KeptMeans
<1>2. s.played \in Int /\ s.next.stamp \in Int
  BY <1>1 DEF Receivers, Position
<1>3. s.played - s.played = 0 /\ s.next.stamp - s.next.stamp = 0
  BY <1>2
<1> QED
  BY <1>1, <1>3 DEF GoesOn

LEMMA Drained ==
  ASSUME NEW s, Kept(s)
  PROVE  /\ GoesOn(s, Drain(s))
         /\ \A p \in Drain(s).held : p.sequence > Drain(s).next.sequence
         /\ \A x \in Ids : LastOut(s) < x /\ x <= LastOut(Drain(s)) => Among(Drain(s).out, x)
<1> DEFINE from == s.next.sequence
           run == RunFrom(s.held, from)
           r == Drain(s)
           last == LastOut(s)
<1>1. /\ from \in Nat /\ last \in Int
      /\ \A p \in s.held : p.sequence \in Nat /\ p.id \in Int
  BY KeptMeans
<1>2. \A p \in s.held : last < p.id /\ p.sequence - from = p.id - last - 1
  BY DEF Kept, Waits
<1> HIDE DEF last
<1>3. \A p \in s.held : from <= p.sequence
  BY <1>1, <1>2
<1>4. /\ run \in SUBSET s.held
      /\ \A p \in run : \A q \in s.held \ run : p.sequence < q.sequence
      /\ \A p \in run : \A q \in s.held \ run : q.sequence # p.sequence + 1
      /\ \A p \in run : \A n \in from .. p.sequence : \E q \in run : q.sequence = n
      /\ \A p \in s.held : p.sequence = from => p \in run
  BY <1>1, <1>3, RunsLeave
<1>5. r = Release(s, run)
  BY DEF Drain
<1> HIDE DEF run, r, from
<1>6. CASE run = {}
  <2>1. r = s
    BY <1>5, <1>6 DEF Release
  <2>2. \A p \in s.held : p.sequence > from
    BY <1>1, <1>3, <1>4, <1>6
  <2>3. GoesOn(s, s)
    BY GoesOnSame
  <2>4. \A x \in Ids : ~(last < x /\ x <= last)
    BY <1>1 DEF Ids
  <2> QED
    BY <2>1, <2>2, <2>3, <2>4 DEF r, from, last
<1>7. CASE run # {}
  <2>1. /\ GoesOn(s, r) /\ r.held = s.held \ run
        /\ \E top \in run :
             /\ \A p \in run : p.id <= top.id /\ p.sequence <= top.sequence
             /\ LastOut(r) = top.id /\ r.next.sequence = top.sequence + 1
    BY <1>4, <1>5, <1>7, GoesOnReleased
  <2>2. PICK top \in run : LastOut(r) = top.id /\ r.next.sequence = top.sequence + 1
    BY <2>1
  <2>3. ASSUME NEW q \in r.held PROVE q.sequence > r.next.sequence
    <3>1. q \in s.held \ run /\ top.sequence \in Nat /\ q.sequence \in Nat
      BY <1>1, <1>4, <2>1
    <3>2. top.sequence < q.sequence /\ q.sequence # top.sequence + 1
      BY <1>4, <3>1
    <3> QED
      BY <2>2, <3>1, <3>2
  <2>4. ASSUME NEW x \in Ids, last < x, x <= LastOut(r) PROVE Among(r.out, x)
    <3>0. x \in Int /\ top.id \in Int /\ top.sequence \in Int
      BY <1>1, <1>4 DEF Ids
    <3>1. top.sequence - from = top.id - last - 1 /\ x <= top.id
      BY <1>2, <1>4, <2>2, <2>4
    <3>2. from + (x - last - 1) \in from .. top.sequence
      BY <1>1, <2>4, <3>0, <3>1
    <3>3. PICK q \in run : q.sequence = from + (x - last - 1)
      BY <1>4, <3>2
    <3>4. q.sequence - from = q.id - last - 1 /\ q.id \in Int
      BY <1>1, <1>2, <1>4
    <3>5. q.id = x
      BY <1>1, <3>0, <3>3, <3>4
    <3>6. q \in s.held \ r.held
      BY <1>4, <2>1
    <3> QED
      BY <2>1, <3>5, <3>6 DEF GoesOn
  <2> QED
    BY <2>1, <2>3, <2>4 DEF r, last
<1> QED
  BY <1>6, <1>7

LEMMA GaveUp ==
  ASSUME NEW s, Kept(s), Cardinality(s.held) <= Window + 1,
         \A p \in s.held : p.sequence > s.next.sequence
  PROVE  /\ GoesOn(s, GiveUp(s)) /\ Cardinality(GiveUp(s).held) <= Window
         /\ \A p \in GiveUp(s).held : p.sequence > GiveUp(s).next.sequence
         /\ \A x \in Ids :
              LastOut(s) < x /\ x <= LastOut(GiveUp(s)) =>
                \/ Among(GiveUp(s).out, x)
                \/ Cardinality(s.held) > Window /\ \A p \in s.held : p.id > x
<1> DEFINE r == GiveUp(s)
           last == LastOut(s)
<1>1. /\ s.next.sequence \in Nat /\ last \in Int /\ IsFiniteSet(s.held) /\ Window \in Nat
      /\ \A p \in s.held : p.sequence \in Nat /\ p.id \in Int
  BY KeptMeans, ReorderAssumption
<1>2. \A p \in s.held : last < p.id /\ p.sequence - s.next.sequence = p.id - last - 1
  BY DEF Kept, Waits
<1> HIDE DEF last
<1>3. Cardinality(s.held) \in Nat
  BY <1>1, FS_CardinalityType
<1>4. CASE ~(Cardinality(s.held) > Window)
  <2>1. r = s
    BY <1>4 DEF GiveUp
  <2>2. GoesOn(s, s)
    BY GoesOnSame
  <2>3. \A x \in Ids : ~(last < x /\ x <= last)
    BY <1>1 DEF Ids
  <2>4. Cardinality(s.held) <= Window
    BY <1>1, <1>3, <1>4
  <2> QED
    BY <2>1, <2>2, <2>3, <2>4 DEF last
<1>5. CASE Cardinality(s.held) > Window
  <2> DEFINE least == CHOOSE p \in s.held : \A q \in s.held : p.sequence <= q.sequence
             from == First(s.held)
             run == RunFrom(s.held, from)
  <2>1. s.held # {}
    BY <1>1, <1>5, FS_EmptySet
  <2>2. \E p \in s.held : \A q \in s.held : p.sequence <= q.sequence
    <3> DEFINE T == {q.sequence : q \in s.held}
    <3>1. T \in SUBSET Nat /\ T # {}
      BY <1>1, <2>1
    <3>2. PICK m \in T : \A l \in T : m <= l
      BY <3>1, LeastOf
    <3> QED
      BY <3>2
  <2>3. least \in s.held /\ \A q \in s.held : least.sequence <= q.sequence
    BY <2>2, Zenon
  <2>4. from = least.sequence /\ r = Release(s, run)
    BY <1>5 DEF First, GiveUp
  <2> HIDE DEF least, from, run, r
  <2>5. from \in Nat /\ \A p \in s.held : from <= p.sequence
    BY <1>1, <2>3, <2>4
  <2>6. /\ run \in SUBSET s.held
        /\ \A p \in run : \A q \in s.held \ run : p.sequence < q.sequence
        /\ \A p \in run : \A q \in s.held \ run : q.sequence # p.sequence + 1
        /\ \A p \in run : \A n \in from .. p.sequence : \E q \in run : q.sequence = n
        /\ \A p \in s.held : p.sequence = from => p \in run
    <3>1. run = RunFrom(s.held, from)
      BY DEF run
    <3> QED
      BY <2>5, <3>1, RunsLeave
  <2>7. least \in run
    BY <2>3, <2>4, <2>6
  <2>8. /\ GoesOn(s, r) /\ r.held = s.held \ run
        /\ \E top \in run :
             /\ \A p \in run : p.id <= top.id /\ p.sequence <= top.sequence
             /\ LastOut(r) = top.id /\ r.next.sequence = top.sequence + 1
    BY <2>4, <2>6, <2>7, GoesOnReleased
  <2>9. PICK top \in run : LastOut(r) = top.id /\ r.next.sequence = top.sequence + 1
    BY <2>8
  <2>10. ASSUME NEW q \in r.held PROVE q.sequence > r.next.sequence
    <3>1. q \in s.held \ run /\ top.sequence \in Nat /\ q.sequence \in Nat
      BY <1>1, <2>6, <2>8
    <3>2. top.sequence < q.sequence /\ q.sequence # top.sequence + 1
      BY <2>6, <3>1
    <3> QED
      BY <2>9, <3>1, <3>2
  <2>11. Cardinality(r.held) <= Window
    <3>1. r.held \subseteq s.held \ {least}
      BY <2>7, <2>8
    <3>2. IsFiniteSet(s.held \ {least}) /\ Cardinality(s.held \ {least}) = Cardinality(s.held) - 1
      BY <1>1, <2>3, FS_RemoveElement
    <3>3. /\ Cardinality(r.held) <= Cardinality(s.held \ {least})
          /\ Cardinality(r.held) \in Nat
      BY <3>1, <3>2, FS_Subset, FS_CardinalityType
    <3> QED
      BY <1>1, <1>3, <3>2, <3>3
  <2>12. ASSUME NEW x \in Ids, last < x, x <= LastOut(r), ~(\A p \in s.held : p.id > x)
         PROVE  Among(r.out, x)
    <3>0. /\ x \in Int /\ top.id \in Int /\ top.sequence \in Int /\ least.id \in Int
          /\ least.sequence \in Int /\ s.next.sequence \in Int
      BY <1>1, <2>3, <2>6 DEF Ids
    <3>1. /\ top.sequence - s.next.sequence = top.id - last - 1 /\ x <= top.id
          /\ least.sequence - s.next.sequence = least.id - last - 1
      BY <1>2, <2>3, <2>6, <2>9, <2>12
    <3>a. PICK p \in s.held : ~(p.id > x)
      BY <2>12
    <3>b. /\ p.sequence - s.next.sequence = p.id - last - 1
          /\ least.sequence <= p.sequence /\ p.id \in Int /\ p.sequence \in Int
      BY <1>1, <1>2, <2>3
    <3>c. least.id <= x
      BY <1>1, <3>0, <3>1, <3>a, <3>b
    <3>2. s.next.sequence + (x - last - 1) \in from .. top.sequence
      BY <1>1, <2>4, <3>0, <3>1, <3>c
    <3>3. PICK q \in run : q.sequence = s.next.sequence + (x - last - 1)
      BY <2>6, <3>2
    <3>4. q.sequence - s.next.sequence = q.id - last - 1 /\ q.id \in Int
      BY <1>1, <1>2, <2>6
    <3>5. q.id = x
      BY <1>1, <3>0, <3>3, <3>4
    <3>6. q \in s.held \ r.held
      BY <2>6, <2>8
    <3> QED
      BY <2>8, <3>5, <3>6 DEF GoesOn
  <2> QED
    BY <1>5, <2>8, <2>10, <2>11, <2>12 DEF r, last
<1> QED
  BY <1>4, <1>5

LEMMA Flushed ==
  ASSUME NEW s, Kept(s)
  PROVE  GoesOn(s, Flush(s)) /\ Flush(s).held = {}
<1>1. CASE s.held = {}
  BY <1>1, GoesOnSame DEF Flush, Release
<1>2. CASE s.held # {}
  <2>1. /\ s.held \in SUBSET s.held
        /\ \A p \in s.held : \A q \in s.held \ s.held : p.sequence < q.sequence
    OBVIOUS
  <2>2. GoesOn(s, Release(s, s.held)) /\ Release(s, s.held).held = s.held \ s.held
    BY <1>2, <2>1, GoesOnReleased
  <2> QED
    BY <2>2 DEF Flush
<1> QED
  BY <1>1, <1>2

LEMMA ReleasedOne ==
  ASSUME NEW s \in Receivers, NEW one, s.held = {one}, Steady(s.out),
         one.sequence \in Nat, After(s.out, one.id)
  PROVE  LET r == Release(s, {one})
         IN  /\ r \in Receivers /\ r.held = {}
             /\ r.out # <<>> /\ Steady(r.out) /\ LastOut(r) = one.id
             /\ \A id : Among(r.out, id) <=> Among(s.out, id) \/ one.id = id
             /\ r.next = [known |-> TRUE, sequence |-> one.sequence + 1,
                          stamp |-> DueAfter(one)]
<1> DEFINE packets == {one}
           r == Release(s, packets)
<1>1. IsFiniteSet(packets) /\ Distinct(packets) /\ packets # {} /\ packets \in SUBSET s.held
  BY FS_Singleton DEF Distinct
<1>2. /\ \A p \in packets : After(s.out, p.id)
      /\ \A p, q \in packets : p.sequence < q.sequence => p.id < q.id
  OBVIOUS
<1>3. \A p \in packets : p = one
  OBVIOUS
<1> HIDE DEF packets
<1>4. /\ r \in Receivers /\ r.held = s.held \ packets
      /\ r.out # <<>> /\ Steady(r.out)
      /\ \A id : Among(r.out, id) <=> Among(s.out, id) \/ \E p \in packets : p.id = id
      /\ \E top \in packets :
           /\ \A p \in packets : p.sequence <= top.sequence
           /\ r.out[Len(r.out)] = top.id
           /\ r.next = [known |-> TRUE, sequence |-> top.sequence + 1,
                        stamp |-> DueAfter(top)]
  BY <1>1, <1>2, Released
<1> HIDE DEF r
<1>5. s.held \ packets = {}
  BY DEF packets
<1>6. \A id : (\E p \in packets : p.id = id) <=> one.id = id
  BY DEF packets
<1> QED
  BY <1>3, <1>4, <1>5, <1>6 DEF LastOut, r, packets

\* A stream starts with its first packet, which leaves at once.
LEMMA StartsAnew ==
  ASSUME NEW s \in Receivers, s.held = {}, Steady(s.out), NEW id \in Ids,
         After(s.out, id)
  PROVE  LET r == Drain(Hold(StartAt(s, id), SequenceOf(id), id))
         IN  /\ Kept(r) /\ r.held = {} /\ LastOut(r) = id
             /\ \A x : Among(r.out, x) <=> Among(s.out, x) \/ x = id
<1> DEFINE p == [sequence |-> SequenceOf(id), stamp |-> StampOf(id), id |-> id]
           h == Hold(StartAt(s, id), SequenceOf(id), id)
           r == Drain(h)
<1>1. /\ SequenceOf(id) \in Nat /\ StampOf(id) \in 0 .. Stamps - 1
      /\ s.out \in Seq(Ids) /\ s.played \in Nat
  BY ReorderAssumption DEF Receivers
<1>2. p \in Held
  BY <1>1 DEF Held
<1> HIDE DEF p
<1>3. /\ h \in Receivers /\ h.held = {p} /\ h.out = s.out
      /\ h.next = [known |-> TRUE, sequence |-> SequenceOf(id), stamp |-> StampOf(id)]
  <2> DEFINE u == StartAt(s, id)
  <2>1. [known |-> TRUE, sequence |-> SequenceOf(id), stamp |-> StampOf(id)] \in Position
    BY <1>1 DEF Position
  <2>2. /\ u \in Receivers /\ u.held = {} /\ u.out = s.out
        /\ u.next = [known |-> TRUE, sequence |-> SequenceOf(id), stamp |-> StampOf(id)]
    BY <2>1 DEF StartAt, Receivers
  <2>3. h = [u EXCEPT !.held = {q \in @ : q.sequence # SequenceOf(id)} \cup {p}]
    BY DEF Hold, p
  <2> HIDE DEF u, h
  <2>4. {q \in u.held : q.sequence # SequenceOf(id)} \cup {p} = {p}
    BY <2>2
  <2>5. h = [u EXCEPT !.held = {p}]
    BY <2>3, <2>4
  <2> QED
    BY <1>2, <2>2, <2>5 DEF Receivers
<1> HIDE DEF h
<1>4. h \in Receivers /\ h.held = {p} /\ h.out = s.out /\ h.next.sequence = SequenceOf(id)
  BY <1>3
<1>5. RunFrom({p}, SequenceOf(id)) = {p}
  <2>1. p.sequence = SequenceOf(id) /\ \A n \in SequenceOf(id) .. p.sequence : p.sequence = n
    BY <1>1 DEF p
  <2> QED
    BY <1>1, <2>1 DEF RunFrom
<1>6. r = Release(h, {p})
  BY <1>4, <1>5 DEF Drain
<1>7. p.id = id /\ p.sequence = SequenceOf(id) /\ p.stamp = StampOf(id)
  BY DEF p
<1> HIDE DEF r
<1>8. Steady(h.out) /\ p.sequence \in Nat /\ After(h.out, p.id)
  BY <1>1, <1>4, <1>7
<1>10. /\ r \in Receivers /\ r.held = {}
       /\ r.out # <<>> /\ Steady(r.out) /\ LastOut(r) = p.id
       /\ \A x : Among(r.out, x) <=> Among(h.out, x) \/ p.id = x
       /\ r.next = [known |-> TRUE, sequence |-> p.sequence + 1, stamp |-> DueAfter(p)]
  BY <1>4, <1>6, <1>8, ReleasedOne
<1>11. /\ r.held = {} /\ LastOut(r) = id /\ r.next.known
       /\ r.next.sequence = SequenceOf(id) + 1
       /\ r.next.stamp = (StampOf(id) + Samples) % Stamps
  BY <1>4, <1>7, <1>10 DEF LastOut, DueAfter
<1>12. Kept(r)
  <2>1. IsFiniteSet(r.held)
    BY <1>11, FS_EmptySet
  <2>2. Follows(r)
    BY <1>10, <1>11 DEF Follows
  <2> QED
    BY <1>10, <1>11, <2>1, <2>2 DEF Kept
<1> QED
  BY <1>4, <1>7, <1>10, <1>11, <1>12 DEF r, h

\* A packet that came in time waits in its place.
LEMMA HeldInPlace ==
  ASSUME NEW s, Kept(s), NEW id \in Ids, LastOut(s) < id, Together(LastOut(s), id),
         id - LastOut(s) - 1 <= ResyncDistance,
         \/ id - LastOut(s) <= 2 * Reach
         \/ \E q \in s.held : q.id < id /\ id - q.id <= 2 * Reach
  PROVE  LET h == Hold(s, s.next.sequence + (id - LastOut(s) - 1), id)
         IN  /\ Kept(h) /\ h.next = s.next /\ h.out = s.out /\ h.played = s.played
             /\ LastOut(h) = LastOut(s)
             /\ \E p \in h.held : /\ p.id = id
                                  /\ \A q \in h.held : q = p \/ q \in s.held
             /\ \A q \in s.held : \E o \in h.held : o.id = q.id
             /\ Cardinality(h.held) <= Cardinality(s.held) + 1
<1> DEFINE last == LastOut(s)
           number == s.next.sequence + (id - last - 1)
           h == Hold(s, number, id)
           p == [sequence |-> number, stamp |-> StampOf(id), id |-> id]
           rest == {q \in s.held : q.sequence # number}
<1>1. /\ s \in Receivers /\ IsFiniteSet(s.held) /\ s.next.sequence \in Nat
      /\ last \in Int /\ id \in Int
      /\ \A q \in s.held : q \in Held /\ q.id \in Int /\ q.sequence \in Nat
  BY KeptMeans DEF Ids
<1>2. \A q \in s.held : last < q.id /\ q.sequence - s.next.sequence = q.id - last - 1
  BY DEF Kept, Waits
<1>3. h = [s EXCEPT !.held = rest \cup {p}]
  BY DEF Hold
<1>4. /\ h.held = rest \cup {p} /\ h.next = s.next /\ h.out = s.out /\ h.played = s.played
  BY <1>1, <1>3 DEF Receivers
<1>5. p \in Held
  <2>1. number \in Nat
    BY <1>1
  <2>2. StampOf(id) \in 0 .. Stamps - 1
    BY ReorderAssumption
  <2> HIDE DEF number
  <2> QED
    BY <2>1, <2>2 DEF Held
<1>6. h \in Receivers
  BY <1>1, <1>3, <1>4, <1>5 DEF Receivers
<1>7. p.id = id /\ p.sequence = number /\ p.stamp = StampOf(id) /\ number - s.next.sequence = id - last - 1
  BY <1>1
<1>8. LastOut(h) = last
  BY <1>4 DEF LastOut
<1> HIDE DEF p, h, last, number
<1>9. \A q \in s.held \ rest : q.id = id
  BY <1>1, <1>2, <1>7
<1>10. IsFiniteSet(rest) /\ Cardinality(rest) <= Cardinality(s.held)
       /\ Cardinality(rest) \in Nat /\ Cardinality(s.held) \in Nat
  BY <1>1, FS_Subset, FS_CardinalityType
<1>11. IsFiniteSet(h.held) /\ Cardinality(h.held) <= Cardinality(s.held) + 1
  <2>1. /\ IsFiniteSet(rest \cup {p})
        /\ Cardinality(rest \cup {p}) = IF p \in rest THEN Cardinality(rest) ELSE Cardinality(rest) + 1
    BY <1>10, FS_AddElement, Zenon
  <2> QED
    BY <1>4, <1>10, <2>1
<1>12. \A q \in s.held : \E o \in h.held : o.id = q.id
  BY <1>4, <1>7, <1>9
<1>13. ASSUME NEW q \in h.held PROVE Waits(h, q)
  <2>1. CASE q = p
    <3>1. \/ q.id - last <= 2 * Reach
          \/ \E o \in h.held : o.id < q.id /\ q.id - o.id <= 2 * Reach
      BY <1>7, <1>12, <2>1 DEF last
    <3> QED
      BY <1>4, <1>7, <1>8, <2>1, <3>1 DEF Waits, last
  <2>2. CASE q \in s.held
    <3>1. Waits(s, q)
      BY <2>2 DEF Kept
    <3>2. \/ q.id - last <= 2 * Reach
          \/ \E o \in h.held : o.id < q.id /\ q.id - o.id <= 2 * Reach
      BY <1>12, <3>1 DEF Waits, last
    <3> QED
      BY <1>4, <1>8, <3>1, <3>2 DEF Waits, last
  <2> QED
    BY <1>4, <2>1, <2>2
<1>14. Follows(h)
  BY <1>4, <1>8 DEF Kept, Follows, last
<1>15. Kept(h)
  BY <1>6, <1>11, <1>13, <1>14 DEF Kept
<1>16. p \in h.held /\ \A q \in h.held : q = p \/ q \in s.held
  BY <1>4
<1> QED
  BY <1>4, <1>7, <1>8, <1>11, <1>12, <1>15, <1>16 DEF h, last, number

\* Time that is kept in two steps is kept.
AsLong(a, b, u, v) == (b - a) % Stamps = (v - u) % Stamps

LEMMA TimeAdds ==
  ASSUME NEW a \in Int, NEW b \in Int, NEW c \in Int,
         NEW u \in Int, NEW v \in Int, NEW w \in Int,
         AsLong(a, b, u, v), AsLong(b, c, v, w)
  PROVE  AsLong(a, c, u, w)
<1> DEFINE d == (b - a) % Stamps  e == (c - b) % Stamps
<1>0. (b - a) % Stamps = (v - u) % Stamps /\ (c - b) % Stamps = (w - v) % Stamps
  BY DEF AsLong
<1>1. Stamps \in Nat \ {0} /\ b - a \in Int /\ v - u \in Int /\ c - b \in Int /\ w - v \in Int
  BY ReorderAssumption
<1>2. PICK i \in Int : b - a = i * Stamps + d
  BY <1>1, Divided
<1>3. PICK j \in Int : v - u = j * Stamps + d
  BY <1>0, <1>1, Divided
<1>4. PICK k \in Int : c - b = k * Stamps + e
  BY <1>1, Divided
<1>5. PICK l \in Int : w - v = l * Stamps + e
  BY <1>0, <1>1, Divided
<1>6. d \in Int /\ e \in Int
  BY <1>1, Divided
<1> HIDE DEF d, e
<1>7. (c - a) = (i - j + k - l) * Stamps + (w - u)
  <2> DEFINE ii == i * Stamps  jj == j * Stamps  kk == k * Stamps  ll == l * Stamps
  <2>1. /\ ii \in Int /\ jj \in Int /\ kk \in Int /\ ll \in Int
        /\ (i - j + k - l) * Stamps = ii - jj + kk - ll
    BY <1>1
  <2>2. b - a = ii + d /\ v - u = jj + d /\ c - b = kk + e /\ w - v = ll + e
    BY <1>2, <1>3, <1>4, <1>5
  <2> HIDE DEF ii, jj, kk, ll
  <2>3. c - a = ii - jj + kk - ll + (w - u)
    BY <1>6, <2>1, <2>2
  <2> QED
    BY <2>1, <2>3
<1>8. \A x, y, m \in Int : x = m * Stamps + y => x % Stamps = y % Stamps
  BY <1>1, TurnsAway
<1>9. PICK m \in Int : c - a = m * Stamps + (w - u)
  <2>1. i - j + k - l \in Int
    OBVIOUS
  <2> QED
    BY <1>7, <2>1
<1> DEFINE x == c - a  y == w - u
<1>10. x \in Int /\ y \in Int /\ x = m * Stamps + y
  BY <1>9
<1> HIDE DEF x, y
<1>11. x % Stamps = y % Stamps
  BY <1>8, <1>10
<1> QED
  BY <1>11 DEF x, y, AsLong

\* The newest packet of those that have arrived.
LEMMA NewestIs ==
  ASSUME NEW ids \in SUBSET Ids, ids # {}
  PROVE  \E a \in ids : \A b \in ids : b <= a
<1> DEFINE T == {n \in Nat : \A b \in ids : b <= n}
<1>0. MaxPackets \in Nat \ {0} /\ \A b \in ids : b \in Nat /\ b <= MaxPackets
  BY ReorderAssumption DEF Ids
<1>1. T # {}
  BY <1>0
<1>2. PICK n \in T : \A m \in T : n <= m
  BY <1>1, LeastOf
<1>3. n \in Nat /\ \A b \in ids : b <= n
  BY <1>2
<1>4. n \in ids
  <2> SUFFICES ASSUME n \notin ids PROVE FALSE
    OBVIOUS
  <2>1. \A b \in ids : b <= n - 1
    BY <1>0, <1>3
  <2>2. n - 1 \in Nat
    BY <1>0, <1>3, <2>1
  <2>3. n - 1 \in T
    BY <2>1, <2>2
  <2> QED
    BY <1>2, <1>3, <2>3
<1> QED
  BY <1>3, <1>4

\* A packet that arrives is of the stream that goes on, early or late but not by
\* much, or it is ahead of all that has come of it or from before a jump.
LEMMA Arriving ==
  ASSUME TypeOK, Kept(State), Knows, NEW id \in Ids, Possible(id)
  PROVE  /\ Starts(id) => \/ Newest < id /\ \A p \in held : p.id < id
                          \/ id < Newest /\ ~Together(id, Newest)
         /\ \A a \in arrived : a <= id + Reach
         /\ ~Starts(id) =>
              /\ Distance(SequenceOf(id), next.sequence) = id - Newest - 1
              /\ id - Newest - 1 <= ResyncDistance /\ Together(Newest, id)
              /\ Newest < id => \/ id - Newest <= 2 * Reach
                               \/ \E q \in held : q.id < id /\ id - q.id <= 2 * Reach
<1> DEFINE last == Newest
           newest == CHOOSE a \in arrived : \A b \in arrived : b <= a
<1>a. /\ ResyncDistance \in Nat /\ Reach \in Nat /\ Reach < ResyncDistance
      /\ ResyncDistance + Reach < Numbers \div 2 /\ Numbers \in Nat \ {0} /\ Jumps \subseteq Ids
      /\ \A j \in Jumps : j \in Int
      /\ Numbers \div 2 \in Int
  BY ReorderAssumption, NetworkAssumption DEF Ids
<1>b. State.held = held /\ State.next = next /\ State.out = out /\ LastOut(State) = last
  BY DEF State, LastOut, Newest
<1>1. /\ last \in Ids /\ last \in Int /\ next.known /\ next.sequence \in Nat /\ id \in Int
      /\ \A p \in held : p.id \in Int /\ p.id \in Ids
  BY <1>b, KeptMeans DEF Ids
<1>2. /\ next.sequence % Numbers = (SequenceOf(last) + 1) % Numbers
      /\ \A p \in held :
           /\ last < p.id /\ Together(last, p.id)
           /\ p.id - last - 1 <= ResyncDistance
           /\ \/ p.id - last <= 2 * Reach
              \/ \E q \in held : q.id < p.id /\ p.id - q.id <= 2 * Reach
  BY <1>b DEF Kept, Follows, Waits
<1>3. /\ last \in arrived /\ \A p \in held : p.id \in arrived
      /\ \A a \in arrived : a <= last + Reach \/ \E p \in held : a <= p.id
      /\ arrived \in SUBSET Ids /\ arrived # {}
  <2>1. /\ Newest \in arrived /\ \A p \in held : p.id \in arrived
        /\ arrived \in SUBSET Ids /\ start <= Newest /\ start \in Int
        /\ \A a \in arrived :
             a <= Newest \/ (\E p \in held : a <= p.id) \/ a <= start + Reach
    BY DEF Knows, TypeOK, Ids
  <2>2. \A a \in arrived : a \in Int
    BY <2>1 DEF Ids
  <2> QED
    BY <1>1, <1>a, <2>1, <2>2 DEF last
<1>4. /\ newest \in arrived /\ newest \in Int /\ \A b \in arrived : b <= newest
      /\ newest - Reach <= id /\ id <= newest + Reach
  <2>1. \E a \in arrived : \A b \in arrived : b <= a
    BY <1>3, NewestIs
  <2>2. newest \in arrived /\ \A b \in arrived : b <= newest
    BY <2>1, Zenon
  <2>3. newest - Reach <= id /\ id <= newest + Reach
    BY <1>3, Zenon DEF Possible
  <2> HIDE DEF newest
  <2>4. newest \in Int
    BY <1>3, <2>2 DEF Ids
  <2> QED
    BY <2>2, <2>3, <2>4
<1> HIDE DEF last, newest
<1>5. last <= newest /\ newest - last - 1 <= ResyncDistance
  BY <1>1, <1>2, <1>3, <1>4, <1>a
<1>6. /\ -(ResyncDistance) <= id - last - 1
      /\ id - last - 1 <= ResyncDistance + Reach
  BY <1>1, <1>4, <1>5, <1>a
<1>7. \A a \in arrived : a <= id + Reach
  <2> SUFFICES ASSUME NEW a \in arrived PROVE a <= id + Reach
    OBVIOUS
  <2>1. a \in Int /\ a <= newest
    BY <1>3, <1>4 DEF Ids
  <2> QED
    BY <1>1, <1>4, <1>a, <2>1
<1>8. \A d : SequenceOf(id) \in Int /\ SequenceOf(last) + 1 \in Int
         /\ (d = Distance(SequenceOf(id), SequenceOf(last) + 1)
               => Distance(SequenceOf(id), next.sequence) = d)
  <2>1. SequenceOf(id) \in Int /\ SequenceOf(last) + 1 \in Int /\ next.sequence \in Int
    BY <1>1, ReorderAssumption
  <2> QED
    BY <1>2, <2>1, ApartAlike
<1>9. ASSUME ~Together(id, last)
      PROVE  id < last /\ Starts(id)
  <2>1. PICK j \in Jumps : id < j /\ j <= last
    BY <1>9 DEF Together
  <2>2. id < last /\ last - id <= Reach
    BY <1>1, <1>4, <1>5, <1>a, <2>1
  <2> DEFINE d == Distance(SequenceOf(id), SequenceOf(last) + 1)
  <2>3. d > ResyncDistance \/ -d > ResyncDistance
    BY <1>1, <1>9, <2>2, SenderAssumption
  <2>4. Distance(SequenceOf(id), next.sequence) = d
    BY <1>8
  <2> HIDE DEF d
  <2> QED
    BY <2>2, <2>3, <2>4 DEF Starts
<1>10. ASSUME Together(last, id), Together(id, last)
       PROVE  Distance(SequenceOf(id), next.sequence) = id - last - 1
  <2>1. -(Numbers \div 2) < id - last - 1 /\ id - last - 1 < Numbers \div 2
    BY <1>1, <1>6, <1>a
  <2>2. next.sequence \in Int
    BY <1>1
  <2> QED
    BY <1>1, <1>2, <1>10, <2>1, <2>2, PacketsApart
<1>11. ASSUME ~Together(last, id)
       PROVE  last < id /\ (\A p \in held : p.id < id) /\ Starts(id)
  <2>1. PICK j \in Jumps : last < j /\ j <= id
    BY <1>11 DEF Together
  <2>2. last < id /\ j \in Int
    BY <1>1, <1>a, <2>1
  <2>3. ASSUME NEW p \in held PROVE p.id < id
    BY <1>1, <1>2, <2>1, <2>2 DEF Together
  <2>4. id - last <= ResyncDistance + Reach + 1
    BY <1>1, <1>6, <1>a
  <2> DEFINE d == Distance(SequenceOf(id), SequenceOf(last) + 1)
  <2>5. d > ResyncDistance \/ -d > ResyncDistance
    BY <1>1, <1>11, <2>2, <2>4, SenderAssumption
  <2>6. Distance(SequenceOf(id), next.sequence) = d
    BY <1>8
  <2> HIDE DEF d
  <2> QED
    BY <2>2, <2>3, <2>5, <2>6 DEF Starts
<1>12. ASSUME Together(last, id), Together(id, last), Starts(id)
       PROVE  last < id /\ \A p \in held : p.id < id
  <2>1. id - last - 1 > ResyncDistance \/ -(id - last - 1) > ResyncDistance
    BY <1>1, <1>10, <1>12 DEF Starts
  <2> QED
    BY <1>1, <1>2, <1>6, <1>a, <2>1
<1>13. ASSUME ~Starts(id)
       PROVE  /\ Distance(SequenceOf(id), next.sequence) = id - last - 1
              /\ id - last - 1 <= ResyncDistance /\ Together(last, id)
  <2>1. Together(last, id) /\ Together(id, last)
    BY <1>9, <1>11, <1>13
  <2>2. Distance(SequenceOf(id), next.sequence) = id - last - 1
    BY <1>10, <2>1
  <2>3. ~(id - last - 1 > ResyncDistance)
    BY <1>13, <2>2 DEF Starts
  <2> QED
    BY <1>1, <1>a, <2>1, <2>2, <2>3
<1>14. ASSUME last < id
       PROVE  \/ id - last <= 2 * Reach
              \/ \E q \in held : q.id < id /\ id - q.id <= 2 * Reach
  <2> DEFINE T == {p.id : p \in {q \in held : q.id >= id}}
  <2>1. CASE T = {}
    <3>1. ASSUME NEW q \in held PROVE q.id < id
      <4>1. ~(q.id >= id)
        BY <2>1
      <4> QED
        BY <1>1, <4>1
    <3>2. newest <= last + Reach \/ \E p \in held : newest <= p.id
      BY <1>3, <1>4
    <3> QED
      BY <1>1, <1>4, <1>5, <1>a, <3>1, <3>2
  <2>2. CASE T # {}
    <3>1. T \in SUBSET Nat
      BY <1>1 DEF Ids
    <3>2. PICK m \in T : \A l \in T : m <= l
      BY <2>2, <3>1, LeastOf
    <3>3. PICK p \in held : p.id = m /\ p.id >= id
      BY <3>2
    <3>4. ASSUME NEW q \in held, q.id < p.id PROVE q.id < id
      <4>1. q.id >= id => q.id \in T
        OBVIOUS
      <4> QED
        BY <1>1, <3>2, <3>3, <3>4, <4>1
    <3>5. CASE p.id - last <= 2 * Reach
      BY <1>1, <1>a, <3>3, <3>5
    <3>6. ASSUME NEW q \in held, q.id < p.id, p.id - q.id <= 2 * Reach
          PROVE  q.id < id /\ id - q.id <= 2 * Reach
      BY <1>1, <1>a, <3>3, <3>4, <3>6
    <3> QED
      BY <1>2, <3>3, <3>5, <3>6
  <2> QED
    BY <2>1, <2>2
<1> QED
  BY <1>7, <1>9, <1>11, <1>12, <1>13, <1>14 DEF last

LEMMA HasGrows ==
  ASSUME NEW s, NEW r, GoesOn(s, r), NEW id, Among(s.out, id)
  PROVE  Among(r.out, id)
BY DEF GoesOn

\* What a packet that is not late does: it waits in its place, what can leave
\* leaves, and a window that is over full gives up what is missing.
LEMMA PushedInTime ==
  ASSUME TypeOK, Kept(State), Knows, Cardinality(held) <= Window,
         NEW id \in Ids, Possible(id), ~Starts(id), Newest < id,
         NEW r, r = Push(id)
  PROVE  /\ Kept(r) /\ Cardinality(r.held) <= Window
         /\ \A p \in r.held : p.sequence > r.next.sequence
         /\ Newest <= LastOut(r)
         /\ \/ LastOut(r) = Newest \/ LastOut(r) = id
            \/ \E p \in held : LastOut(r) = p.id
         /\ id <= LastOut(r) \/ \E p \in r.held : p.id = id
         /\ \A q \in held : q.id <= LastOut(r) \/ \E p \in r.held : p.id = q.id
         /\ \A p \in r.held : p.id = id \/ p \in held
         /\ Among(r.out, id) \/ \E p \in r.held : p.id = id
         /\ \A x : Among(out, x) => Among(r.out, x)
         /\ \A x \in Ids :
              Newest < x /\ x <= LastOut(r) =>
                \/ Among(r.out, x)
                \/ Cardinality({a \in arrived \cup {id} : a > x}) > Window
         /\ (r.played - played) % Stamps = (r.next.stamp - next.stamp) % Stamps
<1> DEFINE s == State
           last == Newest
           h == Hold(s, next.sequence + (id - last - 1), id)
           g == Drain(h)
<1>0. s.held = held /\ s.next = next /\ s.out = out /\ s.played = played /\ LastOut(s) = last
  BY DEF State, LastOut, Newest
<1>1. /\ last \in Int /\ last \in Ids /\ id \in Int /\ IsFiniteSet(held)
      /\ \A p \in held : p.id \in Int
      /\ Window \in Nat
  <2>1. /\ LastOut(s) \in Ids /\ LastOut(s) \in Int /\ IsFiniteSet(s.held)
        /\ \A p \in s.held : p.id \in Int
    BY KeptMeans
  <2>2. id \in Int
    BY DEF Ids
  <2>3. Window \in Nat
    BY ReorderAssumption
  <2> HIDE DEF s, last
  <2> QED
    BY <1>0, <2>1, <2>2, <2>3
<1>2. /\ Distance(SequenceOf(id), next.sequence) = id - last - 1
      /\ id - last - 1 <= ResyncDistance /\ Together(last, id)
      /\ \/ id - last <= 2 * Reach
         \/ \E q \in held : q.id < id /\ id - q.id <= 2 * Reach
  BY Arriving
<1>3. r = GiveUp(g)
  <2>1. ~(id - last - 1 < 0)
    BY <1>1
  <2> QED
    BY <1>2, <2>1 DEF Push
<1>a. Kept(s)
  OBVIOUS
<1> HIDE DEF s, last, g, h
<1>4. /\ Kept(h) /\ h.next = next /\ h.out = out /\ h.played = played /\ LastOut(h) = last
      /\ \E p \in h.held : /\ p.id = id
                           /\ \A q \in h.held : q = p \/ q \in held
      /\ \A q \in held : \E o \in h.held : o.id = q.id
      /\ Cardinality(h.held) <= Cardinality(held) + 1
  <2>1. /\ last < id /\ h = Hold(s, s.next.sequence + (id - LastOut(s) - 1), id)
        /\ Together(LastOut(s), id)
        /\ id - LastOut(s) - 1 <= ResyncDistance
        /\ \/ id - LastOut(s) <= 2 * Reach
           \/ \E q \in s.held : q.id < id /\ id - q.id <= 2 * Reach
    BY <1>0, <1>2 DEF h, last
  <2>2. LET k == Hold(s, s.next.sequence + (id - LastOut(s) - 1), id)
        IN  /\ Kept(k) /\ k.next = s.next /\ k.out = s.out /\ k.played = s.played
            /\ LastOut(k) = LastOut(s)
            /\ \E p \in k.held : /\ p.id = id
                                 /\ \A q \in k.held : q = p \/ q \in s.held
            /\ \A q \in s.held : \E o \in k.held : o.id = q.id
            /\ Cardinality(k.held) <= Cardinality(s.held) + 1
    BY <1>0, <1>a, <2>1, HeldInPlace
  <2> QED
    BY <1>0, <2>1, <2>2
<1>5. /\ GoesOn(h, g) /\ \A p \in g.held : p.sequence > g.next.sequence
      /\ \A x \in Ids : LastOut(h) < x /\ x <= LastOut(g) => Among(g.out, x)
  BY <1>4, Drained DEF g
<1>6. /\ Kept(g) /\ g.held \subseteq h.held /\ last <= LastOut(g)
      /\ LastOut(g) = last \/ \E p \in h.held \ g.held : LastOut(g) = p.id
      /\ \A p \in h.held \ g.held : p.id <= LastOut(g)
      /\ \A x : Among(g.out, x) <=> Among(h.out, x) \/ \E p \in h.held \ g.held : p.id = x
      /\ (g.played - played) % Stamps = (g.next.stamp - next.stamp) % Stamps
  BY <1>4, <1>5 DEF GoesOn
<1>7. /\ Cardinality(g.held) <= Window + 1 /\ IsFiniteSet(g.held)
      /\ Cardinality(g.held) \in Nat
  <2>1. IsFiniteSet(h.held)
    BY <1>4 DEF Kept
  <2>2. /\ Cardinality(g.held) <= Cardinality(h.held) /\ IsFiniteSet(g.held)
        /\ Cardinality(g.held) \in Nat /\ Cardinality(h.held) \in Nat
        /\ Cardinality(held) \in Nat
    BY <1>1, <1>6, <2>1, FS_Subset, FS_CardinalityType
  <2> QED
    BY <1>1, <1>4, <2>2
<1>8. /\ GoesOn(g, r) /\ Cardinality(r.held) <= Window
      /\ \A p \in r.held : p.sequence > r.next.sequence
      /\ \A x \in Ids :
           LastOut(g) < x /\ x <= LastOut(r) =>
             \/ Among(r.out, x)
             \/ Cardinality(g.held) > Window /\ \A p \in g.held : p.id > x
  BY <1>3, <1>5, <1>6, <1>7, GaveUp
<1>9. /\ Kept(r) /\ r.held \subseteq g.held /\ LastOut(g) <= LastOut(r)
      /\ LastOut(r) = LastOut(g) \/ \E p \in g.held \ r.held : LastOut(r) = p.id
      /\ \A p \in g.held \ r.held : p.id <= LastOut(r)
      /\ \A x : Among(r.out, x) <=> Among(g.out, x) \/ \E p \in g.held \ r.held : p.id = x
      /\ (r.played - g.played) % Stamps = (r.next.stamp - g.next.stamp) % Stamps
  BY <1>8 DEF GoesOn
<1>10. LastOut(g) \in Int /\ LastOut(r) \in Int
  BY <1>6, <1>9, KeptMeans
<1>11. last <= LastOut(r)
  BY <1>1, <1>6, <1>9, <1>10
<1>12. PICK p \in h.held : p.id = id /\ \A q \in h.held : q = p \/ q \in held
  BY <1>4
<1>13. \A q \in r.held : q.id = id \/ q \in held
  BY <1>6, <1>9, <1>12
<1>14. ASSUME NEW q \in h.held PROVE Among(r.out, q.id) \/ \E o \in r.held : o.id = q.id
  BY <1>6, <1>9
<1>15. Among(r.out, id) \/ \E o \in r.held : o.id = id
  BY <1>12, <1>14
<1>16. /\ id <= LastOut(r) \/ \E o \in r.held : o.id = id
       /\ \A q \in held : q.id <= LastOut(r) \/ \E o \in r.held : o.id = q.id
  <2>1. ASSUME NEW q \in h.held
        PROVE  q.id <= LastOut(r) \/ \E o \in r.held : o.id = q.id
    <3>1. CASE q \in r.held
      BY <3>1
    <3>2. CASE q \in g.held \ r.held
      BY <1>9, <3>2
    <3>3. CASE q \in h.held \ g.held
      <4>1. q.id <= LastOut(g) /\ q.id \in Int
        BY <1>1, <1>6, <1>12, <3>3
      <4> QED
        BY <1>9, <1>10, <4>1
    <3> QED
      BY <3>1, <3>2, <3>3
  <2> QED
    BY <1>4, <1>12, <2>1
<1>17. \A x : Among(out, x) => Among(r.out, x)
  BY <1>4, <1>6, <1>9
<1>18. \/ LastOut(r) = last \/ LastOut(r) = id
       \/ \E q \in held : LastOut(r) = q.id
  BY <1>6, <1>9, <1>12
<1>19. ASSUME NEW x \in Ids, last < x, x <= LastOut(r), ~Among(r.out, x)
       PROVE  Cardinality({a \in arrived \cup {id} : a > x}) > Window
  <2>0. x \in Int
    BY DEF Ids
  <2>1. LastOut(g) < x
    <3>1. x <= LastOut(g) => Among(g.out, x)
      BY <1>4, <1>5, <1>19
    <3> QED
      BY <1>9, <1>10, <1>19, <2>0, <3>1
  <2>2. Cardinality(g.held) > Window /\ \A q \in g.held : q.id > x
    BY <1>8, <1>19, <2>1
  <2> DEFINE S == {q.id : q \in g.held}
             A == {a \in arrived \cup {id} : a > x}
  <2>3. S \subseteq A
    <3> SUFFICES ASSUME NEW q \in g.held PROVE q.id \in A
      OBVIOUS
    <3>1. q.id = id \/ q \in held
      BY <1>6, <1>12
    <3>2. q.id \in arrived \cup {id}
      BY <3>1 DEF Knows
    <3> QED
      BY <2>2, <3>2
  <2>4. IsFiniteSet(A)
    <3>1. IsFiniteSet(Ids)
      BY ReorderAssumption, FS_Interval DEF Ids
    <3>2. A \subseteq Ids
      BY DEF TypeOK
    <3> QED
      BY <3>1, <3>2, FS_Subset
  <2>5. Cardinality(S) = Cardinality(g.held)
    <3> DEFINE f == [q \in g.held |-> q.id]
    <3>1. \A q, o \in g.held : q.id = o.id => q = o
      <4>1. /\ \A q, o \in g.held : q.sequence < o.sequence <=> q.id < o.id
            /\ Distinct(g.held)
            /\ \A q \in g.held : q.id \in Int /\ q.sequence \in Nat
        BY <1>6, KeptMeans
      <4> SUFFICES ASSUME NEW q \in g.held, NEW o \in g.held, q.id = o.id PROVE q = o
        OBVIOUS
      <4>2. ~(q.sequence < o.sequence) /\ ~(o.sequence < q.sequence)
        BY <4>1
      <4>3. q.sequence = o.sequence
        BY <4>1, <4>2
      <4> QED
        BY <4>1, <4>3 DEF Distinct
    <3>2. f \in Bijection(g.held, S)
      <4>1. f \in [g.held -> S]
        OBVIOUS
      <4>2. \A q, o \in g.held : f[q] = f[o] => q = o
        BY <3>1
      <4>3. \A i \in S : \E q \in g.held : f[q] = i
        OBVIOUS
      <4> HIDE DEF f, S
      <4> QED
        BY <4>1, <4>2, <4>3, Fun_IsBij, Zenon
    <3>3. ExistsBijection(g.held, S)
      BY <3>2 DEF ExistsBijection
    <3> HIDE DEF S
    <3> QED
      BY <1>7, <3>3, FS_Bijection, Zenon
  <2>6. Cardinality(S) <= Cardinality(A) /\ Cardinality(A) \in Nat
    BY <2>3, <2>4, FS_Subset, FS_CardinalityType
  <2> QED
    BY <1>1, <1>7, <2>2, <2>5, <2>6
<1>20. (r.played - played) % Stamps = (r.next.stamp - next.stamp) % Stamps
  <2>1. \A k : Kept(k) => k.played \in Int /\ k.next.stamp \in Int
    BY DEF Kept, Receivers, Position
  <2>2. /\ played \in Int /\ g.played \in Int /\ r.played \in Int
        /\ next.stamp \in Int /\ g.next.stamp \in Int /\ r.next.stamp \in Int
    BY <1>0, <1>6, <1>9, <1>a, <2>1
  <2>3. AsLong(played, g.played, next.stamp, g.next.stamp)
    BY <1>6 DEF AsLong
  <2>4. AsLong(g.played, r.played, g.next.stamp, r.next.stamp)
    BY <1>9 DEF AsLong
  <2>5. AsLong(played, r.played, next.stamp, r.next.stamp)
    BY <2>2, <2>3, <2>4, TimeAdds
  <2> QED
    BY <2>5 DEF AsLong
<1> QED
  BY <1>8, <1>9, <1>11, <1>13, <1>15, <1>16, <1>17, <1>18, <1>19, <1>20 DEF last

LEMMA Became ==
  ASSUME NEW r \in Receivers, Become(r)
  PROVE  /\ State' = r /\ held' = r.held /\ next' = r.next /\ out' = r.out
         /\ played' = r.played /\ Newest' = LastOut(r)
<1>1. held' = r.held /\ next' = r.next /\ out' = r.out /\ played' = r.played
  BY DEF Become
<1>2. State' = r
  BY <1>1 DEF State, Receivers
<1> QED
  BY <1>1, <1>2 DEF Newest, LastOut

\* What a step has to show of the receiver that it leaves.
LEMMA Settles ==
  ASSUME NEW r, Kept(r), Become(r), Cardinality(r.held) <= Window,
         \A p \in r.held : p.sequence > r.next.sequence,
         arrived' \subseteq Ids, start' \in Ids, ended' \in BOOLEAN,
         ended' \/ (Knows' /\ PassedOver')
  PROVE  AudioInv'
<1>1. /\ r \in Receivers /\ IsFiniteSet(r.held) /\ r.next.known
  BY KeptMeans
<1>2. /\ State' = r /\ held' = r.held /\ next' = r.next /\ out' = r.out
      /\ played' = r.played
  BY <1>1, Became
<1>3. TypeOK'
  BY <1>1, <1>2 DEF TypeOK, Receivers
<1>4. Kept(State)'
  BY <1>2
<1> QED
  BY <1>1, <1>2, <1>3, <1>4 DEF AudioInv

LEMMA MoreArrived ==
  ASSUME arrived \subseteq Ids, NEW id \in Ids, NEW x \in Ids,
         Cardinality({a \in arrived : a > x}) > Window
  PROVE  Cardinality({a \in arrived \cup {id} : a > x}) > Window
<1> DEFINE S == {a \in arrived : a > x}
           A == {a \in arrived \cup {id} : a > x}
<1>1. IsFiniteSet(A)
  <2>1. IsFiniteSet(Ids)
    BY ReorderAssumption, FS_Interval DEF Ids
  <2>2. A \subseteq Ids
    OBVIOUS
  <2> QED
    BY <2>1, <2>2, FS_Subset
<1>2. S \subseteq A
  OBVIOUS
<1>3. Cardinality(S) > Window
  OBVIOUS
<1> HIDE DEF S, A
<1>4. Cardinality(S) <= Cardinality(A) /\ IsFiniteSet(S)
  BY <1>1, <1>2, FS_Subset
<1>5. Cardinality(S) \in Nat /\ Cardinality(A) \in Nat
  BY <1>1, <1>4, FS_CardinalityType
<1>6. Cardinality(A) > Window
  BY <1>3, <1>4, <1>5, ReorderAssumption
<1> QED
  BY <1>6 DEF A

LEMMA AudioInitially == Init => AudioInv
<1> SUFFICES ASSUME Init PROVE AudioInv
  OBVIOUS
<1>1. 0 \in Ids /\ 0 \in 0 .. Stamps - 1
  BY ReorderAssumption DEF Ids
<1>2. TypeOK
  <2>1. next \in Position
    BY <1>1 DEF Init, Position
  <2>2. out \in Seq(Ids) /\ held \subseteq Held /\ arrived \subseteq Ids
    BY DEF Init
  <2>3. played \in Nat /\ start \in Ids /\ ended \in BOOLEAN
    BY <1>1 DEF Init
  <2> QED
    BY <2>1, <2>2, <2>3 DEF TypeOK
<1>3. IsFiniteSet(held)
  BY FS_EmptySet DEF Init
<1> QED
  BY <1>2, <1>3 DEF Init, AudioInv

\* What a step does to the clock, and what becomes of a packet that comes.
InTime == next.known /\ start' = start =>
            (played' - played) % Stamps = (next'.stamp - next.stamp) % Stamps

NotThrownAway ==
  \A id \in Ids :
    id \in arrived' \ arrived =>
      \/ Among(out', id)
      \/ \E p \in held' : p.id = id
      \/ id < start
      \/ Cardinality({a \in arrived : a > id}) > Window

\* A packet that starts the stream.
LEMMA ArriveStarts ==
  ASSUME AudioInv, NEW id \in Ids, Arrive(id), Starts(id)
  PROVE  AudioInv' /\ InTime /\ NotThrownAway
<1> DEFINE f == Flush(State)
           r == Push(id)
<1>1. /\ TypeOK /\ ~ended /\ Possible(id) /\ Become(r)
      /\ arrived' = arrived \cup {id} /\ start' = id /\ ended' = ended
  BY DEF Arrive, AudioInv
<1>2. id \in Int /\ arrived \subseteq Ids /\ start \in Int /\ ended \in BOOLEAN
      /\ \A a \in arrived : a \in Int
  BY <1>1 DEF TypeOK, Ids
<1>3. /\ f \in Receivers /\ f.held = {} /\ Steady(f.out) /\ After(f.out, id)
      /\ \A a \in arrived : a <= id + Reach
      /\ next.known => start # id
  <2>1. CASE next.known
    <3>1. Kept(State) /\ Knows
      BY <1>1, <2>1 DEF AudioInv
    <3>2. /\ \/ Newest < id /\ \A p \in held : p.id < id
             \/ id < Newest /\ ~Together(id, Newest)
          /\ \A a \in arrived : a <= id + Reach
      BY <1>1, <3>1, Arriving
    <3>3. GoesOn(State, f) /\ f.held = {}
      BY <3>1, Flushed
    <3>4. State.held = held /\ State.out = out /\ LastOut(State) = Newest
      BY DEF State, LastOut, Newest
    <3> HIDE DEF f
    <3>5. /\ Kept(f) /\ Newest <= LastOut(f)
          /\ LastOut(f) = Newest \/ \E p \in held : LastOut(f) = p.id
      BY <3>3, <3>4 DEF GoesOn
    <3>6. f \in Receivers /\ Steady(f.out) /\ LastOut(f) \in Int
      BY <3>5, KeptMeans
    <3>7. Newest \in Int /\ \A j \in Jumps : j \in Int
      BY <3>1, <3>4, KeptMeans, NetworkAssumption DEF Ids
    <3>8. start # id
      BY <1>2, <3>1, <3>2, <3>7 DEF Knows
    <3>9. LastOut(f) < id \/ ~Together(id, LastOut(f))
      <4>1. CASE Newest < id /\ \A p \in held : p.id < id
        BY <3>5, <4>1
      <4>2. CASE id < Newest /\ ~Together(id, Newest)
        <5>1. PICK j \in Jumps : id < j /\ j <= Newest
          BY <4>2 DEF Together
        <5>2. j <= LastOut(f)
          BY <3>5, <3>6, <3>7, <5>1
        <5> QED
          BY <5>1, <5>2 DEF Together
      <4> QED
        BY <3>2, <4>1, <4>2
    <3>10. After(f.out, id)
      BY <3>9 DEF After, LastOut
    <3> QED
      BY <3>2, <3>3, <3>6, <3>8, <3>10
  <2>2. CASE ~next.known
    <3>1. arrived = {} /\ out = <<>> /\ held = {}
      BY <2>2 DEF AudioInv
    <3>2. f = State /\ State.held = {} /\ State.out = <<>>
      BY <3>1 DEF Flush, Release, State
    <3>3. State \in Receivers
      BY <1>1 DEF State, Receivers, TypeOK
    <3> QED
      BY <2>2, <3>1, <3>2, <3>3 DEF Steady, After
  <2> QED
    BY <2>1, <2>2
<1>4. r = Drain(Hold(StartAt(f, id), SequenceOf(id), id))
  BY DEF Push
<1> HIDE DEF f, r
<1>5. /\ Kept(r) /\ r.held = {} /\ LastOut(r) = id
      /\ \A x : Among(r.out, x) <=> Among(f.out, x) \/ x = id
  BY <1>3, <1>4, StartsAnew
<1>6. r \in Receivers
  BY <1>5, KeptMeans
<1>7. held' = {} /\ out' = r.out /\ Newest' = id
  BY <1>1, <1>5, <1>6, Became
<1>8. Together(id, id) /\ Reach \in Nat
  <2>1. \A j \in Jumps : j \in Int
    BY NetworkAssumption DEF Ids
  <2> QED
    BY <1>2, <2>1, NetworkAssumption DEF Together
<1>9. Knows'
  <2>1. start' <= Newest' /\ Newest' \in arrived' /\ \A p \in held' : p.id \in arrived'
    BY <1>1, <1>2, <1>7
  <2>2. \A a \in arrived' : a <= start' + Reach
    BY <1>1, <1>2, <1>3, <1>8
  <2>3. Together(start', Newest')
    BY <1>1, <1>7, <1>8
  <2> QED
    BY <2>1, <2>2, <2>3 DEF Knows
<1>10. Among(out', id)
  BY <1>5, <1>7
<1>11. PassedOver'
  <2> SUFFICES ASSUME NEW x \in Ids, id <= x, x <= id PROVE Among(out', x)
    BY <1>1, <1>7 DEF PassedOver, Among
  <2>1. x = id
    BY DEF Ids
  <2> QED
    BY <1>10, <2>1
<1>12. AudioInv'
  <2>1. Cardinality(r.held) <= Window
    BY <1>5, FS_EmptySet, ReorderAssumption
  <2>2. /\ \A p \in r.held : p.sequence > r.next.sequence
        /\ arrived' \subseteq Ids /\ start' \in Ids /\ ended' \in BOOLEAN
    BY <1>1, <1>2, <1>5
  <2> QED
    BY <1>1, <1>5, <1>9, <1>11, <2>1, <2>2, Settles
<1>13. InTime
  BY <1>1, <1>2, <1>3 DEF InTime
<1>14. NotThrownAway
  BY <1>1, <1>10 DEF NotThrownAway
<1> QED
  BY <1>12, <1>13, <1>14

\* A packet that comes in time.
LEMMA ArriveInTime ==
  ASSUME AudioInv, NEW id \in Ids, Arrive(id), ~Starts(id), Newest < id
  PROVE  AudioInv' /\ InTime /\ NotThrownAway
<1> DEFINE r == Push(id)
<1>1. /\ TypeOK /\ ~ended /\ Possible(id) /\ Become(r)
      /\ arrived' = arrived \cup {id} /\ start' = start /\ ended' = ended
  BY DEF Arrive, AudioInv
<1>2. next.known
  BY DEF Starts
<1>3. Kept(State) /\ Knows /\ PassedOver /\ Cardinality(held) <= Window
  BY <1>1, <1>2 DEF AudioInv
<1>4. /\ Kept(r) /\ Cardinality(r.held) <= Window
      /\ \A p \in r.held : p.sequence > r.next.sequence
      /\ Newest <= LastOut(r)
      /\ \/ LastOut(r) = Newest \/ LastOut(r) = id
         \/ \E p \in held : LastOut(r) = p.id
      /\ id <= LastOut(r) \/ \E p \in r.held : p.id = id
      /\ \A q \in held : q.id <= LastOut(r) \/ \E p \in r.held : p.id = q.id
      /\ \A p \in r.held : p.id = id \/ p \in held
      /\ Among(r.out, id) \/ \E p \in r.held : p.id = id
      /\ \A x : Among(out, x) => Among(r.out, x)
      /\ \A x \in Ids :
           Newest < x /\ x <= LastOut(r) =>
             \/ Among(r.out, x)
             \/ Cardinality({a \in arrived \cup {id} : a > x}) > Window
      /\ (r.played - played) % Stamps = (r.next.stamp - next.stamp) % Stamps
  BY <1>1, <1>3, PushedInTime
<1>5. Together(Newest, id)
  BY <1>1, <1>3, Arriving
<1> HIDE DEF r
<1>6. r \in Receivers /\ LastOut(r) \in Int
  BY <1>4, KeptMeans
<1>7. /\ held' = r.held /\ next' = r.next /\ out' = r.out
      /\ played' = r.played /\ Newest' = LastOut(r)
  BY <1>1, <1>6, Became
<1>8. Newest \in Int /\ \A p \in held : p.id \in Int /\ Together(Newest, p.id)
  <2>1. State.held = held /\ State.out = out /\ LastOut(State) = Newest
    BY DEF State, LastOut, Newest
  <2>2. LastOut(State) \in Int /\ \A p \in State.held : p.id \in Int
    BY <1>3, KeptMeans
  <2>3. \A p \in State.held : Together(LastOut(State), p.id)
    BY <1>3 DEF Kept, Waits
  <2> QED
    BY <2>1, <2>2, <2>3
<1>9. /\ id \in Int /\ arrived \subseteq Ids /\ start \in Int /\ start \in Ids
      /\ ended \in BOOLEAN /\ \A a \in arrived : a \in Int
      /\ \A j \in Jumps : j \in Int
  BY <1>1, NetworkAssumption DEF TypeOK, Ids
<1>10. /\ start <= Newest /\ Together(start, Newest)
       /\ Newest \in arrived /\ \A p \in held : p.id \in arrived
       /\ \A a \in arrived :
            a <= Newest \/ (\E p \in held : a <= p.id) \/ a <= start + Reach
  BY <1>3 DEF Knows
<1>11. ASSUME NEW x \in Int, Together(Newest, x) PROVE Together(start, x)
  BY <1>8, <1>9, <1>10, <1>11 DEF Together
<1>12. /\ LastOut(r) \in arrived' /\ Together(start, LastOut(r))
  <2>1. CASE LastOut(r) = Newest
    BY <1>1, <1>10, <2>1
  <2>2. CASE LastOut(r) = id
    BY <1>1, <1>5, <1>9, <1>11, <2>2
  <2>3. CASE \E p \in held : LastOut(r) = p.id
    BY <1>1, <1>8, <1>10, <1>11, <2>3
  <2> QED
    BY <1>4, <1>6, <2>1, <2>2, <2>3
<1>13. \A p \in r.held : p.id \in arrived'
  BY <1>1, <1>4, <1>10
<1>14. ASSUME NEW a \in arrived'
       PROVE  a <= LastOut(r) \/ (\E p \in r.held : a <= p.id) \/ a <= start + Reach
  <2>1. CASE a = id
    BY <1>4, <1>9, <2>1
  <2>2. CASE a \in arrived /\ a <= Newest
    BY <1>4, <1>6, <1>8, <1>9, <2>2
  <2>3. ASSUME a \in arrived, NEW p \in held, a <= p.id
        PROVE  a <= LastOut(r) \/ \E q \in r.held : a <= q.id
    BY <1>4, <1>6, <1>8, <1>9, <2>3
  <2> QED
    BY <1>1, <1>10, <2>1, <2>2, <2>3
<1>15. Knows'
  <2>1. start' <= Newest'
    BY <1>1, <1>4, <1>6, <1>7, <1>8, <1>9, <1>10
  <2>2. Together(start', Newest')
    BY <1>1, <1>7, <1>12
  <2> QED
    BY <1>1, <1>7, <1>12, <1>13, <1>14, <2>1, <2>2 DEF Knows
<1>16. PassedOver'
  <2> SUFFICES ASSUME NEW x \in Ids, start <= x, x <= LastOut(r)
               PROVE  \/ Among(r.out, x)
                      \/ Cardinality({a \in arrived \cup {id} : a > x}) > Window
    BY <1>1, <1>7 DEF PassedOver, Among
  <2>1. CASE Newest < x
    BY <1>4, <2>1
  <2>2. CASE x <= Newest
    <3>1. Among(out, x) \/ Cardinality({a \in arrived : a > x}) > Window
      BY <1>3, <2>2 DEF PassedOver, Among
    <3> QED
      BY <1>4, <1>9, <3>1, MoreArrived
  <2>3. x \in Int
    BY DEF Ids
  <2> QED
    BY <1>8, <2>1, <2>2, <2>3
<1>17. AudioInv'
  <2>1. arrived' \subseteq Ids /\ start' \in Ids /\ ended' \in BOOLEAN
    BY <1>1, <1>9
  <2> QED
    BY <1>1, <1>4, <1>15, <1>16, <2>1, Settles
<1>18. InTime
  BY <1>4, <1>7 DEF InTime
<1>19. NotThrownAway
  BY <1>1, <1>4, <1>7 DEF NotThrownAway
<1> QED
  BY <1>17, <1>18, <1>19

\* A packet that comes late changes nothing.
LEMMA ArriveLate ==
  ASSUME AudioInv, NEW id \in Ids, Arrive(id), ~Starts(id), ~(Newest < id)
  PROVE  AudioInv' /\ InTime /\ NotThrownAway
<1>1. /\ TypeOK /\ ~ended /\ Possible(id) /\ Become(Push(id))
      /\ arrived' = arrived \cup {id} /\ start' = start /\ ended' = ended
  BY DEF Arrive, AudioInv
<1>2. next.known
  BY DEF Starts
<1>3. /\ Kept(State) /\ Knows /\ PassedOver /\ Cardinality(held) <= Window
      /\ \A p \in held : p.sequence > next.sequence
  BY <1>1, <1>2 DEF AudioInv
<1>4. State.held = held /\ State.next = next /\ State.out = out /\ LastOut(State) = Newest
  BY DEF State, LastOut, Newest
<1>5. Newest \in Int /\ State \in Receivers
  BY <1>3, <1>4, KeptMeans
<1>6. /\ id \in Int /\ arrived \subseteq Ids /\ start \in Int /\ start \in Ids
      /\ ended \in BOOLEAN
  BY <1>1 DEF TypeOK, Ids
<1>7. Push(id) = State
  <2>1. Distance(SequenceOf(id), next.sequence) = id - Newest - 1
    BY <1>1, <1>3, Arriving
  <2>2. id - Newest - 1 < 0
    BY <1>5, <1>6
  <2> QED
    BY <2>1, <2>2 DEF Push
<1>8. Become(State)
  BY <1>1, <1>7
<1>9. /\ held' = held /\ next' = next /\ out' = out /\ played' = played /\ Newest' = Newest
  BY <1>4, <1>8 DEF Become, State, Newest
<1>10. Knows'
  BY <1>1, <1>3, <1>5, <1>6, <1>9 DEF Knows
<1>11. PassedOver'
  <2> SUFFICES ASSUME NEW x \in Ids, start <= x, x <= Newest
               PROVE  \/ Among(out, x)
                      \/ Cardinality({a \in arrived \cup {id} : a > x}) > Window
    BY <1>1, <1>9 DEF PassedOver, Among
  <2>1. Among(out, x) \/ Cardinality({a \in arrived : a > x}) > Window
    BY <1>3 DEF PassedOver, Among
  <2> QED
    BY <1>6, <2>1, MoreArrived
<1>12. AudioInv'
  <2>1. arrived' \subseteq Ids /\ start' \in Ids /\ ended' \in BOOLEAN
    BY <1>1, <1>6
  <2> QED
    BY <1>3, <1>4, <1>8, <1>10, <1>11, <2>1, Settles
<1>13. InTime
  <2>1. played \in Int /\ next.stamp \in Int
    BY <1>1 DEF TypeOK, Position
  <2>2. played - played = 0 /\ next.stamp - next.stamp = 0
    BY <2>1
  <2> QED
    BY <1>9, <2>2 DEF InTime
<1>14. NotThrownAway
  <2>1. id < start \/ Among(out, id) \/ Cardinality({a \in arrived : a > id}) > Window
    <3>1. id < start \/ (start <= id /\ id <= Newest)
      BY <1>5, <1>6
    <3> QED
      BY <1>3, <3>1 DEF PassedOver, Among
  <2> QED
    BY <1>1, <1>9, <2>1 DEF NotThrownAway
<1> QED
  BY <1>12, <1>13, <1>14

\* The end of the call.
LEMMA EndKeeps ==
  ASSUME AudioInv, End
  PROVE  AudioInv' /\ InTime /\ NotThrownAway
<1> DEFINE r == Flush(State)
<1>1. /\ TypeOK /\ ended' = TRUE /\ Become(r) /\ arrived' = arrived /\ start' = start
  BY DEF End, AudioInv
<1>2. NotThrownAway
  BY <1>1 DEF NotThrownAway
<1>3. State.held = held /\ State.next = next /\ State.out = out /\ State.played = played
  BY DEF State
<1>4. CASE next.known
  <2>1. Kept(State)
    BY <1>4 DEF AudioInv
  <2>2. GoesOn(State, r) /\ r.held = {}
    BY <2>1, Flushed
  <2> HIDE DEF r
  <2>3. /\ Kept(r)
        /\ (r.played - State.played) % Stamps = (r.next.stamp - State.next.stamp) % Stamps
    BY <2>2 DEF GoesOn
  <2>4. Cardinality(r.held) <= Window
    BY <2>2, FS_EmptySet, ReorderAssumption
  <2>5. /\ \A p \in r.held : p.sequence > r.next.sequence
        /\ arrived' \subseteq Ids /\ start' \in Ids /\ ended' \in BOOLEAN
    BY <1>1, <2>2 DEF TypeOK
  <2>6. AudioInv'
    BY <1>1, <2>3, <2>4, <2>5, Settles
  <2>7. InTime
    BY <1>1, <1>3, <2>3 DEF InTime, Become
  <2> QED
    BY <1>2, <2>6, <2>7
<1>5. CASE ~next.known
  <2>1. arrived = {} /\ out = <<>> /\ held = {}
    BY <1>5 DEF AudioInv
  <2>2. r = State
    BY <1>3, <2>1 DEF Flush, Release
  <2>3. held' = held /\ next' = next /\ out' = out /\ played' = played
    BY <1>1, <1>3, <2>2 DEF Become
  <2>4. TypeOK'
    BY <1>1, <2>3 DEF TypeOK
  <2>5. IsFiniteSet(held')
    BY <2>1, <2>3, FS_EmptySet
  <2>6. AudioInv'
    BY <1>1, <1>5, <2>1, <2>3, <2>4, <2>5 DEF AudioInv
  <2> QED
    BY <1>2, <1>5, <2>6 DEF InTime
<1> QED
  BY <1>4, <1>5

LEMMA AudioKept == AudioInv /\ [Next]_vars => AudioInv'
<1> SUFFICES ASSUME AudioInv, [Next]_vars PROVE AudioInv'
  OBVIOUS
<1>1. ASSUME NEW id \in Ids, Arrive(id) PROVE AudioInv'
  BY <1>1, ArriveStarts, ArriveInTime, ArriveLate
<1>2. CASE End
  BY <1>2, EndKeeps
<1>3. CASE UNCHANGED vars
  <2>1. /\ next' = next /\ held' = held /\ out' = out /\ played' = played
        /\ arrived' = arrived /\ start' = start /\ ended' = ended
    BY <1>3 DEF vars
  <2> QED
    BY <2>1 DEF AudioInv, TypeOK, Kept, State, Follows, Waits, LastOut, Knows, PassedOver, Newest
<1> QED
  BY <1>1, <1>2, <1>3 DEF Next

LEMMA AudioMoves ==
  ASSUME AudioInv, [Next]_vars
  PROVE  [InTime]_vars /\ [NotThrownAway]_vars
<1>1. ASSUME NEW id \in Ids, Arrive(id) PROVE InTime /\ NotThrownAway
  BY <1>1, ArriveStarts, ArriveInTime, ArriveLate
<1>2. CASE End
  BY <1>2, EndKeeps
<1> QED
  BY <1>1, <1>2 DEF Next

LEMMA AudioSafe == AudioInv => InOrderAtMostOnce /\ WindowKept
<1> SUFFICES ASSUME AudioInv PROVE InOrderAtMostOnce /\ WindowKept
  OBVIOUS
<1>1. CASE next.known
  <2>1. Steady(out)
    BY <1>1 DEF AudioInv, Kept, Follows, State
  <2>2. out \in Seq(Ids)
    BY DEF AudioInv, TypeOK
  <2>3. InOrderAtMostOnce
    BY <2>1, <2>2 DEF InOrderAtMostOnce, Steady
  <2> QED
    BY <1>1, <2>3 DEF AudioInv, WindowKept
<1>2. CASE ~next.known
  <2>1. out = <<>> /\ held = {}
    BY <1>2 DEF AudioInv
  <2>2. Cardinality(held) <= Window
    BY <2>1, FS_EmptySet, ReorderAssumption
  <2> QED
    BY <2>1, <2>2 DEF InOrderAtMostOnce, WindowKept
<1> QED
  BY <1>1, <1>2

-----------------------------------------------------------------------------
(***************************************************************************)
(* The transports, one of them in each behaviour.                          *)
(***************************************************************************)
CallsInv == SipInv /\ LoopInv /\ WireInv /\ Backed /\ AudioInv

LEMMA CallsInitially == CallsInit => CallsInv
BY SipInitially, LoopInitially, WireInitially, BackedInitially, AudioInitially
   DEF CallsInit, CallsInv

LEMMA CallsKeep == CallsInv /\ [CallsNext]_callVars => CallsInv'
<1> SUFFICES ASSUME CallsInv, [CallsNext]_callVars PROVE CallsInv'
  OBVIOUS
<1>1. [SipNext]_sipVars /\ [LoopNext]_loopVars /\ [WireNext]_wireVars /\ [Next]_vars
  BY Zenon DEF CallsNext, SipStep, LoopStep, WireStep, AudioStep, callVars
<1> QED
  BY <1>1, SipKeeps, LoopKeeps, WireKeeps, BackedKept, AudioKept DEF CallsInv

LEMMA CallsHold == CallsSpec => []CallsInv
BY CallsInitially, CallsKeep, PTL DEF CallsSpec

\* For any dials and callers, no caller is left ringing or talking to nobody:
\* sip.rs incoming, answer and reject, and modem.rs dial.
THEOREM NoCallerLeft == CallsSpec => []NobodyLeft
<1>1. CallsInv => NobodyLeft
  BY DEF CallsInv, SipInv
<1> QED
  BY <1>1, CallsHold, PTL

\* The modem is busy with SIP for just the calls whose tasks run and the one that
\* it is answering: sip.rs CallUp is dropped with its call, and none before.
THEOREM BusyWithItsCalls == CallsSpec => [](SipTypeOK /\ CallsCounted)
<1>1. CallsInv => SipTypeOK /\ CallsCounted
  BY DEF CallsInv, SipInv
<1> QED
  BY <1>1, CallsHold, PTL

\* For any ends on the wire and any number of offers over the loopback, nobody is
\* in a call with an end that does not have it too or has not picked up:
\* loopback.rs connect, wire.rs dial and rtp.rs session.
THEOREM CallsAreJoined == CallsSpec => []CallsJoined
<1>1. CallsInv => CallsJoined
  BY WireHolds DEF CallsInv, LoopInv, CallsJoined
<1> QED
  BY <1>1, CallsHold, PTL

\* For any ends, any room in their sockets and any losses, a call over the wire
\* lasts until one of its ends leaves it: what is said about an earlier call, or by
\* anybody else, does not end it.  wire.rs dial, incoming and answer, and rtp.rs.
THEOREM EndedByAnEnd == CallsSpec => OnlyTheFarEndEnds
<1>1. CallsInv /\ [CallsNext]_callVars => [\A e \in Ends : FarEndEnds(e)]_wireVars
  <2> SUFFICES ASSUME CallsInv, [CallsNext]_callVars, wireVars' # wireVars
               PROVE  \A e \in Ends : FarEndEnds(e)
    OBVIOUS
  <2>1. [WireNext]_wireVars
    BY Zenon DEF CallsNext, SipStep, LoopStep, WireStep, AudioStep, callVars
  <2> QED
    BY <2>1, CallsEndedByFar DEF CallsInv
<1>2. CallsSpec => [][\A e \in Ends : FarEndEnds(e)]_wireVars
  BY <1>1, CallsHold, PTL DEF CallsSpec
<1> QED
  BY <1>2 DEF OnlyTheFarEndEnds, FarEndEnds

\* Queues stay within LineLength, and every state in the range it is declared with.
THEOREM CallsTyped == CallsSpec => [](LoopTypeOK /\ WireTypeOK /\ TypeOK)
<1>1. CallsInv => LoopTypeOK /\ WireTypeOK /\ TypeOK
  BY WireHolds DEF CallsInv, LoopInv, AudioInv
<1> QED
  BY <1>1, CallsHold, PTL

\* For any window, any width of numbers and timestamps and any jumps of the
\* sender that a receiver can tell, packets leave in the order they were sent,
\* none twice, and no more than a window waits: reorder.rs push and drain.
THEOREM PlaysInOrder == CallsSpec => []PlayedInOrder
<1>1. CallsInv => PlayedInOrder
  BY AudioSafe DEF CallsInv, PlayedInOrder
<1> QED
  BY <1>1, CallsHold, PTL

\* What leaves advances the receiver's clock by as much as the sender's, and no
\* packet that comes in time is thrown away: reorder.rs push, drain and emit.
THEOREM KeepsTheClock == CallsSpec => ClockKept
<1>1. CallsInv /\ [CallsNext]_callVars => [InTime]_vars /\ [NotThrownAway]_vars
  <2> SUFFICES ASSUME CallsInv, [CallsNext]_callVars
               PROVE  [InTime]_vars /\ [NotThrownAway]_vars
    OBVIOUS
  <2>1. [Next]_vars
    BY Zenon DEF CallsNext, SipStep, LoopStep, WireStep, AudioStep, callVars
  <2> QED
    BY <2>1, AudioMoves DEF CallsInv
<1>2. CallsSpec => [][InTime]_vars /\ [][NotThrownAway]_vars
  BY <1>1, CallsHold, PTL DEF CallsSpec
<1> QED
  BY <1>2, PTL DEF ClockKept, TimeKept, Patience, InTime, NotThrownAway, Among
=============================================================================
