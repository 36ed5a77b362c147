-------------------------------- MODULE Calls --------------------------------
(***************************************************************************)
(* What carries a call: the wire transport, the SIP transport, the         *)
(* loopback that stands in for them in tests, and the receive path of the  *)
(* audio that SIP and the wire share; one of them in each behaviour.       *)
(***************************************************************************)
EXTENDS Reorder, Sip, Loopback, Wire

VARIABLE part

callVars == <<part, vars, sipVars, loopVars, wireVars>>

CallsInit ==
  /\ part \in {"Sip", "Loopback", "Wire", "Audio"}
  /\ Init /\ SipInit /\ LoopInit /\ WireInit
  /\ part # "Wire" => plan = CHOOSE p \in Plans : TRUE

SipStep(A) == part = "Sip" /\ A /\ UNCHANGED <<part, vars, loopVars, wireVars>>
LoopStep(A) == part = "Loopback" /\ A /\ UNCHANGED <<part, vars, sipVars, wireVars>>
WireStep(A) == part = "Wire" /\ A /\ UNCHANGED <<part, vars, sipVars, loopVars>>
AudioStep(A) == part = "Audio" /\ A /\ UNCHANGED <<part, sipVars, loopVars, wireVars>>

CallsNext ==
  SipStep(SipNext) \/ LoopStep(LoopNext) \/ WireStep(WireNext) \/ AudioStep(Next)

(* The tasks of a SIP call run on, and the modem goes on with what it      *)
(* waits for; the phones, the other end and the computer need do nothing.  *)
SipFairness ==
  /\ \A d \in Dials : WF_callVars(SipStep(SipTask(d)))
  /\ \A x \in Everyone :
       /\ WF_callVars(SipStep(AudioEnds(x)))
       /\ WF_callVars(SipStep(Terminates(x) \/ Terminated(x)))
  /\ WF_callVars(SipStep(SipModem))

(* What is sent over the wire is read or lost, DIAL is repeated, and       *)
(* timers end.  S7 bounds a dial; nothing bounds a call.                   *)
WireFairness ==
  \A e \in Ends :
    /\ WF_callVars(WireStep(StartDial(e)))
    /\ WF_callVars(WireStep(RepeatDial(e)))
    /\ WF_callVars(WireStep(DropDial(e)))
    /\ WF_callVars(WireStep(RingTimeout(e)))
    /\ WF_callVars(WireStep(FarEndSilent(e)))
    /\ \A f \in Ends \ {e} : WF_callVars(WireStep(Read(e, f)))

CallsSpec == CallsInit /\ [][CallsNext]_callVars /\ SipFairness /\ WireFairness

\* Nobody is in a call with an end that does not have it too, or that has not
\* picked up.
CallsJoined == LoopJoined /\ NoBargingIn

\* Whatever the network does to a call's audio, its packets leave in order but
\* where a late one turns the stream back over a jump of the sender's, no more
\* than a window of them waits, and the receiver keeps time.
PlayedInOrder == InOrderAtMostOnce /\ WindowKept
ClockKept == TimeKept /\ Patience

\* Every call and every ringing phone ends in the end, at both ends, but for a
\* far end by SIP that an error left there with no word.
CallsEnd == GivenUpEnds /\ EitherEnds /\ FreeAgain /\ HalfOpenEnds /\ RingingEnds
=============================================================================
