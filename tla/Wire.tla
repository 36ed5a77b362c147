-------------------------------- MODULE Wire --------------------------------
(***************************************************************************)
(* Calls over UDP between softmodems, softmodem-transport/src/wire.rs, and *)
(* what the RTP session of a call (rtp.rs) does with signalling and with   *)
(* silence.  Audio is not a message here: an end in a call is heard for as *)
(* long as it is in the call, and nothing else depends on audio.           *)
(*                                                                         *)
(* A message waits in its socket until whatever serves the socket reads    *)
(* it: incoming, dial or the session.  dial is the modem's: its wait       *)
(* before it calls Transport::dial is a time when nothing is read.         *)
(***************************************************************************)
EXTENDS Integers, Sequences, FiniteSets

CONSTANTS
  Ends, None,
  Peer,        \* [Ends -> Ends]: whom each end's --peer is
  ByeRepeats,  \* BYEs sent to hang up
  LineLength,  \* bound: messages under way from one end to another
  Plans        \* bound: how often each end may dial, and how many messages
               \* are lost and timers early

ASSUME WireAssumption ==
  /\ None \notin Ends
  /\ Peer \in [Ends -> Ends] /\ \A e \in Ends : Peer[e] # e
  /\ {ByeRepeats, LineLength} \subseteq Nat
  /\ Plans \subseteq [dials : [Ends -> Nat], upsets : Nat]

VARIABLES
  end,     \* each end's transport, with its call
  net,     \* net[e][f]: messages from e to f, under way or not read yet
  plan,    \* one of Plans
  dials,   \* how often each end has dialled
  pickedUp,  \* <<e, d>>: the computer at e has answered dial d
  departed,   \* <<e, d>>: e has left dial d, or the call that came of it
  upsets

wireVars == <<end, net, plan, dials, pickedUp, departed, upsets>>

\* "Waiting": the modem dials, but has not called Transport::dial yet.
States == {"Idle", "Ringing", "Waiting", "Dialling", "Call"}

\* A dial.  Messages of the code do not say which they are about; here they do,
\* for the properties.
DialId == Ends \X Nat

Message == [kind : {"DIAL", "ANSWER", "BUSY", "BYE"}, about : SUBSET DialId]

EndState ==
  [state : States, far : Ends \cup {None}, answering : BOOLEAN,
   about : SUBSET DialId]

WireTypeOK ==
  /\ end \in [Ends -> EndState]
  /\ net \in [Ends -> [Ends -> Seq(Message)]]
  /\ \A e, f \in Ends : Len(net[e][f]) <= LineLength
  /\ plan \in Plans /\ dials \in [Ends -> Nat]
  /\ pickedUp \subseteq Ends \X DialId /\ departed \subseteq Ends \X DialId
  /\ upsets \in 0 .. plan.upsets
  /\ \A e \in Ends : (end[e].state = "Idle") = (end[e].far = None)

Idle == [state |-> "Idle", far |-> None, answering |-> FALSE, about |-> {}]

WireInit ==
  /\ end = [e \in Ends |-> Idle]
  /\ net = [e \in Ends |-> [f \in Ends |-> <<>>]]
  /\ plan \in Plans /\ dials = [e \in Ends |-> 0]
  /\ pickedUp = {} /\ departed = {} /\ upsets = 0

-----------------------------------------------------------------------------
\* What a full socket or path has no room for is dropped.
Added(queue, messages) ==
  LET q == queue \o messages
  IN  IF Len(q) <= LineLength THEN q ELSE SubSeq(q, 1, LineLength)

SendTimes(n, e, f, kind, about, times) ==
  [n EXCEPT ![e][f] =
     Added(@, [i \in 1 .. times |-> [kind |-> kind, about |-> about]])]

Send(n, e, f, kind, about) == SendTimes(n, e, f, kind, about, 1)

CallWith(f, answering, about) ==
  [state |-> "Call", far |-> f, answering |-> answering, about |-> about]

RingingFor(f, about) ==
  [state |-> "Ringing", far |-> f, answering |-> FALSE, about |-> about]

\* The dials that e has left, once it goes from one state to the next.
Left(s, t, e) ==
  departed \cup IF s.state \in {"Dialling", "Call"} /\ t.state = "Idle"
            THEN {e} \X s.about ELSE {}

(***************************************************************************)
(* What the computer asks for.                                             *)
(***************************************************************************)

\* The modem's dial refuses a caller that rings and waits (S6).
PlaceCall(e) ==
  /\ end[e].state \in {"Idle", "Ringing"}
  /\ dials[e] < plan.dials[e]
  /\ dials' = [dials EXCEPT ![e] = @ + 1]
  /\ end' = [end EXCEPT ![e] = [state |-> "Waiting", far |-> Peer[e],
                                answering |-> FALSE,
                                about |-> {<<e, dials'[e]>>}]]
  /\ net' = IF end[e].state = "Ringing"
            THEN Send(net, e, end[e].far, "BUSY", end[e].about)
            ELSE net
  /\ UNCHANGED <<plan, pickedUp, departed, upsets>>

\* Transport::dial, its first DIAL.
StartDial(e) ==
  /\ end[e].state = "Waiting"
  /\ end' = [end EXCEPT ![e].state = "Dialling"]
  /\ net' = Send(net, e, end[e].far, "DIAL", end[e].about)
  /\ UNCHANGED <<plan, dials, pickedUp, departed, upsets>>

\* DIAL_INTERVAL has passed.
RepeatDial(e) ==
  /\ end[e].state = "Dialling"
  /\ \A i \in DOMAIN net[e][end[e].far] : net[e][end[e].far][i].kind # "DIAL"
  /\ net' = Send(net, e, end[e].far, "DIAL", end[e].about)
  /\ UNCHANGED <<end, plan, dials, pickedUp, departed, upsets>>

\* A key, or the end of S7, drops the dial: Abandon says BYE if it had begun.
DropDial(e) ==
  /\ end[e].state \in {"Waiting", "Dialling"}
  /\ end' = [end EXCEPT ![e] = Idle]
  /\ net' = IF end[e].state = "Dialling"
            THEN Send(net, e, end[e].far, "BYE", end[e].about) ELSE net
  /\ UNCHANGED <<plan, dials, pickedUp, upsets>>
  /\ departed' = Left(end[e], end'[e], e)

Answer(e) ==
  /\ end[e].state = "Ringing"
  /\ end' = [end EXCEPT ![e] = CallWith(@.far, TRUE, @.about)]
  /\ net' = Send(net, e, end[e].far, "ANSWER", end[e].about)
  /\ pickedUp' = pickedUp \cup ({e} \X end[e].about)
  /\ UNCHANGED <<plan, dials, departed, upsets>>

Reject(e) ==
  /\ end[e].state = "Ringing"
  /\ end' = [end EXCEPT ![e] = Idle]
  /\ net' = Send(net, e, end[e].far, "BUSY", end[e].about)
  /\ UNCHANGED <<plan, dials, pickedUp, departed, upsets>>

HangUp(e) ==
  /\ end[e].state = "Call"
  /\ end' = [end EXCEPT ![e] = Idle]
  /\ net' = SendTimes(net, e, end[e].far, "BYE", end[e].about, ByeRepeats)
  /\ UNCHANGED <<plan, dials, pickedUp, upsets>>
  /\ departed' = Left(end[e], end'[e], e)

-----------------------------------------------------------------------------
(***************************************************************************)
(* A message is read.  Each handler gives the end's next state and what it *)
(* sends back: a kind of message, or None.                                 *)
(***************************************************************************)
Outcome(state, reply) == [state |-> state, reply |-> reply]

\* Wire::incoming.
Incoming(s, f, m) ==
  CASE m.kind = "DIAL" /\ s.state = "Idle" ->
         Outcome(RingingFor(f, m.about), None)
    [] m.kind = "DIAL" /\ s.state = "Ringing" /\ f = s.far ->
         Outcome([s EXCEPT !.about = m.about], None)
    [] m.kind = "DIAL" /\ s.state = "Ringing" /\ f # s.far ->
         Outcome(s, "BUSY")
    [] m.kind = "BYE" /\ s.state = "Ringing" /\ f = s.far ->
         Outcome(Idle, None)
    [] OTHER -> Outcome(s, None)

\* Wire::dial.
Dialling(s, f, m) ==
  CASE f = s.far /\ m.kind = "ANSWER" ->
         Outcome(CallWith(f, FALSE, s.about \cup m.about), None)
    [] f = s.far /\ m.kind = "BUSY" -> Outcome(Idle, None)
    [] OTHER -> Outcome(s, None)

\* Mutant: the session answers every DIAL.
SessionAnswersAll(s, f, m) ==
  CASE f = s.far /\ m.kind = "BYE" -> Outcome(Idle, None)
    [] m.kind = "DIAL" /\ s.answering -> Outcome(s, "ANSWER")
    [] OTHER -> Outcome(s, None)

\* Mutant: the session hangs up on any BYE.
SessionHangsUp(s, f, m) ==
  CASE f # s.far /\ m.kind = "DIAL" -> Outcome(s, "BUSY")
    [] m.kind = "BYE" -> Outcome(Idle, None)
    [] f = s.far /\ m.kind = "DIAL" /\ s.answering ->
         Outcome([s EXCEPT !.about = @ \cup m.about], "ANSWER")
    [] OTHER -> Outcome(s, None)

\* The session of a call.  The ANSWER was lost if the caller still dials; if it dials
\* anew, the session goes on for that dial too.
InSession(s, f, m) ==
  CASE f # s.far /\ m.kind = "DIAL" -> Outcome(s, "BUSY")
    [] f = s.far /\ m.kind = "BYE" -> Outcome(Idle, None)
    [] f = s.far /\ m.kind = "DIAL" /\ s.answering ->
         Outcome([s EXCEPT !.about = @ \cup m.about], "ANSWER")
    [] OTHER -> Outcome(s, None)

Read(e, f) ==
  /\ net[f][e] # <<>> /\ end[e].state # "Waiting"
  /\ LET m == Head(net[f][e])
         read == [net EXCEPT ![f][e] = Tail(@)]
         o == CASE end[e].state \in {"Idle", "Ringing"} -> Incoming(end[e], f, m)
                [] end[e].state = "Dialling" -> Dialling(end[e], f, m)
                [] end[e].state = "Call" -> InSession(end[e], f, m)
     IN  /\ end' = [end EXCEPT ![e] = o.state]
         /\ net' = IF o.reply = None THEN read ELSE Send(read, e, f, o.reply, m.about)
  /\ UNCHANGED <<plan, dials, pickedUp, upsets>>
  /\ departed' = Left(end[e], end'[e], e)

-----------------------------------------------------------------------------
(***************************************************************************)
(* Time, and the network.                                                  *)
(***************************************************************************)
Pending(e, f) == net[e][f] # <<>>
DialUnderWay(e, f) == \E i \in DOMAIN net[e][f] : net[e][f][i].kind = "DIAL"

\* e hears from f: audio, or DIALs, or what is still to be read.
Hears(e, f) ==
  \/ end[f].state \in {"Call", "Dialling"} /\ end[f].far = e
  \/ Pending(f, e)

\* RING_TIMEOUT since the last DIAL.
RingTimeout(e) ==
  /\ end[e].state = "Ringing"
  /\ ~DialUnderWay(end[e].far, e)
  /\ ~(end[end[e].far].state = "Dialling" /\ end[end[e].far].far = e)
  /\ end' = [end EXCEPT ![e] = Idle]
  /\ UNCHANGED <<net, plan, dials, pickedUp, departed, upsets>>

\* Mutant: silence is not looked for.
SilenceUnheard(e) == FALSE /\ UNCHANGED wireVars

\* SILENCE_TIMEOUT since anything was heard.  The far end is told nothing.
FarEndSilent(e) ==
  /\ end[e].state = "Call" /\ ~Hears(e, end[e].far)
  /\ end' = [end EXCEPT ![e] = Idle]
  /\ UNCHANGED <<net, plan, dials, pickedUp, upsets>>
  /\ departed' = Left(end[e], end'[e], e)

\* A path that fails for a while: a timer that ends although the far end is there.
EarlyTimer(e) ==
  /\ end[e].state \in {"Ringing", "Call"} /\ upsets < plan.upsets
  /\ end' = [end EXCEPT ![e] = Idle]
  /\ upsets' = upsets + 1
  /\ UNCHANGED <<net, plan, dials, pickedUp>>
  /\ departed' = Left(end[e], end'[e], e)

Lose(e, f) ==
  /\ Pending(e, f) /\ upsets < plan.upsets
  /\ net' = [net EXCEPT ![e][f] = Tail(@)]
  /\ upsets' = upsets + 1
  /\ UNCHANGED <<end, plan, dials, pickedUp, departed>>

WireNext ==
  \E e \in Ends :
    \/ PlaceCall(e) \/ StartDial(e) \/ RepeatDial(e) \/ DropDial(e)
    \/ Answer(e) \/ Reject(e) \/ HangUp(e)
    \/ RingTimeout(e) \/ FarEndSilent(e) \/ EarlyTimer(e)
    \/ \E f \in Ends \ {e} : Read(e, f) \/ Lose(e, f)

-----------------------------------------------------------------------------
(***************************************************************************)
(* Properties.                                                             *)
(***************************************************************************)
InCallWith(e, f) == end[e].state = "Call" /\ end[e].far = f

\* Nobody gets into a call by dialling while others talk: a caller has a call
\* only with an end whose computer has answered a dial of that caller's.
NoBargingIn ==
  \A e, f \in Ends :
    InCallWith(e, f) /\ ~end[e].answering
      => \E d \in 1 .. dials[e] : <<f, <<e, d>>>> \in pickedUp

\* A call lasts until one of its ends leaves it: nothing said about an earlier
\* call or by anybody else ends it, whatever is lost.  An end that has given up too
\* early is the exception.
OnlyTheFarEndEnds ==
  [][\A e \in Ends :
       end[e].state = "Call" /\ end'[e].state = "Idle" /\ upsets' = upsets
         => HangUp(e) \/ \E d \in end[e].about : <<end[e].far, d>> \in departed]_wireVars

\* A call that one end has left, or that the other never had, is not kept up.
HalfOpen(e) == end[e].state = "Call" /\ ~InCallWith(end[e].far, e)

HalfOpenEnds == \A e \in Ends : []<>~HalfOpen(e)

\* A phone does not ring for ever for somebody who has gone.
RingsForNobody(e) ==
  /\ end[e].state = "Ringing"
  /\ ~(end[end[e].far].state = "Dialling" /\ end[end[e].far].far = e)

RingingEnds == \A e \in Ends : []<>~RingsForNobody(e)
=============================================================================
