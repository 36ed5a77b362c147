----------------------------- MODULE LapmProofs -----------------------------
(***************************************************************************)
(* Proofs about one LAPM end against any peer (LapmOpen), for every value   *)
(* of the constants.                                                       *)
(***************************************************************************)
EXTENDS LapmOpen, LapmLemmas

-----------------------------------------------------------------------------
(***************************************************************************)
(* The theorems.                                                           *)
(***************************************************************************)

Inv == Sound(end) /\ handed \in Seq(Data)

LEMMA InitInv == Init => Inv
<1> SUFFICES ASSUME Init PROVE Inv
  OBVIOUS
<1>1. PICK offer \in Offers : end \in {Originate(offer), Answer(offer)}
  BY DEF Init
<1>2. offer \in Directions
  BY LapmOpenAssumption
<1>3. Sound(Originate(offer)) /\ Sound(Answer(offer))
  BY <1>2, FreshSound, SendXidCommandSound DEF Originate, Answer
<1> QED
  BY <1>1, <1>3, EmptySeq DEF Init, Inv

LEMMA NextInv == Inv /\ [Next]_vars => Inv'
<1> SUFFICES ASSUME Inv, [Next]_vars PROVE Inv'
  OBVIOUS
<1>1. Sound(end)
  BY DEF Inv
<1>2. ASSUME NEW late \in BOOLEAN PROVE Sound(Now(late))
  BY <1>1, ExpireSound DEF Now
<1>3. <<>> \in Seq(Data)
  BY EmptySeq
<1>4. ASSUME NEW d \in Data, Send(d) PROVE Inv'
  BY <1>1, <1>3, <1>4, SendDataSound DEF Send, Inv
<1>5. ASSUME NEW late \in BOOLEAN, Transmit(late) PROVE Inv'
  BY <1>2, <1>3, <1>5, AfterNextFrameSound DEF Transmit, Inv
<1>6. ASSUME NEW f \in PeerFrames, NEW late \in BOOLEAN, Hear(f, late)
      PROVE  Inv'
  <2> DEFINE after == Receive(Now(late), f)
             t == [after EXCEPT !.received = <<>>]
  <2>1. Sound(after)
    BY <1>2, LapmOpenAssumption, ReceiveSound
  <2>2. end' = t /\ handed' = after.received
    BY <1>6 DEF Hear
  <2> HIDE DEF after
  <2>3. after \in EndState /\ after.received \in Seq(Data)
    BY <2>1 DEF Sound, EndState
  <2>4. t \in EndState
    BY <1>3, <2>3 DEF EndState
  <2>5. t.k = after.k /\ t.n401 = after.n401 /\ t.state = after.state
        /\ t.sent = after.sent /\ t.vs = after.vs /\ t.va = after.va
        /\ t.recovery = after.recovery /\ t.timer = after.timer
        /\ t.owedPoll = after.owedPoll
    BY <2>3 DEF EndState
  <2> HIDE DEF t
  <2>6. Sound(t)
    BY <2>1, <2>4, <2>5, UntouchedWindowSound
  <2> QED
    BY <2>2, <2>3, <2>6 DEF Inv
<1>7. CASE UNCHANGED vars
  BY <1>7 DEF vars, Inv
<1> QED
  BY <1>4, <1>5, <1>6, <1>7 DEF Next

\* The inductive invariant holds throughout.
THEOREM Invariance == Spec => []Inv
BY InitInv, NextInv, PTL DEF Spec

\* The end's state stays of its type, whatever the peer sends.
THEOREM TypeCorrect == Spec => []TypeOK
<1>1. Inv => TypeOK
  BY DEF Inv, Sound, TypeOK
<1> QED
  BY <1>1, Invariance, PTL

\* V(S) never points past the frames that are kept: the index that
\* next_i_frame takes is always in bounds.
THEOREM NeverOutOfBounds == Spec => []IndexInBounds
<1>1. Inv => IndexInBounds
  BY DEF Inv, Sound, WindowOK, IndexInBounds
<1> QED
  BY <1>1, Invariance, PTL

\* No window that a peer asks for makes the sequence numbers ambiguous.
THEOREM NumbersStayUnambiguous == Spec => []NumbersUnambiguous
<1>1. Inv => NumbersUnambiguous
  <2>1. Inv => end.sent \in Seq(Seq(Data))
    BY DEF Inv, Sound, EndState
  <2>2. Inv => Len(end.sent) \in Nat /\ Len(end.sent) <= MaxK
    BY <2>1 DEF Inv, Sound, WindowOK
  <2> QED
    BY <2>2, LapmAssumption DEF NumbersUnambiguous
<1> QED
  BY <1>1, Invariance, PTL

\* An end in timer recovery always has a poll due or its timer running.
THEOREM RecoveryAlwaysPolls == Spec => []RecoveryPolls
<1>1. Inv => RecoveryPolls
  BY DEF Inv, Sound, TimerOK, RecoveryPolls
<1> QED
  BY <1>1, Invariance, PTL

\* Nothing outstanding is ever left without a timer, a poll or a way out.
THEOREM NothingIsStranded == Spec => []NothingStranded
<1>1. Inv => NothingStranded
  BY DEF Inv, Sound, TimerOK, NothingStranded, CanResend
<1> QED
  BY <1>1, Invariance, PTL

(*****************************************************************************)
(* A released end stays so, keeps nothing and hands nothing over.            *)
(*****************************************************************************)
\* Nothing of the computer's is kept once the connection has ended.
Settled(s) == s.state = "Released" => s.queue = <<>> /\ s.sent = <<>>

\* A step from s to t, which does not revive it and delivers nothing if it
\* has ended.
Stays(s, t) ==
  /\ Settled(t)
  /\ s.state = "Released" => t.state = "Released" /\ t.received = s.received

\* Ending a connection leaves nothing kept.
LEMMA ReleaseStays ==
  ASSUME NEW s \in EndState, NEW t \in EndState, t.received = s.received
  PROVE  Settled(Release(t)) /\ Release(t).state = "Released"
         /\ Release(t).received = s.received
BY DEF Release, EndState, Settled

\* A timer that expires, at worst, ends the connection.
LEMMA ExpireStays ==
  ASSUME NEW s \in EndState, Settled(s)
  PROVE  Stays(s, Expire(s)) /\ Expire(s).received = s.received
<1>1. ASSUME NEW f, NEW timed
      PROVE  LET q == Queue(s, f, timed)
             IN  q.state = s.state /\ q.received = s.received
  BY DEF Queue, EndState
<1>2. CASE s.state = "Waiting"
  BY <1>2 DEF Expire, Release, EndState, Settled, Stays
<1>3. CASE s.state \in {"Negotiating", "Establishing"}
  <2> DEFINE t == [s EXCEPT !.timer = FALSE, !.retries = @ + 1]
  <2>1. t.state = s.state /\ t.received = s.received
    BY DEF EndState
  <2>2. \A f, timed : Queue(t, f, timed).state = t.state
                      /\ Queue(t, f, timed).received = t.received
    BY DEF Queue, EndState
  <2>3. Release(t).state = "Released" /\ Release(t).received = s.received
        /\ Settled(Release(t))
    BY DEF Release, EndState, Settled
  <2>4. Expire(s) = IF t.retries >= N400 THEN Release(t)
                    ELSE IF t.state = "Negotiating" THEN SendXidCommand(t)
                    ELSE SendSabme(t)
    BY <1>3 DEF Expire, Retry
  <2>5. \/ Expire(s) = Release(t)
        \/ \E f, timed : Expire(s) = Queue(t, f, timed)
    BY <2>4 DEF SendXidCommand, SendSabme
  <2> HIDE DEF t
  <2> QED
    BY <1>3, <2>1, <2>2, <2>3, <2>5 DEF Settled, Stays
<1>4. CASE s.state = "Connected"
  BY <1>4 DEF Expire, StartPolling, Release, EndState, Settled, Stays
<1>5. CASE s.state = "Released"
  BY <1>5 DEF Expire, EndState, Settled, Stays
<1> QED
  BY <1>2, <1>3, <1>4, <1>5 DEF EndState, States

\* An I or supervisory frame reaches only an open connection.
LEMMA NumberedStays ==
  ASSUME NEW s \in EndState, Settled(s), NEW f
  PROVE  Stays(s, Numbered(s, f))
<1> DEFINE c == IF s.state = "Establishing" THEN Connect(s) ELSE s
<1>2. c.state = IF s.state = "Establishing" THEN "Connected" ELSE s.state
  BY DEF Connect, EndState
<1>3. CASE c.state # "Connected"
  BY <1>2, <1>3 DEF Numbered, Stays
<1>4. CASE c.state = "Connected"
  BY <1>2, <1>4 DEF Numbered, Stays, Settled, SupervisoryIn, Information,
     EndRecovery, Acknowledge, Release, Connect, EndState
<1> QED
  BY <1>3, <1>4

\* So it is for every frame: a released end heeds none.
LEMMA ReceiveStays ==
  ASSUME NEW s \in EndState, Settled(s), NEW f
  PROVE  Stays(s, Receive(s, f))
<1>1. Stays(s, s)
  BY DEF Stays
<1>2. ASSUME NEW t, t.state = s.state, s.state # "Released" PROVE Stays(s, t)
  BY <1>2 DEF Stays, Settled
<1>3. Settled(Release(s))
  BY DEF Release, EndState, Settled
<1>4. ASSUME NEW t \in EndState, NEW g, NEW timed
      PROVE  Queue(t, g, timed).state = t.state
             /\ Queue(t, g, timed).queue = t.queue
             /\ Queue(t, g, timed).sent = t.sent
  BY DEF Queue, EndState
<1>5. CASE f.kind = "UNDEFINED" \/ s.state = "Released"
  BY <1>1, <1>3, <1>5, NumberedStays DEF Receive, Stays
<1>6. CASE f.kind \in SKinds \cup {"I"}
  BY <1>6, NumberedStays DEF Receive, SKinds
<1>7. ASSUME s.state # "Released"
      PROVE  Stays(s, UnnumberedCommand(s, f))
  <2>1. CASE f.kind = "XID"
    BY <1>3, <1>7, <2>1
       DEF UnnumberedCommand, Agree, Stays, Settled, Queue, EndState
  <2>2. CASE f.kind = "SABME"
    BY <1>3, <1>7, <2>2
       DEF UnnumberedCommand, Respond, Connect, Queue, Stays, Settled, EndState
  <2>3. CASE f.kind = "DISC"
    BY <1>7, <2>3
       DEF UnnumberedCommand, Respond, Release, Queue, Stays, Settled, EndState
  <2>4. CASE f.kind = "UI"
    BY <1>7, <2>4
       DEF UnnumberedCommand, BreakSignal, Queue, Stays, Settled, EndState
  <2>5. CASE f.kind \notin {"XID", "SABME", "DISC", "UI"}
    BY <1>1, <2>5 DEF UnnumberedCommand
  <2> QED
    BY <2>1, <2>2, <2>3, <2>4, <2>5
<1>8. ASSUME s.state # "Released"
      PROVE  Stays(s, UnnumberedResponse(s, f))
  <2>1. CASE f.kind = "XID"
    BY <1>3, <1>8, <2>1
       DEF UnnumberedResponse, Conclude, SendSabme, Stays, Settled, Queue, EndState
  <2>2. CASE f.kind = "UA"
    BY <1>8, <2>2 DEF UnnumberedResponse, Connect, Stays, Settled, EndState
  <2>3. CASE f.kind \in {"DM", "FRMR"}
    BY <1>3, <1>8, <2>3 DEF UnnumberedResponse, Stays, Settled
  <2>4. CASE f.kind \notin {"XID", "UA", "DM", "FRMR"}
    BY <1>1, <2>4 DEF UnnumberedResponse
  <2> QED
    BY <2>1, <2>2, <2>3, <2>4
<1> QED
  BY <1>5, <1>6, <1>7, <1>8 DEF Receive

\* Sending a frame neither ends a connection nor revives one.
LEMMA AfterNextFrameStays ==
  ASSUME NEW s \in EndState, Settled(s)
  PROVE  Stays(s, AfterNextFrame(s))
         /\ AfterNextFrame(s).received = s.received
<1>1. Cut(s).state = s.state /\ Cut(s).received = s.received
      /\ DOMAIN Cut(s) = DOMAIN s
  BY DEF Cut, EndState
<1>2. /\ AfterNextFrame(s).state = s.state
      /\ AfterNextFrame(s).received = s.received
      /\ s.state # "Connected" => AfterNextFrame(s).queue = s.queue
                                  /\ AfterNextFrame(s).sent = s.sent
  <2>1. CASE Has(s) = "urgent"
    BY <2>1 DEF AfterNextFrame, EndState
  <2>2. CASE Has(s) = "reject"
    BY <2>2 DEF AfterNextFrame, EndState
  <2>3. CASE Has(s) = "final"
    BY <2>3 DEF AfterNextFrame, EndState
  <2>4. CASE Has(s) = "poll"
    BY <2>4 DEF AfterNextFrame, EndState
  <2>5. CASE Has(s) = "data"
    <3>1. s.state = "Connected"
      BY <2>5 DEF Has
    <3>2. AfterNextFrame(s) = [Cut(s) EXCEPT !.vs = After(@), !.owedAck = FALSE,
                                             !.timer = TRUE]
      BY <2>5 DEF AfterNextFrame
    <3> QED
      BY <1>1, <3>1, <3>2 DEF EndState, Cut
  <2>6. CASE Has(s) = "ack"
    BY <2>6 DEF AfterNextFrame, EndState
  <2>7. CASE Has(s) = "nothing"
    BY <2>7 DEF AfterNextFrame
  <2> QED
    BY <2>1, <2>2, <2>3, <2>4, <2>5, <2>6, <2>7 DEF Has
<1> QED
  BY <1>2 DEF Stays, Settled

\* With the invariant: what is handed over is never kept as well.
Final == Inv /\ Settled(end) /\ end.received = <<>>

\* A connection begins alive.
LEMMA FinalInit == Init => Final
<1> SUFFICES ASSUME Init PROVE Final
  OBVIOUS
<1>1. Inv
  BY InitInv
<1>2. end.state # "Released" /\ end.received = <<>>
  <2>1. ASSUME NEW offer, NEW state
        PROVE  /\ Fresh(state, offer).state = state
               /\ Fresh(state, offer).received = <<>>
               /\ \A f, timed :
                    LET s == Queue(Fresh(state, offer), f, timed)
                    IN  s.state = state /\ s.received = <<>>
    BY DEF Fresh, Queue
  <2>2. PICK offer \in Offers : end \in {Originate(offer), Answer(offer)}
    BY DEF Init
  <2>3. \/ \E f, timed : end = Queue(Fresh("Negotiating", offer), f, timed)
        \/ end = Fresh("Waiting", offer)
    BY <2>2 DEF Originate, Answer, SendXidCommand
  <2> QED
    BY <2>1, <2>3
<1> QED
  BY <1>1, <1>2 DEF Final, Settled

\* The three parts of ReleasedIsFinal, and what makes them last.
LEMMA FinalStep ==
  ASSUME Final, [Next]_vars
  PROVE  /\ Final'
         /\ Stays(end, end')
         /\ end.state = "Released" /\ vars' # vars => handed' = <<>>
<1>1. Sound(end) /\ end \in EndState /\ Settled(end) /\ end.received = <<>>
  BY DEF Final, Inv, Sound
<1>2. Inv'
  BY NextInv DEF Final
<1>3. ASSUME NEW late \in BOOLEAN
      PROVE  /\ Now(late) \in EndState /\ Stays(end, Now(late))
             /\ Now(late).received = <<>>
  BY <1>1, ExpireSound, ExpireStays DEF Now, Sound, Stays
<1>4. ASSUME NEW d \in Data, Send(d)
      PROVE  Stays(end, end') /\ end'.received = <<>> /\ handed' = <<>>
  BY <1>1, <1>4 DEF Send, SendData, Stays, Settled, EndState
<1>5. ASSUME NEW late \in BOOLEAN, Transmit(late)
      PROVE  Stays(end, end') /\ end'.received = <<>> /\ handed' = <<>>
  BY <1>1, <1>3, <1>5, AfterNextFrameStays DEF Transmit, Stays
<1>6. ASSUME NEW f \in PeerFrames, NEW late \in BOOLEAN, Hear(f, late)
      PROVE  /\ Stays(end, end') /\ end'.received = <<>>
             /\ end.state = "Released" => handed' = <<>>
  <2> DEFINE after == Receive(Now(late), f)
  <2>1. Stays(Now(late), after)
    BY <1>3, ReceiveStays DEF Stays
  <2>2. after \in EndState
    BY <1>1, ExpireSound, LapmOpenAssumption, ReceiveSound DEF Now, Sound
  <2>3. end' = [after EXCEPT !.received = <<>>] /\ handed' = after.received
    BY <1>6 DEF Hear
  <2> HIDE DEF after
  <2>4. end'.received = <<>> /\ end'.state = after.state
        /\ end'.queue = after.queue /\ end'.sent = after.sent
    BY <2>2, <2>3 DEF EndState
  <2> QED
    BY <1>1, <1>3, <2>1, <2>3, <2>4 DEF Stays, Settled
<1>7. CASE UNCHANGED vars
  BY <1>1, <1>2, <1>7 DEF vars, Final, Stays
<1>8. ASSUME Stays(end, end'), end'.received = <<>>
      PROVE  Final'
  BY <1>2, <1>8 DEF Final, Stays
<1> QED
  BY <1>4, <1>5, <1>6, <1>7, <1>8 DEF Next

\* A connection that has ended is dead for good, whatever the peer sends: no
\* handler of Lapm revives it, hands its data over or keeps any.
THEOREM ReleaseIsFinal == Spec => ReleasedIsFinal
<1>1. Final /\ [Next]_vars => Final'
  BY FinalStep
<1>2. Final /\ [Next]_vars =>
        [end.state = "Released" =>
           /\ end'.state = "Released"
           /\ handed' = <<>>
           /\ end'.queue = <<>> /\ end'.sent = <<>>]_vars
  BY FinalStep DEF Stays, Settled
<1> QED
  BY <1>1, <1>2, FinalInit, PTL DEF Spec, ReleasedIsFinal

=============================================================================
