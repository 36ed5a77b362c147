----------------------------- MODULE LapmLemmas -----------------------------
(***************************************************************************)
(* What the procedures of a LAPM end keep true, for every value of the     *)
(* constants: lemmas that the proofs about one end (LapmProofs) and about  *)
(* two (PairProofs) share.                                                 *)
(***************************************************************************)
EXTENDS Lapm, SequenceTheorems, TLAPS

-----------------------------------------------------------------------------
(***************************************************************************)
(* Arithmetic of the sequence numbers.                                     *)
(***************************************************************************)

\* The number after another is one of the numbers, and one further past any
\* third, unless that comes to a whole turn.
LEMMA AfterIsNext ==
  ASSUME NEW n \in Numbers
  PROVE  /\ After(n) \in Numbers
         /\ After(n) = IF n = Modulus - 1 THEN 0 ELSE n + 1
<1>1. CASE n = Modulus - 1
  <2>1. (n + 1) % Modulus = 0
    BY <1>1, LapmAssumption DEF Numbers
  <2> QED  BY <1>1, <2>1, LapmAssumption DEF After, Numbers
<1>2. CASE n # Modulus - 1
  <2>1. n + 1 \in 0 .. Modulus - 1
    BY <1>2, LapmAssumption DEF Numbers
  <2>2. (n + 1) % Modulus = n + 1
    BY <2>1, LapmAssumption
  <2> QED  BY <1>2, <2>1, <2>2, LapmAssumption DEF After, Numbers
<1> QED  BY <1>1, <1>2

\* How far one number is past another is itself less than the modulus, and is
\* measured in steps of After.
LEMMA PastIsDistance ==
  ASSUME NEW n \in Numbers, NEW m \in Numbers
  PROVE  /\ Past(n, m) \in 0 .. Modulus - 1
         /\ Past(n, n) = 0
         /\ Past(n, m) + 1 < Modulus => Past(After(n), m) = Past(n, m) + 1
BY AfterIsNext, LapmAssumption DEF Past, Numbers

\* Distances from a third number add up.
LEMMA PastAdds ==
  ASSUME NEW n \in Numbers, NEW m \in Numbers, NEW a \in Numbers,
         Past(m, a) <= Past(n, a)
  PROVE  Past(n, m) = Past(n, a) - Past(m, a)
BY LapmAssumption DEF Past, Numbers

-----------------------------------------------------------------------------
(***************************************************************************)
(* The inductive invariant.                                                *)
(***************************************************************************)

\* The negotiated values stay in their ranges.
ParametersOK(s) == s.k \in 1 .. MaxK /\ s.n401 \in Nat \ {0}

\* What is kept for sending again fits the numbers, and V(S) is within it.
WindowOK(s) ==
  /\ Len(s.sent) <= MaxK
  /\ s.state # "Connected" => s.sent = <<>>
  /\ s.state = "Connected" => InFlight(s) <= Len(s.sent)

\* What is outstanding is covered, busy peer or not: this is what makes
\* NothingStranded inductive, as the peer may clear its busy condition at any
\* time.
TimerOK(s) ==
  s.state = "Connected" =>
    /\ s.recovery => s.timer \/ s.owedPoll
    /\ s.sent # <<>> =>
         \/ s.timer \/ s.owedPoll
         \/ ~s.recovery /\ InFlight(s) < Len(s.sent)

Sound(s) == s \in EndState /\ ParametersOK(s) /\ WindowOK(s) /\ TimerOK(s)

-----------------------------------------------------------------------------
(***************************************************************************)
(* Each procedure of the end keeps a sound end sound.                      *)
(***************************************************************************)

LEMMA FreshSound ==
  ASSUME NEW st \in {"Waiting", "Negotiating"}, NEW offer \in Directions
  PROVE  Sound(Fresh(st, offer))
BY LapmAssumption, EmptySeq
   DEF Fresh, Sound, EndState, ParametersOK, WindowOK, TimerOK, States,
       Numbers, Directions

LEMMA QueueSound ==
  ASSUME NEW s, Sound(s), NEW f \in Frame, NEW timed \in BOOLEAN
  PROVE  Sound(Queue(s, f, timed))
<1>1. [frame |-> f, timed |-> timed] \in Urgent
  BY DEF Urgent
<1>2. Append(s.urgent, [frame |-> f, timed |-> timed]) \in Seq(Urgent)
  BY <1>1 DEF Sound, EndState
<1>3. Queue(s, f, timed) \in EndState
  BY <1>2 DEF Sound, EndState, Queue
<1> QED
  BY <1>3 DEF Sound, EndState, Queue, ParametersOK, WindowOK, TimerOK, InFlight

LEMMA ReleaseSound ==
  ASSUME NEW s \in EndState, ParametersOK(s)
  PROVE  Sound(Release(s))
<1>1. <<>> \in Seq(Data) /\ <<>> \in Seq(Seq(Data)) /\ Len(<<>>) = 0
  BY EmptySeq
<1>2. Release(s) \in EndState
  BY <1>1 DEF Release, EndState, States
<1> QED
  BY <1>1, <1>2, LapmAssumption
     DEF Release, Sound, EndState, ParametersOK, WindowOK, TimerOK

LEMMA ConnectSound ==
  ASSUME NEW s \in EndState, ParametersOK(s)
  PROVE  Sound(Connect(s))
<1>1. <<>> \in Seq(Seq(Data)) /\ Len(<<>>) = 0
  BY EmptySeq
<1>2. 0 \in Numbers
  BY LapmAssumption DEF Numbers
<1>3. Connect(s) \in EndState
  BY <1>1, <1>2 DEF Connect, EndState, States
<1>4. InFlight(Connect(s)) = 0
  BY <1>2, PastIsDistance DEF Connect, InFlight, EndState
<1>5. /\ Connect(s).sent = <<>> /\ Connect(s).recovery = FALSE
      /\ Connect(s).state = "Connected"
      /\ ParametersOK(Connect(s))
  BY DEF Connect, EndState, ParametersOK
<1> QED
  BY <1>1, <1>3, <1>4, <1>5, LapmAssumption DEF Sound, WindowOK, TimerOK

\* Frames of the kinds the end makes up are frames.
LEMMA PlainIsFrame ==
  ASSUME NEW kind \in PlainKinds, NEW command \in BOOLEAN, NEW pf \in BOOLEAN
  PROVE  Plain(kind, command, pf) \in Frame
BY DEF Plain, PlainFrame, Frame

LEMMA XidIsFrame ==
  ASSUME NEW command \in BOOLEAN, NEW xid \in Xid
  PROVE  XidOf(command, xid) \in Frame
BY DEF XidOf, XidFrame, Frame

LEMMA ClampBounds ==
  ASSUME NEW n \in Nat, NEW high \in Nat \ {0}
  PROVE  Clamp(n, high) \in 1 .. high
BY DEF Clamp

\* Both ends of a retry: another frame with T401, or the release.
LEMMA SendXidCommandSound ==
  ASSUME NEW s, Sound(s)
  PROVE  Sound(SendXidCommand(s))
<1>1. Proposal(s.offer) \in Compression
  BY DEF Proposal, Compression, Ways
<1>2. [kTx |-> DefaultK, kRx |-> DefaultK, n401Tx |-> DefaultN401,
       n401Rx |-> DefaultN401, comp |-> Proposal(s.offer)] \in Xid
  BY <1>1, LapmAssumption DEF Xid
<1> QED
  BY <1>2, XidIsFrame, QueueSound DEF SendXidCommand

LEMMA SendSabmeSound ==
  ASSUME NEW s, Sound(s)
  PROVE  Sound(SendSabme(s))
<1>1. Plain("SABME", TRUE, TRUE) \in Frame
  BY PlainIsFrame DEF PlainKinds
<1> QED
  BY <1>1, QueueSound DEF SendSabme

LEMMA RespondSound ==
  ASSUME NEW s, Sound(s), NEW kind \in PlainKinds, NEW pf \in BOOLEAN
  PROVE  Sound(Respond(s, kind, pf))
BY PlainIsFrame, QueueSound DEF Respond

LEMMA RetrySound ==
  ASSUME NEW s, Sound(s), s.state # "Connected"
  PROVE  Sound(Retry(s))
<1> DEFINE t == [s EXCEPT !.timer = FALSE, !.retries = @ + 1]
<1>1. s \in EndState /\ ParametersOK(s)
  BY DEF Sound
<1>2. s.retries + 1 \in Nat
  BY <1>1 DEF EndState
<1>3. t \in EndState
  BY <1>1, <1>2 DEF EndState
<1>4. ParametersOK(t) /\ t.state = s.state /\ t.sent = s.sent
  BY <1>1 DEF EndState, ParametersOK
<1>5. Retry(s) \in {Release(t), SendXidCommand(t), SendSabme(t)}
  BY DEF Retry
<1> HIDE DEF t
<1>6. Sound(t)
  BY <1>3, <1>4 DEF Sound, WindowOK, TimerOK
<1> QED
  BY <1>3, <1>4, <1>5, <1>6, ReleaseSound, SendXidCommandSound, SendSabmeSound

LEMMA StartPollingSound ==
  ASSUME NEW s, Sound(s), s.state = "Connected"
  PROVE  Sound(StartPolling(s))
<1> DEFINE n == IF s.recovery THEN s.retries + 1 ELSE 0
           t == [s EXCEPT !.timer = FALSE, !.recovery = TRUE, !.retries = n]
           u == [t EXCEPT !.owedPoll = TRUE]
<1>1. s \in EndState /\ ParametersOK(s)
  BY DEF Sound
<1>2. n \in Nat
  BY <1>1 DEF EndState
<1>3. StartPolling(s) \in {u, Release(t)}
  BY DEF StartPolling
<1> HIDE DEF n
<1>4. t \in EndState
  BY <1>1, <1>2 DEF EndState
<1>5. ParametersOK(t) /\ t.sent = s.sent /\ t.vs = s.vs /\ t.va = s.va
      /\ t.state = s.state
  BY <1>1 DEF EndState, ParametersOK
<1> HIDE DEF t
<1>6. u \in EndState
  BY <1>4 DEF EndState
<1>7. ParametersOK(u) /\ u.sent = s.sent /\ u.vs = s.vs /\ u.va = s.va
      /\ u.state = s.state /\ u.owedPoll
  BY <1>4, <1>5 DEF EndState, ParametersOK
<1> HIDE DEF u
<1>8. Sound(u)
  BY <1>6, <1>7 DEF Sound, WindowOK, TimerOK, InFlight
<1> QED
  BY <1>3, <1>4, <1>5, <1>8, ReleaseSound

LEMMA ExpireSound ==
  ASSUME NEW s, Sound(s)
  PROVE  Sound(Expire(s))
<1>1. CASE s.state = "Waiting"
  BY <1>1, ReleaseSound DEF Expire, Sound
<1>2. CASE s.state \in {"Negotiating", "Establishing"}
  BY <1>2, RetrySound DEF Expire
<1>3. CASE s.state = "Connected"
  BY <1>3, StartPollingSound DEF Expire
<1>4. CASE s.state = "Released"
  <2> DEFINE t == [s EXCEPT !.timer = FALSE]
  <2>1. t \in EndState /\ ParametersOK(t) /\ t.state = "Released"
        /\ t.sent = s.sent
    BY <1>4 DEF Sound, EndState, ParametersOK
  <2>2. Sound(t)
    BY <2>1, <1>4 DEF Sound, WindowOK, TimerOK
  <2> QED
    BY <1>4, <2>2 DEF Expire
<1> QED
  BY <1>1, <1>2, <1>3, <1>4 DEF Sound, EndState, States

-----------------------------------------------------------------------------
(***************************************************************************)
(* Unnumbered frames.                                                      *)
(***************************************************************************)

LEMMA AgreeSound ==
  ASSUME NEW s, Sound(s), NEW theirs \in Xid
  PROVE  Sound(Agree(s, theirs))
<1> DEFINE asked == s.state # "Connected" /\ theirs.comp.asks
           ways == theirs.comp.ways \cap Grantable(s.offer)
           k == Clamp(theirs.kRx, MaxK)
           n401 == Clamp(theirs.n401Rx, MaxN401)
           runs == IF asked THEN AskedRuns(ways) ELSE s.compression
           t == [s EXCEPT !.compression = runs, !.n401 = n401, !.k = k]
           comp == IF asked
                   THEN [asks |-> TRUE, ways |-> ways, valid |-> TRUE]
                   ELSE NoCompression
           ours == [kTx |-> t.k, kRx |-> Clamp(theirs.kTx, MaxK),
                    n401Tx |-> t.n401, n401Rx |-> Clamp(theirs.n401Tx, MaxN401),
                    comp |-> comp]
<1>1. s \in EndState /\ ParametersOK(s) /\ Sound(s)
  BY DEF Sound
<1>2. /\ k \in 1 .. MaxK /\ n401 \in 1 .. MaxN401
      /\ Clamp(theirs.kTx, MaxK) \in Nat /\ Clamp(theirs.n401Tx, MaxN401) \in Nat
  BY LapmAssumption, ClampBounds DEF Xid
<1>3. runs \in Directions
  BY <1>1 DEF EndState, Directions, AskedRuns
<1>4. comp \in Compression
  BY DEF Compression, NoCompression, Ways, Xid
<1>5. Agree(s, theirs) \in {Release(s), Queue(t, XidOf(FALSE, ours), FALSE)}
  BY DEF Agree
<1> HIDE DEF k, n401, runs, comp
<1>6. t \in EndState
  <2>1. k \in Nat /\ n401 \in Nat
    BY <1>2, LapmAssumption
  <2> QED
    BY <1>1, <1>3, <2>1 DEF EndState
<1>7. t.k = k /\ t.n401 = n401 /\ t.state = s.state /\ t.sent = s.sent
      /\ t.vs = s.vs /\ t.va = s.va /\ t.recovery = s.recovery
      /\ t.timer = s.timer /\ t.owedPoll = s.owedPoll
  BY <1>1 DEF EndState
<1> HIDE DEF t
<1>8. Sound(t)
  <2>1. ParametersOK(t)
    BY <1>2, <1>7, LapmAssumption DEF ParametersOK
  <2> QED
    BY <1>1, <1>6, <1>7, <2>1 DEF Sound, WindowOK, TimerOK, InFlight
<1>9. ours \in Xid
  BY <1>2, <1>4, <1>7, LapmAssumption DEF Xid
<1> HIDE DEF ours
<1> QED
  BY <1>1, <1>5, <1>8, <1>9, ReleaseSound, QueueSound, XidIsFrame

LEMMA ConcludeSound ==
  ASSUME NEW s, Sound(s), s.state # "Connected", NEW theirs \in Xid
  PROVE  Sound(Conclude(s, theirs))
<1> DEFINE granted == s.offer # {} /\ theirs.comp.asks /\ theirs.comp.ways # {}
           runs == IF granted THEN AskerRuns(theirs.comp.ways) ELSE {}
           k == Clamp(theirs.kRx, MaxK)
           n401 == Clamp(theirs.n401Rx, MaxN401)
           t == [s EXCEPT !.compression = runs, !.n401 = n401, !.k = k,
                          !.state = "Establishing", !.retries = 0,
                          !.timer = FALSE]
<1>1. s \in EndState /\ ParametersOK(s) /\ s.sent = <<>>
  BY DEF Sound, WindowOK
<1>2. k \in 1 .. MaxK /\ n401 \in 1 .. MaxN401
  BY LapmAssumption, ClampBounds DEF Xid
<1>3. runs \in Directions
  BY DEF Directions, AskerRuns
<1>4. Conclude(s, theirs) \in {Release(s), SendSabme(t)}
  BY DEF Conclude
<1> HIDE DEF k, n401, runs
<1>5. t \in EndState
  <2>1. k \in Nat /\ n401 \in Nat
    BY <1>2, LapmAssumption
  <2> QED
    BY <1>1, <1>3, <2>1 DEF EndState, States
<1>6. t.k = k /\ t.n401 = n401 /\ t.state = "Establishing" /\ t.sent = <<>>
  BY <1>1 DEF EndState
<1> HIDE DEF t
<1>7. Sound(t)
  BY <1>2, <1>5, <1>6, LapmAssumption, EmptySeq
     DEF Sound, ParametersOK, WindowOK, TimerOK
<1> QED
  BY <1>1, <1>4, <1>7, ReleaseSound, SendSabmeSound

LEMMA BreakSignalSound ==
  ASSUME NEW s, Sound(s), NEW f \in UiFrame
  PROVE  Sound(BreakSignal(s, f))
<1> DEFINE rb == IF f.bit = s.rb THEN ~s.rb ELSE s.rb
           t == [s EXCEPT !.rb = rb]
           answer == [kind |-> "UI", command |-> FALSE, pf |-> f.pf,
                      signal |-> "BRKACK", bit |-> rb]
<1>1. s \in EndState /\ Sound(s)
  BY DEF Sound
<1>2. rb \in BOOLEAN
  BY <1>1 DEF EndState
<1>3. BreakSignal(s, f) \in {s, Queue(t, answer, FALSE)}
  BY DEF BreakSignal
<1> HIDE DEF rb
<1>4. answer \in Frame
  BY <1>2 DEF UiFrame, Frame
<1>5. t \in EndState
  BY <1>1, <1>2 DEF EndState
<1>6. t.k = s.k /\ t.n401 = s.n401 /\ t.state = s.state /\ t.sent = s.sent
      /\ t.vs = s.vs /\ t.va = s.va /\ t.recovery = s.recovery
      /\ t.timer = s.timer /\ t.owedPoll = s.owedPoll
  BY <1>1 DEF EndState
<1> HIDE DEF t, answer
<1>7. Sound(t)
  BY <1>1, <1>5, <1>6 DEF Sound, ParametersOK, WindowOK, TimerOK, InFlight
<1> QED
  BY <1>1, <1>3, <1>4, <1>7, QueueSound

LEMMA UnnumberedCommandSound ==
  ASSUME NEW s, Sound(s), NEW f \in Frame,
         f.kind \in PlainKinds \cup {"XID", "UI"}
  PROVE  Sound(UnnumberedCommand(s, f))
<1>1. s \in EndState /\ ParametersOK(s) /\ f.pf \in BOOLEAN
  BY DEF Sound, Frame, PlainFrame, XidFrame, UiFrame, SFrame, IFrame
<1>2. CASE f.kind = "XID"
  <2>1. f.xid \in Xid
    BY <1>2 DEF Frame, PlainFrame, XidFrame, UiFrame, SFrame, IFrame,
                PlainKinds, SKinds
  <2> QED
    BY <1>2, <2>1, AgreeSound DEF UnnumberedCommand
<1>3. CASE f.kind = "SABME" /\ s.state = "Waiting"
  BY <1>1, <1>3, ConnectSound, RespondSound DEF UnnumberedCommand, PlainKinds
<1>4. CASE f.kind = "SABME" /\ s.state = "Connected"
  BY <1>1, <1>4, ReleaseSound, RespondSound DEF UnnumberedCommand, PlainKinds
<1>5. CASE f.kind = "DISC"
  <2>1. Sound(Respond(s, "UA", f.pf)) /\ Sound(Respond(s, "DM", f.pf))
    BY <1>1, RespondSound DEF PlainKinds
  <2>2. Sound(Release(Respond(s, "UA", f.pf)))
    BY <2>1, ReleaseSound DEF Sound
  <2> QED
    BY <1>5, <2>1, <2>2 DEF UnnumberedCommand
<1>6. CASE f.kind = "UI" /\ s.state = "Connected"
  <2>1. f \in UiFrame
    BY <1>6 DEF Frame, PlainFrame, XidFrame, UiFrame, SFrame, IFrame,
                PlainKinds, SKinds
  <2> QED
    BY <1>6, <2>1, BreakSignalSound DEF UnnumberedCommand
<1>7. CASE /\ f.kind # "XID" /\ f.kind # "DISC"
           /\ ~(f.kind = "SABME" /\ s.state \in {"Waiting", "Connected"})
           /\ ~(f.kind = "UI" /\ s.state = "Connected")
  BY <1>7 DEF UnnumberedCommand
<1> QED
  BY <1>2, <1>3, <1>4, <1>5, <1>6, <1>7

LEMMA UnnumberedResponseSound ==
  ASSUME NEW s, Sound(s), NEW f \in Frame,
         f.kind \in PlainKinds \cup {"XID", "UI"}
  PROVE  Sound(UnnumberedResponse(s, f))
<1>1. s \in EndState /\ ParametersOK(s)
  BY DEF Sound
<1>2. Sound(Release(s)) /\ Sound(Connect(s))
  BY <1>1, ReleaseSound, ConnectSound
<1>3. CASE f.kind = "XID" /\ s.state = "Negotiating"
  <2>1. f.xid \in Xid
    BY <1>3 DEF Frame, PlainFrame, XidFrame, UiFrame, SFrame, IFrame,
                PlainKinds, SKinds
  <2>2. Sound(Conclude(s, f.xid))
    BY <1>3, <2>1, ConcludeSound
  <2> QED
    BY <1>3, <2>2 DEF UnnumberedResponse
<1>4. CASE ~(f.kind = "XID" /\ s.state = "Negotiating")
  BY <1>2, <1>4 DEF UnnumberedResponse
<1> QED
  BY <1>3, <1>4

-----------------------------------------------------------------------------
(***************************************************************************)
(* Numbered frames.                                                        *)
(***************************************************************************)

\* An acknowledgement drops what it acknowledges and no more, moves V(A) to
\* N(R) and keeps V(S) within what is left.
LEMMA AcknowledgeProperties ==
  ASSUME NEW s, Sound(s), s.state = "Connected", NEW nr \in Numbers,
         Valid(s, nr)
  PROVE  LET t == Acknowledge(s, nr) IN
         /\ Sound(t)
         /\ t.va = nr /\ t.state = "Connected" /\ t.recovery = s.recovery
<1> DEFINE acked == Past(nr, s.va)
           vs == IF Past(s.vs, s.va) < acked THEN nr ELSE s.vs
           timer == IF acked > 0 /\ ~s.recovery THEN vs # nr ELSE s.timer
           rest == SubSeq(s.sent, acked + 1, Len(s.sent))
           t == Acknowledge(s, nr)
<1>1. s \in EndState /\ ParametersOK(s)
  BY DEF Sound
<1>2. s.vs \in Numbers /\ s.va \in Numbers /\ s.sent \in Seq(Seq(Data))
  BY <1>1 DEF EndState
<1>3. acked \in 0 .. Modulus - 1 /\ InFlight(s) \in 0 .. Modulus - 1
  BY <1>2, PastIsDistance DEF InFlight
<1>4. acked <= Len(s.sent) /\ InFlight(s) <= Len(s.sent)
      /\ Len(s.sent) <= MaxK /\ Len(s.sent) \in Nat
  BY <1>2 DEF Valid, Sound, WindowOK
<1>5. rest \in Seq(Seq(Data)) /\ Len(rest) = Len(s.sent) - acked
  <2>1. \A i \in acked + 1 .. Len(s.sent) : s.sent[i] \in Seq(Data)
    BY <1>2, <1>3, <1>4, LapmAssumption
  <2>2. rest \in Seq(Seq(Data))
        /\ Len(rest) = IF acked + 1 <= Len(s.sent)
                       THEN Len(s.sent) - (acked + 1) + 1 ELSE 0
    BY <1>3, <1>4, <2>1, SubSeqProperties, LapmAssumption
  <2> QED
    BY <1>3, <1>4, <2>2, LapmAssumption
<1>6. vs \in Numbers
  BY <1>2
<1>7. Past(vs, nr) = IF InFlight(s) < acked THEN 0 ELSE InFlight(s) - acked
  <2>1. CASE InFlight(s) < acked
    BY <2>1, PastIsDistance DEF InFlight
  <2>2. CASE ~(InFlight(s) < acked)
    <3>1. Past(nr, s.va) <= Past(s.vs, s.va)
      BY <1>3, <2>2, LapmAssumption DEF InFlight
    <3>2. Past(s.vs, nr) = Past(s.vs, s.va) - Past(nr, s.va)
      BY <1>2, <3>1, PastAdds
    <3> QED
      BY <2>2, <3>2 DEF InFlight
  <2> QED
    BY <2>1, <2>2
<1>8. t = [s EXCEPT !.sent = rest, !.va = nr, !.vs = vs, !.timer = timer]
  BY DEF Acknowledge
<1>9. timer \in BOOLEAN
  BY <1>1 DEF EndState
<1> HIDE DEF rest, t, vs, timer
<1>10. t \in EndState
  BY <1>1, <1>5, <1>6, <1>8, <1>9 DEF EndState
<1>11. /\ t.sent = rest /\ t.va = nr /\ t.vs = vs /\ t.timer = timer
       /\ t.state = "Connected" /\ t.recovery = s.recovery
       /\ t.owedPoll = s.owedPoll /\ t.k = s.k /\ t.n401 = s.n401
  BY <1>1, <1>8 DEF EndState
<1>12. InFlight(t) <= Len(rest) /\ Len(rest) <= MaxK
  BY <1>3, <1>4, <1>5, <1>7, <1>11, LapmAssumption DEF InFlight
<1>13. TimerOK(t)
  <2>1. CASE s.recovery
    BY <1>11, <2>1 DEF Sound, TimerOK, timer
  <2>2. CASE ~s.recovery /\ acked > 0
    <3>1. CASE vs # nr
      BY <1>11, <2>2, <3>1 DEF TimerOK, timer
    <3>2. CASE vs = nr
      <4>1. InFlight(t) = 0
        BY <1>11, <3>2, PastIsDistance DEF InFlight
      <4>2. rest # <<>> => Len(rest) > 0
        BY <1>5, EmptySeq
      <4> QED
        BY <1>11, <2>2, <4>1, <4>2 DEF TimerOK
    <3> QED
      BY <3>1, <3>2
  <2>3. CASE ~s.recovery /\ acked = 0
    <3>1. rest = s.sent
      BY <1>2, <2>3, SubSeqFull DEF rest
    <3>2. InFlight(t) = InFlight(s)
      BY <1>3, <1>7, <1>11, <2>3, LapmAssumption DEF InFlight
    <3>3. timer = s.timer
      BY <2>3 DEF timer
    <3> QED
      BY <1>11, <2>3, <3>1, <3>2, <3>3 DEF Sound, TimerOK
  <2> QED
    BY <1>3, <2>1, <2>2, <2>3, LapmAssumption
<1>14. Sound(t)
  BY <1>1, <1>10, <1>11, <1>12, <1>13 DEF Sound, ParametersOK, WindowOK
<1> QED
  BY <1>11, <1>14 DEF t

\* A sound state whose window and timer are left alone stays sound.
LEMMA UntouchedWindowSound ==
  ASSUME NEW s, Sound(s), NEW t, t \in EndState,
         t.k = s.k, t.n401 = s.n401, t.state = s.state, t.sent = s.sent,
         t.vs = s.vs, t.va = s.va, t.recovery = s.recovery,
         s.timer => t.timer, s.owedPoll => t.owedPoll
  PROVE  Sound(t)
BY DEF Sound, ParametersOK, WindowOK, TimerOK, InFlight

LEMMA InformationSound ==
  ASSUME NEW s, Sound(s), s.state = "Connected", NEW f \in IFrame
  PROVE  Sound(Information(s, f))
<1> DEFINE t == Acknowledge(s, f.nr)
           a == [t EXCEPT !.received = @ \o f.info, !.vr = After(@),
                          !.reject = FALSE, !.owedFinal = @ \/ f.pf,
                          !.owedAck = @ \/ ~f.pf]
           b == [t EXCEPT !.reject = TRUE,
                          !.owedReject = IF f.pf THEN "final" ELSE "plain"]
           c == [t EXCEPT !.owedFinal = @ \/ f.pf]
<1>1. f.nr \in Numbers /\ f.info \in Seq(Data) /\ f.pf \in BOOLEAN
  BY DEF IFrame
<1>2. CASE ~Valid(s, f.nr)
  BY <1>2, ReleaseSound DEF Information, Sound
<1>3. CASE Valid(s, f.nr)
  <2>1. Sound(t) /\ t \in EndState
    BY <1>1, <1>3, AcknowledgeProperties DEF Sound
  <2>2. Information(s, f) \in {a, b, c}
    BY <1>3 DEF Information
  <2> HIDE DEF t
  <2>3. Sound(a)
    <3>1. t.received \o f.info \in Seq(Data) /\ After(t.vr) \in Numbers
      BY <1>1, <2>1, ConcatProperties, AfterIsNext DEF EndState
    <3>2. a \in EndState
      BY <1>1, <2>1, <3>1 DEF EndState
    <3>3. a.k = t.k /\ a.n401 = t.n401 /\ a.state = t.state /\ a.sent = t.sent
          /\ a.vs = t.vs /\ a.va = t.va /\ a.recovery = t.recovery
          /\ a.timer = t.timer /\ a.owedPoll = t.owedPoll
      BY <2>1 DEF EndState
    <3> HIDE DEF a
    <3> QED
      BY <2>1, <3>2, <3>3, UntouchedWindowSound
  <2>4. Sound(b)
    <3>1. b \in EndState
      BY <1>1, <2>1 DEF EndState
    <3>2. b.k = t.k /\ b.n401 = t.n401 /\ b.state = t.state /\ b.sent = t.sent
          /\ b.vs = t.vs /\ b.va = t.va /\ b.recovery = t.recovery
          /\ b.timer = t.timer /\ b.owedPoll = t.owedPoll
      BY <2>1 DEF EndState
    <3> HIDE DEF b
    <3> QED
      BY <2>1, <3>1, <3>2, UntouchedWindowSound
  <2>5. Sound(c)
    <3>1. c \in EndState
      BY <1>1, <2>1 DEF EndState
    <3>2. c.k = t.k /\ c.n401 = t.n401 /\ c.state = t.state /\ c.sent = t.sent
          /\ c.vs = t.vs /\ c.va = t.va /\ c.recovery = t.recovery
          /\ c.timer = t.timer /\ c.owedPoll = t.owedPoll
      BY <2>1 DEF EndState
    <3> HIDE DEF c
    <3> QED
      BY <2>1, <3>1, <3>2, UntouchedWindowSound
  <2> QED
    BY <2>2, <2>3, <2>4, <2>5
<1> QED
  BY <1>2, <1>3

\* Where V(S) goes back to V(A), what is outstanding will be sent again.
LEMMA GoneBackSound ==
  ASSUME NEW s, Sound(s), s.state = "Connected", NEW t, t \in EndState,
         t.k = s.k, t.n401 = s.n401, t.state = "Connected", t.sent = s.sent,
         t.va = s.va, t.vs = s.va, t.recovery = FALSE
  PROVE  Sound(t)
<1>1. InFlight(t) = 0
  BY PastIsDistance DEF InFlight, EndState
<1>2. t.sent \in Seq(Seq(Data)) /\ Len(t.sent) \in Nat
      /\ (t.sent # <<>> => Len(t.sent) > 0)
  BY EmptySeq DEF EndState
<1> QED
  BY <1>1, <1>2 DEF Sound, ParametersOK, WindowOK, TimerOK

LEMMA SupervisoryInSound ==
  ASSUME NEW s, Sound(s), s.state = "Connected", NEW f \in SFrame
  PROVE  Sound(SupervisoryIn(s, f))
<1> DEFINE a == Acknowledge(s, f.nr)
           owes == a.owedFinal \/ (f.command /\ f.pf)
           t == [a EXCEPT !.owedFinal = owes]
           final == [a EXCEPT !.recovery = FALSE, !.vs = f.nr,
                              !.peerBusy = (f.kind = "RNR"),
                              !.timer = (f.kind = "RNR")]
           busy == [t EXCEPT !.peerBusy = TRUE, !.timer = @ \/ ~t.recovery]
           back == [t EXCEPT !.peerBusy = FALSE, !.vs = f.nr, !.timer = FALSE]
           ready == [t EXCEPT !.peerBusy = FALSE]
<1>1. f.nr \in Numbers /\ f.pf \in BOOLEAN /\ f.command \in BOOLEAN
  BY DEF SFrame
<1>2. CASE f.kind = "SREJ" \/ ~Valid(s, f.nr)
  BY <1>2, ReleaseSound DEF SupervisoryIn, Sound
<1>3. CASE Valid(s, f.nr) /\ f.kind # "SREJ"
  <2>1. Sound(a) /\ a \in EndState /\ a.va = f.nr /\ a.state = "Connected"
        /\ a.recovery = s.recovery
    BY <1>1, <1>3, AcknowledgeProperties DEF Sound
  <2>2. SupervisoryIn(s, f) \in
          IF ~f.command /\ f.pf /\ s.recovery THEN {final}
          ELSE IF t.recovery THEN {busy, ready} ELSE {busy, back, ready}
    BY <1>3 DEF SupervisoryIn, EndRecovery
  <2>3. owes \in BOOLEAN
    BY <1>1, <2>1 DEF EndState
  <2> HIDE DEF a, owes
  <2>4. t \in EndState
    BY <2>1, <2>3 DEF EndState
  <2>5. Sound(t) /\ t.va = f.nr /\ t.state = "Connected"
    BY <2>1, <2>4, UntouchedWindowSound DEF EndState
  <2>6. Sound(final)
    <3>1. final \in EndState
      BY <1>1, <2>1 DEF EndState
    <3>2. final.k = a.k /\ final.n401 = a.n401 /\ final.state = "Connected"
          /\ final.sent = a.sent /\ final.vs = a.va /\ final.va = a.va
          /\ final.recovery = FALSE
      BY <2>1 DEF EndState
    <3> HIDE DEF final
    <3> QED
      BY <2>1, <3>1, <3>2, GoneBackSound
  <2> HIDE DEF t
  <2>7. Sound(busy)
    <3>1. busy \in EndState
      BY <2>4 DEF EndState
    <3>2. busy.k = t.k /\ busy.n401 = t.n401 /\ busy.state = t.state
          /\ busy.sent = t.sent /\ busy.vs = t.vs /\ busy.va = t.va
          /\ busy.recovery = t.recovery /\ busy.owedPoll = t.owedPoll
      BY <2>4 DEF EndState
    <3>3. t.timer => busy.timer
      BY <2>4 DEF EndState
    <3> HIDE DEF busy
    <3> QED
      BY <2>5, <3>1, <3>2, <3>3, UntouchedWindowSound
  <2>8. ~t.recovery => Sound(back)
    <3>1. back \in EndState
      BY <1>1, <2>4 DEF EndState
    <3> QED
      BY <2>4, <2>5, <3>1, GoneBackSound DEF EndState
  <2>9. Sound(ready)
    <3>1. ready \in EndState
      BY <2>4 DEF EndState
    <3> QED
      BY <2>4, <2>5, <3>1, UntouchedWindowSound DEF EndState
  <2> HIDE DEF final, busy, back, ready
  <2> QED
    BY <2>2, <2>6, <2>7, <2>8, <2>9
<1> QED
  BY <1>2, <1>3

LEMMA NumberedSound ==
  ASSUME NEW s, Sound(s), NEW f \in SFrame \cup IFrame
  PROVE  Sound(Numbered(s, f))
<1> DEFINE t == IF s.state = "Establishing" THEN Connect(s) ELSE s
<1>1. Sound(t)
  BY ConnectSound DEF Sound
<1>2. f.kind # "I" => f \in SFrame
  BY DEF SFrame, IFrame, SKinds
<1>3. f.kind = "I" => f \in IFrame
  BY DEF SFrame, IFrame, SKinds
<1> HIDE DEF t
<1>4. t.state = "Connected" /\ f.kind # "I" => Sound(SupervisoryIn(t, f))
  BY <1>1, <1>2, SupervisoryInSound
<1>5. t.state = "Connected" /\ f.kind = "I" => Sound(Information(t, f))
  BY <1>1, <1>3, InformationSound
<1> QED
  BY <1>1, <1>4, <1>5 DEF Numbered, t

\* Whatever the peer sends, the end that hears it stays sound.
LEMMA ReceiveSound ==
  ASSUME NEW s, Sound(s), NEW f \in Frame
  PROVE  Sound(Receive(s, f))
<1>1. CASE f.kind = "UNDEFINED"
  BY <1>1, ReleaseSound DEF Receive, Sound
<1>2. CASE f.kind \in SKinds \cup {"I"}
  <2>1. f \in SFrame \cup IFrame
    BY <1>2 DEF Frame, PlainFrame, XidFrame, UiFrame, SKinds, PlainKinds
  <2> QED
    BY <1>2, <2>1, NumberedSound DEF Receive, SKinds
<1>3. CASE f.kind # "UNDEFINED" /\ f.kind \notin SKinds \cup {"I"}
  <2>1. f.kind \in PlainKinds \cup {"XID", "UI"}
    BY <1>3 DEF Frame, PlainFrame, XidFrame, UiFrame, SFrame, IFrame
  <2> QED
    BY <1>3, <2>1, UnnumberedCommandSound, UnnumberedResponseSound DEF Receive
<1> QED
  BY <1>1, <1>2, <1>3

-----------------------------------------------------------------------------
(***************************************************************************)
(* Sending.                                                                *)
(***************************************************************************)

\* Cutting a frame from the queue adds one frame to the window, or none when
\* one sent before is due, and leaves V(S) pointing at a frame that is kept.
LEMMA CutProperties ==
  ASSUME NEW s, Sound(s), s.state = "Connected", CanResend(s) \/ CanSendNew(s)
  PROVE  LET t == Cut(s) IN
         /\ t \in EndState /\ ParametersOK(t)
         /\ t.state = "Connected" /\ t.recovery = FALSE
         /\ t.vs = s.vs /\ t.va = s.va
         /\ Len(t.sent) <= MaxK /\ InFlight(s) < Len(t.sent)
<1> DEFINE n == IF Len(s.queue) < s.n401 THEN Len(s.queue) ELSE s.n401
           cut == SubSeq(s.queue, 1, n)
           left == SubSeq(s.queue, n + 1, Len(s.queue))
           t == [s EXCEPT !.sent = Append(@, cut), !.queue = left]
<1>1. s \in EndState /\ ParametersOK(s) /\ ~s.recovery
  BY DEF Sound, CanResend, CanSendNew, EndState
<1>2. CASE CanResend(s)
  BY <1>1, <1>2 DEF Sound, WindowOK, CanResend, Cut, EndState
<1>3. CASE ~CanResend(s)
  <2>1. CanSendNew(s)
    BY <1>3
  <2>2. s.queue \in Seq(Data) /\ s.sent \in Seq(Seq(Data)) /\ s.n401 \in Nat
    BY <1>1 DEF EndState
  <2>3. n \in 0 .. Len(s.queue)
    BY <2>2
  <2>4. cut \in Seq(Data) /\ left \in Seq(Data)
    BY <2>2, <2>3, SubSeqProperties
  <2>5. Cut(s) = t
    BY <1>3 DEF Cut
  <2> HIDE DEF cut, left
  <2>6. Append(s.sent, cut) \in Seq(Seq(Data))
        /\ Len(Append(s.sent, cut)) = Len(s.sent) + 1
    BY <2>2, <2>4
  <2>7. t \in EndState
    BY <1>1, <2>4, <2>6 DEF EndState
  <2>8. t.sent = Append(s.sent, cut) /\ t.k = s.k /\ t.n401 = s.n401
        /\ t.state = s.state /\ t.recovery = s.recovery
        /\ t.vs = s.vs /\ t.va = s.va
    BY <1>1 DEF EndState
  <2> HIDE DEF t
  <2>9. Len(s.sent) + 1 <= MaxK /\ InFlight(s) < Len(s.sent) + 1
    <3>1. s.k <= MaxK /\ s.k \in Nat /\ Len(s.sent) < s.k /\ Len(s.sent) \in Nat
      BY <1>1, <2>1, <2>2, LapmAssumption DEF ParametersOK, CanSendNew
    <3>2. InFlight(s) <= Len(s.sent) /\ InFlight(s) \in Int
      BY <1>1, PastIsDistance DEF Sound, WindowOK, InFlight, EndState
    <3> QED
      BY <3>1, <3>2, LapmAssumption
  <2> QED
    BY <1>1, <2>5, <2>6, <2>7, <2>8, <2>9 DEF ParametersOK
<1> QED
  BY <1>2, <1>3

LEMMA AfterNextFrameSound ==
  ASSUME NEW s, Sound(s)
  PROVE  Sound(AfterNextFrame(s))
<1>1. s \in EndState /\ Sound(s)
  BY DEF Sound
<1>2. CASE Has(s) = "urgent"
  <2> DEFINE tail == Tail(s.urgent)
             timer == s.timer \/ Head(s.urgent).timed
             t == [s EXCEPT !.urgent = tail, !.timer = timer]
  <2>1. s.urgent # <<>> /\ s.urgent \in Seq(Urgent)
    BY <1>1, <1>2 DEF Has, EndState
  <2>2. tail \in Seq(Urgent) /\ Head(s.urgent) \in Urgent
    BY <2>1, HeadTailProperties
  <2>3. timer \in BOOLEAN
    BY <1>1, <2>2 DEF EndState, Urgent
  <2>4. AfterNextFrame(s) = t
    BY <1>2 DEF AfterNextFrame
  <2>5. s.timer => timer
    OBVIOUS
  <2> HIDE DEF tail, timer
  <2>6. t \in EndState
    BY <1>1, <2>2, <2>3 DEF EndState
  <2>7. t.k = s.k /\ t.n401 = s.n401 /\ t.state = s.state /\ t.sent = s.sent
        /\ t.vs = s.vs /\ t.va = s.va /\ t.recovery = s.recovery
        /\ t.timer = timer /\ t.owedPoll = s.owedPoll
    BY <1>1 DEF EndState
  <2> HIDE DEF t
  <2> QED
    BY <1>1, <2>4, <2>5, <2>6, <2>7, UntouchedWindowSound
<1>3. CASE Has(s) = "reject"
  <2> DEFINE t == [s EXCEPT !.owedReject = "none", !.owedAck = FALSE,
                            !.owedFinal = @ /\ s.owedReject # "final"]
  <2>1. AfterNextFrame(s) = t
    BY <1>3 DEF AfterNextFrame
  <2>2. t \in EndState
    BY <1>1 DEF EndState
  <2>3. t.k = s.k /\ t.n401 = s.n401 /\ t.state = s.state /\ t.sent = s.sent
        /\ t.vs = s.vs /\ t.va = s.va /\ t.recovery = s.recovery
        /\ t.timer = s.timer /\ t.owedPoll = s.owedPoll
    BY <1>1 DEF EndState
  <2> HIDE DEF t
  <2> QED
    BY <1>1, <2>1, <2>2, <2>3, UntouchedWindowSound
<1>4. CASE Has(s) = "final"
  <2> DEFINE t == [s EXCEPT !.owedFinal = FALSE, !.owedAck = FALSE]
  <2>1. AfterNextFrame(s) = t
    BY <1>4 DEF AfterNextFrame
  <2>2. t \in EndState
    BY <1>1 DEF EndState
  <2>3. t.k = s.k /\ t.n401 = s.n401 /\ t.state = s.state /\ t.sent = s.sent
        /\ t.vs = s.vs /\ t.va = s.va /\ t.recovery = s.recovery
        /\ t.timer = s.timer /\ t.owedPoll = s.owedPoll
    BY <1>1 DEF EndState
  <2> HIDE DEF t
  <2> QED
    BY <1>1, <2>1, <2>2, <2>3, UntouchedWindowSound
<1>5. CASE Has(s) = "poll"
  <2> DEFINE t == [s EXCEPT !.owedPoll = FALSE, !.owedAck = FALSE,
                            !.timer = TRUE]
  <2>1. AfterNextFrame(s) = t
    BY <1>5 DEF AfterNextFrame
  <2>2. t \in EndState
    BY <1>1 DEF EndState
  <2>3. t.k = s.k /\ t.n401 = s.n401 /\ t.state = s.state /\ t.sent = s.sent
        /\ t.vs = s.vs /\ t.va = s.va /\ t.timer
    BY <1>1 DEF EndState
  <2> HIDE DEF t
  <2> QED
    BY <1>1, <2>1, <2>2, <2>3
       DEF Sound, ParametersOK, WindowOK, TimerOK, InFlight
<1>6. CASE Has(s) = "data"
  <2> DEFINE c == Cut(s)
             t == [c EXCEPT !.vs = After(@), !.owedAck = FALSE, !.timer = TRUE]
  <2>1. s.state = "Connected" /\ (CanResend(s) \/ CanSendNew(s))
    BY <1>6 DEF Has
  <2>2. /\ c \in EndState /\ ParametersOK(c)
        /\ c.state = "Connected" /\ c.recovery = FALSE
        /\ c.vs = s.vs /\ c.va = s.va
        /\ Len(c.sent) <= MaxK /\ InFlight(s) < Len(c.sent)
    BY <2>1, CutProperties
  <2>3. AfterNextFrame(s) = t
    BY <1>6 DEF AfterNextFrame
  <2> HIDE DEF c
  <2>4. After(s.vs) \in Numbers
    BY <1>1, AfterIsNext DEF EndState
  <2>5. Past(After(s.vs), s.va) = InFlight(s) + 1
    <3>1. InFlight(s) \in 0 .. Modulus - 1 /\ Len(c.sent) \in Nat
      <4>1. s.vs \in Numbers /\ s.va \in Numbers
        BY <1>1 DEF EndState
      <4>2. c.sent \in Seq(Seq(Data))
        BY <2>2 DEF EndState
      <4> QED
        BY <4>1, <4>2, PastIsDistance DEF InFlight
    <3>2. InFlight(s) + 1 < Modulus
      BY <2>2, <3>1, LapmAssumption
    <3> QED
      BY <1>1, <3>2, PastIsDistance DEF InFlight, EndState
  <2>6. t \in EndState
    BY <2>2, <2>4 DEF EndState
  <2>7. t.k = c.k /\ t.n401 = c.n401 /\ t.state = "Connected"
        /\ t.sent = c.sent /\ t.vs = After(s.vs) /\ t.va = s.va /\ t.timer
    BY <2>2 DEF EndState
  <2>8. InFlight(t) <= Len(t.sent)
    <3>1. InFlight(s) \in 0 .. Modulus - 1 /\ Len(c.sent) \in Nat
      <4>1. s.vs \in Numbers /\ s.va \in Numbers
        BY <1>1 DEF EndState
      <4>2. c.sent \in Seq(Seq(Data))
        BY <2>2 DEF EndState
      <4> QED
        BY <4>1, <4>2, PastIsDistance DEF InFlight
    <3>2. InFlight(t) = InFlight(s) + 1
      BY <2>5, <2>7 DEF InFlight
    <3> QED
      BY <2>2, <2>7, <3>1, <3>2, LapmAssumption
  <2> HIDE DEF t
  <2> QED
    BY <2>2, <2>3, <2>6, <2>7, <2>8 DEF Sound, ParametersOK, WindowOK, TimerOK
<1>7. CASE Has(s) = "ack"
  <2> DEFINE t == [s EXCEPT !.owedAck = FALSE]
  <2>1. AfterNextFrame(s) = t
    BY <1>7 DEF AfterNextFrame
  <2>2. t \in EndState
    BY <1>1 DEF EndState
  <2>3. t.k = s.k /\ t.n401 = s.n401 /\ t.state = s.state /\ t.sent = s.sent
        /\ t.vs = s.vs /\ t.va = s.va /\ t.recovery = s.recovery
        /\ t.timer = s.timer /\ t.owedPoll = s.owedPoll
    BY <1>1 DEF EndState
  <2> HIDE DEF t
  <2> QED
    BY <1>1, <2>1, <2>2, <2>3, UntouchedWindowSound
<1>8. CASE Has(s) = "nothing"
  BY <1>1, <1>8 DEF AfterNextFrame
<1>9. Has(s) \in {"urgent", "reject", "final", "poll", "data", "ack", "nothing"}
  BY DEF Has
<1> QED
  BY <1>2, <1>3, <1>4, <1>5, <1>6, <1>7, <1>8, <1>9

LEMMA SendDataSound ==
  ASSUME NEW s, Sound(s), NEW d \in Data
  PROVE  Sound(SendData(s, d))
<1> DEFINE t == [s EXCEPT !.queue = Append(@, d)]
<1>1. s \in EndState /\ Sound(s)
  BY DEF Sound
<1>2. Append(s.queue, d) \in Seq(Data)
  BY <1>1 DEF EndState
<1>3. t \in EndState
  BY <1>1, <1>2 DEF EndState
<1>4. t.k = s.k /\ t.n401 = s.n401 /\ t.state = s.state /\ t.sent = s.sent
      /\ t.vs = s.vs /\ t.va = s.va /\ t.recovery = s.recovery
      /\ t.timer = s.timer /\ t.owedPoll = s.owedPoll
  BY <1>1 DEF EndState
<1>5. SendData(s, d) \in {s, t}
  BY DEF SendData
<1> HIDE DEF t
<1> QED
  BY <1>1, <1>3, <1>4, <1>5, UntouchedWindowSound

=============================================================================
