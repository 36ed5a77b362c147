-------------------------------- MODULE V34 --------------------------------
(***************************************************************************)
(* The V.34 pump from phase 2 to data mode, softmodem-dsp/src/v34/pump.rs: *)
(* training, rate renegotiation, retrain and cleardown.  What the          *)
(* equaliser, the coders and the rate tables do is told by one number:     *)
(* the rate that the line from the far end can bear.                       *)
(***************************************************************************)
EXTENDS Phase2

CONSTANTS  \* those of the code of these names, in ticks
  TrainSilence,   \* SILENCE_MS
  STicks, PpTicks, TrnTicks, TrnLeast, TrnHeard, B1Ticks,
  AckedLeast,     \* MP_PRIME_MS
  RetrainTone, ETimeout,
  TopRate         \* the rates are 1 .. TopRate, and 0 to clear down

ASSUME V34Assumption ==
  {TrainSilence, STicks, PpTicks, TrnTicks, TrnLeast, TrnHeard, B1Ticks,
   AckedLeast, RetrainTone, ETimeout, TopRate} \subseteq Nat \ {0}

Burst(is, ticks) == [i \in 1 .. ticks |-> Steady(is)]
SThenSBar == Burst("S", STicks) \o <<Steady("SBar")>>
Phase3Start == SThenSBar \o Burst("PP", PpTicks)

\* Mp, as far as it is told apart.
Mp(ack, c2a, a2c) == [is |-> "Mp", ack |-> ack, c2a |-> c2a, a2c |-> a2c]
NoMp == [Mp(FALSE, 0, 0) EXCEPT !.is = "None"]
MpSound(mp) == Sound("MP", 1, 1, mp)
DataSound(rate, flags) == Sound("Data", 1, 1, [rate |-> rate, flags |-> flags])

\* Far: what the receive side has heard that the transmit side acts on.
NothingHeard ==
  [sBar |-> 0, j |-> FALSE, trn |-> FALSE, trained |-> 0, mp |-> NoMp,
   ack |-> FALSE, renegotiations |-> 0]

\* Source::new.
NewSource(role) ==
  [send |-> IF role = "Answer" THEN "Trn" ELSE "Wait",
   queue |-> IF role = "Answer" THEN Burst("Quiet", TrainSilence) \o Phase3Start
             ELSE <<>>,
   phase |-> 3, sent |-> 0, acked |-> 0, encoder |-> FALSE, b1 |-> 0,
   b1Sent |-> FALSE, renegotiations |-> 0, clearing |-> FALSE]

\* Sink::new.
NewSink ==
  [listen |-> "S", phase |-> 3, left |-> 0, heardS |-> FALSE, lastJ |-> FALSE,
   trnHeard |-> 0, clean |-> TRUE, decoder |-> FALSE, skip |-> 0]

SendStates == {"Wait", "Trn", "J", "Mp", "Data", "Cleared"}
ListenStates == {"S", "Train", "Sequences", "Trn", "Data", "Hold"}

\* V34::new; bears is the rate that the line to this end can bear.
NewV34(role, bears) ==
  [kind |-> "V34", role |-> role, bears |-> bears,
   phase2 |-> NewPhase2(role, "V34"), inV90 |-> FALSE, retrainAsked |-> FALSE,
   training |-> FALSE, source |-> NewSource(role), sink |-> NewSink,
   far |-> NothingHeard, rate |-> 0, txRate |-> 0, online |-> FALSE,
   toneHeard |-> 0, eWaited |-> 0, misheard |-> FALSE]

\* V34::start_training.
StartTraining(v) ==
  [v EXCEPT !.training = TRUE, !.source = NewSource(v.role), !.sink = NewSink]

\* V34::after_v90: phase 2 was that of V.90.
AfterV90(role, bears, phase2) ==
  StartTraining([NewV34(role, bears) EXCEPT !.inV90 = TRUE, !.phase2 = phase2])

Connected34(v) ==
  v.training /\ v.source.b1Sent /\ v.sink.decoder /\ v.sink.skip = 0 /\ v.sink.listen = "Data"

Cleared34(v) == v.training /\ v.source.send = "Cleared"

-----------------------------------------------------------------------------
(***************************************************************************)
(* Source.                                                                 *)
(***************************************************************************)
\* Source::own_mp: asks of the far end what its TRN was heard well enough for.
OwnMp(v) ==
  LET asked == IF v.far.trained = 0 THEN v.bears ELSE v.far.trained
  IN  IF v.role = "Originate" THEN Mp(FALSE, TopRate, asked) ELSE Mp(FALSE, asked, TopRate)

FarClears(v) == v.far.mp.is = "Mp" /\ v.far.mp.c2a = 0 /\ v.far.mp.a2c = 0

Sending(v, send, sounds) ==
  [v EXCEPT !.source.send = send, !.source.queue = @ \o sounds, !.source.sent = 0]

\* Source::renegotiate.
RestartSource(v) ==
  [Sending(v, "Trn", SThenSBar) EXCEPT
     !.source.acked = 0, !.source.encoder = FALSE, !.source.b1Sent = FALSE]

AckedLong(acked) == acked >= AckedLeast

\* Source::mp: MP, then MP′, then E and data or the end of the call.
SendMp(v) ==
  LET over == v.source.clearing \/ FarClears(v)
      heard == v.far.mp.is = "Mp"
      ours == IF v.source.clearing THEN Mp(heard, 0, 0) ELSE [OwnMp(v) EXCEPT !.ack = heard]
  IN  CASE AckedLong(v.source.acked) /\ v.far.ack /\ over ->
             Sending(v, "Cleared", <<Quiet>>)
        [] AckedLong(v.source.acked) /\ v.far.ack /\ ~over ->
             Sending(v, "Data", <<Steady("E")>>)
        [] OTHER ->
             [v EXCEPT !.source.queue = Append(@, MpSound(ours)),
                       !.source.acked = IF heard /\ @ < AckedLeast THEN @ + 1 ELSE @]

\* Source::j: J until the far S̄ that ends it.
SendJ(v) ==
  CASE v.role = "Answer" /\ v.far.sBar >= 1 -> Sending(v, "Wait", <<Quiet>>)
    [] v.role = "Originate" /\ v.far.sBar >= 2 ->
         [Sending(v, "Trn", <<Steady("JPrime")>>) EXCEPT !.source.phase = 4]
    [] OTHER -> [v EXCEPT !.source.queue = Append(@, Steady("J"))]

\* Source::trn.
SendTrn(v) ==
  LET enough == IF v.source.phase = 3 THEN v.source.sent >= TrnTicks
                ELSE v.source.sent >= TrnLeast /\ v.far.trn
      sent == [v EXCEPT !.source.queue = Append(@, Steady("TRN")),
                        !.source.sent = IF @ < TrnTicks THEN @ + 1 ELSE @]
  IN  CASE enough /\ v.source.phase = 3 -> SendJ([v EXCEPT !.source.send = "J"])
        [] enough /\ v.source.phase = 4 -> SendMp([v EXCEPT !.source.send = "Mp"])
        [] ~enough -> sent

\* Source::wait.
SendWait(v) ==
  CASE v.source.phase # 3 \/ ~v.far.j -> [v EXCEPT !.source.queue = Append(@, Quiet)]
    [] v.source.phase = 3 /\ v.far.j /\ v.role = "Originate" ->
         Sending(v, "Trn", Phase3Start)
    [] v.source.phase = 3 /\ v.far.j /\ v.role = "Answer" ->
         [Sending(v, "Trn", SThenSBar) EXCEPT !.source.phase = 4]

\* Source::data; flags says whether the link has bits to send.
SendData(v, flags) ==
  CASE ~v.source.encoder -> [v EXCEPT !.source.queue = Append(@, Quiet)]
    [] v.source.encoder /\ v.source.b1 > 0 ->
         [v EXCEPT !.source.queue = Append(@, Steady("B1")), !.source.b1 = @ - 1,
                   !.source.b1Sent = @ \/ v.source.b1 = 1]
    [] v.source.encoder /\ v.source.b1 = 0 ->
         [v EXCEPT !.source.queue = Append(@, DataSound(v.txRate, flags))]

\* A renegotiation the far end started is answered; an initiating end has begun.
Answered(v) ==
  LET seen == [v EXCEPT !.source.renegotiations = v.far.renegotiations]
  IN  IF v.far.renegotiations # v.source.renegotiations /\ v.source.send = "Data"
      THEN RestartSource(seen) ELSE seen

\* Source::refill.
Refill(v, flags) ==
  LET a == Answered(v)
  IN  CASE a.source.send = "Wait" -> SendWait(a)
        [] a.source.send = "Trn" -> SendTrn(a)
        [] a.source.send = "J" -> SendJ(a)
        [] a.source.send = "Mp" -> SendMp(a)
        [] a.source.send = "Data" -> SendData(a, flags)
        [] a.source.send = "Cleared" -> [a EXCEPT !.source.queue = <<Quiet>>]

\* Source::next: the queue, refilled.
Filled(v, flags) == IF v.source.queue = <<>> THEN Refill(v, flags) ELSE v

\* V34::transmit.
Ready34(v, flags) == IF v.training THEN Filled(v, flags) ELSE v
Says34(v) == IF v.training THEN Head(v.source.queue) ELSE Phase2Says(v.phase2)
Sent34(v) ==
  IF v.training THEN [v EXCEPT !.source.queue = Tail(@)]
  ELSE [v EXCEPT !.phase2 = Phase2Sent(@)]

-----------------------------------------------------------------------------
(***************************************************************************)
(* Sink.                                                                   *)
(***************************************************************************)

\* What MP and TRN said is forgotten, for the next to come.
ForgetMp(v) ==
  [v EXCEPT !.far.trn = FALSE, !.far.trained = 0, !.far.mp = NoMp, !.far.ack = FALSE]

\* Sink::renegotiate, after the far S̄ in data mode.
RestartSink(v) ==
  [ForgetMp(v) EXCEPT
     !.sink.listen = "Trn", !.sink.trnHeard = 0, !.sink.clean = TRUE,
     !.sink.decoder = FALSE, !.far.renegotiations = @ + 1]

ListenTo(v, listen) ==
  [v EXCEPT !.sink.listen = listen, !.sink.trnHeard = 0, !.sink.clean = TRUE]

\* S and the S̄ after it (SDetector).
HearS(v, s) ==
  LET k == v.sink
      sBar == s.is = "SBar" /\ k.heardS
      heard == [v EXCEPT !.sink.heardS = s.is = "S"]
  IN  CASE sBar /\ k.listen = "S" ->
             [ListenTo(heard, "Train") EXCEPT !.sink.left = PpTicks + TrnLeast,
                                              !.far.sBar = 1]
        [] sBar /\ k.listen = "Sequences" /\ k.phase = 4 /\ v.far.sBar = 1 ->
             [ListenTo(heard, "Trn") EXCEPT !.far.sBar = 2]
        [] s.is = "S" /\ k.listen = "Data" -> ListenTo(heard, "Hold")
        [] sBar /\ k.listen \in {"Data", "Hold"} -> RestartSink(heard)
        [] OTHER -> heard

HearMp(v, s) ==
  IF s.is # "MP" THEN v
  ELSE [v EXCEPT !.far.ack = @ \/ s.what.ack, !.far.mp = s.what]

\* Sink::train: PP and TRN are known, so they take their time whatever comes.
HearTrain(v) ==
  IF v.sink.left > 1 THEN [v EXCEPT !.sink.left = @ - 1]
  ELSE [v EXCEPT !.sink.left = 0, !.sink.listen = "Sequences"]

\* Sink::trn: TRN tells what rate the line bears, less if it was disturbed.
HearTrn(v, s) ==
  LET m == HearMp([v EXCEPT !.sink.trnHeard = @ + 1,
                            !.sink.clean = @ /\ s.is \in {"TRN", "MP", "JPrime"}], s)
      bears == IF m.sink.clean \/ v.bears = 1 THEN v.bears ELSE v.bears - 1
  IN  IF m.sink.trnHeard < TrnHeard /\ m.far.mp.is = "None" THEN m
      ELSE [m EXCEPT !.far.trn = TRUE, !.far.trained = bears,
                     !.sink.listen = "Sequences"]

\* Sink::j and Sink::mp_bit.
HearSequences(v, s) ==
  LET m == HearMp(v, s)
  IN  CASE s.is = "J" /\ v.sink.phase = 3 -> [m EXCEPT !.far.j = TRUE, !.sink.phase = 4]
        [] s.is = "JPrime" /\ v.sink.phase = 4 /\ v.role = "Answer" /\ ~v.far.trn
             /\ v.sink.lastJ -> ListenTo(m, "Trn")
        [] s.is = "E" /\ m.far.mp.is = "Mp" ->
             [m EXCEPT !.far.ack = TRUE, !.sink.listen = "Data"]
        [] OTHER -> m

\* Sink::data: B1 is skipped, and then bits go to the link.
HearData(v, s) ==
  CASE v.sink.decoder /\ v.sink.skip > 0 -> [v EXCEPT !.sink.skip = @ - 1]
    [] v.sink.decoder /\ v.sink.skip = 0 /\ s.is = "Data" ->
         [v EXCEPT !.misheard = @ \/ s.what.rate # v.rate]
    [] OTHER -> v

\* Sink::take: what S̄ begins, it begins after its own tick.
Take(v, s) ==
  LET h == HearS(v, s)
      listen == v.sink.listen
      took == CASE h.sink.listen # listen -> h
                [] h.sink.listen = listen /\ listen = "Train" -> HearTrain(h)
                [] h.sink.listen = listen /\ listen = "Trn" -> HearTrn(h, s)
                [] h.sink.listen = listen /\ listen = "Sequences" -> HearSequences(h, s)
                [] h.sink.listen = listen /\ listen = "Data" -> HearData(h, s)
                [] OTHER -> h
  IN  [took EXCEPT !.sink.lastJ = s.is = "J"]

-----------------------------------------------------------------------------
(***************************************************************************)
(* V34: rates, retrains and what the modem asks for.                       *)
(***************************************************************************)
LesserOf(a, b) == IF a <= b THEN a ELSE b

\* V34::agree: once the far MP has come, both ends know the rates.
AgreeOn(v, c2a, a2c) ==
  IF v.far.mp.is = "None" \/ v.source.encoder \/ c2a = 0 \/ a2c = 0 THEN v
  ELSE [v EXCEPT !.source.encoder = TRUE, !.source.b1 = B1Ticks,
                 !.sink.decoder = TRUE, !.sink.skip = B1Ticks,
                 !.rate = IF v.role = "Originate" THEN a2c ELSE c2a,
                 !.txRate = IF v.role = "Originate" THEN c2a ELSE a2c]

Agree(v) ==
  LET ours == OwnMp(v)
  IN  AgreeOn(v, LesserOf(ours.c2a, v.far.mp.c2a), LesserOf(ours.a2c, v.far.mp.a2c))

\* V34::restart: phase 2 again from the tones, or that of V.90 once it is asked.
Restart34(v) ==
  CASE ~v.training -> v
    [] v.training /\ v.inV90 -> [v EXCEPT !.retrainAsked = TRUE]
    [] v.training /\ ~v.inV90 ->
         [NewV34(v.role, v.bears) EXCEPT
            !.phase2 = Retraining(v.role, "V34"), !.rate = v.rate,
            !.txRate = v.txRate, !.online = v.online, !.misheard = v.misheard]

InPhase4(v) == v.training /\ v.source.phase = 4

\* V34::far_retrains: the far tone, for long enough.
ToneHeard(v, s) ==
  IF ~InPhase4(v) \/ s.is # FarTone(v.role) THEN 0
  ELSE IF v.toneHeard > RetrainTone THEN v.toneHeard ELSE v.toneHeard + 1

\* V34::e_overdue: E must come within a time of phase 4, until the first has.
EWaited(v) ==
  CASE v.sink.listen = "Data" \/ v.eWaited = Never -> Never
    [] v.sink.listen # "Data" /\ v.eWaited # Never /\ v.source.phase = 4 -> v.eWaited + 1
    [] OTHER -> v.eWaited

EOverdue(v) ==
  /\ v.eWaited # Never
  /\ v.eWaited > ETimeout + (IF v.role = "Originate" THEN 2 ELSE 3) * v.phase2.roundTrip

\* V34::receive.
AfterPhase2(v) ==
  IF Phase2Done(v.phase2) /\ v.phase2.outcome = "V34" THEN StartTraining(v) ELSE v

Online34(v) == [v EXCEPT !.online = @ \/ Connected34(v)]

HearTraining(v, s) ==
  IF v.toneHeard > RetrainTone \/ EOverdue(v) THEN Restart34(v)
  ELSE Online34(Agree(Take(v, s)))

Hears34(v, s) ==
  IF v.training
  THEN HearTraining([v EXCEPT !.toneHeard = ToneHeard(v, s), !.eWaited = EWaited(v)], s)
  ELSE AfterPhase2([v EXCEPT !.phase2 = Phase2Hears(@, s)])

\* V34::renegotiate, and Monitor::watch that asks for it.
Renegotiate34(v) ==
  IF ~v.training \/ v.source.send # "Data" THEN v ELSE ForgetMp(RestartSource(v))

\* V34::retrain, and Monitor::watch that asks for it.
Retrain34(v) == IF Connected34(v) THEN Restart34(v) ELSE v

\* V34::clear_down: a renegotiation that asks for 0 bit/s, with no TRN.
ClearDown34(v) ==
  IF ~v.training \/ v.source.send # "Data" THEN v
  ELSE ForgetMp([RestartSource(v) EXCEPT !.source.clearing = TRUE, !.source.send = "Mp"])

=============================================================================
