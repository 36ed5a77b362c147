-------------------------------- MODULE V90 --------------------------------
(***************************************************************************)
(* V.90 from phase 2 to data mode, softmodem-dsp/src/v90: the digital      *)
(* modem, which sends PCM down, the analogue modem, which sends V.34 up,   *)
(* and V.34 both ways where phase 2 settles on it (fallback.rs).  A rate   *)
(* tells the constellations of a CP, and what each path can bear.          *)
(***************************************************************************)
EXTENDS V34

CONSTANTS  \* those of the code of these names, in ticks
  SdTicks, Trn1Ticks, DilTicks, RiTicks, Trn2Ticks, RdTicks, B1dTicks,
  CpAckTicks, RiMargin, SdMost, EdMost

ASSUME V90Assumption ==
  {SdTicks, Trn1Ticks, DilTicks, RiTicks, Trn2Ticks, RdTicks, B1dTicks,
   CpAckTicks, RiMargin, SdMost, EdMost} \subseteq Nat \ {0}

Cp(ack, rate) == [is |-> "Cp", ack |-> ack, rate |-> rate]
NoCp == [Cp(FALSE, 0) EXCEPT !.is = "None"]
CpSound(cp) == Sound("CP", 1, 1, cp)

DigitalSends == {"Quiet", "Jd", "Dil", "Ri", "Training", "Ed", "Data", "Cleared"}
DigitalListens == {"S", "Train", "Sequences", "Data", "Hold"}
AnalogueSends == {"Ja", "Quiet", "S", "Dil", "Cpt", "Cp", "Data", "Cleared"}
AnalogueStages == {"Sd", "Trn", "Jd", "Dil", "Ri", "Training", "Data"}

-----------------------------------------------------------------------------
(***************************************************************************)
(* The digital modem, which is the call modem of phase 2.                  *)
(***************************************************************************)
\* Digital::new, with the fields of Downstream and of Upstream as they begin;
\* bears is the rate that the line up to it can bear.
NewDigital(bears) ==
  [kind |-> "Digital", role |-> "Originate", bears |-> bears,
   phase2 |-> NewPhase2("Originate", "Digital"), started |-> FALSE,
   online |-> FALSE, toneHeard |-> 0, misheard |-> FALSE,
   \* Downstream
   send |-> "Quiet", queue |-> <<>>, sent |-> 0, acks |-> 0, b1 |-> 0,
   b1Sent |-> FALSE, rate |-> 0, renegotiations |-> 0, renegotiate |-> FALSE,
   clearing |-> FALSE,
   \* Upstream
   listen |-> "S", left |-> 0, heardS |-> FALSE, ja |-> FALSE, s |-> FALSE,
   sBars |-> 0, cpt |-> FALSE, cp |-> NoCp, cpAck |-> FALSE, farStarts |-> 0,
   upRate |-> 0, skip |-> 0]

\* Digital::restart, and retrain_from_v34: phase 2 again from the tones.
RestartDigital(d) ==
  [NewDigital(d.bears) EXCEPT
     !.phase2 = Retraining("Originate", d.phase2.mode), !.online = d.online,
     !.misheard = d.misheard]

OnLine(p, sounds) == [p EXCEPT !.queue = @ \o sounds]

\* Send::Ri: Ri until CPt, then R̄i and TRN2d.
SendRi(d) ==
  IF d.cpt /\ d.sent >= RiTicks
  THEN [OnLine(d, <<Steady("RiBar")>> \o Burst("TRN2", Trn2Ticks)) EXCEPT
          !.send = "Training"]
  ELSE [OnLine(d, <<Steady("Ri")>>) EXCEPT
          !.send = "Ri", !.sent = IF @ < RiTicks THEN @ + 1 ELSE @]

\* Downstream::start_renegotiation.
StartRd(d) ==
  [OnLine(d, Burst("Rd", RdTicks) \o <<Steady("RdBar")>>) EXCEPT
     !.renegotiate = FALSE, !.acks = 0, !.b1Sent = FALSE, !.send = "Training"]

\* Downstream::training: MP until CP, MP′ until CP′ or E, then Ed.  The silence
\* that an analogue modem may ask for with CPs is left out, as this program's
\* analogue end never asks for it.
SendMpDown(d) ==
  IF d.acks > 0 /\ d.cpAck THEN [OnLine(d, <<Steady("Ed")>>) EXCEPT !.send = "Ed"]
  ELSE [OnLine(d, <<MpSound(Mp(d.cp.is = "Cp", TopRate,
                               IF d.clearing THEN 0 ELSE d.bears))>>) EXCEPT
          !.acks = IF d.cp.is = "Cp" THEN 1 ELSE @]

\* Downstream::start_data.
StartDown(d) ==
  LET over == d.clearing \/ (d.cp.is = "Cp" /\ d.cp.rate = 0)
  IN  CASE over -> [OnLine(d, <<Quiet>>) EXCEPT !.send = "Cleared"]
        [] ~over /\ d.cp.is = "None" -> OnLine(d, <<Steady("Zeros")>>)
        [] ~over /\ d.cp.is = "Cp" ->
             [OnLine(d, <<Steady("B1d")>>) EXCEPT
                !.rate = d.cp.rate, !.b1 = B1dTicks - 1, !.send = "Data"]

SendDown(d, flags) ==
  CASE d.renegotiate -> StartRd(d)
    [] ~d.renegotiate /\ d.b1 > 0 ->
         [OnLine(d, <<Steady("B1d")>>) EXCEPT !.b1 = @ - 1]
    [] ~d.renegotiate /\ d.b1 = 0 ->
         [OnLine(d, <<DataSound(d.rate, flags)>>) EXCEPT !.b1Sent = TRUE]

\* Downstream::refill.
RefillDigital(d, flags) ==
  LET asked == d.farStarts # d.renegotiations
      a == [d EXCEPT !.renegotiations = d.farStarts,
                     !.renegotiate = @ \/ (asked /\ d.send = "Data")]
  IN  CASE a.send = "Quiet" /\ ~a.ja -> OnLine(a, <<Quiet>>)
        [] a.send = "Quiet" /\ a.ja ->
             [OnLine(a, Burst("Sd", SdTicks) \o <<Steady("SdBar")>>
                        \o Burst("TRN1", Trn1Ticks)) EXCEPT !.send = "Jd"]
        [] a.send = "Jd" /\ a.s -> [OnLine(a, <<Steady("JdPrime")>>) EXCEPT !.send = "Dil"]
        [] a.send = "Jd" /\ ~a.s -> OnLine(a, <<Steady("Jd")>>)
        [] a.send = "Dil" /\ a.sBars < 2 -> OnLine(a, <<Steady("DIL")>>)
        [] a.send = "Ri" \/ (a.send = "Dil" /\ a.sBars >= 2) -> SendRi(a)
        [] a.send = "Training" -> SendMpDown(a)
        [] a.send = "Ed" -> StartDown(a)
        [] a.send = "Data" -> SendDown(a, flags)
        [] a.send = "Cleared" -> OnLine(a, <<Quiet>>)

\* Mutant: the CP of data mode is kept through a renegotiation.
KeepCp(d) == [d EXCEPT !.upRate = 0]

\* Upstream::expect_renegotiation.
ForgetCp(d) == [d EXCEPT !.cp = NoCp, !.cpAck = FALSE, !.upRate = 0]

\* Upstream::sequences: Ja, then CPt, CP and E.
HearUpSequences(d, s) ==
  CASE s.is = "Ja" /\ ~d.ja -> [d EXCEPT !.ja = TRUE]
    [] d.ja /\ s.is = "CPt" -> [d EXCEPT !.cpt = TRUE]
    [] d.ja /\ s.is = "CP" -> [d EXCEPT !.cp = s.what, !.cpAck = @ \/ s.what.ack]
    [] d.ja /\ s.is = "E" /\ d.cp.is = "Cp" -> [d EXCEPT !.cpAck = TRUE, !.listen = "Data"]
    [] OTHER -> d

HearUpData(d, s) ==
  CASE d.upRate # 0 /\ d.skip > 0 -> [d EXCEPT !.skip = @ - 1]
    [] d.upRate # 0 /\ d.skip = 0 /\ s.is = "Data" ->
         [d EXCEPT !.misheard = @ \/ s.what.rate # d.upRate]
    [] OTHER -> d

\* Upstream::take.
TakeUp(d, s) ==
  LET sBar == s.is = "SBar" /\ d.heardS
      h == [d EXCEPT !.heardS = s.is = "S"]
  IN  CASE sBar /\ d.listen = "S" ->
             [h EXCEPT !.listen = "Train", !.left = PpTicks + TrnLeast]
        [] d.listen = "Train" ->
             [h EXCEPT !.left = @ - 1, !.listen = IF d.left = 1 THEN "Sequences" ELSE @]
        [] d.listen = "Sequences" /\ d.ja /\ s.is = "S" -> [h EXCEPT !.s = TRUE]
        [] d.listen = "Sequences" /\ d.ja /\ sBar ->
             [h EXCEPT !.sBars = IF @ < 2 THEN @ + 1 ELSE @]
        [] d.listen = "Data" /\ s.is = "S" -> [h EXCEPT !.listen = "Hold"]
        [] d.listen \in {"Data", "Hold"} /\ sBar ->
             [ForgetCp(h) EXCEPT !.listen = "Sequences", !.farStarts = @ + 1]
        [] d.listen = "Sequences" /\ ~(d.ja /\ (s.is = "S" \/ sBar)) ->
             HearUpSequences(h, s)
        [] d.listen = "Data" /\ s.is # "S" /\ ~sBar -> HearUpData(h, s)
        [] OTHER -> h

\* Digital::agree_upstream: CP has come, and so the rate up is known.
AgreeUp(d) ==
  IF d.cp.is = "None" \/ d.upRate # 0 THEN d
  ELSE [d EXCEPT !.upRate = d.bears, !.skip = B1Ticks]

ConnectedDigital(d) ==
  d.started /\ d.b1Sent /\ d.upRate # 0 /\ d.skip = 0 /\ d.listen = "Data"

\* far_retrains of both ends, from phase 3 on.
LongTone(p, s) ==
  IF ~p.started \/ s.is # FarTone(p.role) THEN 0
  ELSE IF p.toneHeard > RetrainTone THEN p.toneHeard ELSE p.toneHeard + 1

\* Digital::receive, and Fallback::receive.
\* Before phase 3: V.34 instead, once phase 2 has come to it.
PastPhase2(p) ==
  IF SettledOnV34(p.phase2)
  THEN [AfterV90(p.role, p.bears, p.phase2) EXCEPT
          !.online = p.online, !.misheard = p.misheard]
  ELSE [p EXCEPT !.started = Phase2Done(p.phase2)]

OnlineDigital(d) == [d EXCEPT !.online = @ \/ ConnectedDigital(d)]

HearUp(d, s) ==
  IF d.toneHeard > RetrainTone THEN RestartDigital(d)
  ELSE OnlineDigital(AgreeUp(TakeUp(d, s)))

HearsDigital(d, s) ==
  IF d.started THEN HearUp([d EXCEPT !.toneHeard = LongTone(d, s)], s)
  ELSE PastPhase2([d EXCEPT !.phase2 = Phase2Hears(@, s)])

\* Digital::start_renegotiation.
RenegotiateDigital(d, clearing) ==
  IF ~d.started \/ d.send # "Data" THEN d
  ELSE ForgetCp([d EXCEPT !.renegotiate = TRUE, !.clearing = clearing, !.b1Sent = FALSE])

-----------------------------------------------------------------------------
(***************************************************************************)
(* The analogue modem, which is the answer modem of phase 2.               *)
(***************************************************************************)
Phase3Up ==
  Burst("Quiet", TrainSilence) \o SThenSBar \o Burst("PP", PpTicks)
  \o Burst("TRN", TrnTicks)

\* Analogue::new, with the fields of Upstream and of Downstream as they begin;
\* bears is the rate that the path down to it can bear.
NewAnalogue(mode, bears) ==
  [kind |-> "Analogue", role |-> "Answer", bears |-> bears,
   phase2 |-> NewPhase2("Answer", mode), started |-> FALSE,
   online |-> FALSE, toneHeard |-> 0, misheard |-> FALSE,
   \* Upstream
   send |-> "Ja", queue |-> Phase3Up, inSend |-> 0, cptSent |-> 0,
   cpRate |-> 0, acked |-> 0, encoder |-> FALSE, txRate |-> 0, b1 |-> 0,
   b1Sent |-> FALSE, renegotiations |-> 0, renegotiate |-> FALSE,
   clearing |-> FALSE,
   \* Downstream
   stage |-> "Sd", heardSd |-> FALSE, left |-> 0, sd |-> FALSE, jd |-> FALSE,
   lastJd |-> FALSE, jdPrime |-> FALSE, levels |-> FALSE, ri |-> FALSE,
   rBar |-> FALSE, mp |-> NoMp, mpAck |-> FALSE, ed |-> FALSE, heardRd |-> FALSE,
   farStarts |-> 0, rate |-> 0, skip |-> 0]

\* Analogue::restart.
RestartAnalogue(a) ==
  [NewAnalogue(a.phase2.mode, a.bears) EXCEPT
     !.phase2 = Retraining("Answer", a.phase2.mode), !.online = a.online,
     !.misheard = a.misheard]

\* Upstream::end_dil: S and S̄, again until Ri comes.
EndDil(a) == [OnLine(a, SThenSBar) EXCEPT !.send = "Cpt", !.cptSent = 0]

RiOverdue(a) == a.cptSent >= RiMargin + a.phase2.roundTrip

\* Upstream::cp: CP until MP, CP′ until MP′ or Ed, then E.
SendCp(a) ==
  LET enough == a.acked >= CpAckTicks
      over == a.clearing \/ (a.mp.is = "Mp" /\ a.mp.a2c = 0)
      e == OnLine(a, <<Steady("E")>>)
      ack == a.mp.is = "Mp"
      told == a.acked > 0 /\ a.mpAck /\ (a.ed \/ enough)
  IN  CASE told /\ over -> [e EXCEPT !.send = "Cleared"]
        [] told /\ ~over ->
             [e EXCEPT !.send = "Data", !.encoder = TRUE, !.txRate = a.mp.a2c,
                       !.b1 = B1Ticks]
        [] ~told ->
             [OnLine(a, <<CpSound(Cp(ack, IF a.clearing THEN 0 ELSE a.cpRate))>>)
                EXCEPT !.send = "Cp",
                       !.acked = IF ack /\ @ < CpAckTicks THEN @ + 1 ELSE @]

\* Upstream::start_renegotiation.
StartS(a) ==
  [OnLine(a, SThenSBar) EXCEPT
     !.renegotiate = FALSE, !.acked = 0, !.b1Sent = FALSE, !.send = "Cp"]

\* Upstream::data.
SendUp(a, flags) ==
  CASE a.renegotiate -> StartS(a)
    [] ~a.renegotiate /\ ~a.encoder -> OnLine(a, <<Quiet>>)
    [] ~a.renegotiate /\ a.encoder /\ a.b1 > 0 ->
         [OnLine(a, <<Steady("B1")>>) EXCEPT !.b1 = @ - 1, !.b1Sent = @ \/ a.b1 = 1]
    [] ~a.renegotiate /\ a.encoder /\ a.b1 = 0 ->
         OnLine(a, <<DataSound(a.txRate, flags)>>)

SendS(a) ==
  IF a.jdPrime THEN [OnLine(a, <<Steady("SBar")>>) EXCEPT !.send = "Dil"]
  ELSE [OnLine(a, <<Steady("S")>>) EXCEPT !.send = "S"]

SendQuiet(a) ==
  IF a.jd THEN SendS(a) ELSE [OnLine(a, <<Quiet>>) EXCEPT !.send = "Quiet"]

\* Upstream::refill.
RefillAnalogue(v, flags) ==
  LET asked == v.farStarts # v.renegotiations
      a == [v EXCEPT !.renegotiations = v.farStarts,
                     !.renegotiate = @ \/ (asked /\ v.send = "Data")]
  IN  CASE a.send = "Ja" /\ ~a.sd -> OnLine(a, <<Steady("Ja")>>)
        [] a.send = "Quiet" \/ (a.send = "Ja" /\ a.sd) -> SendQuiet(a)
        [] a.send = "S" -> SendS(a)
        [] a.send = "Dil" /\ ~a.levels -> OnLine(a, <<Steady("SCR")>>)
        [] a.send = "Dil" /\ a.levels -> EndDil([a EXCEPT !.cpRate = a.bears])
        [] a.send = "Cpt" /\ ~a.rBar /\ ~a.ri /\ RiOverdue(a) -> EndDil(a)
        [] a.send = "Cpt" /\ ~a.rBar /\ (a.ri \/ ~RiOverdue(a)) ->
             [OnLine(a, <<Steady("CPt")>>) EXCEPT !.cptSent = @ + 1]
        [] a.send = "Cp" \/ (a.send = "Cpt" /\ a.rBar) -> SendCp(a)
        [] a.send = "Data" -> SendUp(a, flags)
        [] a.send = "Cleared" -> OnLine(a, <<Quiet>>)

\* Downstream::expect_renegotiation.
ForgetMpDown(a) == [a EXCEPT !.mp = NoMp, !.mpAck = FALSE, !.ed = FALSE]

\* Downstream::symbol in training: MP, and Ed that ends it.
HearMpDown(a, s) ==
  CASE s.is = "MP" -> [a EXCEPT !.mp = s.what, !.mpAck = @ \/ s.what.ack]
    [] s.is = "Ed" /\ a.mp.is = "Mp" ->
         [a EXCEPT !.mpAck = TRUE, !.ed = TRUE, !.stage = "Data", !.rate = a.cpRate,
                   !.skip = B1dTicks]
    [] OTHER -> a

\* Downstream::symbol in data mode: B1d, and then bits for the link.
HearDownData(a, s) ==
  CASE a.skip > 0 -> [a EXCEPT !.skip = @ - 1]
    [] a.skip = 0 /\ s.is = "Data" -> [a EXCEPT !.misheard = @ \/ s.what.rate # a.rate]
    [] OTHER -> a

\* What takes its time whatever comes: TRN1d and DIL.
Timed(a, next) ==
  IF a.left > 1 THEN [a EXCEPT !.left = @ - 1] ELSE [a EXCEPT !.left = 0, !.stage = next]

\* Downstream::take.
TakeDown(v, s) ==
  LET a == [v EXCEPT !.heardSd = s.is = "Sd", !.heardRd = s.is = "Rd",
                     !.lastJd = s.is = "Jd"]
  IN  CASE v.stage = "Sd" /\ s.is = "SdBar" /\ v.heardSd ->
             [a EXCEPT !.sd = TRUE, !.stage = "Trn", !.left = Trn1Ticks]
        [] v.stage = "Trn" -> Timed(a, "Jd")
        [] v.stage = "Jd" /\ s.is = "Jd" -> [a EXCEPT !.jd = TRUE]
        [] v.stage = "Jd" /\ s.is = "JdPrime" /\ v.lastJd ->
             [a EXCEPT !.jdPrime = TRUE, !.stage = "Dil", !.left = DilTicks]
        [] v.stage = "Dil" -> [Timed(a, "Ri") EXCEPT !.levels = v.left = 1]
        [] v.stage = "Ri" /\ s.is = "Ri" -> [a EXCEPT !.ri = TRUE]
        [] v.stage = "Ri" /\ s.is = "RiBar" /\ v.ri ->
             [a EXCEPT !.rBar = TRUE, !.stage = "Training"]
        [] v.stage = "Training" -> HearMpDown(a, s)
        [] v.stage = "Data" /\ s.is = "RdBar" /\ v.heardRd ->
             [ForgetMpDown(a) EXCEPT !.stage = "Training", !.farStarts = @ + 1]
        [] v.stage = "Data" /\ ~(s.is = "RdBar" /\ v.heardRd) -> HearDownData(a, s)
        [] OTHER -> a

ConnectedAnalogue(a) == a.started /\ a.b1Sent /\ a.stage = "Data" /\ a.skip = 0

\* Analogue::watch_start_up: a signal that is sent once went missing.
LostInStartUp(a) ==
  \/ a.send = "Ja" /\ a.inSend >= SdMost + a.phase2.roundTrip
  \/ a.send = "Data" /\ ~(a.stage = "Data" /\ a.skip = 0)
     /\ a.inSend >= EdMost + a.phase2.roundTrip

\* Analogue::receive, and Fallback::receive.
WatchStartUp(a) ==
  IF LostInStartUp(a) THEN RestartAnalogue(a)
  ELSE [a EXCEPT !.online = @ \/ ConnectedAnalogue(a)]

HearDown(a, s) ==
  IF a.toneHeard > RetrainTone THEN RestartAnalogue(a) ELSE WatchStartUp(TakeDown(a, s))

HearsAnalogue(a, s) ==
  IF a.started THEN HearDown([a EXCEPT !.toneHeard = LongTone(a, s)], s)
  ELSE PastPhase2([a EXCEPT !.phase2 = Phase2Hears(@, s)])

\* Analogue::start_renegotiation.
RenegotiateAnalogue(a, clearing) ==
  IF ~a.started \/ a.send # "Data" THEN a
  ELSE ForgetMpDown([a EXCEPT !.renegotiate = TRUE, !.clearing = clearing, !.b1Sent = FALSE])

\* Analogue::watch_margin: a CP that asks for less.
LowerMargin(a) ==
  IF ~ConnectedAnalogue(a) \/ a.cpRate <= 1 THEN a
  ELSE RenegotiateAnalogue([a EXCEPT !.cpRate = @ - 1], FALSE)

-----------------------------------------------------------------------------
(***************************************************************************)
(* Sending, of both.                                                       *)
(***************************************************************************)
ReadyV90(p, flags) ==
  IF ~p.started \/ p.queue # <<>> THEN p
  ELSE IF p.kind = "Digital" THEN RefillDigital(p, flags) ELSE RefillAnalogue(p, flags)

SaysV90(p) == IF p.started THEN Head(p.queue) ELSE Phase2Says(p.phase2)

\* Upstream::next counts how long it has sent what it sends.
SentV90(p, before) ==
  CASE ~p.started -> [p EXCEPT !.phase2 = Phase2Sent(@)]
    [] p.started /\ p.kind = "Digital" -> [p EXCEPT !.queue = Tail(@)]
    [] p.started /\ p.kind = "Analogue" ->
         [p EXCEPT !.queue = Tail(@),
                   !.inSend = IF p.send = before THEN @ + 1 ELSE 1]

ClearedV90(p) == p.started /\ p.send = "Cleared"

\* Fallback::leave_v34.
LeaveV34(v) ==
  IF ~v.retrainAsked THEN v
  ELSE IF v.role = "Originate"
  THEN RestartDigital([NewDigital(v.bears) EXCEPT
                         !.phase2 = v.phase2, !.online = v.online, !.misheard = v.misheard])
  ELSE RestartAnalogue([NewAnalogue(v.phase2.mode, v.bears) EXCEPT
                         !.phase2 = v.phase2, !.online = v.online, !.misheard = v.misheard])
=============================================================================
