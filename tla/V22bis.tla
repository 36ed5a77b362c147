------------------------------- MODULE V22bis -------------------------------
(***************************************************************************)
(* V.22 and V.22bis, softmodem-dsp/src/v22.rs and v22bis.rs: the handshake *)
(* at 1200 or 2400 bit/s, and the exchange of S1 and of the dibit that     *)
(* names the rate, by which an end trains again.  A tick is one of 50 ms.  *)
(***************************************************************************)
EXTENDS V34

CONSTANTS  \* the constants of the code of these names, in ticks
  S1Ticks, DecideTicks, ChangeTicks, ReadyTicks, RepeatTicks, ReplyTicks,
  LostTicks, StepDownTicks,
  Usb1Ticks, ScrambledTicks, WaitTicks, SettleTicks  \* those of v22.rs

ASSUME V22bisAssumption ==
  /\ {S1Ticks, DecideTicks, ChangeTicks, ReadyTicks, RepeatTicks, ReplyTicks,
      LostTicks, StepDownTicks, Usb1Ticks, ScrambledTicks, WaitTicks,
      SettleTicks} \subseteq Nat \ {0}
  /\ DecideTicks < ChangeTicks

SlowRate == 1  \* 1200 bit/s
FastRate == 2  \* 2400 bit/s

\* Scrambled bits at that rate: of the link, or the idle dibit over and over.
Scrambled(rate, idle, flags) ==
  Sound("Scrambled", 1, 1, [rate |-> rate, idle |-> idle, flags |-> flags])
Idles(s, rate) ==
  s.is = "Scrambled" /\ s.what.rate = rate /\ ~s.what.flags
\* Ones, which are the idle dibit (1, 1) of 2400 bit/s.
OnesAt(s, rate) == Idles(s, rate) /\ s.what.idle = FastRate
Garbled(s, rate) == s.is = "Scrambled" /\ s.what.rate # rate /\ s.what.flags

\* Unscrambled and scrambled ones are told by how long they last (Run).
LastsOn(n, holds, most) == IF ~holds THEN 0 ELSE IF n < most THEN n + 1 ELSE most

-----------------------------------------------------------------------------
(***************************************************************************)
(* V.22.                                                                   *)
(***************************************************************************)
NewV22(role) ==
  [kind |-> "V22", role |-> role,
   phase |-> IF role = "Originate" THEN "Listening" ELSE "UnscrambledOnes",
   until |-> Never, scrambledFrom |-> 0, roundTrip |-> Never, sent |-> 0,
   ones |-> 0, run |-> 0, misheard |-> FALSE]

\* V22::receiving: the caller's wait holds back only what it sends.
Receiving22(v) == v.phase = "Data" \/ (v.phase = "Settling" /\ v.role = "Originate")

\* The stages that V22::transmit ends.
Ready22(v) ==
  CASE v.phase = "Waiting" /\ v.sent >= v.until ->
         [v EXCEPT !.phase = "ScrambledOnes", !.scrambledFrom = v.sent]
    [] v.phase = "Settling" /\ v.sent >= v.until -> [v EXCEPT !.phase = "Data"]
    [] OTHER -> v

Says22(v, flags) ==
  CASE v.phase \in {"Listening", "Waiting"} -> Quiet
    [] v.phase = "UnscrambledOnes" -> Steady("USB1")
    [] v.phase \in {"ScrambledOnes", "Settling"} -> Scrambled(SlowRate, FastRate, FALSE)
    [] v.phase = "Data" -> Scrambled(SlowRate, FastRate, flags)

\* V22::heard, settle and answered.
Heard22(v) ==
  LET scrambled == v.run = ScrambledTicks
      heardAfter == v.sent - v.scrambledFrom
      settle(until) == [v EXCEPT !.phase = "Settling", !.until = until]
  IN  CASE v.phase = "Listening" /\ v.ones = Usb1Ticks ->
             [v EXCEPT !.phase = "Waiting", !.until = v.sent + WaitTicks]
        [] v.phase = "UnscrambledOnes" /\ scrambled -> settle(v.sent + SettleTicks)
        [] v.phase = "ScrambledOnes" /\ scrambled ->
             [settle(LaterOf(v.sent, v.scrambledFrom + ScrambledTicks + SettleTicks))
                EXCEPT !.roundTrip = LaterOf(0, heardAfter - 2 * ScrambledTicks)]
        [] OTHER -> v

\* V22::receive.
Hears22(v, s) ==
  IF Receiving22(v) THEN [v EXCEPT !.misheard = @ \/ Garbled(s, SlowRate)]
  ELSE Heard22([v EXCEPT !.ones = LastsOn(@, s.is = "USB1", Usb1Ticks),
                         !.run = LastsOn(@, OnesAt(s, SlowRate), ScrambledTicks)])

-----------------------------------------------------------------------------
(***************************************************************************)
(* V.22bis.                                                                *)
(***************************************************************************)
TransmitStates == {"Silence", "UnscrambledOnes", "S1", "Slow", "Fast"}
Exchanges == {"Idle", "Initiated", "Answering"}
Speeds == {"None", "Slow", "Trained"}

\* V22bis::new.
NewV22bis(role) ==
  [kind |-> "V22bis", role |-> role,
   transmit |-> IF role = "Originate" THEN "Silence" ELSE "UnscrambledOnes",
   until |-> 0,                            \* of Transmit::S1
   speed |-> "None", at |-> 0,             \* data_at of Slow, t0 of Trained
   decided |-> 0,                          \* rate of Trained, or 0
   exchange |-> "Idle", repeatAt |-> Never,
   sent |-> 0, sendS1At |-> Never, s1Until |-> Never,
   s1Heard |-> FALSE,                      \* S1Detector
   dibit |-> FastRate, lastDibit |-> 0,    \* the rate a dibit names, or 0
   changedAt |-> Never, ones |-> 0, run |-> 0, readyOnes |-> FALSE,
   rate |-> SlowRate, lostSince |-> Never, retrainedAt |-> Never,
   ready |-> FALSE, connected |-> FALSE, roundTrip |-> Never,
   clear |-> TRUE,                         \* the equaliser's error is low
   misheard |-> FALSE]

\* V22bis::send_s1.
SendS1(v) ==
  [v EXCEPT !.transmit = "S1", !.until = v.sent + S1Ticks,
            !.s1Until = v.sent + S1Ticks]

RoundTripTicks(v) == IF v.roundTrip = Never THEN 0 ELSE v.roundTrip

\* V22bis::replies_to_ours.
RepliesToOurs(v) ==
  v.s1Until # Never /\ v.sent < v.s1Until + ReplyTicks + RoundTripTicks(v)

\* V22bis::initiate.
Initiate(v, rate) ==
  [SendS1(v) EXCEPT
     !.dibit = rate, !.exchange = "Initiated",
     !.repeatAt = v.sent + S1Ticks + RepeatTicks + RoundTripTicks(v),
     !.ready = FALSE, !.readyOnes = FALSE, !.lostSince = Never]

\* V22bis::train_from.
TrainFrom(v) ==
  [v EXCEPT !.speed = "Trained", !.at = v.sent, !.decided = 0,
            !.exchange = "Idle", !.changedAt = Never, !.readyOnes = FALSE,
            !.ready = FALSE]

\* V22bis::s1_ended.
S1Ended(v) ==
  LET fresh == [v EXCEPT !.lastDibit = 0]
      timed == IF v.s1Until = Never THEN SendS1(fresh)
               ELSE [fresh EXCEPT !.roundTrip = LaterOf(0, v.sent - (v.s1Until + S1Ticks))]
      reply == v.exchange = "Initiated" \/ (v.exchange = "Idle" /\ RepliesToOurs(v))
  IN  CASE ~v.connected -> TrainFrom(timed)
        [] v.connected /\ reply -> TrainFrom(fresh)
        [] v.connected /\ ~reply ->
             [fresh EXCEPT !.exchange = "Answering", !.ready = FALSE, !.readyOnes = FALSE]

\* V22bis::advance_trained: the rate, then the change, and then data.
DecideRate(v) ==
  IF v.decided # 0 \/ v.sent < v.at + DecideTicks THEN v
  ELSE [v EXCEPT !.decided = IF v.lastDibit = FastRate THEN FastRate ELSE SlowRate]

ChangeRate(v) ==
  IF v.decided = 0 \/ v.changedAt # Never \/ v.sent < v.at + ChangeTicks THEN v
  ELSE [v EXCEPT !.changedAt = v.sent, !.rate = v.decided, !.dibit = FastRate,
                 !.transmit = IF v.decided = FastRate THEN "Fast" ELSE "Slow"]

BeReady(v) ==
  IF v.decided = 0 \/ v.changedAt = Never \/ v.ready \/ ~v.readyOnes
       \/ v.sent < v.changedAt + ReadyTicks THEN v
  ELSE [v EXCEPT !.ready = TRUE, !.s1Until = Never,
                 !.retrainedAt = IF v.connected THEN v.sent ELSE @]

AdvanceTrained(v) == BeReady(ChangeRate(DecideRate(v)))

\* V22bis::watch_equalisation.
WatchEqualisation(v) ==
  LET fastData == v.ready /\ v.speed = "Trained" /\ v.decided = FastRate
      since == IF v.lostSince = Never THEN v.sent ELSE v.lostSince
      soon == v.retrainedAt # Never /\ v.sent - v.retrainedAt < StepDownTicks
  IN  CASE ~fastData \/ v.clear -> [v EXCEPT !.lostSince = Never]
        [] fastData /\ ~v.clear /\ v.sent - since < LostTicks ->
             [v EXCEPT !.lostSince = since]
        [] fastData /\ ~v.clear /\ v.sent - since >= LostTicks ->
             Initiate(v, IF soon THEN SlowRate ELSE FastRate)

\* V22bis::advance.
BeginS1(v) == IF v.sent >= v.sendS1At THEN SendS1([v EXCEPT !.sendS1At = Never]) ELSE v

RepeatS1(v) ==
  IF v.exchange = "Initiated" /\ v.sent >= v.repeatAt THEN Initiate(v, v.dibit) ELSE v

EndS1(v) ==
  IF v.transmit = "S1" /\ v.sent >= v.until THEN [v EXCEPT !.transmit = "Slow"] ELSE v

AdvanceSpeed(v) ==
  CASE v.speed = "Trained" /\ v.exchange = "Idle" -> AdvanceTrained(v)
    [] v.speed = "Slow" /\ v.sent >= v.at -> [v EXCEPT !.ready = TRUE]
    [] OTHER -> v

Online22bis(v) == [v EXCEPT !.connected = @ \/ v.ready]

Ready22bis(v) ==
  Online22bis(WatchEqualisation(AdvanceSpeed(EndS1(RepeatS1(BeginS1(v))))))

Says22bis(v, flags) ==
  CASE v.transmit = "Silence" -> Quiet
    [] v.transmit = "UnscrambledOnes" -> Steady("USB1")
    [] v.transmit = "S1" -> Steady("S1")
    [] v.transmit = "Slow" -> Scrambled(SlowRate, v.dibit, flags /\ v.ready)
    [] v.transmit = "Fast" -> Scrambled(FastRate, FastRate, flags /\ v.ready)

\* V22bis::trained_rate; 0 is none.
TrainedRate(v) ==
  IF v.speed = "Trained" /\ v.exchange = "Idle" THEN v.decided ELSE 0

\* V22bis::receiving.
Receiving22bis(v) ==
  CASE v.speed = "None" -> FALSE
    [] v.speed = "Slow" -> v.role = "Originate" \/ v.ready
    [] v.speed = "Trained" -> TrainedRate(v) # 0 /\ v.readyOnes

\* Mutant: the far end's S1 is waited for without end.
FallBackNever(v) == v

FallBack(v) == [v EXCEPT !.speed = "Slow", !.at = v.sent + SettleTicks]

\* V22bis::handshake_bit.
Counted22bis(v, s) ==
  [v EXCEPT !.ones = LastsOn(@, s.is = "USB1", Usb1Ticks),
            !.run = LastsOn(@, OnesAt(s, SlowRate), ScrambledTicks)]

Handshake(h) ==
  CASE h.s1Heard -> h
    [] ~h.s1Heard /\ h.role = "Originate" /\ h.transmit = "Silence"
         /\ h.sendS1At = Never /\ h.ones = Usb1Ticks ->
         [h EXCEPT !.sendS1At = h.sent + WaitTicks]
    [] ~h.s1Heard /\ h.role = "Answer" /\ h.transmit = "UnscrambledOnes"
         /\ h.run = ScrambledTicks -> FallBack([h EXCEPT !.transmit = "Slow"])
    [] ~h.s1Heard /\ h.role = "Originate" /\ h.transmit = "Slow"
         /\ h.run = ScrambledTicks -> FallBack(h)
    [] OTHER -> h

HandshakeTick(v, s) == Handshake(Counted22bis(v, s))

\* V22bis::ready_bit, of a tick at the rate trained for.
ReadyTick(v, s) ==
  IF v.readyOnes THEN [v EXCEPT !.misheard = @ \/ Garbled(s, v.decided)]
  ELSE [v EXCEPT !.readyOnes = OnesAt(s, v.decided)]

\* V22bis::slow_dibit once trained: the dibit that names the rate.
HearDibit(v, s) ==
  LET named == IF Idles(s, SlowRate) THEN s.what.idle ELSE 0
      h == [v EXCEPT !.lastDibit = named]
  IN  IF v.exchange = "Answering" /\ named # 0
      THEN TrainFrom(SendS1([h EXCEPT !.dibit = named])) ELSE h

\* V22bis::receive.  S1 ends early in the tick after it.
HeardS1(v, s) ==
  [(IF v.s1Heard /\ s.is # "S1" THEN S1Ended(v) ELSE v) EXCEPT
     !.s1Heard = s.is = "S1",
     !.clear = s.is = "Scrambled" /\ s.what.rate = FastRate]

HearOnes(v, s) == IF TrainedRate(v) # 0 THEN ReadyTick(v, s) ELSE v

HearAtSpeed(v, s) ==
  CASE v.speed = "None" -> HandshakeTick(v, s)
    [] v.speed = "Slow" ->
         IF Receiving22bis(v) THEN [v EXCEPT !.misheard = @ \/ Garbled(s, SlowRate)]
         ELSE v
    [] v.speed = "Trained" -> HearOnes(HearDibit(v, s), s)

Hears22bis(v, s) == HearAtSpeed(HeardS1(v, s), s)

\* V22bis::retrain.
Retrain22bis(v) ==
  IF v.connected /\ v.speed = "Trained" THEN Initiate(v, FastRate) ELSE v
=============================================================================
