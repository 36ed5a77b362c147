------------------------------- MODULE Phase2 -------------------------------
(***************************************************************************)
(* Phase 2 of V.34 and V.90, softmodem-dsp/src/v34/phase2.rs: INFO0, the   *)
(* round trip from the reversals of tones A and B, line probing and INFO1. *)
(* An end is a record, asked each tick what it says and told what it       *)
(* hears.  A tick is a frame of 20 ms, in which a reversal is confirmed.   *)
(***************************************************************************)
EXTENDS Negotiation

CONSTANTS  \* the constants of the code of these names, in ticks
  CjSilence, RetrainSilence, AnswerDelay, ToneTail, ToneFirst, HeldTail,
  L1Ticks, L2Most, L2Settle, L2Measured, L2Least, AfterInfo, ReplyMost,
  Info1Most, AloneTicks,
  Info0Ticks, Info1Ticks  \* the length of INFO0 and of INFO1c and INFO1a

ASSUME Phase2Assumption ==
  /\ {CjSilence, RetrainSilence, AnswerDelay, ToneTail, ToneFirst, HeldTail,
      L1Ticks, L2Most, L2Settle, L2Measured, L2Least, AfterInfo, ReplyMost,
      Info1Most, AloneTicks} \subseteq Nat \ {0}
  /\ {Info0Ticks, Info1Ticks} \subseteq Nat \ {0, 1}
  /\ L2Settle + L2Measured < L2Most /\ L2Least < L2Measured

Never == 1000000  \* no time set

\* The mode is V34, or that of a digital modem, which takes the part of the call
\* modem, or of an analogue one, which takes that of the answer modem.

Steps == {"SendInfo0", "RepeatInfo0", "ToneA", "AwaitReply", "Probe", "LateToneB",
          "ToneB", "AwaitProbe", "AwaitProbeReversed", "Measure", "AfterProbe",
          "ProbeFar", "SendInfo1", "AwaitInfo1a", "Done"}
TxKinds == {"Silence", "Info", "Tone", "L1", "L2"}

\* Tone A or B, its phase turned or not, as the answer and the call modem send it.
TonePhase(tone, turned) == Sound(tone, 1, 1, IF turned THEN {"turned"} ELSE {})
OwnTone(role) == IF role = "Answer" THEN "ToneA" ELSE "ToneB"
FarTone(role) == IF role = "Answer" THEN "ToneB" ELSE "ToneA"

Info0(mode, acknowledge) ==
  InParts(IF mode = "Digital" THEN "INFO0d" ELSE "INFO0", Info0Ticks,
          IF acknowledge THEN {"ack"} ELSE {})
Info1(is) == InParts(is, Info1Ticks, {})
IsInfo(s) == s.is \in {"INFO0", "INFO0d", "INFO1c", "INFO1a", "INFO1aP"}

\* Phase2::with.
NewPhase2(role, mode) ==
  [role |-> role, mode |-> mode, step |-> "SendInfo0",
   tx |-> "Silence", txUntil |-> CjSilence, queue |-> Info0(mode, FALSE),
   sent |-> 0, heard |-> 0, toneFrom |-> 0, toneHeardFrom |-> 0, l2From |-> 0,
   turnAt |-> Never, turned |-> FALSE,          \* tones::Sender
   ear |-> Unheard,                             \* the deframers
   farPhase |-> {"none"}, ones |-> 0 - AloneTicks,
   since |-> 0,                                 \* AwaitReply.ours, Measure.from
   toneBGone |-> FALSE, far |-> FALSE, farAt |-> 0, farRepeats |-> 0,
   farAcknowledged |-> FALSE, info1From |-> 0, farAbsent |-> 0,
   wentQuiet |-> FALSE, roundTrip |-> 0,
   outcome |-> "None"]                          \* or "V34" or "Pcm"

\* Phase2::retraining: again from the tones, with the far INFO0 of before.
Retraining(role, mode) ==
  [NewPhase2(role, mode) EXCEPT
     !.queue = <<>>, !.far = TRUE, !.txUntil = RetrainSilence,
     !.step = IF role = "Answer" THEN "ToneA" ELSE "ToneB"]

\* Phase2::restart, and again.
RestartPhase2(p) == IF p.far THEN Retraining(p.role, p.mode) ELSE p

Phase2Done(p) == p.step = "Done"
SettledOnV34(p) == Phase2Done(p) /\ p.outcome = "V34" /\ p.mode # "V34"

-----------------------------------------------------------------------------
(***************************************************************************)
(* Sending.                                                                *)
(***************************************************************************)
\* Phase2::start.
StartTx(p, tx, until) ==
  LET starts == tx = "Tone" /\ p.tx # "Tone"
  IN  [p EXCEPT !.tx = tx, !.txUntil = until,
         !.toneFrom = IF starts THEN p.sent ELSE @,
         !.toneHeardFrom = IF starts THEN p.heard ELSE @,
         !.farRepeats = IF starts THEN 0 ELSE @,
         !.l2From = IF tx = "L2" THEN p.sent ELSE @]

LaterOf(a, b) == IF a >= b THEN a ELSE b

\* Phase2::reverse_at: the tone is turned then, and goes on for a tail.
ReverseAt(p, at, tail) ==
  [StartTx(p, "Tone", LaterOf(at, p.sent) + tail) EXCEPT
     !.turnAt = LaterOf(at, p.sent)]

SentAt(p, heard) == heard + p.sent - p.heard

SendInfo(p, message, step) ==
  [StartTx(p, "Info", Never) EXCEPT !.queue = message, !.step = step]

SendInfo1c(p) == SendInfo(p, Info1("INFO1c"), "SendInfo1")
RepeatInfo0(p) == SendInfo(p, Info0(p.mode, p.far), "RepeatInfo0")

\* Phase2::segment_ended.
SegmentEnded(p) ==
  LET step == p.step
      tx == p.tx
  IN  CASE step = "SendInfo0" /\ tx = "Silence" -> StartTx(p, "Info", Never)
        [] step \in {"ToneA", "ToneB"} /\ tx = "Silence" -> StartTx(p, "Tone", Never)
        [] step = "Probe" /\ tx = "L2" ->
             [StartTx(p, "Tone", Never) EXCEPT !.step = "LateToneB"]
        [] step \in {"Probe", "ProbeFar"} /\ tx = "Tone" ->
             StartTx(p, "L1", p.sent + L1Ticks)
        [] step \in {"Probe", "ProbeFar"} /\ tx = "L1" ->
             StartTx(p, "L2", p.sent + L2Most + p.roundTrip)
        [] step = "ProbeFar" /\ tx = "L2" -> SendInfo1c(p)
        [] OTHER -> StartTx(p, "Silence", Never)

ToneAfterInfo0(p) ==
  [StartTx(p, "Tone", Never) EXCEPT
     !.step = IF p.role = "Answer" THEN "ToneA" ELSE "ToneB"]

FarTonePresent(p) == p.farPhase # {"none"}
FarToneAlone(p) == FarTonePresent(p) /\ p.heard >= p.ones + AloneTicks

\* Phase2::info_sent.
InfoSent(p) ==
  CASE p.step = "SendInfo0" -> ToneAfterInfo0(p)
    [] p.step = "RepeatInfo0" /\ p.far /\ (p.farAcknowledged \/ FarToneAlone(p)) ->
         ToneAfterInfo0(p)
    [] p.step = "RepeatInfo0" /\ ~(p.far /\ (p.farAcknowledged \/ FarToneAlone(p))) ->
         RepeatInfo0(p)
    [] p.step = "SendInfo1" ->
         [StartTx(p, "Silence", Never) EXCEPT
            !.step = IF p.role = "Answer" THEN "Done" ELSE "AwaitInfo1a",
            !.wentQuiet = FALSE]
    [] OTHER -> StartTx(p, "Silence", Never)

\* The tone is turned once its time has come.
Turned(p) == IF p.tx = "Tone" /\ p.sent >= p.turnAt THEN ~p.turned ELSE p.turned

Phase2Says(p) ==
  CASE p.tx = "Silence" -> Quiet
    [] p.tx = "Info" -> Head(p.queue)
    [] p.tx = "Tone" -> TonePhase(OwnTone(p.role), Turned(p))
    [] OTHER -> Steady(p.tx)

\* Phase2::transmit.
Phase2Sent(p) ==
  LET out == [p EXCEPT
                !.turned = Turned(p),
                !.turnAt = IF p.tx = "Tone" /\ p.sent >= @ THEN Never ELSE @,
                !.queue = IF p.tx = "Info" THEN Tail(@) ELSE @,
                !.sent = @ + 1]
  IN  CASE out.sent >= out.txUntil -> SegmentEnded(out)
        [] out.tx = "Info" /\ out.queue = <<>> -> InfoSent(out)
        [] OTHER -> out

-----------------------------------------------------------------------------
(***************************************************************************)
(* Hearing.                                                                *)
(***************************************************************************)
\* Phase2::info0_lost.
Info0Lost(p) ==
  /\ p.step \in {"ToneA", "ToneB"} \/ (p.step = "AwaitReply" /\ p.role = "Answer")
  /\ p.tx = "Tone"
  /\ \/ ~p.far /\ FarToneAlone(p)
     \/ p.farRepeats > 1 /\ ~p.farAcknowledged

\* The far tone reversed, in the tick just heard (tones::Detector).
Reversed(p, s) ==
  s.is = FarTone(p.role) /\ FarTonePresent(p) /\ s.what # p.farPhase

\* Phase2::next_reversal: after the far INFO0, and since this end has its tone.
FreshReversal(p, at) == p.far /\ at >= p.farAt + AfterInfo /\ at >= p.toneHeardFrom

\* Phase2::info0_bit.
HearInfo0(p, s) ==
  LET whole == Whole(p.ear, s)
               /\ s.is = IF p.mode \in {"Analogue", "PicksV34"} THEN "INFO0d" ELSE "INFO0"
      acknowledge == "ack" \in s.what
  IN  IF ~whole THEN p
      ELSE [p EXCEPT !.far = TRUE, !.farAt = p.heard + 1,
                     !.farRepeats = IF acknowledge THEN @ ELSE IF @ < 2 THEN @ + 1 ELSE @,
                     !.farAcknowledged = @ \/ acknowledge]

\* Phase2::decide and decide_pcm: the answer modem picks, and says so in INFO1a.
Decide(p) ==
  IF ~p.far THEN p
  ELSE IF p.mode = "Analogue"
       THEN [SendInfo(p, Info1("INFO1aP"), "SendInfo1") EXCEPT !.outcome = "Pcm"]
       ELSE [SendInfo(p, Info1("INFO1a"), "SendInfo1") EXCEPT !.outcome = "V34"]

\* Phase2::settle and settle_pcm.
Settle(p, outcome) ==
  IF p.far THEN [p EXCEPT !.outcome = outcome, !.step = "Done"] ELSE p

\* Phase2::info1_bit.
HearInfo1(p, s) ==
  LET whole(is) == s.is = is /\ Whole(p.ear, s)
  IN  CASE p.role = "Answer" /\ whole("INFO1c") /\ p.step = "AfterProbe" -> Decide(p)
        [] p.role = "Originate" /\ whole("INFO1a") /\ p.step = "AwaitInfo1a" ->
             Settle(p, "V34")
        [] p.mode = "Digital" /\ whole("INFO1aP") /\ p.step = "AwaitInfo1a" ->
             Settle(p, "Pcm")
        [] OTHER -> p

\* Phase2::measure_from.
MeasureFrom(p, at) ==
  [p EXCEPT !.step = "Measure", !.since = at + ToneTail + L1Ticks + L2Settle]

\* Mutant: the delay of the far end's answer is taken for the line's.
RepliedLate(p, at) ==
  LET timed == [p EXCEPT !.roundTrip = LaterOf(0, at - p.since)]
  IN  IF p.role = "Originate" THEN MeasureFrom(timed, at)
      ELSE [ReverseAt(timed, SentAt(p, at + AnswerDelay), ToneTail) EXCEPT
              !.step = "Probe", !.toneBGone = FALSE]

\* Phase2::replied.
Replied(p, at) ==
  LET timed == [p EXCEPT !.roundTrip = LaterOf(0, at - (p.since + AnswerDelay))]
  IN  IF p.role = "Originate" THEN MeasureFrom(timed, at)
      ELSE [ReverseAt(timed, SentAt(p, at + AnswerDelay), ToneTail) EXCEPT
              !.step = "Probe", !.toneBGone = FALSE]

\* Phase2::await_reply.
AwaitReply(p, reversal, at) ==
  CASE reversal /\ at + AnswerDelay > p.since -> Replied(p, at)
    [] ~(reversal /\ at + AnswerDelay > p.since) /\ p.role = "Answer"
         /\ p.heard >= p.since + ReplyMost -> [p EXCEPT !.step = "ToneA"]
    [] OTHER -> p

\* Phase2::await_probe.
AwaitProbe(p, reversal, at) ==
  LET turns == p.step = "AwaitProbe" /\ p.sent >= p.toneFrom + ToneFirst
      turning == IF turns THEN [p EXCEPT !.turnAt = p.sent, !.txUntil = p.sent + HeldTail,
                                         !.step = "AwaitProbeReversed"]
                 ELSE p
  IN  IF reversal THEN MeasureFrom(StartTx(turning, "Silence", Never), at) ELSE turning

\* Phase2::await_info1a: the far end went quiet and then sends its tone, to retrain.
AwaitInfo1a(p) ==
  LET quiet == p.wentQuiet \/ p.farAbsent * 2 >= RetrainSilence
  IN  IF quiet /\ FarToneAlone(p) THEN RestartPhase2(p) ELSE [p EXCEPT !.wentQuiet = quiet]

\* Phase2::advance, with a reversal heard at that tick or none.
AdvancePhase2(p, reversal, at) ==
  CASE p.step = "ToneA" /\ p.far /\ p.tx = "Tone" /\ FarToneAlone(p)
         /\ p.sent >= p.toneFrom + ToneFirst ->
         [p EXCEPT !.turnAt = p.sent, !.step = "AwaitReply", !.since = p.heard]
    [] p.step = "ToneB" /\ p.far /\ reversal ->
         [ReverseAt(p, SentAt(p, at + AnswerDelay), HeldTail) EXCEPT
            !.step = "AwaitReply", !.since = at + AnswerDelay]
    [] p.step = "AwaitReply" -> AwaitReply(p, reversal, at)
    [] p.step = "Probe" /\ p.tx = "L2" /\ p.toneBGone /\ FarTonePresent(p) ->
         [StartTx(p, "Tone", Never) EXCEPT !.step = "AwaitProbe"]
    [] p.step = "LateToneB" /\ p.toneBGone /\ FarTonePresent(p) ->
         [p EXCEPT !.toneFrom = p.sent, !.step = "AwaitProbe"]
    [] p.step \in {"AwaitProbe", "AwaitProbeReversed"} -> AwaitProbe(p, reversal, at)
    [] p.step = "Measure" /\ p.heard >= p.since + L2Measured ->
         [StartTx(p, "Tone", Never) EXCEPT !.step = "AfterProbe", !.info1From = p.heard]
    [] p.step = "AfterProbe" /\ p.role = "Answer"
         /\ p.heard >= p.info1From + Info1Most + 2 * p.roundTrip -> RestartPhase2(p)
    [] p.step = "AwaitInfo1a" -> AwaitInfo1a(p)
    [] p.step = "AfterProbe" /\ p.role = "Originate" /\ reversal ->
         [ReverseAt(p, SentAt(p, at + AnswerDelay), ToneTail) EXCEPT !.step = "ProbeFar"]
    [] p.step = "ProbeFar" /\ p.tx = "L2" /\ p.sent >= p.l2From + L2Least
         /\ FarTonePresent(p) -> SendInfo1c(p)
    [] OTHER -> p

\* Phase2::receive.
\* What one tick of sound says, told bits, tone and reversal apart.
Heeded(p, before, s) ==
  LET tone == s.is = FarTone(p.role)
  IN  [p EXCEPT
         !.ear = Heed(before.ear, s),
         !.ones = IF IsInfo(s) \/ Reversed(before, s) THEN before.heard + 1 ELSE @,
         !.farPhase = IF tone THEN s.what ELSE {"none"},
         !.farAbsent = IF tone THEN 0 ELSE IF @ < RetrainSilence THEN @ + 1 ELSE @,
         !.toneBGone = @ \/ ~tone,
         !.heard = before.heard + 1]

Phase2Moves(p, reversal) ==
  IF Info0Lost(p) THEN RepeatInfo0(p) ELSE AdvancePhase2(p, reversal, p.heard - 1)

\* informed is p once an INFO0 in the sound has been heard.
Phase2Learns(p, informed, s) ==
  Phase2Moves(Heeded(HearInfo1(informed, s), p, s),
              Reversed(p, s) /\ FreshReversal(informed, p.heard))

Phase2Hears(p, s) == Phase2Learns(p, HearInfo0(p, s), s)
=============================================================================
