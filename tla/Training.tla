------------------------------ MODULE Training ------------------------------
(***************************************************************************)
(* The pumps of a call that has its modulation, until its end: start-up,   *)
(* data, and the renegotiations, retrains and cleardowns that either end   *)
(* begins, the modem (ATO1, hang-up), the pump, or the recovery of         *)
(* softmodem/src/line.rs when data makes no sense.  Each tick both ends    *)
(* send and then hear, over lines that delay and lose.                     *)
(***************************************************************************)
EXTENDS V22bis, V90

CONSTANTS
  QuietTicks,  \* QUIET of line.rs
  Trainings    \* bound: the calls to look at

ASSUME TrainingAssumption ==
  {QuietTicks} \subseteq Nat \ {0}

Ends == {"caller", "answerer"}
Other(e) == IF e = "caller" THEN "answerer" ELSE "caller"
RoleOf(e) == IF e = "caller" THEN "Originate" ELSE "Answer"

VARIABLES
  pump,      \* the pumps of the two ends
  recovery,  \* Recovery of each end
  line,      \* line[e]: the sounds e has sent that the other has not heard yet
  clock,     \* ticks since the start
  left,      \* what may still go wrong on the line, and be asked of the pumps
  done       \* what has happened: for the properties alone

vars == <<pump, recovery, line, clock, left, done>>

-----------------------------------------------------------------------------
(***************************************************************************)
(* DataPump, the trait of pump.rs.                                         *)
(***************************************************************************)
V90Kinds == {"Digital", "Analogue"}

\* V22bis::ready and the like: the link's bits go out.
TakesBits(p) ==
  CASE p.kind = "V22" -> p.phase = "Data"
    [] p.kind = "V22bis" -> p.connected
    [] p.kind = "V34" -> Connected34(p)
    [] p.kind = "Digital" -> ConnectedDigital(p)
    [] p.kind = "Analogue" -> ConnectedAnalogue(p)

Connected(p) == TakesBits(p)

\* Both ends' bits come through: connected, and no exchange of S1 under way.
InData(p) == Connected(p) /\ (p.kind = "V22bis" => p.ready)

Cleared(p) ==
  CASE p.kind = "V34" -> Cleared34(p)
    [] p.kind \in V90Kinds -> ClearedV90(p)
    [] OTHER -> FALSE

\* The rate it decodes at.
RateOf(p) ==
  CASE p.kind = "V22" -> SlowRate
    [] p.kind = "Digital" -> p.upRate
    [] OTHER -> p.rate

ReadyPump(p, flags) ==
  CASE p.kind = "V22" -> Ready22(p)
    [] p.kind = "V22bis" -> Ready22bis(p)
    [] p.kind = "V34" -> Ready34(p, flags)
    [] p.kind \in V90Kinds -> ReadyV90(p, flags)

PumpSays(p, flags) ==
  CASE p.kind = "V22" -> Says22(p, flags)
    [] p.kind = "V22bis" -> Says22bis(p, flags)
    [] p.kind = "V34" -> Says34(p)
    [] p.kind \in V90Kinds -> SaysV90(p)

\* before is the pump as it was when it was asked for this sound.
SentPump(p, before) ==
  CASE p.kind \in {"V22", "V22bis"} -> [p EXCEPT !.sent = @ + 1]
    [] p.kind = "V34" -> Sent34(p)
    [] p.kind \in V90Kinds -> SentV90(p, before.send)

\* Fallback is there around V.90 alone, and leaves a V.34 that is to retrain.
Leaving(p) == IF p.kind = "V34" THEN LeaveV34(p) ELSE p

PumpHears(p, s) ==
  CASE p.kind = "V22" -> Hears22(p, s)
    [] p.kind = "V22bis" -> Hears22bis(p, s)
    [] p.kind = "V34" -> Leaving(Hears34(p, s))
    [] p.kind = "Digital" -> HearsDigital(p, s)
    [] p.kind = "Analogue" -> HearsAnalogue(p, s)

Renegotiate(p) ==
  CASE p.kind = "V34" -> Renegotiate34(p)
    [] p.kind = "Digital" -> RenegotiateDigital(p, FALSE)
    [] p.kind = "Analogue" -> RenegotiateAnalogue(p, FALSE)
    [] OTHER -> p

Retrain(p) ==
  CASE p.kind = "V22bis" -> Retrain22bis(p)
    [] p.kind = "V34" -> Leaving(Retrain34(p))
    [] p.kind = "Digital" -> IF ConnectedDigital(p) THEN RestartDigital(p) ELSE p
    [] p.kind = "Analogue" -> IF ConnectedAnalogue(p) THEN RestartAnalogue(p) ELSE p
    [] OTHER -> p

ClearDown(p) ==
  CASE p.kind = "V34" -> ClearDown34(p)
    [] p.kind = "Digital" -> RenegotiateDigital(p, TRUE)
    [] p.kind = "Analogue" -> RenegotiateAnalogue(p, TRUE)
    [] OTHER -> p

Lower(p) == IF p.kind = "Analogue" THEN LowerMargin(p) ELSE p

-----------------------------------------------------------------------------
(***************************************************************************)
(* Recovery of line.rs.  Flags of HDLC in data are sound.                  *)
(***************************************************************************)
NewRecovery == [quiet |-> 0 - 1, tried |-> "None"]

\* Recovery::poll: renegotiate, and if that brought nothing sound, retrain.
Poll(r, inData, sound) ==
  LET tried == IF inData /\ sound THEN "None" ELSE r.tried
      quiet == IF sound \/ r.quiet < 0 THEN 0 ELSE r.quiet + 1
      try(action) == [next |-> [quiet |-> 0, tried |-> action], action |-> action]
  IN  CASE ~inData -> [next |-> [r EXCEPT !.quiet = 0 - 1], action |-> "None"]
        [] inData /\ quiet >= QuietTicks /\ tried = "None" -> try("Renegotiate")
        [] inData /\ quiet >= QuietTicks /\ tried = "Renegotiate" -> try("Retrain")
        [] inData /\ (quiet < QuietTicks \/ tried = "Retrain") ->
             [next |-> [quiet |-> IF quiet > QuietTicks THEN QuietTicks ELSE quiet,
                        tried |-> tried], action |-> "None"]

\* The sound of data at the rate this end decodes.
SoundData(p, s) ==
  InData(p) /\ s.is \in {"Data", "Scrambled"} /\ s.what.rate = RateOf(p) /\ s.what.flags

\* Handshake::recover, after the pump has heard.
Recover(p, polled) ==
  CASE polled.action = "Renegotiate" -> Renegotiate(p)
    [] polled.action = "Retrain" -> Retrain(p)
    [] OTHER -> p

-----------------------------------------------------------------------------
(***************************************************************************)
(* The call.                                                               *)
(***************************************************************************)
Init ==
  \E t \in Trainings :
    /\ pump = [caller |-> t.caller, answerer |-> t.answerer]
    /\ recovery = [e \in Ends |-> NewRecovery]
    /\ line = [e \in Ends |-> [i \in 1 .. t.delay |-> Quiet]]
    /\ clock = 0
    /\ left = t.left
    /\ done = [hurt |-> FALSE, cleared |-> FALSE, linked |-> FALSE]

\* A tick: both ends send, and then hear what damage makes of what comes.
Ready(p) == ReadyPump(p, Connected(p))
Says(p) == PumpSays(p, Connected(p))

Tick(asked, damage(_, _), hurt) ==
  /\ clock < left.until
  /\ clock' = clock + 1
  /\ \E ready \in {[e \in Ends |-> Ready(asked[e])]} :
     \E path \in {[e \in Ends |-> Append(line[e], Says(ready[e]))]} :
     \E comes \in {[e \in Ends |-> damage(Other(e), Head(path[Other(e)]))]} :
     \E heard \in {[e \in Ends |-> PumpHears(SentPump(ready[e], asked[e]), comes[e])]} :
     \E reliable \in {done.linked \/ \A e \in Ends : InData(heard[e])} :
     \E polled \in {[e \in Ends |-> Poll(recovery[e], Connected(heard[e]) /\ reliable,
                                         SoundData(heard[e], comes[e]))]} :
       /\ pump' = [e \in Ends |-> Recover(heard[e], polled[e])]
       /\ recovery' = [e \in Ends |-> polled[e].next]
       /\ line' = [e \in Ends |-> Tail(path[e])]
       /\ done' = [hurt EXCEPT !.linked = reliable]

Sound0(e, s) == s
CleanTick == Tick(pump, Sound0, done) /\ UNCHANGED left

\* What comes out of the line of that end.
Comes(e) == Head(Append(line[e], Says(Ready(pump[e]))))

\* Sounds that are sent once, or the last of them, and that nothing waits for
\* with a time-out (docs/v34.md: no other recovery timeouts in phase 2 yet).
SentOnce == {"ToneA", "ToneB", "INFO1a", "INFO1aP", "S", "SBar", "Jd", "JdPrime",
             "RiBar", "Rd", "RdBar"}

\* Losing what comes from that end now leaves its hearer waiting for ever: E where
\* no E time-out runs, and the dibit that V.22bis decides its first rate by.
Needed(p, is) ==
  \/ is \in SentOnce
  \/ is = "E" /\ ~(p.kind = "V34" /\ p.eWaited # Never)
  \/ /\ p.kind = "V22bis" /\ ~p.connected /\ p.speed = "Trained"
     /\ p.decided = 0 /\ p.sent + 1 >= p.at + DecideTicks

Irreplaceable(e) == Needed(pump[Other(e)], Comes(e).is)

\* A tick of sound is lost on its way from an end.
LostTick(from) ==
  /\ left.lost > 0 /\ clock \in left.from .. left.by
  /\ Tick(pump, LAMBDA e, s : IF e = from THEN Quiet ELSE s,
          [done EXCEPT !.hurt = @ \/ Irreplaceable(from)])
  /\ left' = [left EXCEPT !.lost = @ - 1]

\* The modem (ATO1, a hang-up) or the pump itself asks for something.
Asked(e, how) ==
  /\ left.asks > 0 /\ how \in left.hows /\ done.linked
  /\ clock \in left.from .. left.by
  /\ Tick([pump EXCEPT ![e] =
            CASE how = "Renegotiate" /\ Connected(pump[e]) -> Renegotiate(@)
              [] how = "Retrain" -> Retrain(@)
              [] how = "LowerMargin" -> Lower(@)
              [] how = "ClearDown" -> ClearDown(@)
              [] OTHER -> @], Sound0,
          [done EXCEPT !.cleared = @ \/ how = "ClearDown"])
  /\ left' = [left EXCEPT !.asks = @ - 1]

Next ==
  \/ CleanTick
  \/ \E e \in Ends : LostTick(e)
  \/ \E e \in Ends, how \in {"Renegotiate", "Retrain", "LowerMargin", "ClearDown"} : Asked(e, how)

Spec == Init /\ [][Next]_vars

-----------------------------------------------------------------------------
(***************************************************************************)
(* Properties.                                                             *)
(***************************************************************************)
\* The pumps are what their code can make them.
PumpOK(p) ==
  CASE p.kind = "V22" -> p.phase \in {"Listening", "UnscrambledOnes", "Waiting",
                                      "ScrambledOnes", "Settling", "Data"}
    [] p.kind = "V22bis" ->
         /\ p.transmit \in TransmitStates /\ p.speed \in Speeds
         /\ p.exchange \in Exchanges /\ (p.ready => p.speed # "None")
    [] p.kind = "V34" ->
         /\ p.phase2.step \in Steps /\ p.phase2.tx \in TxKinds
         /\ p.source.send \in SendStates /\ p.sink.listen \in ListenStates
         /\ (p.training => p.phase2.step = "Done")
         /\ (p.sink.listen \in {"Data", "Hold"} => p.sink.decoder)
    [] p.kind = "Digital" ->
         /\ p.phase2.step \in Steps /\ p.send \in DigitalSends
         /\ p.listen \in DigitalListens
         /\ (p.send = "Data" /\ ~p.renegotiate /\ p.b1Sent => p.rate > 0)
    [] p.kind = "Analogue" ->
         /\ p.phase2.step \in Steps /\ p.send \in AnalogueSends
         /\ p.stage \in AnalogueStages
         /\ (p.stage = "Data" => p.cpRate > 0)

TypeOK ==
  /\ \A e \in Ends : PumpOK(pump[e]) /\ Len(line[e]) = Len(line["caller"])
  /\ \A e \in Ends : recovery[e].quiet <= QuietTicks
  /\ clock \in 0 .. left.until

\* What this end says now, the far end takes for sound data.
Through(e) == SoundData(pump[Other(e)], PumpSays(ReadyPump(pump[e], TRUE), TRUE))

\* Whatever tick of sound is lost and whoever asks for a renegotiation or a retrain
\* and when, both ends are back in data mode in time and take what the other sends,
\* or have both ended the call; unless what was lost is sent once (the recovery of
\* Phase2::receive, V34::receive, Analogue::watch_start_up, V22bis and line.rs).
InTime ==
  clock = left.until /\ ~done.hurt =>
    \/ \A e \in Ends : Through(e)
    \/ \A e \in Ends : Cleared(pump[e])

\* No end ever decodes data at a rate other than the one it was sent at, through
\* start-up, renegotiations and retrains that cross: V34::agree and its like take the
\* rates from the MP or CP of this training.
DataUnderstood == \A e \in Ends : ~pump[e].misheard

\* The round trip that the two ends measure is that of the line, whatever was lost on
\* the way to it and however often phase 2 began again.
RoundTripRight ==
  \A e \in Ends :
    pump[e].kind \in {"V34", "Digital", "Analogue"} /\ pump[e].phase2.outcome # "None" =>
      pump[e].phase2.roundTrip = 2 * Len(line[e])

\* No end ends a call that neither end asked to end, and neither stays in it alone.
ClearedTogether ==
  /\ \A e \in Ends : Cleared(pump[e]) => done.cleared
  /\ clock = left.until /\ ~done.hurt =>
       (Cleared(pump["caller"]) <=> Cleared(pump["answerer"]))

\* The two ends mean the same by what is on the line: the rate of the data, and whether
\* there is a call.
EndsAgree == TypeOK /\ DataUnderstood /\ ClearedTogether
=============================================================================
