------------------------------ MODULE Automode ------------------------------
(***************************************************************************)
(* The start of a call, softmodem-dsp/src/automode.rs: V.8 bis, V.8, and   *)
(* what is done with a far end that has neither, until both ends have      *)
(* their modulation.  Each tick both ends send and then hear, over lines   *)
(* that delay.  Far ends of other makes are modelled by what they send.    *)
(***************************************************************************)
EXTENDS V8bis

CONSTANTS
  BisSilenceTicks,  \* V8BIS_SILENCE_SAMPLES
  SilenceTicks,     \* SILENCE_SAMPLES
  AnsamTicks,       \* ANSAM_SAMPLES
  TeTicks,          \* TE_SAMPLES
  GapTicks,         \* GAP_SAMPLES
  TaTicks,          \* TA_SAMPLES
  MarkTicks,        \* MARK_SAMPLES
  SigcTicks,        \* SIGC_BITS
  ToneTicks,        \* an answer tone is told from noise
  CarrierTicks,     \* CARRIER_ON_SAMPLES of a V.21 carrier
  Usb1Ticks,        \* unscrambled ones of V.22 are heard
  LastTick,         \* bound: how long a call is looked at
  Calls             \* bound: the calls to look at

ASSUME AutomodeAssumption ==
  /\ {BisSilenceTicks, SilenceTicks, AnsamTicks, TeTicks, GapTicks, TaTicks,
      MarkTicks, SigcTicks, ToneTicks, CarrierTicks, Usb1Ticks,
      LastTick} \subseteq Nat \ {0}
  /\ BisSilenceTicks < SilenceTicks

Ends == {"caller", "answerer"}
Other(e) == IF e = "caller" THEN "answerer" ELSE "caller"

VARIABLES
  end,    \* the two ends
  line,   \* line[e]: the sounds e has sent that the other end has not heard yet
  clock,  \* ticks since the start
  faults  \* what may still go wrong on the line, and what has gone wrong

vars == <<end, line, clock, faults>>

-----------------------------------------------------------------------------
(***************************************************************************)
(* Pumps, as far as they tell the far end of themselves (v21.rs whole).    *)
(***************************************************************************)
Pump(is, role) == [is |-> is, role |-> role, heard |-> 0]
NoPump == Pump("None", "Answer")

HeardEnough(p) == IF p.is = "V21" THEN CarrierTicks ELSE Usb1Ticks

\* DataPump::engaged; V.34 and V.90 are looked at no further.
PumpEngaged(p) == p.is \in {"V34", "V90"} \/ p.heard = HeardEnough(p)

PumpSays(p) ==
  CASE p.is = "V21" /\ p.role = "Answer" -> Steady("MarkA")
    [] p.is = "V21" /\ p.role = "Originate" /\ PumpEngaged(p) -> Steady("MarkO")
    [] p.is = "V22bis" /\ p.role = "Answer" -> Steady("USB1")
    [] p.is = "V22bis" /\ p.role = "Originate" /\ PumpEngaged(p) -> Steady("LSB")
    [] p.is \in {"V34", "V90"} -> Steady(p.is)
    [] OTHER -> Quiet

\* A carrier of V.21: what is sent over the calling or the answering channel.
OnChannel(s, role) ==
  s.is \in IF role = "Originate" THEN {"CM", "CJ", "MarkO"} ELSE {"JM", "MarkA"}

Awaited(p, s) ==
  CASE p.is = "V21" -> OnChannel(s, IF p.role = "Answer" THEN "Originate" ELSE "Answer")
    [] p.is = "V22bis" -> s.is = IF p.role = "Answer" THEN "LSB" ELSE "USB1"
    [] OTHER -> FALSE

PumpHears(p, s) ==
  IF p.is \notin {"V21", "V22bis"} \/ PumpEngaged(p) THEN p
  ELSE [p EXCEPT !.heard = IF Awaited(p, s) THEN @ + 1 ELSE 0]

-----------------------------------------------------------------------------
(***************************************************************************)
(* MenuLink: CM and JM over V.21.  Its demodulator gives bits once the     *)
(* carrier has lasted; a menu counts once it has come twice.               *)
(***************************************************************************)
NoMenu == {"none"}
MenuTicks == 2
Menu(is, modes) == InParts(is, MenuTicks, modes)
Cj == Steady("CJ")

Link == [carrier |-> 0, ear |-> Unheard, last |-> NoMenu, twice |-> FALSE,
         unsynced |-> 0]

Carrier(link) == link.carrier = CarrierTicks

\* MenuLink::hear, from the far end's channel.
Hear(link, s, role) ==
  LET there == OnChannel(s, role)
      carrier == CASE there /\ Carrier(link) -> CarrierTicks
                   [] there /\ ~Carrier(link) -> link.carrier + 1
                   [] ~there -> 0
      bits == carrier = CarrierTicks
      menu == bits /\ s.is \in {"CM", "JM"}
      whole == menu /\ Whole(link.ear, s)
      synced == menu /\ s.part = 1 /\ ~s.spoilt
  IN  [carrier |-> carrier,
       ear |-> IF bits THEN Heed(link.ear, s) ELSE Unheard,
       last |-> IF whole THEN s.what ELSE link.last,
       twice |-> whole /\ link.last = s.what,
       unsynced |-> CASE synced -> 0
                      [] bits /\ ~synced /\ link.unsynced < SigcTicks ->
                           link.unsynced + 1
                      [] OTHER -> link.unsynced]

HeardCj(link, s) == Carrier(link) /\ s.is = "CJ" /\ ~s.spoilt
PlainV21(link) == link.unsynced = SigcTicks

\* take_v21: V.21 goes on with what the demodulator has heard.
TakeV21(link, role) ==
  [Pump("V21", role) EXCEPT !.heard = link.carrier]

-----------------------------------------------------------------------------
(***************************************************************************)
(* An end is a record, with the fields of all its stages.                  *)
(***************************************************************************)
NewEnd(kind, stage, offer) ==
  [kind |-> kind, stage |-> stage, offer |-> offer,
   left |-> 0,             \* ticks until the stage ends
   sent |-> 0,             \* ticks sent, up to SilenceTicks
   bis |-> Answering, link |-> Link, tone |-> "ANSam",
   menu |-> NoMenu,        \* modes of the JM sent, or of the JM heard
   queue |-> <<>>,         \* the rest of the menu being sent
   heard |-> 0,            \* ticks of answer tone heard
   usb1 |-> 0, mark |-> 0, \* SigA: ticks of them heard
   pump |-> NoPump]        \* Chosen, or being tried, or for after the gap

Answer(offer) == NewEnd("Answer", "Silence", offer)
Call(offer) ==
  [NewEnd("Call", "Listening", offer) EXCEPT !.bis = Responding]

RoleOf(e) == IF e.kind = "Call" THEN "Originate" ELSE "Answer"
OwnModes(e) == Offered(e.offer, RoleOf(e))

Choose(e, pump) == [e EXCEPT !.stage = "Chosen", !.pump = pump]
GoOn(e, stage, ticks) == [e EXCEPT !.stage = stage, !.left = ticks]

\* Mutant: each end takes the best it offers.
ChooseOwn(e) == Choose(e, Pump(Chosen(OwnModes(e)), RoleOf(e)))

\* After the menus: V.34 and V.90 send the gap themselves.
ChooseCommon(e) ==
  LET pump == Pump(Chosen(e.menu), RoleOf(e))
  IN  IF "V34" \in e.menu THEN Choose(e, pump)
      ELSE [GoOn(e, "Gap", GapTicks) EXCEPT !.pump = pump]

\* A menu is sent over and over, whole.
MenuRest(e, menu) == IF e.queue = <<>> THEN menu ELSE e.queue

Passed(e) ==
  [e EXCEPT !.left = IF @ = 0 THEN 0 ELSE @ - 1,
            !.sent = IF @ = SilenceTicks THEN @ ELSE @ + 1]

-----------------------------------------------------------------------------
(***************************************************************************)
(* The answering end.                                                      *)
(***************************************************************************)
ToTone(e, tone) == [GoOn(e, "Tone", AnsamTicks) EXCEPT !.tone = tone]

\* Answer::advance.
Advance(e) ==
  CASE e.stage = "Silence" /\ e.sent >= BisSilenceTicks ->
         [e EXCEPT !.stage = "V8bis", !.bis = Answering]
    [] e.stage = "V8bis" /\ StartupOf(e.bis) = "V8" -> ToTone(e, "ANSam")
    [] e.stage = "V8bis" /\ StartupOf(e.bis) = "V25" -> ToTone(e, "ANS")
    [] e.stage = "V8bis" /\ StartupOf(e.bis) = "Caller" -> Call(e.offer)
    [] e.stage = "V8bis" /\ ~Engaged(e.bis) /\ e.sent >= SilenceTicks ->
         ToTone(e, "ANSam")
    [] e.stage = "Tone" /\ e.left = 0 -> GoOn(e, "Gap", GapTicks)
    [] e.stage = "Gap" /\ e.left = 0 /\ e.pump # NoPump -> Choose(e, e.pump)
    [] e.stage = "Gap" /\ e.left = 0 /\ e.pump = NoPump /\ e.offer.top = "V21" ->
         Choose(e, Pump("V21", "Answer"))
    [] e.stage = "Gap" /\ e.left = 0 /\ e.pump = NoPump /\ e.offer.top # "V21" ->
         [GoOn(e, "Trying", TaTicks) EXCEPT !.pump = Pump(Legacy(e.offer), "Answer")]
    [] e.stage = "Trying" /\ e.left = 0 /\ ~PumpEngaged(e.pump) ->
         Choose(e, Pump("V21", "Answer"))
    [] OTHER -> e

AnswerSays(e) ==
  CASE e.stage = "V8bis" -> Says(e.bis)
    [] e.stage = "Tone" -> Steady(e.tone)
    [] e.stage = "Jm" -> Head(MenuRest(e, Menu("JM", e.menu)))
    [] e.stage \in {"Trying", "Chosen"} -> PumpSays(e.pump)
    [] OTHER -> Quiet

AnswerSent(e) ==
  CASE e.stage = "V8bis" -> [Passed(e) EXCEPT !.bis = AnsweringSent(@)]
    [] e.stage = "Jm" -> [e EXCEPT !.queue = Tail(MenuRest(e, Menu("JM", e.menu)))]
    [] OTHER -> Passed(e)

\* CM heard twice is answered; a V.21 caller's mark is taken for what it is.
ListenForCm(e) ==
  CASE e.link.twice -> [e EXCEPT !.stage = "Jm",
                                 !.menu = Common(OwnModes(e), e.link.last)]
    [] ~e.link.twice /\ PlainV21(e.link) ->
         [GoOn(e, "Gap", GapTicks) EXCEPT !.pump = TakeV21(e.link, "Answer")]
    [] OTHER -> e

\* Mutant: only CJ ends JM.
ListenForCjOnly(e, s) == IF HeardCj(e.link, s) THEN ChooseCommon(e) ELSE e

\* Mutant: a CM that cannot be read is taken for its end.
ListenForCjHastily(e, s) ==
  IF HeardCj(e.link, s) \/ ~Carrier(e.link) \/ s.spoilt THEN ChooseCommon(e) ELSE e

\* CJ, or the end of CM in place of a lost CJ.
ListenForCj(e, s) ==
  IF HeardCj(e.link, s) \/ ~Carrier(e.link) THEN ChooseCommon(e) ELSE e

\* The legacy modulation being tried is kept once the caller answers it.
ListenForAnswer(e) ==
  CASE PumpEngaged(e.pump) -> Choose(e, e.pump)
    [] ~PumpEngaged(e.pump) /\ PlainV21(e.link) ->
         Choose(e, TakeV21(e.link, "Answer"))
    [] OTHER -> e

\* Answer::receive.
AnswerHears(e, s) ==
  LET linked == [e EXCEPT !.link = Hear(@, s, "Originate")]
  IN  CASE e.stage = "V8bis" ->
             [e EXCEPT !.bis = AnsweringHears(@, OwnModes(e), s)]
        [] e.stage \in {"Silence", "Tone"} -> ListenForCm(linked)
        [] e.stage = "Jm" -> ListenForCj(linked, s)
        [] e.stage = "Trying" ->
             ListenForAnswer([linked EXCEPT !.pump = PumpHears(@, s)])
        [] e.stage = "Chosen" -> [e EXCEPT !.pump = PumpHears(@, s)]
        [] OTHER -> e

-----------------------------------------------------------------------------
(***************************************************************************)
(* The calling end.                                                        *)
(***************************************************************************)
Cm(e) == Menu("CM", OwnModes(e))

\* The stage ends that Call::transmit looks for.
CallAdvance(e) ==
  CASE e.stage = "Te" /\ e.left = 0 -> GoOn(e, "Cm", 0)
    [] e.stage = "Cj" -> ChooseCommon(e)
    [] e.stage = "Gap" /\ e.left = 0 -> Choose(e, e.pump)
    [] OTHER -> e

\* JM has been heard, and the last CM is out.
CjDue(e) == e.stage = "Cm" /\ e.menu # NoMenu /\ e.queue = <<>>

CallSays(e) ==
  CASE e.stage = "Listening" -> Says(e.bis)
    [] CjDue(e) -> Cj
    [] e.stage = "Cm" /\ ~CjDue(e) -> Head(MenuRest(e, Cm(e)))
    [] e.stage = "Chosen" -> PumpSays(e.pump)
    [] OTHER -> Quiet

CallSent(e) ==
  CASE e.stage = "Listening" -> [e EXCEPT !.bis = RespondingSent(@)]
    [] CjDue(e) -> [e EXCEPT !.stage = "Cj"]
    [] e.stage = "Cm" /\ ~CjDue(e) -> [e EXCEPT !.queue = Tail(MenuRest(e, Cm(e)))]
    [] OTHER -> Passed(e)

\* SigA::hear: unscrambled ones of V.22, or the mark of V.21.
SigA(e, s) ==
  [e EXCEPT
     !.usb1 = IF s.is = "USB1" /\ e.offer.top # "V21" THEN @ + 1 ELSE 0,
     !.mark = IF s.is = "MarkA" THEN @ + 1 ELSE 0]

SigAHeard(e) == e.usb1 >= Usb1Ticks \/ e.mark >= MarkTicks

FollowSigA(e) ==
  Choose(e, IF e.usb1 >= Usb1Ticks
            THEN [Pump(Legacy(e.offer), "Originate") EXCEPT !.heard = Usb1Ticks]
            ELSE Pump("V21", "Originate"))

\* An answer tone: ANSam is answered with CM, and the end of ANS waited for.
ListenForTone(e, s) ==
  LET heard == IF s.is = e.tone /\ s.is \in {"ANS", "ANSam"} THEN e.heard + 1
               ELSE IF s.is \in {"ANS", "ANSam"} THEN 1 ELSE 0
      now == [e EXCEPT !.heard = IF heard > ToneTicks THEN ToneTicks ELSE heard,
                       !.tone = IF s.is \in {"ANS", "ANSam"} THEN s.is ELSE @]
  IN  CASE heard >= ToneTicks /\ s.is = "ANSam" -> GoOn(now, "Te", TeTicks)
        [] e.heard = ToneTicks /\ e.tone = "ANS" /\ heard = 0 -> GoOn(now, "Legacy", 0)
        [] OTHER -> now

\* Call::receive.
CallHears(e, s) ==
  LET linked == [e EXCEPT !.link = Hear(@, s, "Answer")]
      a == SigA(e, s)
      waiting == e.stage \in {"Te", "Legacy"} \/ (e.stage = "Cm" /\ e.menu = NoMenu)
  IN  CASE waiting /\ SigAHeard(a) -> FollowSigA(a)
        [] e.stage = "Listening" ->
             ListenForTone([e EXCEPT !.bis = RespondingHears(@, OwnModes(e), s)], s)
        [] e.stage = "Cm" /\ e.menu = NoMenu /\ ~SigAHeard(a) ->
             LET l == [a EXCEPT !.link = linked.link]
             IN  IF l.link.twice
                 THEN [l EXCEPT !.menu = Common(OwnModes(e), l.link.last)] ELSE l
        [] e.stage \in {"Te", "Legacy"} /\ ~SigAHeard(a) -> a
        [] e.stage = "Chosen" -> [e EXCEPT !.pump = PumpHears(@, s)]
        [] OTHER -> e

-----------------------------------------------------------------------------
(***************************************************************************)
(* Far ends of other makes: a caller of V.21 that sends its mark during    *)
(* the answer tone, an answering modem of V.25 alone, and V.8 bis stations *)
(* that escape from or choose in a way this program never does.            *)
(***************************************************************************)
MarkCaller == NewEnd("MarkCaller", "Listening", [top |-> "V21", fallback |-> FALSE])

PlainAnswer(is) ==
  [NewEnd("PlainAnswer", "Silence", [top |-> is, fallback |-> FALSE])
     EXCEPT !.left = SilenceTicks, !.tone = "ANS", !.pump = Pump(is, "Answer")]

PlainCaller(is) ==
  Choose(NewEnd("PlainCaller", "Chosen", [top |-> is, fallback |-> FALSE]),
         Pump(is, "Originate"))

Escaper(kind, offer) == [NewEnd(kind, "Hush", offer) EXCEPT !.bis = Responding]
Chooser == Escaper("Chooser", [top |-> "V22bis", fallback |-> FALSE])

Escapers == {"EscaperCl", "EscaperClr", "EscaperNak"}
Foreign == {"MarkCaller", "PlainAnswer", "PlainCaller", "Chooser"} \cup Escapers

\* What it does next, once it has sent what it had to.
ForeignAdvance(e) ==
  LET said == e.bis.queue = <<>>
  IN  CASE e.kind = "PlainAnswer" /\ e.left = 0 /\ e.stage = "Silence" ->
             GoOn(e, "Tone", AnsamTicks)
        [] e.kind = "PlainAnswer" /\ e.left = 0 /\ e.stage = "Tone" ->
             GoOn(e, "Gap", GapTicks)
        [] e.kind = "PlainAnswer" /\ e.left = 0 /\ e.stage = "Gap" -> Choose(e, e.pump)
        [] e.kind \in {"EscaperCl", "EscaperClr"} /\ e.stage = "Leaving" /\ said ->
             ToTone(Answer(e.offer), "ANSam")
        [] e.kind = "EscaperNak" /\ e.stage = "Leaving" /\ said -> Call(e.offer)
        [] OTHER -> e

ForeignSays(e) ==
  CASE e.stage = "Chosen" -> PumpSays(e.pump)
    [] e.stage = "Tone" -> Steady(e.tone)
    [] OTHER -> Says(e.bis)

ForeignSent(e) == [Passed(e) EXCEPT !.bis = SentTick(@)]

ForeignHears(e, s) ==
  LET heed == [e EXCEPT !.bis.ear = Heed(@, s)]
      say(stage, sounds) == [heed EXCEPT !.stage = stage, !.bis.queue = sounds]
      hears(is) == Hears(e.bis, s, is)
      list == BisMessage(IF e.kind = "EscaperClr" THEN "CLR" ELSE "CL", {"data", "V22bis"})
  IN  CASE e.stage = "Chosen" -> [e EXCEPT !.pump = PumpHears(@, s)]
        [] e.kind = "MarkCaller" /\ e.stage = "Listening" ->
             LET h == [e EXCEPT !.heard = IF s.is = "ANSam" THEN @ + 1 ELSE 0]
             IN  IF h.heard < ToneTicks THEN h
                 ELSE Choose(h, [Pump("V21", "Originate") EXCEPT !.heard = CarrierTicks])
        [] e.kind \in Escapers /\ e.stage = "Hush" /\ hears("CRe") ->
             say("AwaitMs", Signal("ESr") \o list)
        [] e.stage = "AwaitMs" /\ hears("MS") ->
             say("Leaving", BisMessage(IF e.kind = "EscaperNak" THEN "NAK1" ELSE "ACK1", {}))
        [] e.kind = "Chooser" /\ e.stage = "Hush" /\ hears("CRe") ->
             say("AwaitCl", Signal("CRd"))
        [] e.kind = "Chooser" /\ e.stage = "AwaitCl" /\ hears("CL") ->
             say("AwaitAck", BisMessage("MS", {"data", "ack", "V22bis"}))
        [] e.kind = "Chooser" /\ e.stage = "AwaitAck" /\ hears("ACK1") ->
             Choose(heed, Pump("V22bis", "Originate"))
        [] OTHER -> heed

-----------------------------------------------------------------------------
(***************************************************************************)
(* The call.                                                               *)
(***************************************************************************)
Ready(e) ==
  CASE e.kind = "Answer" -> Advance(e)
    [] e.kind = "Call" -> CallAdvance(e)
    [] OTHER -> ForeignAdvance(e)

SaysNow(e) ==
  CASE e.kind = "Answer" -> AnswerSays(e)
    [] e.kind = "Call" -> CallSays(e)
    [] OTHER -> ForeignSays(e)

AfterSaying(e) ==
  CASE e.kind = "Answer" -> AnswerSent(e)
    [] e.kind = "Call" -> CallSent(e)
    [] OTHER -> ForeignSent(e)

HearsNow(e, s) ==
  CASE e.kind = "Answer" -> AnswerHears(e, s)
    [] e.kind = "Call" -> CallHears(e, s)
    [] OTHER -> ForeignHears(e, s)

\* What may go wrong with a tick of sound.
Spoil(s) == [s EXCEPT !.spoilt = TRUE]

Init ==
  \E call \in Calls :
    /\ end = [caller |-> call.caller, answerer |-> call.answerer]
    /\ line = [e \in Ends |-> [i \in 1 .. call.delay |-> Quiet]]
    /\ clock = 0
    /\ faults = call.faults

Settled == \A e \in Ends : end[e].stage = "Chosen" /\ PumpEngaged(end[e].pump)

\* A tick: both ends send, and then both hear what comes out of the lines,
\* which damage makes of what went in.
Tick(damage(_, _)) ==
  LET ready == [e \in Ends |-> Ready(end[e])]
      path == [e \in Ends |-> Append(line[e], SaysNow(ready[e]))]
  IN  /\ ~Settled /\ clock < LastTick
      /\ clock' = clock + 1
      /\ end' = [e \in Ends |->
                   HearsNow(AfterSaying(ready[e]),
                            damage(Other(e), Head(path[Other(e)])))]
      /\ line' = [e \in Ends |-> Tail(path[e])]

CleanTick == Tick(LAMBDA e, s : s) /\ UNCHANGED faults

\* A packet or two lost: a message is spoilt, a carrier lives on.
SpoiltTick(from) ==
  /\ faults.spoilt > 0
  /\ Tick(LAMBDA e, s : IF e = from THEN Spoil(s) ELSE s)
  /\ faults' = [faults EXCEPT !.spoilt = @ - 1, !.hurt = TRUE]

\* More of them lost: a carrier is heard to end.
LostTick(from) ==
  /\ faults.lost > 0
  /\ Tick(LAMBDA e, s : IF e = from THEN Quiet ELSE s)
  /\ faults' = [faults EXCEPT !.lost = @ - 1, !.gone = TRUE,
                              !.hurt = TRUE]

Next == CleanTick \/ \E e \in Ends : SpoiltTick(e) \/ LostTick(e)

Spec == Init /\ [][Next]_vars

-----------------------------------------------------------------------------
(***************************************************************************)
(* Properties.                                                             *)
(***************************************************************************)
TypeOK ==
  /\ \A e \in Ends :
       /\ end[e].kind \in {"Answer", "Call"} \cup Foreign
       /\ end[e].left \in 0 .. AnsamTicks + SilenceTicks
       /\ end[e].menu = NoMenu \/ end[e].menu \in Modes
       /\ end[e].link.carrier \in 0 .. CarrierTicks
       /\ end[e].link.unsynced \in 0 .. SigcTicks
       /\ Len(end[e].bis.queue) <= 2 * MessageTicks + 2 * SignalTicks
  /\ Len(line["caller"]) = Len(line["answerer"])
  /\ clock \in 0 .. LastTick
  /\ faults.spoilt \in Nat /\ faults.lost \in Nat

Has(e) == end[e].stage = "Chosen"

\* Two ends that have both chosen have chosen the same, and one of them calls.
Agreement ==
  (\A e \in Ends : Has(e)) =>
    /\ end["caller"].pump.is = end["answerer"].pump.is
    /\ end["caller"].pump.role # end["answerer"].pump.role

\* An end that has gone on from the menus has left nobody behind: the other has
\* the menu too, unless its carrier was heard to end when it had not.
NobodyLeftBehind ==
  \A e \in Ends :
    Has(e) /\ end[e].menu # NoMenu /\ ~faults.gone
      => /\ end[Other(e)].menu # NoMenu
         /\ Chosen(end[Other(e)].menu) = Chosen(end[e].menu)

\* Unless a carrier was lost, both ends have a modulation in time, long before
\* the modem gives up (S7).
InTime == clock = LastTick => Settled \/ faults.gone
\* What two offers have in common, said without menus: all below the top but
\* V.34, which asks for itself, if there is fallback.
Speaks(offer, m) ==
  CASE m = "V90" -> offer.top = "V90"
    [] m = "V34" -> offer.top \in {"V90", "V34"}
    [] m = "V22bis" -> offer.top = m \/ (offer.fallback /\ offer.top # "V21")
    [] m = "V21" -> offer.top = m \/ offer.fallback

\* On a sound line two ends of this program get no less than they both have.
Order == [V90 |-> 4, V34 |-> 3, V22bis |-> 2, V21 |-> 1]

BestInCommon ==
  Settled /\ ~faults.hurt /\ end["caller"].kind = "Call" /\ end["answerer"].kind = "Answer"
    => \A m \in Modulations :
         Speaks(end["caller"].offer, m) /\ Speaks(end["answerer"].offer, m)
           => Order[m] <= Order[end["caller"].pump.is]

\* The ends come to one modulation, and to the best there is.
CommonMode == TypeOK /\ Agreement /\ BestInCommon
=============================================================================
