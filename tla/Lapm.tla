-------------------------------- MODULE Lapm --------------------------------
(***************************************************************************)
(* One end of a V.42 LAPM connection, softmodem-link/src/lapm.rs, as       *)
(* operators on the record that holds the end's state.  A handler of the   *)
(* code calls others in sequence and returns early, so each is a function  *)
(* from the state before it to the state after it; the modules LapmOpen    *)
(* and LapmPair make actions of them.                                      *)
(*                                                                         *)
(* A timer is its being set or not: "late" in the modules that use this    *)
(* one says that its instant has passed when a handler looks at the clock. *)
(* A frame is a record; the C/R bit, which depends on the sender's role,   *)
(* is the fact it encodes: whether the frame is a command.                 *)
(***************************************************************************)
EXTENDS Integers, Sequences

CONSTANTS
  Modulus,      \* sequence numbers run from 0 to Modulus - 1 (the code: 128)
  DefaultK,     \* the window this modem proposes (the code: 15)
  MaxK,         \* the largest window it takes from a peer (the code: 127)
  DefaultN401,  \* units of data an I frame carries by default (128 octets)
  MaxN401,      \* the most it takes from a peer (2048 octets)
  N400,         \* retries before giving up (10)
  Data          \* the units of data the computers send

ASSUME LapmAssumption ==
  /\ Modulus \in Nat /\ DefaultK \in Nat /\ MaxK \in Nat
  /\ DefaultN401 \in Nat /\ MaxN401 \in Nat
  /\ 1 <= DefaultK /\ DefaultK <= MaxK /\ MaxK < Modulus
  /\ 1 <= DefaultN401 /\ DefaultN401 <= MaxN401
  /\ N400 \in Nat \ {0}

Numbers == 0 .. Modulus - 1

(***************************************************************************)
(* Frames.  The directions of V.42 bis that an XID frame asks for or       *)
(* grants are seen from the end that started the negotiation; "asks" is    *)
(* the presence of P0, "valid" that P1 and P2 are in their range.          *)
(***************************************************************************)
Ways == SUBSET {"fromInitiator", "toInitiator"}
Compression == [asks : BOOLEAN, ways : Ways, valid : BOOLEAN]
NoCompression == [asks |-> FALSE, ways |-> {}, valid |-> TRUE]

Xid == [kTx : Nat, kRx : Nat, n401Tx : Nat, n401Rx : Nat, comp : Compression]

\* What an end runs or offers, seen from that end.
Directions == SUBSET {"transmit", "receive"}

PlainKinds == {"SABME", "UA", "DM", "DISC", "FRMR", "TEST", "UNDEFINED"}
SKinds == {"RR", "RNR", "REJ", "SREJ"}

PlainFrame == [kind : PlainKinds, command : BOOLEAN, pf : BOOLEAN]
XidFrame == [kind : {"XID"}, command : BOOLEAN, pf : BOOLEAN, xid : Xid]
UiFrame == [kind : {"UI"}, command : BOOLEAN, pf : BOOLEAN,
            signal : {"BRK", "BRKACK", "other"}, bit : BOOLEAN]
SFrame == [kind : SKinds, command : BOOLEAN, pf : BOOLEAN, nr : Numbers]
IFrame == [kind : {"I"}, command : BOOLEAN, pf : BOOLEAN,
           ns : Numbers, nr : Numbers, info : Seq(Data)]
Frame == PlainFrame \cup XidFrame \cup UiFrame \cup SFrame \cup IFrame

Plain(kind, command, pf) == [kind |-> kind, command |-> command, pf |-> pf]
XidOf(command, xid) ==
  [kind |-> "XID", command |-> command, pf |-> FALSE, xid |-> xid]
Supervisory(s, command, kind, pf) ==
  [kind |-> kind, command |-> command, pf |-> pf, nr |-> s.vr]

(***************************************************************************)
(* The state of an end.                                                    *)
(***************************************************************************)
States == {"Waiting", "Negotiating", "Establishing", "Connected", "Released"}

\* A frame that goes before all others, and whether sending it starts T401.
Urgent == [frame : Frame, timed : BOOLEAN]

EndState ==
  [state : States, timer : BOOLEAN, retries : Nat,
   n401 : Nat, k : Nat,
   vs : Numbers, va : Numbers, vr : Numbers, rb : BOOLEAN,
   sent : Seq(Seq(Data)), queue : Seq(Data), received : Seq(Data),
   peerBusy : BOOLEAN, reject : BOOLEAN, recovery : BOOLEAN,
   urgent : Seq(Urgent),
   owedReject : {"none", "plain", "final"},
   owedFinal : BOOLEAN, owedPoll : BOOLEAN, owedAck : BOOLEAN,
   offer : Directions, compression : Directions]

Fresh(state, offer) ==
  [state |-> state, timer |-> FALSE, retries |-> 0,
   n401 |-> DefaultN401, k |-> DefaultK,
   vs |-> 0, va |-> 0, vr |-> 0, rb |-> FALSE,
   sent |-> <<>>, queue |-> <<>>, received |-> <<>>,
   peerBusy |-> FALSE, reject |-> FALSE, recovery |-> FALSE,
   urgent |-> <<>>, owedReject |-> "none",
   owedFinal |-> FALSE, owedPoll |-> FALSE, owedAck |-> FALSE,
   offer |-> offer, compression |-> {}]

Queue(s, frame, timed) ==
  [s EXCEPT !.urgent = Append(@, [frame |-> frame, timed |-> timed])]

Respond(s, kind, pf) == Queue(s, Plain(kind, FALSE, pf), FALSE)

Release(s) ==
  [s EXCEPT !.state = "Released", !.timer = FALSE, !.queue = <<>>,
            !.sent = <<>>]

Connect(s) ==
  [s EXCEPT !.state = "Connected", !.timer = FALSE, !.retries = 0,
            !.vs = 0, !.va = 0, !.vr = 0, !.sent = <<>>,
            !.peerBusy = FALSE, !.reject = FALSE, !.recovery = FALSE]

\* P0 to P2 as the end that negotiates sends them.
Proposal(offer) ==
  [asks |-> offer # {}, valid |-> TRUE,
   ways |-> {w \in {"fromInitiator", "toInitiator"} :
               IF w = "fromInitiator" THEN "transmit" \in offer
                                      ELSE "receive" \in offer}]

SendXidCommand(s) ==
  Queue(s, XidOf(TRUE, [kTx |-> DefaultK, kRx |-> DefaultK,
                        n401Tx |-> DefaultN401, n401Rx |-> DefaultN401,
                        comp |-> Proposal(s.offer)]), TRUE)

SendSabme(s) == Queue(s, Plain("SABME", TRUE, TRUE), TRUE)

Originate(offer) == SendXidCommand(Fresh("Negotiating", offer))
Answer(offer) == Fresh("Waiting", offer)

SendData(s, d) ==
  IF s.state = "Released" THEN s ELSE [s EXCEPT !.queue = Append(@, d)]

(***************************************************************************)
(* T401, and the deadline of an answerer that waits.                       *)
(***************************************************************************)
CanBeLate(s) == s.state = "Waiting" \/ s.timer

Retry(s) ==
  LET t == [s EXCEPT !.timer = FALSE, !.retries = @ + 1]
  IN  IF t.retries >= N400 THEN Release(t)
      ELSE IF t.state = "Negotiating" THEN SendXidCommand(t)
      ELSE SendSabme(t)

StartPolling(s) ==
  LET t == [s EXCEPT !.timer = FALSE, !.recovery = TRUE,
                     !.retries = IF s.recovery THEN @ + 1 ELSE 0]
  IN  IF t.retries >= N400 THEN Release(t) ELSE [t EXCEPT !.owedPoll = TRUE]

\* What every handler does first, once the instant has passed.
Expire(s) ==
  IF s.state = "Waiting" THEN Release(s)
  ELSE IF s.state \in {"Negotiating", "Establishing"} THEN Retry(s)
  ELSE IF s.state = "Connected" THEN StartPolling(s)
  ELSE [s EXCEPT !.timer = FALSE]

(***************************************************************************)
(* XID, SABME and the other unnumbered frames.                             *)
(***************************************************************************)

Clamp(n, high) == IF n < 1 THEN 1 ELSE IF n > high THEN high ELSE n

\* The ways open to an end that did not start the negotiation.
Grantable(offer) ==
  {w \in {"fromInitiator", "toInitiator"} :
     IF w = "fromInitiator" THEN "receive" \in offer ELSE "transmit" \in offer}

\* The ways of a reply, seen from the end that asked and from the end asked.
AskerRuns(ways) ==
  {d \in {"transmit", "receive"} :
     IF d = "transmit" THEN "fromInitiator" \in ways ELSE "toInitiator" \in ways}
\* Mutant: the end asked reads the ways as the end that asked does.
AskedRunsAsAsker(ways) == AskerRuns(ways)

AskedRuns(ways) ==
  {d \in {"transmit", "receive"} :
     IF d = "transmit" THEN "toInitiator" \in ways ELSE "fromInitiator" \in ways}

\* XID commands are answered in every state but Released.
Agree(s, theirs) ==
  LET asked == s.state # "Connected" /\ theirs.comp.asks
      ways == theirs.comp.ways \cap Grantable(s.offer)
      t == [s EXCEPT !.compression = IF asked THEN AskedRuns(ways) ELSE @,
                     !.n401 = Clamp(theirs.n401Rx, MaxN401),
                     !.k = Clamp(theirs.kRx, MaxK)]
      ours == [kTx |-> t.k, kRx |-> Clamp(theirs.kTx, MaxK),
               n401Tx |-> t.n401, n401Rx |-> Clamp(theirs.n401Tx, MaxN401),
               comp |-> IF asked
                        THEN [asks |-> TRUE, ways |-> ways, valid |-> TRUE]
                        ELSE NoCompression]
  IN  IF asked /\ ~theirs.comp.valid
      THEN Release(s)
      ELSE Queue(t, XidOf(FALSE, ours), FALSE)

\* The answer to this end's XID command.
Conclude(s, theirs) ==
  LET granted == s.offer # {} /\ theirs.comp.asks /\ theirs.comp.ways # {}
      wrong == granted /\ \/ ~(theirs.comp.ways \subseteq Proposal(s.offer).ways)
                          \/ ~theirs.comp.valid
  IN  IF wrong THEN Release(s)
      ELSE SendSabme(
             [s EXCEPT !.compression = IF granted THEN AskerRuns(theirs.comp.ways)
                                                  ELSE {},
                       !.n401 = Clamp(theirs.n401Rx, MaxN401),
                       !.k = Clamp(theirs.kRx, MaxK),
                       !.state = "Establishing", !.retries = 0, !.timer = FALSE])

\* The link has carried nothing yet.
Untouched(s) == s.vs = 0 /\ s.va = 0 /\ s.vr = 0 /\ s.sent = <<>>

BreakSignal(s, f) ==
  LET rb == IF f.bit = s.rb THEN ~s.rb ELSE s.rb
  IN  IF f.signal # "BRK" THEN s
      ELSE Queue([s EXCEPT !.rb = rb],
                 [kind |-> "UI", command |-> FALSE, pf |-> f.pf,
                  signal |-> "BRKACK", bit |-> rb], FALSE)

UnnumberedCommand(s, f) ==
  CASE f.kind = "XID" -> Agree(s, f.xid)
    [] f.kind = "SABME" /\ s.state = "Waiting" ->
         Respond(Connect(s), "UA", f.pf)
    [] f.kind = "SABME" /\ s.state = "Connected" ->
         IF Untouched(s) THEN Respond(s, "UA", f.pf) ELSE Release(s)
    [] f.kind = "DISC" /\ s.state = "Connected" ->
         Release(Respond(s, "UA", f.pf))
    [] f.kind = "DISC" /\ s.state # "Connected" -> Respond(s, "DM", f.pf)
    [] f.kind = "UI" /\ s.state = "Connected" -> BreakSignal(s, f)
    [] OTHER -> s

UnnumberedResponse(s, f) ==
  CASE f.kind = "XID" /\ s.state = "Negotiating" -> Conclude(s, f.xid)
    [] f.kind = "UA" /\ s.state = "Establishing" /\ f.pf -> Connect(s)
    [] f.kind = "DM" /\ s.state = "Establishing" /\ f.pf -> Release(s)
    [] f.kind = "DM" /\ s.state = "Connected" /\ (~f.pf \/ s.recovery) ->
         Release(s)
    [] f.kind = "FRMR" /\ s.state = "Connected" -> Release(s)
    [] OTHER -> s

(***************************************************************************)
(* I and S frames.                                                         *)
(***************************************************************************)
\* How far number n is past number m, which is the code's wrapping_sub and
\* remainder: Modulus divides the width of a sequence number's u8.
Past(n, m) == IF n >= m THEN n - m ELSE n - m + Modulus

After(n) == (n + 1) % Modulus

\* Mutant: a number that acknowledges all that was sent is refused.
ValidPart(s, nr) == Past(nr, s.va) < Len(s.sent) \/ nr = s.va

\* Whether N(R) acknowledges frames this end has sent.
Valid(s, nr) == Past(nr, s.va) <= Len(s.sent)

\* Mutant: V(S) is left behind N(R).
AcknowledgeBehind(s, nr) ==
  LET acked == Past(nr, s.va)
  IN  [s EXCEPT !.sent = SubSeq(@, acked + 1, Len(@)), !.va = nr,
                !.timer = IF acked > 0 /\ ~s.recovery THEN s.vs # nr ELSE @]

\* Mutant: an acknowledgement stops the timer of a poll.
AcknowledgeStopsPoll(s, nr) ==
  LET acked == Past(nr, s.va)
      vs == IF Past(s.vs, s.va) < acked THEN nr ELSE s.vs
  IN  [s EXCEPT !.sent = SubSeq(@, acked + 1, Len(@)),
                !.va = nr, !.vs = vs,
                !.timer = IF acked > 0 THEN vs # nr ELSE @]

\* Mutant: an acknowledgement always stops the timer.
AcknowledgeStops(s, nr) ==
  LET acked == Past(nr, s.va)
      vs == IF Past(s.vs, s.va) < acked THEN nr ELSE s.vs
  IN  [s EXCEPT !.sent = SubSeq(@, acked + 1, Len(@)),
                !.va = nr, !.vs = vs,
                !.timer = IF acked > 0 /\ ~s.recovery THEN FALSE ELSE @]

\* Mutant: one frame too many is dropped.
AcknowledgeDropsMore(s, nr) ==
  LET acked == Past(nr, s.va)
      vs == IF Past(s.vs, s.va) < acked THEN nr ELSE s.vs
  IN  [s EXCEPT !.sent = SubSeq(@, acked + 2, Len(@)),
                !.va = nr, !.vs = vs,
                !.timer = IF acked > 0 /\ ~s.recovery THEN vs # nr ELSE @]

\* V(A) moves to N(R), and V(S) with it when the peer has more than this
\* end knew to be in flight.
Acknowledge(s, nr) ==
  LET acked == Past(nr, s.va)
      vs == IF Past(s.vs, s.va) < acked THEN nr ELSE s.vs
  IN  [s EXCEPT !.sent = SubSeq(@, acked + 1, Len(@)),
                !.va = nr, !.vs = vs,
                !.timer = IF acked > 0 /\ ~s.recovery THEN vs # nr ELSE @]

\* Mutant: after a REJ, any frame will do.
InformationAny(s, f) ==
  LET t == Acknowledge(s, f.nr)
  IN  IF ~Valid(s, f.nr) THEN Release(s)
      ELSE IF f.ns = t.vr \/ t.reject THEN
        [t EXCEPT !.received = @ \o f.info, !.vr = After(@), !.reject = FALSE,
                  !.owedFinal = @ \/ f.pf, !.owedAck = @ \/ ~f.pf]
      ELSE [t EXCEPT !.reject = TRUE,
                     !.owedReject = IF f.pf THEN "final" ELSE "plain"]

Information(s, f) ==
  LET t == Acknowledge(s, f.nr)
  IN  IF ~Valid(s, f.nr) THEN Release(s)
      ELSE IF f.ns = t.vr THEN
        [t EXCEPT !.received = @ \o f.info, !.vr = After(@), !.reject = FALSE,
                  !.owedFinal = @ \/ f.pf, !.owedAck = @ \/ ~f.pf]
      ELSE IF ~t.reject THEN
        [t EXCEPT !.reject = TRUE,
                  !.owedReject = IF f.pf THEN "final" ELSE "plain"]
      ELSE [t EXCEPT !.owedFinal = @ \/ f.pf]

\* Mutant: V(S) does not go back.
EndRecoveryAhead(s, f) ==
  [Acknowledge(s, f.nr) EXCEPT !.recovery = FALSE,
     !.peerBusy = (f.kind = "RNR"), !.timer = (f.kind = "RNR")]

\* The answer to a poll, which ends timer recovery.
EndRecovery(s, f) ==
  LET t == Acknowledge(s, f.nr)
  IN  [t EXCEPT !.recovery = FALSE, !.vs = f.nr,
                !.peerBusy = (f.kind = "RNR"), !.timer = (f.kind = "RNR")]

SupervisoryIn(s, f) ==
  LET a == Acknowledge(s, f.nr)
      t == [a EXCEPT !.owedFinal = @ \/ (f.command /\ f.pf)]
  IN  IF f.kind = "SREJ" \/ ~Valid(s, f.nr) THEN Release(s)
      ELSE IF ~f.command /\ f.pf /\ s.recovery THEN EndRecovery(s, f)
      ELSE IF f.kind = "RNR" THEN
        [t EXCEPT !.peerBusy = TRUE, !.timer = @ \/ ~t.recovery]
      ELSE IF f.kind = "REJ" /\ ~t.recovery THEN
        [t EXCEPT !.peerBusy = FALSE, !.vs = f.nr, !.timer = FALSE]
      ELSE [t EXCEPT !.peerBusy = FALSE]

\* Mutant: numbered frames are taken in every state.
NumberedAlways(s, f) ==
  LET t == IF s.state = "Establishing" THEN Connect(s) ELSE s
  IN  IF f.kind # "I" THEN SupervisoryIn(t, f)
      ELSE IF f.command THEN Information(t, f)
      ELSE t

\* An I or S frame while SABME is unanswered: the UA was lost.
Numbered(s, f) ==
  LET t == IF s.state = "Establishing" THEN Connect(s) ELSE s
  IN  IF t.state # "Connected" THEN t
      ELSE IF f.kind # "I" THEN SupervisoryIn(t, f)
      ELSE IF f.command THEN Information(t, f)
      ELSE t

\* A frame that passed its check sequence.
Receive(s, f) ==
  IF f.kind = "UNDEFINED" THEN
    IF s.state = "Connected" THEN Release(s) ELSE s
  ELSE IF f.kind \in SKinds \cup {"I"} THEN Numbered(s, f)
  ELSE IF s.state = "Released" THEN s
  ELSE IF f.command THEN UnnumberedCommand(s, f)
  ELSE UnnumberedResponse(s, f)

(***************************************************************************)
(* The next frame to send, in the order the code looks for one.            *)
(***************************************************************************)
InFlight(s) == Past(s.vs, s.va)

\* An I frame sent before and called for again, or one made of the data
\* that waits, if the window has room for it.
CanResend(s) == ~s.peerBusy /\ ~s.recovery /\ InFlight(s) < Len(s.sent)
CanSendNew(s) ==
  /\ ~s.peerBusy /\ ~s.recovery /\ ~(InFlight(s) < Len(s.sent))
  /\ Len(s.sent) < s.k /\ s.queue # <<>>

Has(s) ==
  IF s.urgent # <<>> THEN "urgent"
  ELSE IF s.state # "Connected" THEN "nothing"
  ELSE IF s.owedReject # "none" THEN "reject"
  ELSE IF s.owedFinal THEN "final"
  ELSE IF s.owedPoll THEN "poll"
  ELSE IF CanResend(s) \/ CanSendNew(s) THEN "data"
  ELSE IF s.owedAck THEN "ack"
  ELSE "nothing"

\* Mutant: one unit too many leaves the queue.
CutMore(s) ==
  LET n == IF Len(s.queue) < s.n401 THEN Len(s.queue) ELSE s.n401
  IN  IF CanResend(s) THEN s
      ELSE [s EXCEPT !.sent = Append(@, SubSeq(s.queue, 1, n)),
                     !.queue = SubSeq(@, n + 2, Len(@))]

\* The state with the frame at V(S) in "sent".
Cut(s) ==
  LET n == IF Len(s.queue) < s.n401 THEN Len(s.queue) ELSE s.n401
  IN  IF CanResend(s) THEN s
      ELSE [s EXCEPT !.sent = Append(@, SubSeq(s.queue, 1, n)),
                     !.queue = SubSeq(@, n + 1, Len(@))]

NextFrame(s) ==
  CASE Has(s) = "urgent" -> Head(s.urgent).frame
    [] Has(s) = "reject" -> Supervisory(s, FALSE, "REJ", s.owedReject = "final")
    [] Has(s) = "final" -> Supervisory(s, FALSE, "RR", TRUE)
    [] Has(s) = "poll" -> Supervisory(s, TRUE, "RR", TRUE)
    [] Has(s) = "data" -> [kind |-> "I", command |-> TRUE, pf |-> FALSE,
                           ns |-> s.vs, nr |-> s.vr,
                           info |-> Cut(s).sent[InFlight(s) + 1]]
    [] Has(s) = "ack" -> Supervisory(s, FALSE, "RR", FALSE)

AfterNextFrame(s) ==
  CASE Has(s) = "urgent" ->
         [s EXCEPT !.urgent = Tail(@), !.timer = @ \/ Head(s.urgent).timed]
    [] Has(s) = "reject" ->
         [s EXCEPT !.owedReject = "none", !.owedAck = FALSE,
                   !.owedFinal = @ /\ s.owedReject # "final"]
    [] Has(s) = "final" -> [s EXCEPT !.owedFinal = FALSE, !.owedAck = FALSE]
    [] Has(s) = "poll" ->
         [s EXCEPT !.owedPoll = FALSE, !.owedAck = FALSE, !.timer = TRUE]
    [] Has(s) = "data" ->
         [Cut(s) EXCEPT !.vs = After(@), !.owedAck = FALSE, !.timer = TRUE]
    [] Has(s) = "ack" -> [s EXCEPT !.owedAck = FALSE]
    [] Has(s) = "nothing" -> s

=============================================================================
