------------------------------- MODULE V8bis -------------------------------
(***************************************************************************)
(* V.8 bis, softmodem-dsp/src/v8bis.rs: the answering station's CRe and    *)
(* what the calling station makes of it.  A station is a record; it is     *)
(* asked each tick what it says, and told what it hears.                   *)
(***************************************************************************)
EXTENDS Negotiation

CONSTANTS
  SignalTicks,       \* ticks of CRe, CRd or ESr
  MessageTicks,      \* ticks of CL, CLR or MS
  ShortTicks,        \* ticks of ACK(1) or a NAK
  TransactionTicks   \* TRANSACTION_SAMPLES

ASSUME V8bisAssumption ==
  {SignalTicks, MessageTicks, ShortTicks, TransactionTicks} \subseteq Nat \ {0, 1}

Naks == {"NAK1", "NAK3"}
BisMessages == {"CL", "CLR", "MS", "ACK1"} \cup Naks

Signal(is) == InParts(is, SignalTicks, {})

\* A message's parameters: "data" with its modulations, "v8", "shortV8" and "ack".
BisMessage(is, what) ==
  InParts(is, IF is \in {"CL", "CLR", "MS"} THEN MessageTicks ELSE ShortTicks, what)

\* data_message: V.8 bis knows neither V.34 nor V.90.
DataMessage(is, v8, modes) ==
  BisMessage(is, {"data", "ack"} \cup (IF v8 THEN {"v8"} ELSE {})
                   \cup (modes \cap {"V22bis", "V21"}))

Station(stage, queue) ==
  [stage |-> stage, startup |-> "None", queue |-> queue, since |-> 0,
   ear |-> Unheard]

Answering == Station("Cre", Signal("CRe"))
Responding == Station("Idle", <<>>)

\* Enter a stage, with messages to send.
Enter(st, stage, messages) ==
  [st EXCEPT !.stage = stage, !.queue = @ \o messages, !.since = 0]

EndWith(st, startup, messages) ==
  [Enter(st, "Ending", messages) EXCEPT !.startup = startup]

\* Answering::engaged and ::startup.
Engaged(a) == a.stage \notin {"Cre", "Awaiting"}
StartupOf(a) ==
  IF a.stage = "Ending" /\ a.queue = <<>> THEN a.startup ELSE "None"

-----------------------------------------------------------------------------
(***************************************************************************)
(* Sending, for a tick.                                                    *)
(***************************************************************************)
Says(st) == IF st.queue = <<>> THEN Quiet ELSE Head(st.queue)

Waiting(st) == st.stage \in {"Escaped", "SentCl", "SentMs", "AwaitingCl",
                          "SentChoice"}

\* A tick has been sent.
SentTick(st) ==
  [st EXCEPT !.queue = IF @ = <<>> THEN <<>> ELSE Tail(@),
             !.since = IF @ > TransactionTicks THEN @ ELSE @ + 1]

\* Answering::transmit: after TransactionTicks of waiting comes V.8.
AnsweringSent(a) ==
  LET said == SentTick(a)
  IN  CASE a.stage = "Cre" /\ said.queue = <<>> ->
             [said EXCEPT !.stage = "Awaiting"]
        [] Waiting(a) /\ said.since > TransactionTicks ->
             [said EXCEPT !.stage = "Ending", !.startup = "V8"]
        [] OTHER -> said

\* Responding::transmit.
RespondingSent(r) ==
  LET said == SentTick(r)
  IN  CASE r.stage = "Crd" /\ said.queue = <<>> -> Enter(said, "AwaitingCl", <<>>)
        [] Waiting(r) /\ said.since > TransactionTicks ->
             [said EXCEPT !.stage = "Done"]
        [] OTHER -> said

-----------------------------------------------------------------------------
(***************************************************************************)
(* Hearing.  A message with a part spoilt is an invalid frame.             *)
(***************************************************************************)
Messages(st, s) == s.is \in BisMessages /\ Ended(st.ear, s)
Invalid(st, s) == Messages(st, s) /\ ~Whole(st.ear, s)
Hears(st, s, is) == Whole(st.ear, s) /\ s.is = is

\* Answering::select: V.8 if MS asks for it, V.25 if it asks for neither kind of
\* V.8 and has a modulation for it.
Select(a, modes, ms) ==
  LET startup ==
        IF "data" \notin ms THEN "None"
        ELSE IF "v8" \in ms THEN "V8"
        ELSE IF "shortV8" \notin ms /\ modes \cap ms \cap {"V22bis", "V21"} # {}
             THEN "V25" ELSE "None"
  IN  IF startup = "None" THEN EndWith(a, "V8", BisMessage("NAK3", {}))
      ELSE EndWith(a, startup,
                   IF "ack" \in ms THEN BisMessage("ACK1", {}) ELSE <<>>)

\* Answering::receive and ::take, for a station that offers modes.
AnsweringHears(a, modes, s) ==
  LET cl == DataMessage("CL", TRUE, modes)
      ms == DataMessage("MS", TRUE, modes)
      heard == [a EXCEPT !.ear = Heed(@, s)]
  IN  CASE a.stage = "Awaiting" /\ Hears(a, s, "CRd") -> Enter(heard, "SentCl", cl)
        [] a.stage = "Awaiting" /\ Hears(a, s, "ESr") -> Enter(heard, "Escaped", <<>>)
        [] Waiting(a) /\ Invalid(a, s) -> EndWith(heard, "V8", BisMessage("NAK1", {}))
        [] a.stage = "Escaped" /\ Hears(a, s, "CL") -> Enter(heard, "SentMs", ms)
        [] a.stage = "Escaped" /\ Hears(a, s, "CLR") -> Enter(heard, "SentMs", cl \o ms)
        [] a.stage = "SentCl" /\ Hears(a, s, "MS") -> Select(heard, modes, s.what)
        [] a.stage = "SentMs" /\ Hears(a, s, "ACK1") -> EndWith(heard, "Caller", <<>>)
        [] a.stage = "SentMs" /\ \E nak \in Naks : Hears(a, s, nak) ->
             EndWith(heard, "V8", <<>>)
        [] OTHER -> heard

\* Responding::receive.
RespondingHears(r, modes, s) ==
  LET heard == [r EXCEPT !.ear = Heed(@, s)]
  IN  CASE r.stage = "Idle" /\ Hears(r, s, "CRe") -> Enter(heard, "Crd", Signal("CRd"))
        [] r.stage \in {"AwaitingCl", "SentChoice"} /\ Invalid(r, s) ->
             Enter(heard, "Done", BisMessage("NAK1", {}))
        [] r.stage = "AwaitingCl" /\ Hears(r, s, "CL") ->
             IF "data" \in s.what
             THEN Enter(heard, "SentChoice",
                        DataMessage("MS", "v8" \in s.what, modes \cap s.what))
             ELSE Enter(heard, "Done", <<>>)
        [] r.stage = "SentChoice" /\ Messages(r, s) -> Enter(heard, "Done", <<>>)
        [] OTHER -> heard
=============================================================================
