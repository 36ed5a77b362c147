------------------------------ MODULE LinkPair ------------------------------
(***************************************************************************)
(* The links of two modems in a call, each with LAPM inside it, over the   *)
(* bits their data pumps carry: softmodem-link/src/lib.rs as               *)
(* softmodem/src/line.rs drives it.  Either end's pump may connect first,  *)
(* and T400 may pass at any moment of the detection phase.                 *)
(***************************************************************************)
EXTENDS Link

CONSTANTS
  Calls,      \* the calls to check: how each end is set up, whether the call
              \* runs at 300 bit/s, what each end's computer sends and, a bound,
              \* how many symbols are damaged and T401 timers run out early
  LineLength  \* bound: symbols on their way at a time, each way

Ends == {"caller", "answerer"}
Peer(e) == IF e = "caller" THEN "answerer" ELSE "caller"

ASSUME LinkPairAssumption ==
  /\ \A c \in Calls : c \in [setups : [Ends -> Setup], slow : BOOLEAN,
                              texts : [Ends -> Seq(Text)], upsets : Nat]
  /\ Text \cap Patterns = {}
  /\ AdpRepeats \in Nat \ {0} /\ FlagsHeard \in Nat \ {0}
  /\ OpeningFlags \in Nat /\ OpeningFlags >= FlagsHeard
  /\ LineLength \in Nat \ {0}

VARIABLES
  link,    \* the link of each end
  line,    \* the symbols on their way from each end, the oldest first
  given,   \* how much of its text each computer has sent
  call,    \* the call of this behaviour
  upsets   \* symbols damaged, and T401s that ran out while an answer could come

vars == <<link, line, given, call, upsets>>

TypeOK ==
  /\ link \in [Ends -> LinkState]
  /\ \A e \in Ends : Len(link[e].heard) <= 4
  /\ line \in [Ends -> Seq(Symbol)]
  /\ given \in [Ends -> Nat]
  /\ call \in Calls /\ upsets \in 0 .. call.upsets

Init ==
  /\ call \in Calls
  /\ link = [e \in Ends |-> NewLink(e = "caller", call.setups[e])]
  /\ line = [e \in Ends |-> <<>>]
  /\ given = [e \in Ends |-> 0]
  /\ upsets = 0

Becomes(e, l) == link' = [link EXCEPT ![e] = l]

\* The pump at e is connected.
Begin(e) ==
  /\ link[e].phase = "Idle"
  /\ Becomes(e, Start(link[e], call.slow))
  /\ UNCHANGED <<line, given, call, upsets>>

\* The modem gives the link what its computer sends, once it has reported
\* CONNECT.
SendText(e) ==
  /\ Status(link[e]) \in {"Reliable", "Normal"}
  /\ given[e] < Len(call.texts[e])
  /\ given' = [given EXCEPT ![e] = @ + 1]
  /\ Becomes(e, Send(link[e], call.texts[e][given[e] + 1]))
  /\ UNCHANGED <<line, call, upsets>>

HasFrame(l) ==
  \/ \E i \in 1 .. Len(l.tx) : l.tx[i].kind = "frame"
  \/ l.phase = "Protocol" /\ (LAPM!Has(l.lapm) # "nothing" \/ l.string # <<>>)

\* No frame is under way or waits to be sent.
Quiet ==
  \A e \in Ends : /\ ~HasFrame(link[e])
                  /\ \A i \in 1 .. Len(line[e]) : line[e][i].kind # "frame"

\* An instant passes that e waits for: T400, or T401, in time or early.
RunOut(e) ==
  \/ /\ link[e].phase \in {"Originating", "Listening"}
     /\ UNCHANGED upsets
  \/ /\ link[e].phase = "Protocol" /\ LAPM!CanBeLate(link[e].lapm)
     /\ IF Quiet THEN UNCHANGED upsets
        ELSE upsets < call.upsets /\ upsets' = upsets + 1

\* The pump at e takes its next symbol.
TransmitWith(e, late) ==
  /\ Len(line[e]) < LineLength
  /\ \E filled \in {Filled(link[e], late)} :
       /\ line' = [line EXCEPT ![e] = @ \o SymbolSent(filled)]
       /\ Becomes(e, AfterTransmit(filled))
  /\ UNCHANGED <<given, call>>

Transmit(e) ==
  /\ link[e].phase # "Idle"
  /\ TransmitWith(e, FALSE)
  /\ UNCHANGED upsets
TransmitLate(e) == RunOut(e) /\ TransmitWith(e, TRUE)

\* The pump at e brings n symbols at once, the first of them perhaps damaged.
HearWith(e, symbols, late) ==
  /\ Becomes(e, Receive(link[e], symbols, late))
  /\ line' = [line EXCEPT ![Peer(e)] = SubSeq(@, Len(symbols) + 1, Len(@))]
  /\ UNCHANGED <<given, call>>

Hear(e) ==
  \E n \in 1 .. Len(line[Peer(e)]) :
    /\ HearWith(e, SubSeq(line[Peer(e)], 1, n), FALSE)
    /\ UNCHANGED upsets
HearLate(e) ==
  /\ line[Peer(e)] # <<>>
  /\ RunOut(e)
  /\ HearWith(e, <<Head(line[Peer(e)])>>, TRUE)
HearDamaged(e) ==
  /\ line[Peer(e)] # <<>>
  /\ upsets < call.upsets /\ upsets' = upsets + 1
  /\ HearWith(e, <<Noise>>, FALSE)

Next ==
  \E e \in Ends :
    \/ Begin(e) \/ SendText(e)
    \/ Transmit(e) \/ TransmitLate(e)
    \/ Hear(e) \/ HearLate(e) \/ HearDamaged(e)

\* A pump that has connected takes symbols and brings them as long as the
\* call lasts.  Its clock runs: an instant that keeps coming up as the next
\* one to pass does pass.
Fairness ==
  \A e \in Ends :
    /\ WF_vars(Begin(e))
    /\ WF_vars(Transmit(e)) /\ SF_vars(TransmitLate(e))
    /\ WF_vars(Hear(e))

Spec == Init /\ [][Next]_vars
FairSpec == Spec /\ Fairness

-----------------------------------------------------------------------------
(***************************************************************************)
(* Safety.                                                                 *)
(***************************************************************************)

\* The computers are never told of different connections: where one end has
\* an error-corrected connection, the other has not fallen back to plain
\* characters, whatever was damaged and whenever T400 passed.
NeverSplit ==
  \A e \in Ends :
    Status(link[e]) = "Reliable" => Status(link[Peer(e)]) # "Normal"

\* What of a symbol, and of symbols one after the other, is a computer's text.
TextOf(x) ==
  IF x.kind = "character" /\ x.character \in Text THEN <<x.character>> ELSE <<>>
TextOn(symbols) ==
  LET text[i \in 0 .. Len(symbols)] ==
        IF i = 0 THEN <<>> ELSE text[i - 1] \o TextOf(symbols[i])
  IN  text[Len(symbols)]

\* Plain characters that a computer sends are not lost while the other end is
\* still finding out what this one has: it has them, holds them, or they are
\* on their way, in order.
TextKept ==
  \A e \in Ends :
    LET far == link[Peer(e)]
    IN  /\ upsets = 0 /\ link[e].phase = "Normal"
        /\ far.phase \in {"Idle", "Originating", "Listening", "Normal"}
        => far.received \o far.held \o TextOn(line[e]) \o TextOn(link[e].tx)
             = SubSeq(call.texts[e], 1, given[e])

\* Over an error-corrected connection each computer receives what the other
\* sent, in order and whole, and both ends mean the same by compressed data.
DataIntact ==
  \A e \in Ends :
    LET got == link[Peer(e)].received
    IN  link[Peer(e)].codec.ready =>
          /\ Len(got) <= given[e]
          /\ got = SubSeq(call.texts[e], 1, Len(got))

(***************************************************************************)
(* Liveness.                                                               *)
(***************************************************************************)

\* An answerer that has heard the ODP sends ADPs to an originator that has
\* fallen back since.
SendsAdpsInVain ==
  /\ SendsAdp(link["answerer"])
  /\ link["caller"].phase = "Normal"

\* Each end finds out for good what the other has, or gives the call up,
\* unless it sends ADPs to an end that has fallen back.
Decides ==
  <>[](\A e \in Ends :
         Status(link[e]) = "Starting" => e = "answerer" /\ SendsAdpsInVain)

\* What a computer gives a modem over an error-corrected connection reaches
\* the other computer, the last character without more to follow it, or one
\* of the two gives the connection up.
DataArrives ==
  <>[](\A e \in Ends :
         Status(link[e]) = "Reliable" =>
           \/ Len(link[Peer(e)].received) >= given[e]
           \/ \E f \in Ends : Status(link[f]) = "Released")

\* lapm.rs:107-109: "gives up if the originator has not established the
\* connection within N400 times t401".
AnswererGivesUp ==
  (link["answerer"].phase = "Protocol" /\ link["answerer"].lapm.state = "Waiting")
    ~> link["answerer"].lapm.state # "Waiting"

=============================================================================
