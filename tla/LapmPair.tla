------------------------------ MODULE LapmPair ------------------------------
(***************************************************************************)
(* Two LAPM ends of this program, an originator and an answerer, over a    *)
(* line that keeps the order of frames and loses the damaged ones: what    *)
(* Link passes between the pumps of two modems while its phase is          *)
(* Protocol (softmodem-link/src/lib.rs).                                   *)
(***************************************************************************)
EXTENDS Lapm

CONSTANTS
  Offer,      \* the V.42 bis directions each end offers
  ToSend,     \* bound: how many units of data each end's computer sends
  LineLength, \* bound: frames on their way at a time, each way
  MaxUpsets   \* bound: frames damaged and timers run out early, in all

Ends == {"caller", "answerer"}
Peer(e) == IF e = "caller" THEN "answerer" ELSE "caller"

ASSUME LapmPairAssumption ==
  /\ Offer \in [Ends -> Directions]
  /\ ToSend \in [Ends -> Nat]
  /\ LineLength \in Nat \ {0} /\ MaxUpsets \in Nat
  /\ \A e \in Ends : 1 .. ToSend[e] \subseteq Data

VARIABLES
  end,    \* the state of each end; its "received" is all it ever received
  line,   \* the frames on their way from each end, the oldest first
  given,  \* how many units each computer has given its modem: 1, 2, 3...
  upsets  \* frames the line has damaged, and timers that have run out
          \* while an answer could still come

vars == <<end, line, given, upsets>>

TypeOK ==
  /\ end \in [Ends -> EndState]
  /\ line \in [Ends -> Seq(Frame)]
  /\ given \in [Ends -> Nat]
  /\ upsets \in 0 .. MaxUpsets

Init ==
  /\ end = [e \in Ends |-> IF e = "caller" THEN Originate(Offer[e])
                                           ELSE Answer(Offer[e])]
  /\ line = [e \in Ends |-> <<>>]
  /\ given = [e \in Ends |-> 0]
  /\ upsets = 0

\* The computer at e sends its next unit.
Send(e) ==
  /\ given[e] < ToSend[e]
  /\ end[e].state # "Released"
  /\ given' = [given EXCEPT ![e] = @ + 1]
  /\ end' = [end EXCEPT ![e] = SendData(@, given[e] + 1)]
  /\ UNCHANGED <<line, upsets>>

\* Nothing is under way or about to be sent: T401 is longer than a round trip
\* and two frames, so it is expected to run out only then.
Quiet == \A e \in Ends : line[e] = <<>> /\ Has(end[e]) = "nothing"

\* An instant that e waits for passes, in time or early.
RunOut(e) ==
  /\ CanBeLate(end[e])
  /\ IF Quiet THEN UNCHANGED upsets
     ELSE upsets < MaxUpsets /\ upsets' = upsets + 1

\* The pump at e asks for a frame, with end e in state s once it has looked
\* at the clock.
TransmitFrom(e, s) ==
  /\ Len(line[e]) < LineLength
  /\ UNCHANGED given
  /\ line' = IF Has(s) = "nothing" THEN line
             ELSE [line EXCEPT ![e] = Append(@, NextFrame(s))]
  /\ end' = [end EXCEPT ![e] = AfterNextFrame(s)]

Transmit(e) ==
  /\ Has(end[e]) # "nothing"
  /\ TransmitFrom(e, end[e])
  /\ UNCHANGED upsets
TransmitLate(e) == RunOut(e) /\ \E s \in {Expire(end[e])} : TransmitFrom(e, s)

\* The oldest frame on its way to e arrives.
HearWith(e, s) ==
  /\ line[Peer(e)] # <<>>
  /\ UNCHANGED given
  /\ line' = [line EXCEPT ![Peer(e)] = Tail(@)]
  /\ end' = [end EXCEPT ![e] = Receive(s, Head(line[Peer(e)]))]

Hear(e) == HearWith(e, end[e]) /\ UNCHANGED upsets
HearLate(e) == RunOut(e) /\ \E s \in {Expire(end[e])} : HearWith(e, s)

\* The oldest frame on its way to e is damaged, and its check sequence fails.
Lose(e) ==
  /\ line[Peer(e)] # <<>>
  /\ upsets < MaxUpsets
  /\ upsets' = upsets + 1
  /\ line' = [line EXCEPT ![Peer(e)] = Tail(@)]
  /\ UNCHANGED <<end, given>>

Next ==
  \E e \in Ends :
    \/ Send(e)
    \/ Transmit(e) \/ TransmitLate(e)
    \/ Hear(e) \/ HearLate(e)
    \/ Lose(e)

\* The pump asks for frames as long as the call lasts and takes what the line
\* brings, and its clock runs.
Fairness ==
  \A e \in Ends :
    /\ WF_vars(Transmit(e))
    /\ WF_vars(TransmitLate(e))
    /\ WF_vars(Hear(e))

Spec == Init /\ [][Next]_vars
FairSpec == Spec /\ Fairness

-----------------------------------------------------------------------------
(***************************************************************************)
(* Safety.                                                                 *)
(***************************************************************************)

\* The computer at each end receives what the other's sent, in order, each
\* unit once, with nothing left out: lost, repeated and late frames, and
\* numbers that come round again, change nothing of that.
InOrderOnce ==
  \A e \in Ends :
    LET got == end[Peer(e)].received
    IN  /\ Len(got) <= given[e]
        /\ \A i \in 1 .. Len(got) : got[i] = i

\* What one end has acknowledged and sent agrees with what the other has
\* taken: the receiver's V(R) names a frame the sender still keeps, or the
\* one it will send next.
NumbersAgree ==
  \A e \in Ends :
    end[e].state = "Connected" /\ end[Peer(e)].state = "Connected" =>
      Past(end[Peer(e)].vr, end[e].va) <= Len(end[e].sent)

\* As long as an end is not released no data is out of its sight: what the
\* peer has not received is kept for sending again or waits to be sent, each
\* unit once and in order.
NothingLost ==
  \A e \in Ends : end[e].state # "Released" =>
    LET kept == Append(end[e].sent, end[e].queue)
    IN  /\ \A u \in Len(end[Peer(e)].received) + 1 .. given[e] :
             \E i \in 1 .. Len(kept) : \E j \in 1 .. Len(kept[i]) : kept[i][j] = u
        /\ \A i, k \in 1 .. Len(kept) :
             \A j \in 1 .. Len(kept[i]), l \in 1 .. Len(kept[k]) :
               /\ kept[i][j] <= given[e]
               /\ i < k \/ (i = k /\ j < l) => kept[i][j] < kept[k][l]

\* Both ends run the same V.42 bis directions, mirrored, once both are
\* connected, and neither runs one that it did not offer.
CompressionAgrees ==
  (\A e \in Ends : end[e].state = "Connected") =>
    \A e \in Ends :
      /\ end[e].compression \subseteq Offer[e]
      /\ "transmit" \in end[e].compression <=>
           "receive" \in end[Peer(e)].compression

(***************************************************************************)
(* Action properties.                                                      *)
(***************************************************************************)

\* Between two such ends nothing but silence ends a connection: T401 runs out
\* once more with all of N400's tries made, or a SABME is repeated after the
\* answerer had sent or taken data, which is no lost UA any more (docs/v42.md).
\* The tries are those of the recovery under way; between recoveries the count
\* stays as the last one left it, until the next starts it anew (expire).
OnlySilenceReleases ==
  [][\A e \in Ends :
       end[e].state = "Connected" /\ end'[e].state = "Released" =>
         \/ end[e].retries = N400 - 1
         \/ /\ e = "answerer" /\ line["caller"] # <<>>
            /\ Head(line["caller"]).kind = "SABME"
            /\ line' # line /\ ~Untouched(end[e])]_vars

(***************************************************************************)
(* Liveness.                                                               *)
(***************************************************************************)

\* Once the line stops damaging frames every call settles, and for good: no
\* connection is left half made, and whatever a computer has given its modem
\* has reached the other computer, unless the modem that had it has given the
\* connection up.
Settles ==
  <>[](\A e \in Ends :
         \/ end[e].state = "Released"
         \/ /\ end[e].state = "Connected"
            /\ Len(end[Peer(e)].received) = given[e])

-----------------------------------------------------------------------------
(***************************************************************************)
(* Two LAPM ends over a line that damages frames are a reliable stream.    *)
(***************************************************************************)
Stream == INSTANCE ReliableStream WITH
  PeerOf <- [e \in Ends |-> Peer(e)],
  put <- given,
  got <- [e \in Ends |-> Len(end[Peer(e)].received)],
  status <- [e \in Ends |->
               CASE end[e].state = "Connected" -> "open"
                 [] end[e].state = "Released" -> "closed"
                 [] OTHER -> "opening"]

\* Every step of the two ends is a step of the stream, or changes nothing the
\* computers can see.
ImplementsStream == Stream!Safe

=============================================================================
