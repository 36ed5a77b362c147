-------------------------------- MODULE Link --------------------------------
(***************************************************************************)
(* What one modem carries over a call's bits, softmodem-link/src/lib.rs:   *)
(* the V.42 detection phase, then LAPM with or without V.42 bis, or plain  *)
(* start-stop characters.  Like Lapm, it is operators on a record; a       *)
(* handler that calls others in sequence is a function of the state.       *)
(*                                                                         *)
(* The bits of the line are symbols: a start-stop character, a flag, a     *)
(* frame with its closing flag, or noise where a symbol was damaged.  Of   *)
(* the characters that reach the computer only its own text is kept: the   *)
(* patterns of the detection phase and what a start-stop decoder makes of  *)
(* flags show up there as well.                                            *)
(***************************************************************************)
EXTENDS Integers, Sequences

CONSTANTS
  Modulus, DefaultK, MaxK, DefaultN401, MaxN401, N400,  \* as in Lapm
  Text,         \* the characters the computers send
  AdpRepeats,   \* ADPs sent at least (the code: 10)
  OpeningFlags, \* flags an originator sends before its first frame (16)
  FlagsHeard    \* flags in a row that show LAPM (3)

\* A unit of LAPM data is a character, or what V.42 bis makes of one.
Data == [text : Text, coded : BOOLEAN]

LAPM == INSTANCE Lapm

Patterns == {"DC1even", "DC1odd", "E", "C", "NULL", "?"}
Character(c) == [kind |-> "character", character |-> c]
Flag == [kind |-> "flag"]
Noise == [kind |-> "noise"]
FrameOf(f) == [kind |-> "frame", frame |-> f]

Symbol ==
  {Character(c) : c \in Patterns \cup Text} \cup {Flag, Noise}
    \cup [kind : {"frame"}, frame : LAPM!Frame]

Odp == <<Character("DC1even"), Character("DC1odd")>>
Adp == <<Character("E"), Character("C")>>

Setup == [lapm : BOOLEAN, detection : BOOLEAN, required : BOOLEAN,
          offer : LAPM!Directions, offerRequired : BOOLEAN]

Phases == {"Idle", "Originating", "Listening", "Protocol", "Normal", "Released"}

Codec == [ready : BOOLEAN, encoder : BOOLEAN, decoder : BOOLEAN]

LinkState ==
  [originates : BOOLEAN, setup : Setup, phase : Phases,
   lapm : LAPM!EndState,
   heard : Seq(Patterns \cup Text),   \* the last four characters
   flags : 0 .. FlagsHeard,           \* flags in a row, up to FlagsHeard
   open : BOOLEAN,                    \* a flag has opened a frame
   tx : Seq(Symbol), held : Seq(Text), received : Seq(Text \cup {"?"}),
   adps : 0 .. AdpRepeats,            \* ADPs sent, up to AdpRepeats
   flagsHeard : BOOLEAN,
   codec : Codec,
   string : Seq(Text)]                \* what the encoder has not yet put out

NewLink(originates, setup) ==
  [originates |-> originates, setup |-> setup, phase |-> "Idle",
   lapm |-> LAPM!Fresh("Released", {}),
   heard |-> <<>>, flags |-> 0, open |-> FALSE,
   tx |-> <<>>, held |-> <<>>, received |-> <<>>,
   adps |-> 0, flagsHeard |-> FALSE,
   codec |-> [ready |-> FALSE, encoder |-> FALSE, decoder |-> FALSE],
   string |-> <<>>]

Status(l) ==
  CASE l.phase \in {"Idle", "Originating", "Listening"} -> "Starting"
    [] l.phase = "Protocol" ->
         CASE l.lapm.state = "Connected" -> "Reliable"
           [] l.lapm.state = "Released" -> "Released"
           [] OTHER -> "Starting"
    [] OTHER -> l.phase

-----------------------------------------------------------------------------
(***************************************************************************)
(* Changes of phase.                                                       *)
(***************************************************************************)
\* Mutant: what was heard while listening is dropped.
FallBackDeaf(l) ==
  IF l.setup.required THEN [l EXCEPT !.phase = "Released"]
  ELSE [l EXCEPT !.phase = "Normal", !.held = <<>>]

FallBack(l) ==
  IF l.setup.required THEN [l EXCEPT !.phase = "Released"]
  ELSE [l EXCEPT !.phase = "Normal", !.held = <<>>, !.received = @ \o l.held]

Protocol(l, lapm) ==
  [l EXCEPT !.phase = "Protocol", !.lapm = lapm, !.held = <<>>,
            !.tx = IF l.originates THEN @ \o [i \in 1 .. OpeningFlags |-> Flag]
                                   ELSE @]

\* The pump is connected, at a rate too slow for V.42 or not.
Start(l, slow) ==
  LET s == [l EXCEPT !.setup.lapm = @ /\ ~slow]
  IN  CASE l.phase # "Idle" -> l
        [] l.phase = "Idle" /\ ~s.setup.lapm -> FallBack(s)
        [] l.phase = "Idle" /\ s.setup.lapm /\ ~l.originates ->
             [s EXCEPT !.phase = "Listening"]
        [] l.phase = "Idle" /\ s.setup.lapm /\ l.originates ->
             IF l.setup.detection THEN [s EXCEPT !.phase = "Originating"]
             ELSE Protocol(s, LAPM!Originate(l.setup.offer))

\* Mutant: a call whose LAPM fails goes on in plain characters.
ExpireFallsBack(l, late) ==
  CASE l.phase \in {"Originating", "Listening"} /\ late -> FallBack(l)
    [] l.phase = "Protocol" /\ l.lapm.state = "Released" -> FallBack(l)
    [] OTHER -> l

\* T400 has passed, if "late", or LAPM has released the connection.
Expire(l, late) ==
  CASE l.phase \in {"Originating", "Listening"} /\ late -> FallBack(l)
    [] l.phase = "Protocol" /\ l.lapm.state = "Released" ->
         [l EXCEPT !.phase = "Released"]
    [] OTHER -> l

\* Mutant: the decoder goes by the direction of the encoder.
SetUpCodecCopied(l) ==
  IF l.phase # "Protocol" \/ l.codec.ready \/ l.lapm.state # "Connected" THEN l
  ELSE IF l.setup.offerRequired /\ l.lapm.compression # l.setup.offer
       THEN [l EXCEPT !.phase = "Released"]
  ELSE [l EXCEPT !.codec = [ready |-> TRUE,
                            encoder |-> "transmit" \in l.lapm.compression,
                            decoder |-> "transmit" \in l.lapm.compression]]

\* V.42 bis starts as LAPM connects, or ends a call that required it.
SetUpCodec(l) ==
  IF l.phase # "Protocol" \/ l.codec.ready \/ l.lapm.state # "Connected" THEN l
  ELSE IF l.setup.offerRequired /\ l.lapm.compression # l.setup.offer
       THEN [l EXCEPT !.phase = "Released"]
  ELSE [l EXCEPT !.codec = [ready |-> TRUE,
                            encoder |-> "transmit" \in l.lapm.compression,
                            decoder |-> "receive" \in l.lapm.compression]]

(***************************************************************************)
(* Data from and to the computer.  The encoder keeps the string it is      *)
(* matching, here the last character, until more data or a flush.          *)
(***************************************************************************)
Queued(l, text, coded) ==
  [l EXCEPT !.lapm = LAPM!SendData(@, [text |-> text, coded |-> coded])]

FlushString(l) ==
  IF l.string = <<>> THEN l
  ELSE [Queued(l, Head(l.string), TRUE) EXCEPT !.string = <<>>]

Send(l, text) ==
  LET s == SetUpCodec(l)
  IN  CASE s.phase = "Protocol" /\ s.codec.encoder ->
             [FlushString(s) EXCEPT !.string = <<text>>]
        [] s.phase = "Protocol" /\ ~s.codec.encoder -> Queued(s, text, FALSE)
        [] s.phase = "Normal" -> [s EXCEPT !.tx = Append(@, Character(text))]
        [] OTHER -> s

\* Data that a decoder finds not to be V.42 bis ends the call; V.42 bis data
\* that no decoder takes is noise to the computer.
Deliver(l) ==
  LET data == l.lapm.received
      taken == [l EXCEPT !.lapm.received = <<>>]
      shown(d) == IF d.coded /\ ~l.codec.decoder THEN "?" ELSE d.text
  IN  IF l.phase # "Protocol" THEN l
      ELSE IF l.codec.decoder /\ \E i \in 1 .. Len(data) : ~data[i].coded
           THEN [taken EXCEPT !.phase = "Released"]
      ELSE [taken EXCEPT !.received =
                           @ \o [i \in 1 .. Len(data) |-> shown(data[i])]]

-----------------------------------------------------------------------------
(***************************************************************************)
(* Transmission.                                                           *)
(***************************************************************************)
\* A LAPM timer's instant has passed when LAPM looks at the clock.
Ticked(lapm, late) ==
  IF late /\ LAPM!CanBeLate(lapm) THEN LAPM!Expire(lapm) ELSE lapm

NextLapmSymbol(lapm) ==
  IF LAPM!Has(lapm) = "nothing" THEN Flag ELSE FrameOf(LAPM!NextFrame(lapm))

SendsAdp(l) ==
  /\ l.phase = "Protocol" /\ l.adps > 0
  /\ l.adps < AdpRepeats \/ ~l.flagsHeard

\* Mutant: the encoder is not flushed.
NextFrameOf(l, s) ==
  [l EXCEPT !.adps = 0, !.lapm = LAPM!AfterNextFrame(s),
            !.tx = @ \o (IF l.adps > 0 THEN <<Flag>> ELSE <<>>) \o <<NextLapmSymbol(s)>>]
TickedFrame(l, late) == NextFrameOf(l, Ticked(l.lapm, late))

\* Mutant: the encoder is not flushed.
FrameOrFlagUnflushed(l, late) == TickedFrame(l, late)

FrameOrFlag(l, late) ==
  TickedFrame(IF l.lapm.queue = <<>> THEN FlushString(l) ELSE l, late)

\* The bits to send are made when the pump has none left.
Fill(l, late) ==
  CASE l.tx # <<>> -> l
    [] l.tx = <<>> /\ l.phase = "Originating" -> [l EXCEPT !.tx = Odp]
    [] l.tx = <<>> /\ SendsAdp(l) ->
         [l EXCEPT !.tx = Adp,
                   !.adps = IF @ = AdpRepeats THEN @ ELSE @ + 1]
    [] l.tx = <<>> /\ l.phase = "Protocol" /\ ~SendsAdp(l) ->
         FrameOrFlag(l, late)
    [] OTHER -> l

Filled(l, late) == Fill(Expire(l, late), late)

\* Fewer bits than asked for leave the line on mark.
Transmits(filled) == filled.tx # <<>>
AfterTransmit(filled) == IF Transmits(filled) THEN [filled EXCEPT !.tx = Tail(@)] ELSE filled
SymbolSent(filled) == IF Transmits(filled) THEN <<Head(filled.tx)>> ELSE <<>>

-----------------------------------------------------------------------------
(***************************************************************************)
(* Reception.                                                              *)
(***************************************************************************)
\* A character has mark after it, which aborts a frame.
Deframed(l, x) ==
  [l EXCEPT !.flags = CASE x.kind # "flag" -> 0
                        [] x.kind = "flag" /\ @ = FlagsHeard -> @
                        [] x.kind = "flag" /\ @ < FlagsHeard -> @ + 1,
            !.open = x.kind \in {"flag", "frame"} \/ (@ /\ x.kind = "noise")]

BringsFrame(l, x) == x.kind = "frame" /\ l.open

\* Mutant: a frame is heard, but not flags.
HearLapmFlagless(l, x, late) ==
  IF BringsFrame(l, x)
  THEN [Deframed(l, x) EXCEPT !.lapm = LAPM!Receive(Ticked(@, late), x.frame)]
  ELSE Deframed(l, x)

HearLapm(l, x, late) ==
  IF BringsFrame(l, x)
  THEN [Deframed(l, x) EXCEPT !.flagsHeard = TRUE,
                              !.lapm = LAPM!Receive(Ticked(@, late), x.frame)]
  ELSE [Deframed(l, x) EXCEPT !.flagsHeard = @ \/ Deframed(l, x).flags = FlagsHeard]

LastFour(s) == IF Len(s) <= 4 THEN s ELSE SubSeq(s, Len(s) - 3, Len(s))

\* The character is heard, and held for the computer if it is text.
Decoded(l, x) ==
  CASE x.kind = "character" ->
         [l EXCEPT !.heard = LastFour(Append(@, x.character)),
                   !.held = IF x.character \in Text THEN Append(@, x.character)
                                                    ELSE @]
    [] x.kind = "noise" -> [l EXCEPT !.heard = LastFour(Append(@, "?"))]
    [] OTHER -> l

\* Four DC1s of alternating parity.
HeardOdp(l) ==
  /\ Len(l.heard) = 4
  /\ \A i \in 1 .. 4 : l.heard[i] \in {"DC1even", "DC1odd"}
  /\ \A i \in 1 .. 3 : l.heard[i] # l.heard[i + 1]

\* Two adjacent ADPs of the same kind.
HeardAdp(l, second) == l.heard = <<"E", second, "E", second>>

Answering(d) == LAPM!Answer(d.setup.offer)

\* A frame or flags instead of the ODP: d has heard x.
Flagged(d, brings, x) ==
  [Protocol(d, IF brings THEN LAPM!Receive(Answering(d), x.frame) ELSE Answering(d))
     EXCEPT !.tx = Append(@, Flag)]

Detected(d, brings, x) ==
  CASE d.phase = "Originating" /\ HeardAdp(d, "C") ->
         Protocol(d, LAPM!Originate(d.setup.offer))
    [] d.phase = "Originating" /\ HeardAdp(d, "NULL") ->
         FallBack([d EXCEPT !.held = <<>>])
    [] d.phase = "Listening" /\ HeardOdp(d) ->
         [Protocol(d, Answering(d)) EXCEPT !.adps = 1, !.tx = @ \o Adp]
    [] d.phase = "Listening" /\ ~HeardOdp(d) /\ (brings \/ d.flags = FlagsHeard) ->
         Flagged(d, brings, x)
    [] OTHER -> d
Detect(l, x) == Detected(Decoded(Deframed(l, x), x), BringsFrame(l, x), x)

HearSymbol(l, x, late) ==
  CASE l.phase = "Protocol" -> HearLapm(l, x, late)
    [] l.phase = "Normal" ->
         IF x.kind = "character" /\ x.character \in Text
         THEN [l EXCEPT !.received = Append(@, x.character)] ELSE l
    [] l.phase = "Released" -> l
    [] OTHER -> Detect(l, x)

\* The state after each of the first symbols of a run.
Receive(l, symbols, late) ==
  LET after[i \in 0 .. Len(symbols)] ==
        IF i = 0 THEN Expire(l, late)
        ELSE HearSymbol(after[i - 1], symbols[i], late)
  IN  Expire(Deliver(SetUpCodec(after[Len(symbols)])), late)

=============================================================================
