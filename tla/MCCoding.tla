------------------------------ MODULE MCCoding ------------------------------
(***************************************************************************)
(* What one end writes and the other reads, one kind of it in each         *)
(* behaviour: V.42 bis codewords, HDLC frames through a scrambler,         *)
(* start-stop characters, the messages of start-up, and the fields of LAPM *)
(* frames.                                                                 *)
(*                                                                         *)
(* An alphabet of eight characters and a dictionary of seven strings; the  *)
(* whole octets and CRCs of everything else.                               *)
(***************************************************************************)
EXTENDS V42bis, Framing, Messages, Fields

VARIABLE part

Parts == {"Compression", "Frames", "Characters", "Messages", "Fields"}

codingVars == <<part, vars, framingVars, startStopVars, messageVars, exchange>>

\* No compression, where it is not what is looked at.
Unagreed ==
  /\ offered = [initiator |-> None, responder |-> None] /\ agreed = offered
  /\ enc = None /\ dec = None /\ sent = <<>> /\ left = [flushes |-> 0, resets |-> 0]

CodingInit ==
  /\ part \in Parts
  /\ IF part = "Compression" THEN Init ELSE Unagreed
  /\ FramingInit /\ StartStopInit /\ MessagesInit /\ FieldsInit
  /\ part # "Frames" => scrambler.history = (CHOOSE l \in Lines : TRUE).history
  /\ part # "Characters" => ~decoder.v14
  /\ part # "Messages" => channel = "Info"

CompressionStep(A) ==
  /\ part = "Compression" /\ A
  /\ UNCHANGED <<part, framingVars, startStopVars, messageVars, exchange>>
FramesStep(A) ==
  /\ part = "Frames" /\ A
  /\ UNCHANGED <<part, vars, startStopVars, messageVars, exchange>>
CharactersStep(A) ==
  /\ part = "Characters" /\ A
  /\ UNCHANGED <<part, vars, framingVars, messageVars, exchange>>
MessagesStep(A) ==
  /\ part = "Messages" /\ A
  /\ UNCHANGED <<part, vars, framingVars, startStopVars, exchange>>
FieldsStep(A) ==
  /\ part = "Fields" /\ A
  /\ UNCHANGED <<part, vars, framingVars, startStopVars, messageVars>>

CodingNext ==
  \/ CompressionStep(Next) \/ FramesStep(FramingNext) \/ CharactersStep(StartStopNext)
  \/ MessagesStep(MessagesNext) \/ FieldsStep(FieldsNext)

CodingSpec == CodingInit /\ [][CodingNext]_codingVars

\* The two ends agree on the compression, and their dictionaries never differ.
Compressed == TypeOK /\ AgreedAlike /\ Decoded /\ HeldBack /\ TreesSound /\ InStep

\* What a hit on the line may do to frames and to characters, and no more.
HitsContained ==
  FramingTypeOK /\ StartStopTypeOK /\ NoneForged /\ Resynced /\ CharactersKept /\ PatternsHeard

\* What is written is what is read, and what nobody wrote is not.
WordsRead ==
  MessagesTypeOK /\ FieldsTypeOK /\ ReadRight /\ EAlone /\ OneReading /\ StrangeSkipped /\ HalfRefused

Offer(ways, codewords, string) ==
  Agreed("Transmit" \in ways, "Receive" \in ways, codewords, string)

MCInitiators ==
  {Offer({"Transmit"}, MinCodewords + 2, MaxString),
   Offer({"Receive"}, MinCodewords, MaxString),
   Offer({"Transmit", "Receive"}, MinCodewords + 2, MinString)}
MCResponders ==
  {None, Offer({"Receive"}, MinCodewords + 2, MaxString),
   Offer({"Transmit"}, MinCodewords, MinString)}

\* Parameters left out, at their least, and outside what is allowed.
MCProposals ==
  {Compression(w, n, l) :
     w \in {{}, {"FromInitiator"}, {"FromInitiator", "ToInitiator"}},
     n \in {0, MinCodewords - 1, MinCodewords + 3}, l \in {0, MaxString, MaxString + 1}}

\* V.22's scrambler, with its guard, as marks leave it; and V.34's answerer's.
MCLines ==
  {[polynomial |-> V22Polynomial, history |-> Ones(17), guard |-> TRUE],
   [polynomial |-> V34Answer, history |-> [i \in 1 .. 23 |-> IF i % 3 = 0 THEN 1 ELSE 0],
    guard |-> FALSE]}
\* One that needs zero-bit insertion, and one too short to be taken.
MCContents == {<<126, 255>>, <<3>>}

\* Messages with a field of each at its limits: offsets that are clamped, not measured and
\* negative, a clock that INFO0d must not send, words of ones only, and a CP with two
\* constellations and as many for the codec.
Msg(k, v) == [kind |-> k, values |-> v]
MCTellings ==
  {Msg("Info0", Repeat(9, <<1>>) \o <<5, 0, 1, 2, 1>>),
   Msg("Info0d", Repeat(9, <<1>>) \o <<5, 0, 1, 3, 1>> \o <<9, 21, 1, 1, 0, 0>>),
   Msg("Info1c", <<1, 2, 77>> \o Repeat(6, <<1, 10, 14>>) \o <<0 - 3>>),
   Msg("Info1a", <<0, 0, 1>> \o <<1, 10, 14>> \o <<5, 0>> \o <<NotMeasured>>),
   Msg("PcmInfo1a", <<0, 127, 66, 0, 4, 6, 900>>),
   Msg("Mp", <<0, 0, 12, 14, 0, 2, 1, 0, 1>> \o <<16383, 0, 1>> \o <<0>>),
   Msg("Mp", <<1, 0, 12, 14, 1, 1, 1, 1, 1>> \o <<16383, 0, 1>>
               \o <<0 - 1, 0 - 1, 0 - 1, 12000, 0 - 16384, 0>> \o <<0>>),
   Msg("Jd", <<65535, 63, 0, 1, 0, 3>>),
   Msg("Cp", <<0, 1, 21, 0, 0, 3, 1>> \o <<1, 8191, 3>> \o <<65535>> \o <<0 - 1, 5, 0 - 64, 1>>
               \o <<0, 0, 0, 0>> \o <<0, 0, 0, 0>> \o Repeat(8, <<65535>>)),
   Msg("Cp", <<0, 0, 0, 0, 1, 0, 0>> \o <<0, 4, 1>> \o <<8192>> \o <<0, 0, 0, 0>>
               \o <<0, 1, 0, 1>> \o <<0, 0, 1, 0>> \o Repeat(32, <<4097>>))}
MCGaps == {Zeros(13)}

MCFrames ==
  {LapmFrame(cr, kind, IF kind = "I" THEN n ELSE 0, IF kind \in Unnumbered THEN 0 ELSE n, pf,
             IF kind \in TakesInfo \cup {"I"} THEN info ELSE <<>>) :
     cr \in BOOLEAN, kind \in DOMAIN Control \cup {"I"}, n \in {0, 1, 127}, pf \in BOOLEAN,
     info \in {<<>>, <<0>>, <<255, 8>>}}
MCOctets ==
  {<<>>, <<1>>}
    \cup {<<address, first>> \o rest : address \in {0, 1, 2, 3, 5, 255}, first \in 0 .. 255,
                                       rest \in {<<>>, <<0>>, <<255>>, <<3, 7>>}}
MCXids ==
  {[functions |-> f, n401Tx |-> n, n401Rx |-> m, kTx |-> k, kRx |-> k, compression |-> c] :
     f \in {{}, {0, 2, 31}, (0 .. 31) \ Required}, n \in {Absent, 0, 31, 65535}, m \in {Absent, 32},
     k \in {Absent, 255},
     c \in {<<>>, <<[directions |-> 3, codewords |-> Absent, maxString |-> Absent]>>,
            <<[directions |-> 0, codewords |-> 65535, maxString |-> 250]>>}}
MCStrange == {Parameter(9, <<>>), Parameter(200, <<1, 2, 3, 4, 5>>)}
=============================================================================
