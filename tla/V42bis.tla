------------------------------- MODULE V42bis -------------------------------
(***************************************************************************)
(* V.42 bis, softmodem-link/src/v42bis.rs: what the two ends agree on, the *)
(* dictionary, and the encoder and the decoder of one direction.  The      *)
(* sizes of the alphabet, the codewords and the windows are parameters, so *)
(* that a small dictionary fills, and bits are packed as the code does it. *)
(***************************************************************************)
EXTENDS Integers, Sequences, SequencesExt, FiniteSets

CONSTANTS
  OctetBits,     \* 8
  EscapeStep,    \* ESCAPE_STEP
  TestWindow,    \* TEST_WINDOW
  StartWidth,    \* 9, the codeword size to begin with
  Initiators, Responders,   \* bound: what the two ends may offer, and none
  Proposals,                \* bound: what other makes may propose or reply
  Inputs,                   \* bound: the characters sent
  MaxSent, MaxFlushes, MaxResets  \* bounds

NoCode == 0 - 1
Octets == 0 .. 2 ^ OctetBits - 1
ControlCodewords == 3
FirstString == ControlCodewords + 2 ^ OctetBits
ETM == 0
FLUSH == 1
STEPUP == 2
ECM == 0
EID == 1
RESET == 2

\* MIN_CODEWORDS, MIN_STRING and MAX_STRING: the longest string is shorter than the
\* dictionary is deep, so a leaf can always be found.
MinCodewords == FirstString + 5
MinString == 3
MaxString == 4

ASSUME V42bisAssumption ==
  /\ {OctetBits, EscapeStep, TestWindow, StartWidth} \subseteq Nat \ {0}
  /\ StartWidth > OctetBits /\ 2 ^ StartWidth >= FirstString
  /\ Inputs \subseteq Octets
  /\ {MaxSent, MaxFlushes, MaxResets} \subseteq Nat

VARIABLES
  offered,  \* what the initiator and the responder offer, or None if of another make
  agreed,   \* what then applies at each of them
  enc,      \* the initiator's encoder
  dec,      \* the responder's decoder
  sent,     \* characters given to the encoder
  left      \* bounds: flushes and resets still to come

vars == <<offered, agreed, enc, dec, sent, left>>

-----------------------------------------------------------------------------
(***************************************************************************)
(* Directions: who may compress, as P0 of the XID frames says it.          *)
(***************************************************************************)
None == [is |-> "None"]
Error == [is |-> "Error"]
Agreed(transmit, receive, codewords, string) ==
  [is |-> "Agreed", transmit |-> transmit, receive |-> receive,
   codewords |-> codewords, string |-> string]
Compression(directions, codewords, string) ==
  [directions |-> directions, codewords |-> codewords, string |-> string]

LowerOf(a, b) == IF a <= b THEN a ELSE b

Valid(codewords, string) ==
  codewords >= MinCodewords /\ string \in MinString .. MaxString

\* received: parameters left out have their default.
Received(c) ==
  [c EXCEPT !.codewords = IF @ = 0 THEN MinCodewords ELSE @,
            !.string = IF @ = 0 THEN MinString ELSE @]

Ways(from, to) ==
  (IF from THEN {"FromInitiator"} ELSE {}) \cup (IF to THEN {"ToInitiator"} ELSE {})

\* Directions::proposal.
Proposal(offer) ==
  Compression(Ways(offer.transmit, offer.receive), offer.codewords, offer.string)

Lower(c, offer, transmit, receive) ==
  Agreed(transmit, receive, LowerOf(c.codewords, offer.codewords),
         LowerOf(c.string, offer.string))

\* Directions::answer: the responder's reply, and what then applies.
Answer(offer, theirs) ==
  LET proposed == Received(theirs)
      ours == IF offer.is = "None" THEN {} ELSE Ways(offer.receive, offer.transmit)
      both == theirs.directions \cap ours
      applies == Lower(proposed, offer, "ToInitiator" \in both, "FromInitiator" \in both)
  IN  CASE ~Valid(proposed.codewords, proposed.string) -> [reply |-> Error, applies |-> Error]
        [] Valid(proposed.codewords, proposed.string) /\ both = {} ->
             [reply |-> Compression({}, 0, 0), applies |-> None]
        [] OTHER -> [reply |-> Compression(both, applies.codewords, applies.string),
                     applies |-> applies]

\* Directions::conclude: what applies once the reply has come.
Conclude(offer, reply) ==
  LET got == Received(reply)
  IN  CASE reply.directions = {} -> None
        [] reply.directions # {}
             /\ (\/ ~ (reply.directions \subseteq Proposal(offer).directions)
                 \/ ~Valid(got.codewords, got.string)) -> Error
        [] OTHER -> Lower(got, offer, "FromInitiator" \in reply.directions,
                          "ToInitiator" \in reply.directions)

-----------------------------------------------------------------------------
(***************************************************************************)
(* Dictionary: the strings both ends know, as trees.                       *)
(***************************************************************************)
Root(character) == ControlCodewords + character

Empty == [parent |-> NoCode, character |-> 0, length |-> 0, children |-> 0]

\* Dictionary::new.
NewDictionary(codewords) ==
  [entry |-> [code \in 0 .. codewords - 1 |->
                IF code \in ControlCodewords .. FirstString - 1
                THEN [Empty EXCEPT !.character = code - ControlCodewords, !.length = 1]
                ELSE Empty],
   next |-> FirstString]

Codes(d) == DOMAIN d.entry

\* Dictionary::child.
Child(d, node, character) ==
  LET codes == {c \in FirstString .. Cardinality(Codes(d)) - 1 :
                  /\ d.entry[c].length > 0
                  /\ d.entry[c].parent = node /\ d.entry[c].character = character}
  IN  IF codes = {} THEN NoCode ELSE CHOOSE c \in codes : TRUE

\* Dictionary::recover: the next empty entry, or else the next leaf, emptied.
Recover(d) ==
  LET strings == Cardinality(Codes(d)) - FirstString
      after(k) == FirstString + ((d.next + k - FirstString) % strings)
      free(k) == d.entry[after(k)].length = 0 \/ d.entry[after(k)].children = 0
      at == after(CHOOSE k \in 1 .. strings :
                    free(k) /\ \A j \in 1 .. k - 1 : ~free(j))
      e == d.entry[at]
  IN  IF e.length = 0 THEN [d EXCEPT !.next = at]
      ELSE [d EXCEPT !.next = at, !.entry[at].length = 0,
                     !.entry[e.parent].children = @ - 1]

CanAdd(d, node, character, longest) ==
  d.entry[node].length < longest /\ Child(d, node, character) = NoCode

\* Dictionary::add, and the codeword it returns.
Add(d, node, character, longest) ==
  IF ~CanAdd(d, node, character, longest) THEN d
  ELSE Recover([d EXCEPT
                  !.entry[d.next] = [Empty EXCEPT !.parent = node, !.character = character,
                                     !.length = d.entry[node].length + 1,
                                     !.children = d.entry[d.next].children],
                  !.entry[node].children = @ + 1])
Added(d, node, character, longest) ==
  IF CanAdd(d, node, character, longest) THEN d.next ELSE NoCode

\* Dictionary::string; an empty sequence for a codeword that is not in use.
StringOf(d, code) ==
  LET up[n \in 0 .. MaxString] ==
        IF n = 0 THEN code
        ELSE IF up[n - 1] = NoCode THEN NoCode ELSE d.entry[up[n - 1]].parent
      path == SelectSeq([n \in 1 .. MaxString + 1 |-> up[MaxString + 1 - n]],
                        LAMBDA c : c # NoCode)
  IN  IF code < ControlCodewords \/ code \notin Codes(d) THEN <<>>
      ELSE IF d.entry[code].length = 0 THEN <<>>
      ELSE [i \in DOMAIN path |-> d.entry[path[i]].character]

-----------------------------------------------------------------------------
(***************************************************************************)
(* Matcher: the string matching of both ends, on characters.               *)
(***************************************************************************)
NewMatcher == [string |-> NoCode, lastCreated |-> NoCode, exception |-> FALSE]

\* Mutant: the entry just made is used, which the decoder has yet to make.
MatchesAny(d, m, character) == ~m.exception /\ Child(d, m.string, character) # NoCode

\* The string goes on, but never by the entry just made.
Matches(d, m, character) ==
  /\ ~m.exception
  /\ Child(d, m.string, character) \notin {NoCode, m.lastCreated}

\* Matcher::push: the matcher, the dictionary and the string that ended.
Push(d, m, character, longest) ==
  LET fresh == [string |-> Root(character), lastCreated |-> m.lastCreated,
                exception |-> FALSE]
  IN  CASE m.string = NoCode -> [m |-> fresh, d |-> d, ended |-> NoCode]
        [] m.string # NoCode /\ Matches(d, m, character) ->
             [m |-> [m EXCEPT !.string = Child(d, m.string, character)], d |-> d,
              ended |-> NoCode]
        [] m.string # NoCode /\ ~Matches(d, m, character) ->
             [m |-> [fresh EXCEPT !.lastCreated = Added(d, m.string, character, longest)],
              d |-> Add(d, m.string, character, longest),
              ended |-> IF m.exception THEN NoCode ELSE m.string]

NextEscape(escape, character) ==
  IF character = escape THEN (escape + EscapeStep) % 2 ^ OctetBits ELSE escape

-----------------------------------------------------------------------------
(***************************************************************************)
(* Encoder.                                                                *)
(***************************************************************************)
\* Encoder::new; out holds the octets of this step.
NewEncoder(parameters) ==
  [parameters |-> parameters, dictionary |-> NewDictionary(parameters.codewords),
   matcher |-> NewMatcher, mode |-> "Transparent", escape |-> 0, width |-> StartWidth,
   bits |-> 0, count |-> 0, characters |-> 0, windowBits |-> 0, out |-> <<>>]

\* BitWriter::put; a codeword and what is held make fewer than three octets.
Written(e, bits, count, octets) ==
  [e EXCEPT !.out = @ \o [i \in 1 .. octets |->
                            (bits \div 2 ^ (OctetBits * (i - 1))) % 2 ^ OctetBits],
            !.bits = bits \div 2 ^ (OctetBits * octets),
            !.count = count % OctetBits]
PutBits(e, value, width) ==
  Written(e, e.bits + value * 2 ^ e.count, e.count + width, (e.count + width) \div OctetBits)

\* BitWriter::align.
Align(e) == IF e.count = 0 THEN e ELSE PutBits(e, 0, OctetBits - e.count)

Put(e, code) == PutBits(e, code, e.width)

StepUp(e) == [Put(e, STEPUP) EXCEPT !.width = @ + 1]

\* The STEPUPs that a codeword needs before it.
StepUps(e, code) ==
  CHOOSE n \in 0 .. code : code < 2 ^ (e.width + n) /\ \A k \in 0 .. n - 1 : code >= 2 ^ (e.width + k)

\* Encoder::codeword, and the bits that it takes.
Codeword(e, code) ==
  Put(FoldLeft(LAMBDA x, i : StepUp(x), e, [i \in 1 .. StepUps(e, code) |-> i]), code)
CodewordBits(e, code) ==
  LET n == StepUps(e, code)
  IN  FoldLeft(LAMBDA x, i : x + e.width + i, 0, [i \in 1 .. n + 1 |-> i - 1])

\* Encoder::width_for.
WidthFor(e, code) == e.width + StepUps(e, code)

\* The end of compressed mode: what is held goes out, and ETM.
EndCompressed(e) ==
  [Align(Put(IF e.matcher.exception \/ e.matcher.string = NoCode THEN e
             ELSE Codeword(e, e.matcher.string), ETM))
     EXCEPT !.mode = "Transparent", !.matcher.exception = TRUE]

\* Encoder::test_compressibility.
TestCompressibility(e) ==
  LET raw == e.characters * OctetBits
      bits == e.windowBits
      fresh == [e EXCEPT !.characters = 0, !.windowBits = 0]
  IN  CASE e.mode = "Transparent" /\ bits * 4 < raw * 3 ->
             [fresh EXCEPT !.out = @ \o <<e.escape, ECM>>, !.mode = "Compressed",
                           !.matcher.exception = TRUE]
        [] e.mode = "Compressed" /\ bits > raw -> EndCompressed(fresh)
        [] OTHER -> fresh

\* A character is matched, the string that it ended is coded, and it is counted.
Matched(e, p) == [e EXCEPT !.matcher = p.m, !.dictionary = p.d]
Coded(e, ended, character) ==
  CASE e.mode = "Compressed" /\ ended # NoCode ->
         [Codeword(e, ended) EXCEPT !.windowBits = @ + CodewordBits(e, ended)]
    [] e.mode = "Transparent" ->
         [e EXCEPT !.windowBits = IF ended # NoCode THEN @ + WidthFor(e, ended) ELSE @,
                   !.out = @ \o (IF character = e.escape THEN <<character, EID>>
                                 ELSE <<character>>)]
    [] OTHER -> e
CountedIn(e, character) ==
  [e EXCEPT !.escape = NextEscape(@, character), !.characters = @ + 1]
Tested(e) == IF e.characters = TestWindow THEN TestCompressibility(e) ELSE e

\* Encoder::character, with what the matcher makes of it.
Taken(e, character, p) == Tested(CountedIn(Coded(Matched(e, p), p.ended, character), character))
Character(e, character) ==
  Taken(e, character, Push(e.dictionary, e.matcher, character, e.parameters.string))

\* Encoder::flush.
Flushed(e) == IF e.count = 0 THEN e ELSE Align(Put(e, FLUSH))
Flush(e) ==
  IF e.mode = "Compressed" /\ ~e.matcher.exception /\ e.matcher.string # NoCode
  THEN Flushed([Codeword(e, e.matcher.string) EXCEPT !.matcher.exception = TRUE])
  ELSE e

-----------------------------------------------------------------------------
(***************************************************************************)
(* Decoder.                                                                *)
(***************************************************************************)
\* Decoder::new; got is all that it has given out.
NewDecoder(parameters) ==
  [parameters |-> parameters, dictionary |-> NewDictionary(parameters.codewords),
   matcher |-> NewMatcher, mode |-> "Transparent", escape |-> 0, escaped |-> FALSE,
   width |-> StartWidth, bits |-> 0, count |-> 0, previous |-> NoCode, got |-> <<>>,
   error |-> "None"]

\* N1, Parameters::max_bits.
MaxBits(parameters) ==
  CHOOSE n \in 1 .. parameters.codewords :
    2 ^ n >= parameters.codewords /\ 2 ^ (n - 1) < parameters.codewords

Pushed(d, character, p) ==
  [d EXCEPT !.dictionary = p.d, !.matcher = p.m, !.got = Append(@, character)]
Plain(d, character) ==
  Pushed(d, character, Push(d.dictionary, d.matcher, character, d.parameters.string))

\* Decoder::transparent.
TransparentOctet(d, octet) ==
  LET command == [d EXCEPT !.escaped = FALSE]
  IN  CASE d.escaped /\ octet = ECM ->
             [command EXCEPT !.mode = "Compressed", !.previous = d.matcher.string,
                             !.bits = 0, !.count = 0]
        [] d.escaped /\ octet = EID ->
             [Plain(command, d.escape) EXCEPT !.escape = NextEscape(@, d.escape)]
        [] d.escaped /\ octet = RESET -> [NewDecoder(d.parameters) EXCEPT !.got = d.got]
        [] d.escaped /\ octet \notin {ECM, EID, RESET} ->
             [command EXCEPT !.error = "ReservedCommand"]
        [] ~d.escaped /\ octet = d.escape -> [d EXCEPT !.escaped = TRUE]
        [] ~d.escaped /\ octet # d.escape -> Plain(d, octet)

\* Decoder::align.
AlignDecoder(d) ==
  LET drop == d.count % OctetBits
  IN  [d EXCEPT !.bits = @ \div 2 ^ drop, !.count = @ - drop]

\* The codeword of a string, in Decoder::codeword.
StringTaken(d, code, string) ==
  CASE code = d.dictionary.next -> [d EXCEPT !.error = "CodewordIsNextEmpty"]
    [] code # d.dictionary.next /\ string = <<>> -> [d EXCEPT !.error = "EmptyEntry"]
    [] OTHER ->
         [d EXCEPT !.dictionary = IF d.previous = NoCode THEN @
                                  ELSE Add(@, d.previous, string[1], d.parameters.string),
                   !.previous = code, !.got = @ \o string,
                   !.escape = FoldLeft(NextEscape, @, string)]
StringCode(d, code) == StringTaken(d, code, StringOf(d.dictionary, code))

\* Decoder::codeword.
TakeCode(d, code) ==
  CASE code = ETM ->
         [AlignDecoder(d) EXCEPT
            !.mode = "Transparent",
            !.matcher = [string |-> d.previous, lastCreated |-> NoCode, exception |-> TRUE]]
    [] code = FLUSH -> AlignDecoder(d)
    [] code = STEPUP ->
         [d EXCEPT !.width = @ + 1,
                   !.error = IF d.width + 1 > MaxBits(d.parameters)
                             THEN "StepupPastMaximum" ELSE @]
    [] OTHER -> StringCode(d, code)

\* Decoder::decode of an octet, of which at most one codeword comes.
CompressedOctet(d) ==
  IF d.count < d.width THEN d
  ELSE TakeCode([d EXCEPT !.bits = @ \div 2 ^ d.width, !.count = @ - d.width],
                d.bits % 2 ^ d.width)
TakeOctet(d, octet) ==
  CASE d.error # "None" -> d
    [] d.error = "None" /\ d.mode = "Transparent" -> TransparentOctet(d, octet)
    [] d.error = "None" /\ d.mode = "Compressed" ->
         CompressedOctet([d EXCEPT !.bits = @ + octet * 2 ^ d.count, !.count = @ + OctetBits])

Decode(d, octets) == FoldLeft(TakeOctet, d, octets)

-----------------------------------------------------------------------------
(***************************************************************************)
(* The call: LAPM loses nothing, so what is sent is decoded in order.      *)
(***************************************************************************)
\* Both ends are of this code, or the other one says what it likes.
Negotiated(offer, other, answer, concluded) ==
  /\ offered = [initiator |-> offer, responder |-> other]
  /\ agreed = [initiator |-> concluded, responder |-> answer.applies]

Running ==
  /\ \A end \in {"initiator", "responder"} : agreed[end].is = "Agreed"
  /\ agreed.initiator.transmit

Nobody == [reply |-> Error, applies |-> None]

Init ==
  /\ \/ \E offer \in Initiators, other \in Responders :
          LET answer == Answer(other, Proposal(offer))
          IN  Negotiated(offer, other, answer, Conclude(offer, answer.reply))
     \/ \E offer \in Initiators, reply \in Proposals :
          Negotiated(offer, None, Nobody, Conclude(offer, reply))
     \/ \E other \in Responders, proposal \in Proposals :
          Negotiated(None, other, Answer(other, proposal), None)
  /\ enc = IF Running THEN NewEncoder(agreed.initiator) ELSE None
  /\ dec = IF Running THEN NewDecoder(agreed.responder) ELSE None
  /\ sent = <<>>
  /\ left = [flushes |-> MaxFlushes, resets |-> MaxResets]

Goes(e) ==
  /\ enc' = [e EXCEPT !.out = <<>>]
  /\ dec' = Decode(dec, e.out)
  /\ UNCHANGED <<offered, agreed>>

\* Encoder::encode, a character at a time.
Send(character) ==
  /\ Running /\ Len(sent) < MaxSent
  /\ Goes(Character(enc, character))
  /\ sent' = Append(sent, character)
  /\ UNCHANGED left

\* Encoder::flush, when the link would go idle.
Idle ==
  /\ Running /\ left.flushes > 0
  /\ Goes(Flush(enc))
  /\ left' = [left EXCEPT !.flushes = @ - 1]
  /\ UNCHANGED sent

\* An encoder of another make begins again.
Reset ==
  /\ Running /\ left.resets > 0 /\ enc.mode = "Transparent"
  /\ Goes([NewEncoder(enc.parameters) EXCEPT !.out = <<enc.escape, RESET>>])
  /\ left' = [left EXCEPT !.resets = @ - 1]
  /\ UNCHANGED sent

Next == (\E character \in Inputs : Send(character)) \/ Idle \/ Reset

Spec == Init /\ [][Next]_vars

-----------------------------------------------------------------------------
(***************************************************************************)
(* Properties.                                                             *)
(***************************************************************************)
Modes == {"Transparent", "Compressed"}
CodecOK(c) ==
  /\ c.mode \in Modes /\ c.escape \in Octets
  /\ c.width \in StartWidth .. MaxBits(c.parameters)
  /\ c.count \in 0 .. OctetBits - 1 + c.width
  /\ c.bits \in 0 .. 2 ^ c.count - 1
  /\ c.dictionary.next \in FirstString .. c.parameters.codewords - 1

\* The codecs are what their code can make them: never past N1 bits a codeword.
TypeOK ==
  Running => CodecOK(enc) /\ CodecOK(dec) /\ enc.out = <<>> /\ enc.count < OctetBits

\* Where both ends are of this code, what one transmits the other receives, with the
\* same parameters (answer and conclude); and whatever a far end of another make says,
\* neither compresses in a direction or with a dictionary that it did not offer.
AgreedAlike ==
  LET i == agreed.initiator
      r == agreed.responder
      alike == /\ i.is = r.is
               /\ i.is = "Agreed" =>
                    /\ i.transmit = r.receive /\ i.receive = r.transmit
                    /\ i.codewords = r.codewords /\ i.string = r.string
      within(o, a) ==
        a.is = "Agreed" =>
          /\ (a.transmit => o.transmit) /\ (a.receive => o.receive)
          /\ a.codewords <= o.codewords /\ a.string <= o.string
          /\ Valid(a.codewords, a.string)
  IN  /\ "None" \notin {offered.initiator.is, offered.responder.is} => alike
      /\ within(offered.initiator, i) /\ within(offered.responder, r)

\* Whatever is sent, and however modes change, entries are recovered and flushes fall,
\* the decoder gives out what was sent, in order, and calls nothing of it an error.
Decoded == Running => dec.error = "None" /\ IsPrefix(dec.got, sent)

\* Nothing is held back but the string that is being matched and the codeword that
\* waits for its last bits; in transparent mode and after a flush nothing is.
HeldBack ==
  Running =>
    LET held == Len(sent) - Len(dec.got)
        matched == IF enc.matcher.string = NoCode THEN 0
                   ELSE enc.dictionary.entry[enc.matcher.string].length
    IN  IF enc.mode = "Transparent" \/ enc.matcher.exception THEN held = 0
        ELSE held <= matched + (IF enc.count > 0 THEN enc.parameters.string ELSE 0)

\* The trees of strings stay sound as entries are recovered: a string rests on one in
\* use and a character shorter, no string is there twice, and the next entry is free.
TreeSound(d, longest) ==
  LET strings == {c \in FirstString .. Cardinality(Codes(d)) - 1 : d.entry[c].length > 0}
      on(c) == {s \in strings : d.entry[s].parent = c}
  IN  /\ d.entry[d.next].length = 0
      /\ \A c \in strings :
           /\ d.entry[c].length = d.entry[d.entry[c].parent].length + 1
           /\ d.entry[c].length \in 2 .. longest
           /\ d.entry[d.entry[c].parent].length > 0
      /\ \A c \in ControlCodewords .. FirstString - 1 \cup strings :
           d.entry[c].children = Cardinality(on(c))
      /\ \A a, b \in strings :
           /\ d.entry[a].parent = d.entry[b].parent
           /\ d.entry[a].character = d.entry[b].character
           => a = b
TreesSound ==
  Running => /\ TreeSound(enc.dictionary, enc.parameters.string)
             /\ TreeSound(dec.dictionary, dec.parameters.string)

\* Wherever nothing is held back, the two ends know the same strings under the same
\* codewords, and go on from the same one: the decoder has made every entry that the
\* encoder made, and recovered the same.
InStep ==
  Running /\ (enc.mode = "Transparent" \/ enc.matcher.exception) =>
    /\ dec.mode = enc.mode /\ dec.escape = enc.escape
    /\ dec.dictionary.next = enc.dictionary.next
    /\ \A c \in Codes(enc.dictionary) :
         LET e == enc.dictionary.entry[c]
             d == dec.dictionary.entry[c]
         IN  e.length = d.length /\ (e.length > 0 => e = d)
    /\ enc.matcher.string =
         (IF dec.mode = "Compressed" THEN dec.previous ELSE dec.matcher.string)
=============================================================================
