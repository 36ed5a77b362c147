---------------------------- MODULE CommandLine -----------------------------
(***************************************************************************)
(* Command mode: the line editor (softmodem-terminal/src/line.rs), the     *)
(* parser of AT lines (command.rs), the settings they change (settings.rs) *)
(* and the part of softmodem/src/modem.rs that carries a line out.         *)
(*                                                                         *)
(* A character is a string of one, and a text a sequence of characters.    *)
(* What the code has as a bool is 0 or 1 here, and an absent rate is 0.    *)
(* What a command does to a call is Modem's subject: here a call fails, or *)
(* gets through and later ends.                                            *)
(***************************************************************************)
EXTENDS Integers, Sequences, SequencesExt

CONSTANTS
  MAX_LINE,   \* the length at which a line is cut
  Registers,  \* bound: the S registers that lines name
  Keys,       \* what a person types, a key at a time
  Pastes,     \* what a person pastes
  Inits,      \* the --init texts that the modem is started with
  Reads,      \* bound: what a program sends, a set for each of its reads
  MaxKeys     \* bound: keys and pastes of a person

ASSUME CommandLineAssumption ==
  /\ MAX_LINE \in Nat \ {0, 1} /\ MaxKeys \in Nat
  /\ {3, 4, 5} \subseteq Registers
  /\ Registers \subseteq 0 .. 255 \ {1}  \* S1 counts rings

VARIABLES
  user,         \* a person, or a program
  settings, profile,
  buffer, last, \* the line editor's
  last_number,  \* what ATDL dials
  on_line,      \* a call got through and has not ended
  screen,       \* what the terminal shows since the last end of a line
  answers,      \* the texts that the last read was answered with
  results,      \* the result codes of the last read
  ran,          \* the last text that was run
  dialled,      \* the numbers dialled
  trial,        \* what the program sent last, and the settings before it
  entered       \* how much the user has typed or sent

commandVars == <<user, settings, profile, buffer, last, last_number, on_line,
                 screen, answers, results, ran, dialled, trial, entered>>

-----------------------------------------------------------------------------
(***************************************************************************)
(* Characters.                                                             *)
(***************************************************************************)

Chars(s) == [i \in 1 .. Len(s) |-> SubSeq(s, i, i)]
DigitsInOrder == Chars("0123456789")
Capitals == Chars("ABCDEFGHIJKLMNOPQRSTUVWXYZ")
Smalls == Chars("abcdefghijklmnopqrstuvwxyz")
Digit == {DigitsInOrder[i] : i \in 1 .. 10}
Letter == {Capitals[i] : i \in 1 .. 26}
UpperOf == [c \in {Smalls[i] : i \in 1 .. 26} |->
              Capitals[CHOOSE i \in 1 .. 26 : Smalls[i] = c]]
Upper(c) == IF c \in DOMAIN UpperOf THEN UpperOf[c] ELSE c
DigitValue == [c \in Digit |-> (CHOOSE i \in 1 .. 10 : DigitsInOrder[i] = c) - 1]

\* The numbers of the characters that registers may name.
Ascii ==
  LET printable == Chars(" !.#$%&'()*+,-./") \o DigitsInOrder
                     \o Chars(":;<=>?@") \o Capitals
  IN  [c \in {"CR", "LF", "BS"} |->
         CASE c = "CR" -> 13 [] c = "LF" -> 10 [] c = "BS" -> 8]
        @@ [c \in {printable[i] : i \in 1 .. Len(printable)} |->
              CHOOSE n \in 32 .. 31 + Len(printable) : printable[n - 31] = c]
IsCode(c, n) == c \in DOMAIN Ascii /\ Ascii[c] = n

At(t, i) == IF i \in 1 .. Len(t) THEN t[i] ELSE "end"

\* The first place from i on whose character is not of the class.
EndOf(t, i, class) ==
  CHOOSE e \in i .. Len(t) + 1 :
    At(t, e) \notin class /\ \A k \in i .. e - 1 : t[k] \in class

Decimal(digits) == FoldLeft(LAMBDA n, c : 10 * n + DigitValue[c], 0, digits)
RECURSIVE DecimalText(_)
DecimalText(n) ==
  (IF n < 10 THEN <<>> ELSE DecimalText(n \div 10)) \o <<DigitsInOrder[(n % 10) + 1]>>
Padded(n) == <<DigitsInOrder[(n \div 100) + 1], DigitsInOrder[((n \div 10) % 10) + 1],
               DigitsInOrder[(n % 10) + 1]>>

-----------------------------------------------------------------------------
(***************************************************************************)
(* Settings.                                                               *)
(***************************************************************************)

Carriers == {"V21", "V22", "V22B", "V34", "V90"}

Factory ==
  [echo |-> 1, quiet |-> 0, verbose |-> 1, result_set |-> 4, loudness |-> 2,
   monitor |-> 1, dcd |-> 0,
   carrier |-> "V90", automode |-> 1, max_transmit |-> 0,
   orig_rqst |-> 3, orig_fbk |-> 0, ans_fbk |-> 2, er |-> 0,
   direction |-> 3, required |-> 0, max_dict |-> 2048, max_string |-> 32,
   dr |-> 0,
   registers |-> [r \in Registers |->
     CASE r = 2 -> 43 [] r = 3 -> 13 [] r = 4 -> 10 [] r = 5 -> 8 [] r = 6 -> 2
       [] r = 7 -> 50 [] r = 8 -> 2 [] r = 9 -> 6 [] r = 10 -> 14 [] r = 11 -> 95
       [] r = 12 -> 50 [] r = 25 -> 5 [] r = 26 -> 1 [] r = 38 -> 20
       [] OTHER -> 0]]

Ranges ==
  [echo |-> 0 .. 1, quiet |-> 0 .. 1, verbose |-> 0 .. 1, result_set |-> 0 .. 4,
   loudness |-> 0 .. 3, monitor |-> 0 .. 2, dcd |-> 0 .. 1, automode |-> 0 .. 1,
   orig_rqst |-> 0 .. 3, orig_fbk |-> 0 .. 3, ans_fbk |-> 0 .. 5, er |-> 0 .. 1,
   direction |-> 0 .. 3, required |-> 0 .. 1, max_dict |-> 512 .. 65535,
   max_string |-> 6 .. 250, dr |-> 0 .. 1]

\* Settings::apply, for the commands that only change settings.
Apply(s, c) ==
  CASE c.kind = "set" -> c.change @@ s
    [] c.kind = "register" -> [s EXCEPT !.registers[c.register] = c.value]
    [] OTHER -> s

\* Whether apply takes the command.
OnlySets(c) == c.kind \in {"set", "register", "ignored"}

-----------------------------------------------------------------------------
(***************************************************************************)
(* The parser.  Each operator takes a text and the place it has come to,   *)
(* and returns whether it could read on, where it then is, and what it     *)
(* read.                                                                   *)
(***************************************************************************)

Failed == [ok |-> FALSE]
Good(at, c) == [ok |-> TRUE, at |-> at, command |-> c]
Ignored == [kind |-> "ignored"]
Set(field, value) == [kind |-> "set", change |-> [f \in {field} |-> value]]

\* A number up to most, or none, which most commands take for 0.
NumberAt(t, i, most) ==
  LET Up(e, n) == [ok |-> n <= most, at |-> e, given |-> e > i, value |-> n]
      UpTo(e) == Up(e, Decimal(SubSeq(t, i, e - 1)))
  IN  UpTo(EndOf(t, i, Digit))

\* A command with one value up to most.
Valued(t, i, most, Command(_)) ==
  LET With(n) == IF n.ok THEN Good(n.at, Command(n.value)) ELSE Failed
  IN  With(NumberAt(t, i, most))

\* Mutant: as CommandEnded, but what follows the ";" is not looked at.
EndedForGood(t, i, c) == IF At(t, i) = "end" THEN Good(i, c) ELSE Good(Len(t) + 1, c)

\* An extended command ends the line, or has a ";" after it.
CommandEnded(t, i, c) ==
  CASE At(t, i) = "end" -> Good(i, c)
    [] At(t, i) = ";" -> Good(i + 1, c)
    [] OTHER -> Failed

Within(n, field) == n.given => n.value \in Ranges[field]

\* Values for the fields in turn, each in its range.  One left out keeps the
\* field as it is.
RECURSIVE Subparameters(_, _, _)
Subparameters(t, i, fields) ==
  LET Joined(rest, change) ==
        IF ~rest.ok THEN Failed
        ELSE Good(rest.at, [kind |-> "set", change |-> rest.command.change @@ change])
      First(n, change) ==
        IF ~n.ok \/ ~Within(n, Head(fields)) THEN Failed
        ELSE IF Len(fields) = 1 \/ At(t, n.at) # ","
        THEN Good(n.at, [kind |-> "set", change |-> change])
        ELSE Joined(Subparameters(t, n.at + 1, Tail(fields)), change)
      Read(n) == First(n, IF n.given THEN [f \in {Head(fields)} |-> n.value] ELSE <<>>)
  IN  Read(NumberAt(t, i, 65535))

\* "?", "=?" or "=" and a value, which Assigned reads.
Parameter(t, i, name, Assigned(_)) ==
  LET asked == [kind |-> "read", of |-> name]
      listed == [kind |-> "text"]
      Ended(c) == IF c.ok THEN CommandEnded(t, c.at, c.command) ELSE Failed
  IN  Ended(CASE At(t, i) = "?" -> Good(i + 1, asked)
              [] At(t, i) = "=" /\ At(t, i + 1) = "?" -> Good(i + 2, listed)
              [] At(t, i) = "=" /\ At(t, i + 1) # "?" -> Assigned(i + 1)
              [] OTHER -> Failed)

\* The rates after the automode value, each a number or nothing.
RECURSIVE Rates(_, _)
Rates(t, i) ==
  LET Joined(n, rest) ==
        IF n.ok /\ rest.ok THEN [rest EXCEPT !.rates = <<n.value>> \o @] ELSE Failed
      From(n) == Joined(n, Rates(t, n.at))
  IN  IF At(t, i) # "," THEN [ok |-> TRUE, at |-> i, rates |-> <<>>]
      ELSE From(NumberAt(t, i + 1, 2147483647))

\* +MS=: the carrier, automode, and rates of which the second counts.
Modulation(t, i) ==
  LET Chosen(named, auto, rest) ==
        IF ~rest.ok THEN Failed
        ELSE Good(rest.at, [kind |-> "set", change |->
               [carrier |-> CHOOSE c \in named : TRUE,
                automode |-> IF auto.given THEN auto.value ELSE 1,
                max_transmit |-> IF Len(rest.rates) > 1 THEN rest.rates[2] ELSE 0]])
      Rated(named, auto) ==
        IF named = {} \/ ~auto.ok THEN Failed ELSE Chosen(named, auto, Rates(t, auto.at))
      Named(e) ==
        Rated({c \in Carriers : Chars(c) = SubSeq(t, i, e - 1)},
              IF At(t, e) = "," THEN NumberAt(t, e + 1, 1)
              ELSE [ok |-> TRUE, at |-> e, given |-> FALSE, value |-> 1])
  IN  Named(EndOf(t, i, Letter \cup Digit))

\* The extended command of that name, which ends at e.
ExtendedNamed(t, e, name) ==
  LET Is(s) == name = Chars(s)
      Flag(field, k) == Valued(t, k, 1, LAMBDA n : Set(field, n))
      text == [kind |-> "text"]
      query == IF At(t, e) = "=" /\ At(t, e + 1) = "?" THEN CommandEnded(t, e + 2, Ignored)
               ELSE CommandEnded(t, e, text)
  IN  CASE Is("MS") -> Parameter(t, e, "MS", LAMBDA k : Modulation(t, k))
        [] Is("ES") -> Parameter(t, e, "ES", LAMBDA k :
                         Subparameters(t, k, <<"orig_rqst", "orig_fbk", "ans_fbk">>))
        [] Is("DS") -> Parameter(t, e, "DS", LAMBDA k :
                         Subparameters(t, k, <<"direction", "required",
                                               "max_dict", "max_string">>))
        [] Is("ER") -> Parameter(t, e, "ER", LAMBDA k : Flag("er", k))
        [] Is("DR") -> Parameter(t, e, "DR", LAMBDA k : Flag("dr", k))
        [] Is("GMI") \/ Is("GMM") \/ Is("GMR") \/ Is("GCAP") -> query
        [] Is("FCLASS") -> Parameter(t, e, "text", LAMBDA k :
                             Valued(t, k, 0, LAMBDA n : Ignored))
        [] Is("GCI") -> Parameter(t, e, "text", LAMBDA k :
                          IF At(t, k) = "B" /\ At(t, k + 1) = "5"
                          THEN Good(k + 2, Ignored) ELSE Failed)
        [] OTHER ->
             LET semicolons == {k \in e .. Len(t) : t[k] = ";"}
             IN  Good(IF semicolons = {} THEN Len(t) + 1
                      ELSE 1 + CHOOSE k \in semicolons : \A j \in semicolons : k <= j,
                      Ignored)

\* The extended command named at i, after its "+".
Extended(t, i) ==
  LET Named(e) == ExtendedNamed(t, e, SubSeq(t, i, e - 1))
  IN  Named(EndOf(t, i, Letter \cup Digit))

\* S and its register: "=" and a value, or "?".
Register(t, i) ==
  LET Of(r, v) ==
        CASE ~r.ok \/ ~r.given -> Failed
          [] r.ok /\ r.given /\ At(t, r.at) = "=" /\ v.ok ->
               Good(v.at, [kind |-> "register", register |-> r.value, value |-> v.value])
          [] r.ok /\ r.given /\ At(t, r.at) = "?" ->
               Good(r.at + 1, [kind |-> "readRegister", register |-> r.value])
          [] OTHER -> Failed
      Numbered(r) == Of(r, NumberAt(t, r.at + 1, 255))
  IN  Numbered(NumberAt(t, i, 255))

DialKeys == Digit \cup {"*", "#", "A", "B", "C", "D"}
DialModifiers == {"T", "P", "W", "@", "!", "-", "(", ")", ".", "R", "L"}

\* The rest of the line, up to a ";" that keeps the modem in command mode:
\* pauses before the number, the number, and from its first comma on what is
\* keyed once the call is answered.
Dial(t, i) ==
  LET places == {k \in i .. Len(t) : t[k] = ";"}
      stop == IF places = {} THEN Len(t) + 1
              ELSE CHOOSE k \in places : \A j \in places : k <= j
      body == SubSeq(t, i, stop - 1)
      keyed == SelectSeq(body, LAMBDA c : c \in DialKeys \cup {","})
      first == EndOf(keyed, 1, {","})
      cut == EndOf(keyed, first, DialKeys)
      Has(c) == \E k \in 1 .. Len(body) : body[k] = c
  IN  IF \E k \in 1 .. Len(body) : body[k] \notin DialKeys \cup DialModifiers \cup {","}
      THEN Failed
      ELSE Good(IF places = {} THEN stop ELSE stop + 1,
             [kind |-> "dial", number |-> SubSeq(keyed, first, cut - 1),
              pauses |-> first - 1,
              after_answer |-> SubSeq(keyed, cut, Len(keyed)),
              reverse |-> Has("R"), redial |-> Has("L"), stays |-> places # {}])

\* The largest value of each letter, and of those that nothing is done for.
Largest == [A |-> 0, E |-> 1, H |-> 1, I |-> 9, L |-> 3, M |-> 2, O |-> 1, Q |-> 1,
            V |-> 1, X |-> 4, Z |-> 1,
            B |-> 255, C |-> 255, N |-> 255, P |-> 255, T |-> 255, W |-> 255, Y |-> 255]

Basic(c, n) ==
  CASE c = "A" -> [kind |-> "answer"]
    [] c = "E" -> Set("echo", n)
    [] c = "H" -> [kind |-> "offHook", on |-> n]
    [] c = "I" -> IF n \in {0, 3, 4} THEN [kind |-> "text"] ELSE [kind |-> "nothing"]
    [] c = "L" -> Set("loudness", n)
    [] c = "M" -> Set("monitor", n)
    [] c = "O" -> [kind |-> "online", retrain |-> n]
    [] c = "Q" -> Set("quiet", n)
    [] c = "V" -> Set("verbose", n)
    [] c = "X" -> Set("result_set", n)
    [] c = "Z" -> [kind |-> "reset"]
    [] OTHER -> Ignored

\* \N sets all of +ES, and %C the direction of +DS.
Preset(n) ==
  [kind |-> "set", change |->
     CASE n \in {0, 1} -> [orig_rqst |-> 1, orig_fbk |-> 0, ans_fbk |-> 1]
       [] n = 2 -> [orig_rqst |-> 3, orig_fbk |-> 3, ans_fbk |-> 5]
       [] n = 3 -> [orig_rqst |-> 3, orig_fbk |-> 0, ans_fbk |-> 2]]

\* The command whose first character is at i.
CommandAt(t, i) ==
  LET c == t[i]
      second == At(t, i + 1)
  IN  CASE c \in DOMAIN Largest -> Valued(t, i + 1, Largest[c], LAMBDA n : Basic(c, n))
        [] c = "D" -> Dial(t, i + 1)
        [] c = "S" -> Register(t, i + 1)
        [] c = "&" /\ second = "C" -> Valued(t, i + 2, 1, LAMBDA n : Set("dcd", n))
        [] c = "&" /\ second = "F" -> Valued(t, i + 2, 0, LAMBDA n : [kind |-> "factory"])
        [] c = "\\" /\ second = "N" -> Valued(t, i + 2, 3, LAMBDA n : Preset(n))
        [] c = "%" /\ second = "C" ->
             Valued(t, i + 2, 3, LAMBDA n : Set("direction", IF n = 0 THEN 0 ELSE 3))
        [] c \in {"&", "\\", "%"} /\ second \in Letter
             /\ <<c, second>> \notin {<<"&", "C">>, <<"&", "F">>, <<"\\", "N">>, <<"%", "C">>} ->
             Valued(t, i + 2, 255, LAMBDA n : Ignored)
        [] c = "+" -> Extended(t, i + 1)
        [] OTHER -> Failed

RECURSIVE CommandsFrom(_, _)
CommandsFrom(t, i) ==
  LET Joined(c, rest) ==
        IF rest.ok THEN [rest EXCEPT !.commands = <<c.command>> \o @] ELSE Failed
      First(c) == IF c.ok THEN Joined(c, CommandsFrom(t, c.at)) ELSE Failed
  IN  IF i > Len(t) THEN [ok |-> TRUE, commands |-> <<>>] ELSE First(CommandAt(t, i))

\* Spaces do not count, and small letters are capitals.
Plain(text) ==
  LET dense == SelectSeq(text, LAMBDA c : c # " ")
  IN  [i \in 1 .. Len(dense) |-> Upper(dense[i])]
Parse(text) == CommandsFrom(Plain(text), 1)

-----------------------------------------------------------------------------
(***************************************************************************)
(* What a line does.  m is the modem as a record of the variables, with    *)
(* "over" once the rest of a line is dropped.                              *)
(***************************************************************************)

\* The settings that an extended question is answered with.
Told ==
  [ES |-> <<"orig_rqst", "orig_fbk", "ans_fbk">>, ER |-> <<"er">>, DR |-> <<"dr">>,
   DS |-> <<"direction", "required", "max_dict", "max_string">>]

\* The text that a question is answered with, without the command's name that
\* comes first.  Texts that never change are not told apart.
Information(s, c) ==
  LET Listed(fields) ==
        FoldLeft(LAMBDA t, f : t \o <<",">> \o DecimalText(s[f]),
                 DecimalText(s[Head(fields)]), Tail(fields))
  IN  CASE c.kind = "readRegister" -> Padded(s.registers[c.register])
        [] c.kind = "read" /\ c.of = "MS" ->
             Chars(s.carrier) \o <<",">> \o DecimalText(s.automode)
        [] c.kind = "read" /\ c.of \in DOMAIN Told -> Listed(Told[c.of])
        [] OTHER -> <<"text">>
Informs(c) == c.kind \in {"readRegister", "read", "text"}

Reports(m, code) == [m EXCEPT !.results = Append(@, code), !.over = TRUE]
\* ... or with a call, whose outcome is told later.
Connects(m) == [Reports(m, "CALL") EXCEPT !.on_line = "data"]

\* What is dialled, and may be dialled again.
Remembered(m, number) ==
  IF number = <<>> THEN m
  ELSE IF Head(number) = <<>> THEN m ELSE [m EXCEPT !.last_number = number]

Dials(m, d, through) ==
  LET number == IF d.redial THEN m.last_number ELSE <<d.number, d.after_answer>>
      known == Remembered(m, number)
      called == [known EXCEPT !.dialled = Append(@, number)]
  IN  IF m.on_line # "none" THEN Reports(m, "ERROR")
      ELSE IF number = <<>> \/ number = <<<<>>, d.after_answer>> THEN Reports(known, "NO CARRIER")
      ELSE IF ~through THEN Reports(called, "NO CARRIER")
      ELSE IF d.stays THEN Reports([called EXCEPT !.on_line = "command"], "OK")
      ELSE Connects(called)

\* One command of a line; through says whether a call it makes is answered,
\* or somebody rings for it to answer.
Perform(m, c, through) ==
  CASE m.over -> m
    [] ~m.over /\ c.kind = "answer" ->
         IF through /\ m.on_line = "none" THEN Connects(m) ELSE Reports(m, "NO CARRIER")
    [] ~m.over /\ c.kind = "dial" -> Dials(m, c, through)
    [] ~m.over /\ c.kind = "online" ->
         IF m.on_line = "none" THEN Reports(m, "NO CARRIER") ELSE Connects(m)
    [] ~m.over /\ c.kind = "reset" ->
         [m EXCEPT !.on_line = "none", !.settings = m.profile]
    [] ~m.over /\ c.kind = "factory" ->
         [m EXCEPT !.on_line = "none", !.settings = Factory]
    [] ~m.over /\ c.kind = "offHook" ->
         IF c.on = 1 THEN m ELSE [m EXCEPT !.on_line = "none"]
    [] ~m.over /\ Informs(c) ->
         [m EXCEPT !.answers = Append(@, Information(m.settings, c))]
    [] OTHER -> [m EXCEPT !.settings = Apply(@, c)]

PerformAll(m, commands, through) ==
  FoldLeft(LAMBDA x, c : Perform(x, c, through), m, commands)

\* A line is run whole, or not at all when any of it is wrong.
Execute(m, text, through) ==
  LET Done(done) == IF done.over THEN done ELSE Reports(done, "OK")
      Parsed(p) ==
        IF p.ok THEN Done(PerformAll([m EXCEPT !.over = FALSE], p.commands, through))
        ELSE Reports(m, "ERROR")
  IN  Parsed(Parse(text))

-----------------------------------------------------------------------------
(***************************************************************************)
(* The line editor.                                                        *)
(***************************************************************************)

Echoed(m, shown) == IF m.settings.echo = 1 THEN m.screen \o shown ELSE m.screen

\* A backspace and a space between two of it take a character off the screen.
Erased(m, c) ==
  IF m.settings.echo = 0 THEN m.screen
  ELSE IF c # "BS" THEN m.screen \o <<c, " ", c>>
  ELSE SubSeq(m.screen, 1, Len(m.screen) - 1)

StartsLine(b) == Len(b) >= 2 /\ Upper(b[1]) = "A" /\ Upper(b[2]) = "T"

Runs(m, text, line, through) ==
  Execute([m EXCEPT !.ran = [text |-> text, line |-> line, echo |-> m.settings.echo,
                             shown |-> m.screen],
                    !.buffer = <<>>, !.screen = <<>>], text, through)

\* The line that A/ will run again.
KeptLast(m, text) == [m EXCEPT !.last = text]

EndLine(m, through) ==
  LET text == SubSeq(m.buffer, 3, Len(m.buffer))
  IN  IF StartsLine(m.buffer)
      THEN Runs(KeptLast(m, text), text, TRUE, through)
      ELSE [m EXCEPT !.buffer = <<>>, !.screen = <<>>]

\* The second character of a line: A/ runs the last line again, and anything
\* but AT starts over.
AfterA(m, c, through) ==
  CASE c = "/" -> Runs(m, m.last, FALSE, through)
    [] Upper(c) = "T" -> m
    [] OTHER -> [m EXCEPT !.buffer = <<>>]

EditorPush(m, c, through) ==
  LET s == m.settings
      kept == [m EXCEPT !.buffer = Append(@, c), !.screen = Echoed(m, <<c>>)]
  IN  IF IsCode(c, s.registers[3]) THEN EndLine(m, through)
      ELSE IF IsCode(c, s.registers[5])
      THEN IF m.buffer = <<>> THEN m
           ELSE [m EXCEPT !.buffer = SubSeq(@, 1, Len(@) - 1), !.screen = Erased(m, c)]
      ELSE IF (m.buffer = <<>> /\ Upper(c) # "A") \/ Len(m.buffer) >= MAX_LINE \/ c = "LF"
      THEN m
      ELSE IF Len(kept.buffer) = 2 THEN AfterA(kept, c, through)
      ELSE kept

\* The modem is in command mode, and reads on.
Listens(m) == m.on_line # "data"

\* The bytes of one read.  Those after a line that goes to data mode are lost.
ComputerSent(m, bytes, through) ==
  FoldLeft(LAMBDA x, c : IF Listens(x) THEN EditorPush(x, c, through) ELSE x, m, bytes)

-----------------------------------------------------------------------------
(***************************************************************************)
(* Profiles and what a call is set up with.                                *)
(***************************************************************************)

\* A command of a profile.
Stored(s, c) == IF c.kind = "factory" THEN Factory ELSE Apply(s, c)

\* The factory settings with the commands of an --init text, here without its
\* AT, which may only set, or reset.
Profile(text) ==
  LET Of(p) ==
        IF ~p.ok THEN Failed
        ELSE IF \E i \in 1 .. Len(p.commands) :
                  ~OnlySets(p.commands[i]) /\ p.commands[i].kind # "factory" THEN Failed
        ELSE [ok |-> TRUE, settings |-> FoldLeft(Stored, Factory, p.commands)]
  IN  Of(Parse(text))

\* The set-up of the link in each role.
Setups(s) ==
  LET offer == (IF s.direction \in {1, 3} THEN {"transmit"} ELSE {})
                 \cup (IF s.direction \in {2, 3} THEN {"receive"} ELSE {})
  IN  [originate |-> [lapm |-> s.orig_rqst >= 2, detection |-> s.orig_rqst = 3,
                      required |-> s.orig_fbk >= 2, offer |-> offer,
                      offerRequired |-> s.required = 1 /\ offer # {}],
       answer |-> [lapm |-> s.ans_fbk >= 2, detection |-> TRUE,
                   required |-> s.ans_fbk >= 4, offer |-> offer,
                   offerRequired |-> s.required = 1 /\ offer # {}]]

-----------------------------------------------------------------------------
(***************************************************************************)
(* The user.                                                               *)
(***************************************************************************)

\* The modem as the operators above take it, with nothing said yet.
Now ==
  [settings |-> settings, profile |-> profile, buffer |-> buffer, last |-> last,
   last_number |-> last_number, on_line |-> on_line, screen |-> screen,
   answers |-> <<>>, results |-> <<>>, ran |-> ran, dialled |-> dialled,
   over |-> FALSE]

Becomes(m) ==
  /\ settings' = m.settings /\ buffer' = m.buffer /\ last' = m.last
  /\ last_number' = m.last_number /\ on_line' = m.on_line /\ screen' = m.screen
  /\ answers' = m.answers /\ results' = m.results /\ ran' = m.ran
  /\ dialled' = m.dialled
  /\ UNCHANGED <<user, profile>>

NothingRan == [text |-> <<>>, line |-> FALSE, echo |-> 0, shown |-> <<>>]
NoTrial == [lines |-> <<>>]

CommandInit ==
  /\ user \in {"person", "program"}
  /\ profile \in {Profile(i).settings : i \in Inits}
  /\ settings = profile
  /\ buffer = <<>> /\ last = <<>> /\ last_number = <<>> /\ on_line = "none"
  /\ screen = <<>> /\ answers = <<>> /\ results = <<>> /\ ran = NothingRan
  /\ dialled = <<>> /\ trial = NoTrial /\ entered = 0

\* A person presses a key, or pastes a text.
Press(bytes) ==
  /\ user = "person" /\ entered < MaxKeys /\ on_line # "data"
  /\ Becomes(ComputerSent(Now, bytes, FALSE))
  /\ entered' = entered + 1 /\ UNCHANGED trial

\* A line as a program writes it: its commands run together, with a ";" after
\* an extended one, in small letters with spaces or not; or A/.
Semicolon(piece) == IF piece[1] = "+" THEN piece \o <<";">> ELSE piece
TextOf(pieces) ==
  FoldLeft(LAMBDA t, k : t \o (IF k < Len(pieces) THEN Semicolon(pieces[k]) ELSE pieces[k]),
           <<>>, [k \in 1 .. Len(pieces) |-> k])
SmallOf == [c \in Letter |-> Smalls[CHOOSE i \in 1 .. 26 : Capitals[i] = c]]
Spaced(text) ==
  FoldLeft(LAMBDA t, c : t \o <<" ", IF c \in Letter THEN SmallOf[c] ELSE c>>, <<>>, text)
Terminator == CHOOSE c \in DOMAIN Ascii : Ascii[c] = settings.registers[3]
BytesOf(line) ==
  CASE line.kind = "repeat" -> <<"A", "/">>
    [] line.kind = "plain" -> <<"A", "T">> \o TextOf(line.pieces) \o <<Terminator>>
    [] line.kind = "spaced" -> <<"a", "t">> \o Spaced(TextOf(line.pieces)) \o <<Terminator>>

\* A program sends lines that arrive as one read.
Program(read, through) ==
  /\ user = "program" /\ entered < Len(Reads) /\ on_line # "data" /\ buffer = <<>>
  /\ Becomes(ComputerSent(Now, FoldLeft(LAMBDA t, l : t \o BytesOf(l), <<>>, read), through))
  /\ trial' = [lines |-> read, before |-> Now, through |-> through]
  /\ entered' = entered + 1

\* +++ is found in a call, or the call ends.
LeavesData ==
  /\ on_line = "data" /\ on_line' = "command"
  /\ UNCHANGED <<user, settings, profile, buffer, last, last_number, screen, answers,
                 results, ran, dialled, trial, entered>>
CallEnds ==
  /\ on_line # "none" /\ on_line' = "none"
  /\ UNCHANGED <<user, settings, profile, buffer, last, last_number, screen, answers,
                 results, ran, dialled, trial, entered>>

CommandNext ==
  \/ \E k \in Keys : Press(<<k>>)
  \/ \E t \in Pastes : Press(t)
  \/ entered < Len(Reads) /\ \E read \in Reads[entered + 1], through \in BOOLEAN :
       Program(read, through)
  \/ LeavesData \/ CallEnds

-----------------------------------------------------------------------------
(***************************************************************************)
(* Properties.                                                             *)
(***************************************************************************)

\* Settings stay in the ranges that the link and the pumps are built for, and
\* the editor holds nothing but the beginning of an AT line.
CommandTypeOK ==
  /\ \A f \in DOMAIN Ranges : settings[f] \in Ranges[f]
  /\ settings.carrier \in Carriers /\ settings.max_transmit \in Nat
  /\ settings.registers \in [Registers -> 0 .. 255]
  /\ Len(buffer) <= MAX_LINE
  /\ buffer # <<>> => Upper(buffer[1]) = "A"
  /\ Len(buffer) > 1 => StartsLine(buffer)
  /\ on_line \in {"none", "command", "data"}

\* What runs is what the terminal showed: with echo on, a line that is run is
\* the end of what was on the screen, whatever was typed, taken back, left
\* out or cut before the line's end (line.rs push).
ShownRuns ==
  ran.line /\ ran.echo = 1 =>
    LET n == Len(ran.shown) - Len(ran.text)
    IN  /\ n >= 2
        /\ SubSeq(ran.shown, n + 1, Len(ran.shown)) = ran.text
        /\ StartsLine(SubSeq(ran.shown, n - 1, n))

\* What a text does to settings.
After(s, text) == Execute([Now EXCEPT !.settings = s], text, FALSE).settings

\* A program may read a setting, change it, and put it back with the answer
\* it read: the answer after "=" restores what was asked for, from whatever
\* has been set since, and nothing else.  +MS?, which leaves out the rates,
\* restores the carrier and automode (modem.rs information, command.rs).
ReadBack ==
  user = "program" => \A other \in {Factory, profile, After(Factory, Chars("\\N2%C0+DR=1;+ER=1;+MS=V21,0"))} :
    /\ \A name \in DOMAIN Told :
         After(other, Chars("+") \o Chars(name) \o Chars("=")
                        \o Information(settings, [kind |-> "read", of |-> name]))
           = [f \in {Told[name][i] : i \in 1 .. Len(Told[name])} |-> settings[f]] @@ other
    /\ \A r \in Registers :
         After(other, Chars("S") \o DecimalText(r) \o Chars("=")
                        \o Information(settings, [kind |-> "readRegister", register |-> r]))
           = [other EXCEPT !.registers[r] = settings.registers[r]]
    /\ \E put \in {After(other, Chars("+MS=")
                                \o Information(settings, [kind |-> "read", of |-> "MS"]))} :
         put.carrier = settings.carrier /\ put.automode = settings.automode

\* The program's last read was one line of commands.
OneLine == Len(trial.lines) = 1 /\ trial.lines[1].kind # "repeat"

\* A line of commands does what its commands do one after another, and is not
\* begun if one of them is wrong; spaces and small letters make no difference
\* (command.rs parse, modem.rs execute).
Composes ==
  user = "program" /\ trial # NoTrial /\ OneLine =>
    LET pieces == trial.lines[1].pieces
        right == \A k \in 1 .. Len(pieces) : Parse(pieces[k]).ok
    IN  IF ~right
        THEN settings = trial.before.settings /\ results = <<"ERROR">> /\ answers = <<>>
        ELSE \E expected \in
               {FoldLeft(LAMBDA m, t : PerformAll(m, Parse(t).commands, trial.through),
                         trial.before, pieces)} :
             /\ settings = expected.settings /\ answers = expected.answers
             /\ last_number = expected.last_number /\ dialled = expected.dialled
             /\ results = IF expected.over THEN expected.results ELSE <<"OK">>

\* Each line of a read gets its result code, until one of them makes a call
\* that gets through: what comes after it in the same read is dropped with no
\* word (modem.rs computer_sent), as are the commands after a D, an A or an O on
\* its own line, even after a ";" (modem.rs execute).
AllAnswered ==
  user = "program" /\ trial # NoTrial =>
    \/ Len(results) = Len(trial.lines)
    \/ results # <<>> /\ results[Len(results)] = "CALL" /\ Len(results) < Len(trial.lines)

\* A/ after a line does no more than the line did: it sets the same settings,
\* gets the same result and calls the same number.
Repeats ==
  [][trial # NoTrial /\ OneLine /\ on_line = "none"
       /\ trial'.lines = <<[kind |-> "repeat"]>> /\ trial # trial'
       /\ trial.through = trial'.through
     => /\ settings' = settings /\ results' = results
        /\ Len(dialled') - Len(dialled) = Len(dialled) - Len(trial.before.dialled)
        /\ dialled' # <<>> => dialled'[Len(dialled')] = dialled[Len(dialled)]]_commandVars

\* ATDL dials what was dialled last, however long ago, and whatever has been
\* refused or left without a number since (modem.rs dial).
Redials == last_number = (IF dialled = <<>> THEN <<>> ELSE dialled[Len(dialled)])

\* A profile is what its text sets when it is typed at factory settings
\* (modem.rs profile).
ProfileAsTyped ==
  user = "program" /\ trial # NoTrial /\ OneLine =>
    \E stored \in {Profile(TextOf(trial.lines[1].pieces))} :
      stored.ok /\ trial.before.settings = Factory => settings = stored.settings

\* docs/terminal.md:48: \N0 and \N1 never try V.42, \N2 does without nothing
\* else, \N3 takes it if it can, in both roles, whatever +ES was before.
PresetsHold ==
  user = "program" => \A n \in 0 .. 3, role \in {"originate", "answer"} :
    \E setup \in {Setups(After(settings, Chars("\\N") \o DecimalText(n)))[role]} :
      /\ setup.lapm <=> n >= 2
      /\ setup.required <=> n = 2
      /\ setup.detection \/ ~setup.lapm

\* A line of commands does what it says, all of it or nothing, and again when it is
\* asked to; and what a setting is, is what is told of it.
CommandsKept ==
  /\ [](CommandTypeOK /\ ShownRuns /\ ReadBack /\ Composes /\ AllAnswered /\ Redials
        /\ ProfileAsTyped /\ PresetsHold)
  /\ Repeats
=============================================================================
