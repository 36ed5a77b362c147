----------------------------- MODULE MCAutomode -----------------------------
EXTENDS Automode

Offer(top) == [top |-> top, fallback |-> TRUE]
Only(top) == [top |-> top, fallback |-> FALSE]

Between(caller, answerer, delay, spoilt, lost) ==
  [caller |-> caller, answerer |-> answerer, delay |-> delay,
   faults |-> [spoilt |-> spoilt, lost |-> lost, gone |-> FALSE,
              hurt |-> FALSE]]

\* Every pair of offers on a sound line.
SoundCalls ==
  {Between(Call(a), Answer(b), d, 0, 0) : a, b \in Offers, d \in {0, 3, 8, 12}}

\* The same on a line that fails once, and some that fail twice.
BadCalls ==
  {Between(Call(a), Answer(b), d, f[1], f[2]) :
     a, b \in Offers, d \in {0, 3}, f \in {<<1, 0>>, <<0, 1>>}}
  \cup
  {Between(Call(a), Answer(b), 1, f[1], f[2]) :
     a \in {Offer("V90"), Only("V34")}, b \in {Offer("V34")},
     f \in {<<2, 0>>, <<1, 1>>}}

\* Far ends of other makes.
ForeignCalls ==
  {Between(c, Answer(Offer(top)), 1, 1, 0) :
     c \in {MarkCaller, PlainCaller("V21")}, top \in {"V34", "V21"}}
  \cup {Between(PlainCaller("V22bis"), Answer(Offer("V34")), 1, 1, 0)}
  \cup
  {Between(c, Answer(Offer("V34")), 1, 0, 0) : c \in {Chooser}}
  \cup
  {Between(Escaper(kind, Offer("V22bis")), Answer(Offer("V34")), 1, 0, 0) :
     kind \in Escapers}
  \cup
  {Between(Call(Offer("V34")), PlainAnswer(is), 1, 1, 0) : is \in {"V21", "V22bis"}}

MCCalls == SoundCalls \cup BadCalls \cup ForeignCalls
=============================================================================
