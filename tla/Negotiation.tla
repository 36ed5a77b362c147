---------------------------- MODULE Negotiation ----------------------------
(***************************************************************************)
(* What the ends of a call say to each other before they have a            *)
(* modulation: the modes of a V.8 menu (softmodem-dsp/src/v8.rs) and what  *)
(* an ear makes of signals and messages.  Time passes in ticks of 100 ms.  *)
(***************************************************************************)
EXTENDS Integers, Sequences, FiniteSets

Modulations == {"V90", "V34", "V22bis", "V21"}

\* The sides of V.90 a menu offers, and the other modulations.
Sides == {"analogue", "digital"}
Modes == SUBSET (Sides \cup (Modulations \ {"V90"}))

OtherSide(side) == IF side = "analogue" THEN "digital" ELSE "analogue"

\* Modes::common and Pcm::common: V.90 needs one side at each end.
Common(ours, theirs) ==
  {m \in ours : IF m \in Sides THEN OtherSide(m) \in theirs ELSE m \in theirs}

\* An offer is the top modulation and whether those below it may be offered.
Offers == [top : Modulations, fallback : BOOLEAN]

\* Offered::modes.
Offered(offer, role) ==
  (IF offer.top # "V90" THEN {}
   ELSE IF role = "Originate" THEN {"analogue"} ELSE {"digital"})
  \cup (IF offer.top \in {"V34", "V90"} THEN {"V34"} ELSE {})
  \cup (IF offer.top = "V22bis" \/ (offer.fallback /\ offer.top # "V21")
        THEN {"V22bis"} ELSE {})
  \cup (IF offer.top = "V21" \/ offer.fallback THEN {"V21"} ELSE {})

\* Offered::legacy: what is tried with a far end that has no V.8.
Legacy(offer) == IF offer.top = "V21" THEN "V21" ELSE "V22bis"

\* Offered::chosen.
Chosen(common) ==
  CASE common \cap Sides # {} -> "V90"
    [] common \cap Sides = {} /\ "V34" \in common -> "V34"
    [] common \cap {"analogue", "digital", "V34"} = {}
         /\ "V22bis" \in common -> "V22bis"
    [] OTHER -> "V21"

-----------------------------------------------------------------------------
(***************************************************************************)
(* What is on a line in one tick: a steady signal, or a part of one that   *)
(* has parts, up to its last.  A part may be spoilt on the way.            *)
(***************************************************************************)
Sound(is, part, of, what) ==
  [is |-> is, part |-> part, of |-> of, what |-> what, spoilt |-> FALSE]

InParts(is, ticks, what) == [i \in 1 .. ticks |-> Sound(is, i, ticks, what)]

Steady(is) == Sound(is, 1, 1, {})
Quiet == Steady("Quiet")

\* What an ear has heard of a message or a signal of several parts.
Unheard == [is |-> "Quiet", parts |-> 0, clean |-> TRUE]

\* The parts heard in a row, s the last of them.
Heed(ear, s) ==
  IF s.part = 1 THEN [is |-> s.is, parts |-> 1, clean |-> ~s.spoilt]
  ELSE IF ear.is = s.is /\ ear.parts = s.part - 1
       THEN [ear EXCEPT !.parts = s.part, !.clean = @ /\ ~s.spoilt]
       ELSE Unheard

\* s is the last part of something heard from its start.
Ended(ear, s) == s.of > 1 /\ Heed(ear, s).parts = s.of
Whole(ear, s) == Ended(ear, s) /\ Heed(ear, s).clean
=============================================================================
