----------------------------- MODULE MCTraining -----------------------------
EXTENDS Training

\* A call of these two pumps, on which what goes wrong does so from .. by.
Call(caller, answerer, delay, lost, asks, hows, from, by, until) ==
  [caller |-> caller, answerer |-> answerer, delay |-> delay,
   left |-> [lost |-> lost, asks |-> asks, hows |-> hows,
             from |-> from, by |-> by, until |-> until]]

CallV34(delay, lost, asks, hows, from, by, until) ==
  Call(NewV34("Originate", 2), NewV34("Answer", 3), delay, lost, asks, hows, from, by, until)
CallV90(mode, delay, lost, asks, hows, from, by, until) ==
  Call(NewAnalogue(mode, 3), NewDigital(2), delay, lost, asks, hows, from, by, until)
Call22(caller, answerer, delay, lost, asks, hows, from, by, until) ==
  Call(IF caller = "V22" THEN NewV22("Originate") ELSE NewV22bis("Originate"),
       IF answerer = "V22" THEN NewV22("Answer") ELSE NewV22bis("Answer"),
       delay, lost, asks, hows, from, by, until)

Renewals == {"Renegotiate", "Retrain"}

\* A tick lost at any time of start-up; two things asked for, at once or one in the
\* other; and a tick lost in what is asked for.
MCTrainings ==
  {CallV34(d, 1, 0, {}, 0, 105, 260) : d \in {0, 3}}
  \cup {CallV34(1, 0, 2, Renewals \cup {"ClearDown"}, 105, 120, 330)}
  \cup {CallV34(1, 1, 1, Renewals \cup {"ClearDown"}, 110, 124, 400)}
  \cup {CallV90("Analogue", d, 1, 0, {}, 0, 130, 300) : d \in {0, 3}}
  \cup {CallV90("Analogue", 1, 0, 2, Renewals \cup {"ClearDown", "LowerMargin"}, 125, 140, 330)}
  \cup {CallV90("Analogue", 1, 1, 1, Renewals \cup {"ClearDown"}, 125, 138, 380)}
  \cup {CallV90("PicksV34", 1, 1, 1, {"Retrain"}, 110, 116, 400)}
  \cup {Call22("V22bis", "V22bis", d, 1, 0, {}, 0, 60, 110) : d \in {0, 3}}
  \cup {Call22("V22bis", "V22bis", 1, 2, 1, {"Retrain"}, 42, 58, 310)}
  \cup {Call22("V22bis", "V22bis", 1, 0, 2, {"Retrain"}, 42, 80, 250)}
  \cup {Call22(c, a, 1, 1, 0, {}, 0, 60, 110) : c \in {"V22", "V22bis"}, a \in {"V22"}}
  \cup {Call22("V22", "V22bis", 1, 1, 0, {}, 0, 60, 110)}
=============================================================================
