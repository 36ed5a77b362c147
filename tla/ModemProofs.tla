----------------------------- MODULE ModemProofs -----------------------------
(***************************************************************************)
(* What Modem keeps whatever its callers, its command lines and its        *)
(* settings are: one call at a time, no caller forgotten, and a computer   *)
(* that knows what its bytes mean.                                         *)
(***************************************************************************)
EXTENDS Modem, TLAPS

\* While a command line or a dial is in progress the modem takes no event
\* that brings data mode, so the computer that waits for its result is right
\* to send nothing else.
KnowsTheMode ==
  /\ mode = "Data" <=> told = "data"
  /\ ~Rest => mode \in {"Command", "OnlineCommand"}
  /\ Rest /\ mode \in {"Command", "OnlineCommand"} => told = "command"

\* Commands reach a call only while it is silent or once it is connected.
OnlineIsSettled == mode = "OnlineCommand" => line \in {"silent", "connected"}

\* DcdWhileConnected, also in the middle of a command line.
CarrierShown == mode \in {"Data", "OnlineCommand"} /\ HasHandshake => dcd

Related ==
  /\ OneCall /\ NoCallerForgotten
  /\ KnowsTheMode /\ OnlineIsSettled /\ CarrierShown

Inv == TypeOK /\ Related

\* The flags and the rest of TypeOK.
FlagsOK ==
  /\ offHook \in BOOLEAN /\ follows \in BOOLEAN /\ dcd \in BOOLEAN
  /\ ri \in BOOLEAN /\ stays \in BOOLEAN
OthersOK ==
  /\ mode \in Modes /\ line \in CallStates
  /\ ringing \in Callers \cup {NoCaller} /\ rings \in 0 .. MaxRings
  /\ s0 \in {0, AutoAnswer}
  /\ doing \in {"nothing", "line", "dial"} /\ todo \in Seq(Commands)
  /\ told \in {"command", "busy", "data"} /\ waiting \subseteq Callers

-----------------------------------------------------------------------------
\* The initial state has no call, no caller and a computer in command mode.
LEMMA Initially == Init => Inv
<1> SUFFICES ASSUME Init PROVE Inv
  OBVIOUS
<1>1. FlagsOK
  BY ModemAssumption, Zenon DEF Init, DcdIn, FlagsOK
<1>2. OthersOK
  BY ModemAssumption, SMT DEF Init, OthersOK, Modes, CallStates
<1>3. Related
  BY DEF Init, Related, OneCall, NoCallerForgotten, KnowsTheMode,
         OnlineIsSettled, CarrierShown, Rest, HasHandshake
<1> QED
  BY <1>1, <1>2, <1>3 DEF Inv, TypeOK, FlagsOK, OthersOK

\* Every action of the computer's keeps the variables in their types.
LEMMA ComputerTyped == TypeOK /\ Computer => TypeOK'
<1> SUFFICES ASSUME TypeOK, Computer PROVE TypeOK'
  OBVIOUS
<1> USE DEF Modes, CallStates
<1>1. ASSUME NEW commands \in Lines, SendLine(commands) PROVE TypeOK'
  <2>1. FlagsOK'
    BY <1>1, ModemAssumption, Zenon DEF SendLine, FlagsOK, TypeOK
  <2>2. OthersOK'
    BY <1>1, ModemAssumption, SMT DEF SendLine, OthersOK, TypeOK
  <2> QED
    BY <2>1, <2>2 DEF FlagsOK, OthersOK, TypeOK
<1>2. CASE RunAnswer
  <2>1. FlagsOK'
    BY <1>2, Zenon DEF RunAnswer, Answer, Accept, EndLine, Report, FlagsOK,
      TypeOK
  <2>2. OthersOK'
    BY <1>2, ModemAssumption, SMT DEF RunAnswer, Answer, Accept, EndLine,
      Report, OthersOK, TypeOK
  <2> QED
    BY <2>1, <2>2 DEF FlagsOK, OthersOK, TypeOK
<1>3. CASE RunDial
  <2>1. FlagsOK'
    BY <1>3, Zenon DEF RunDial, Refuse, EndLine, Report, FlagsOK, TypeOK
  <2>2. todo' = <<>>
    BY <1>3, Zenon DEF RunDial, EndLine
  <2>3. OthersOK'
    BY <1>3, <2>2, SMT DEF RunDial, Refuse, EndLine, Report, OthersOK, TypeOK
  <2> QED
    BY <2>1, <2>3 DEF FlagsOK, OthersOK, TypeOK
<1>4. CASE RunDialNothing
  <2>1. FlagsOK'
    BY <1>4, Zenon DEF RunDialNothing, EndLine, Report, FlagsOK, TypeOK
  <2>2. OthersOK'
    BY <1>4, SMT DEF RunDialNothing, EndLine, Report, OthersOK, TypeOK
  <2> QED
    BY <2>1, <2>2 DEF FlagsOK, OthersOK, TypeOK
<1>5. CASE RunOnline
  <2>1. FlagsOK'
    BY <1>5, Zenon DEF RunOnline, HasHandshake, EndLine, Report, FlagsOK, TypeOK
  <2>2. OthersOK'
    BY <1>5, SMT DEF RunOnline, HasHandshake, EndLine, Report, OthersOK, TypeOK
  <2> QED
    BY <2>1, <2>2 DEF FlagsOK, OthersOK, TypeOK
<1>6. CASE RunPutDown
  <2>1. FlagsOK'
    BY <1>6, ModemAssumption, Zenon DEF RunPutDown, Next1, HangUp, FlagsOK,
      TypeOK
  <2>2. OthersOK'
    BY <1>6, ModemAssumption, SMT DEF RunPutDown, Next1, HangUp, OthersOK,
      TypeOK
  <2> QED
    BY <2>1, <2>2 DEF FlagsOK, OthersOK, TypeOK
<1>7. CASE RunOffHook
  <2>1. FlagsOK'
    BY <1>7, Zenon DEF RunOffHook, Next1, Refuse, FlagsOK, TypeOK
  <2>2. OthersOK'
    BY <1>7, SMT DEF RunOffHook, Next1, Refuse, OthersOK, TypeOK
  <2> QED
    BY <2>1, <2>2 DEF FlagsOK, OthersOK, TypeOK
<1>8. CASE RunCarrierDetect
  <2>1. FlagsOK'
    BY <1>8, Zenon DEF RunCarrierDetect, Next1, FlagsOK, TypeOK
  <2>2. OthersOK'
    BY <1>8, SMT DEF RunCarrierDetect, Next1, OthersOK, TypeOK
  <2> QED
    BY <2>1, <2>2 DEF FlagsOK, OthersOK, TypeOK
<1>9. CASE RunAutoAnswer
  <2>1. FlagsOK'
    BY <1>9, Zenon DEF RunAutoAnswer, Next1, FlagsOK, TypeOK
  <2>2. OthersOK'
    BY <1>9, SMT DEF RunAutoAnswer, Next1, OthersOK, TypeOK
  <2> QED
    BY <2>1, <2>2 DEF FlagsOK, OthersOK, TypeOK
<1>10. CASE FinishLine
  <2>1. FlagsOK'
    BY <1>10, Zenon DEF FinishLine, DcdIn, Report, FlagsOK, TypeOK
  <2>2. OthersOK'
    BY <1>10, SMT DEF FinishLine, DcdIn, Report, OthersOK, TypeOK
  <2> QED
    BY <2>1, <2>2 DEF FlagsOK, OthersOK, TypeOK
<1>11. CASE Abort
  <2>1. FlagsOK'
    BY <1>11, Zenon DEF Abort, HangUpWith, HangUp, DcdIn, Report, FlagsOK,
      TypeOK
  <2>2. OthersOK'
    BY <1>11, SMT DEF Abort, HangUpWith, HangUp, DcdIn, Report, OthersOK, TypeOK
  <2> QED
    BY <2>1, <2>2 DEF FlagsOK, OthersOK, TypeOK
<1>12. CASE Escape
  <2>1. FlagsOK'
    BY <1>12, Zenon DEF Escape, Report, FlagsOK, TypeOK
  <2>2. OthersOK'
    BY <1>12, SMT DEF Escape, Report, OthersOK, TypeOK
  <2> QED
    BY <2>1, <2>2 DEF FlagsOK, OthersOK, TypeOK
<1>13. CASE ComputerLeaves
  <2>1. FlagsOK'
    BY <1>13, Zenon DEF ComputerLeaves, HangUp, FlagsOK, TypeOK
  <2>2. OthersOK'
    BY <1>13, SMT DEF ComputerLeaves, HangUp, OthersOK, TypeOK
  <2> QED
    BY <2>1, <2>2 DEF FlagsOK, OthersOK, TypeOK
<1> QED
  BY <1>1, <1>2, <1>3, <1>4, <1>5, <1>6, <1>7, <1>8, <1>9, <1>10, <1>11, <1>12,
     <1>13 DEF Computer

\* So does everything that happens elsewhere.
LEMMA ElsewhereTyped == TypeOK /\ Elsewhere => TypeOK'
<1> SUFFICES ASSUME TypeOK, Elsewhere PROVE TypeOK'
  OBVIOUS
<1> USE DEF Modes, CallStates
<1>1. CASE DialAnswered
  <2>1. FlagsOK'
    BY <1>1, Zenon DEF DialAnswered, EndLine, Report, FlagsOK, TypeOK
  <2>2. OthersOK'
    BY <1>1, SMT DEF DialAnswered, EndLine, Report, OthersOK, TypeOK
  <2> QED
    BY <2>1, <2>2 DEF FlagsOK, OthersOK, TypeOK
<1>2. CASE DialFails
  <2>1. FlagsOK'
    BY <1>2, Zenon DEF DialFails, EndLine, Report, FlagsOK, TypeOK
  <2>2. OthersOK'
    BY <1>2, SMT DEF DialFails, EndLine, Report, OthersOK, TypeOK
  <2> QED
    BY <2>1, <2>2 DEF FlagsOK, OthersOK, TypeOK
<1>3. ASSUME NEW c \in Callers, CallComes(c) PROVE TypeOK'
  <2>1. FlagsOK'
    BY <1>3, ModemAssumption, Zenon DEF CallComes, FlagsOK, TypeOK
  <2>2. OthersOK'
    BY <1>3, ModemAssumption, SMT DEF CallComes, OthersOK, TypeOK
  <2> QED
    BY <2>1, <2>2 DEF FlagsOK, OthersOK, TypeOK
<1>4. ASSUME NEW c \in Callers, CallerLeaves(c) PROVE TypeOK'
  <2>1. FlagsOK'
    BY <1>4, ModemAssumption, Zenon DEF CallerLeaves, FlagsOK, TypeOK
  <2>2. OthersOK'
    BY <1>4, ModemAssumption, SMT DEF CallerLeaves, OthersOK, TypeOK
  <2> QED
    BY <2>1, <2>2 DEF FlagsOK, OthersOK, TypeOK
<1>5. CASE Ring
  <2>1. FlagsOK'
    BY <1>5, ModemAssumption, Zenon DEF Ring, Counted, Answer, Accept, Report,
      FlagsOK, TypeOK
  <2>2. OthersOK'
    BY <1>5, ModemAssumption, SMT DEF Ring, Counted, Answer, Accept, Report,
      OthersOK, TypeOK
  <2> QED
    BY <2>1, <2>2 DEF FlagsOK, OthersOK, TypeOK
<1>6. CASE RingPauses
  <2>1. FlagsOK'
    BY <1>6, Zenon DEF RingPauses, FlagsOK, TypeOK
  <2>2. OthersOK'
    BY <1>6, SMT DEF RingPauses, OthersOK, TypeOK
  <2> QED
    BY <2>1, <2>2 DEF FlagsOK, OthersOK, TypeOK
<1>7. CASE DigitsSent
  <2>1. FlagsOK'
    BY <1>7, Zenon DEF DigitsSent, FlagsOK, TypeOK
  <2>2. OthersOK'
    BY <1>7, SMT DEF DigitsSent, OthersOK, TypeOK
  <2> QED
    BY <2>1, <2>2 DEF FlagsOK, OthersOK, TypeOK
<1>8. CASE Connect
  <2>1. FlagsOK'
    BY <1>8, Zenon DEF Connect, DcdIn, FlagsOK, TypeOK
  <2>2. OthersOK'
    BY <1>8, SMT DEF Connect, DcdIn, OthersOK, TypeOK
  <2> QED
    BY <2>1, <2>2 DEF FlagsOK, OthersOK, TypeOK
<1>9. CASE CallEnds
  <2>1. FlagsOK'
    BY <1>9, Zenon DEF CallEnds, HangUpWith, HangUp, DcdIn, Report, FlagsOK,
      TypeOK
  <2>2. OthersOK'
    BY <1>9, SMT DEF CallEnds, HangUpWith, HangUp, DcdIn, Report, OthersOK,
      TypeOK
  <2> QED
    BY <2>1, <2>2 DEF FlagsOK, OthersOK, TypeOK
<1> QED
  BY <1>1, <1>2, <1>3, <1>4, <1>5, <1>6, <1>7, <1>8, <1>9 DEF Elsewhere

-----------------------------------------------------------------------------
\* Every action of the computer's keeps the call, the callers, the mode and
\* DCD together.
LEMMA ComputerKeeps == Inv /\ Computer => Related'
<1> SUFFICES ASSUME Inv, Computer PROVE Related'
  OBVIOUS
<1> USE DEF Inv, Related, OneCall, NoCallerForgotten, KnowsTheMode,
            OnlineIsSettled, CarrierShown, Rest, HasHandshake
<1>1. ASSUME NEW commands \in Lines, SendLine(commands) PROVE Related'
  BY <1>1 DEF SendLine
<1>2. CASE RunAnswer
  BY <1>2, ModemAssumption DEF RunAnswer, Next1, Answer, Accept, EndLine, Report
<1>3. CASE RunDial
  BY <1>3, ModemAssumption DEF RunDial, Next1, Refuse, EndLine, Report
<1>4. CASE RunDialNothing
  BY <1>4 DEF RunDialNothing, Next1, EndLine, Report
<1>5. CASE RunOnline
  BY <1>5 DEF RunOnline, Next1, EndLine, Report, TypeOK, CallStates
<1>6. CASE RunPutDown
  BY <1>6 DEF RunPutDown, Next1, HangUp
<1>7. CASE RunOffHook
  BY <1>7, ModemAssumption DEF RunOffHook, Next1, Refuse
<1>8. CASE RunCarrierDetect
  BY <1>8 DEF RunCarrierDetect, Next1
<1>9. CASE RunAutoAnswer
  BY <1>9 DEF RunAutoAnswer, Next1
<1>10. CASE FinishLine
  BY <1>10 DEF FinishLine, DcdIn, Report
<1>11. CASE Abort
  BY <1>11 DEF Abort, HangUpWith, HangUp, DcdIn, Report
<1>12. CASE Escape
  BY <1>12 DEF Escape, Report
<1>13. CASE ComputerLeaves
  BY <1>13 DEF ComputerLeaves, HangUp
<1> QED
  BY <1>1, <1>2, <1>3, <1>4, <1>5, <1>6, <1>7, <1>8, <1>9, <1>10, <1>11, <1>12,
     <1>13 DEF Computer

\* So does everything that happens elsewhere.
LEMMA ElsewhereKeeps == Inv /\ Elsewhere => Related'
<1> SUFFICES ASSUME Inv, Elsewhere PROVE Related'
  OBVIOUS
<1> USE DEF Inv, Related, OneCall, NoCallerForgotten, KnowsTheMode,
            OnlineIsSettled, CarrierShown, Rest, HasHandshake
<1>1. CASE DialAnswered
  BY <1>1 DEF DialAnswered, EndLine, Report
<1>2. CASE DialFails
  BY <1>2 DEF DialFails, EndLine, Report
<1>3. ASSUME NEW c \in Callers, CallComes(c) PROVE Related'
  BY <1>3, ModemAssumption DEF CallComes
<1>4. ASSUME NEW c \in Callers, CallerLeaves(c) PROVE Related'
  BY <1>4, ModemAssumption DEF CallerLeaves
<1>5. CASE Ring
  BY <1>5, ModemAssumption DEF Ring, Answer, Accept, Report
<1>6. CASE RingPauses
  BY <1>6 DEF RingPauses
<1>7. CASE DigitsSent
  BY <1>7 DEF DigitsSent
<1>8. CASE Connect
  BY <1>8 DEF Connect, DcdIn, TypeOK, Modes
<1>9. CASE CallEnds
  BY <1>9 DEF CallEnds, HangUpWith, HangUp, DcdIn, Report
<1> QED
  BY <1>1, <1>2, <1>3, <1>4, <1>5, <1>6, <1>7, <1>8, <1>9 DEF Elsewhere

\* The invariant holds of every state of every behaviour.
THEOREM ModemInvariance == Spec => []Inv
<1>1. Init => Inv
  BY Initially
<1>2. Inv /\ [Next]_vars => Inv'
  <2> SUFFICES ASSUME Inv, [Next]_vars PROVE Inv'
    OBVIOUS
  <2>1. CASE Computer
    BY <2>1, ComputerTyped, ComputerKeeps DEF Inv
  <2>2. CASE Elsewhere
    BY <2>2, ElsewhereTyped, ElsewhereKeeps DEF Inv
  <2>3. CASE UNCHANGED vars
    BY <2>3 DEF Inv, vars, TypeOK, Related, OneCall, NoCallerForgotten,
                KnowsTheMode, OnlineIsSettled, CarrierShown, Rest, HasHandshake
  <2> QED
    BY <2>1, <2>2, <2>3 DEF Next
<1> QED
  BY <1>1, <1>2, PTL DEF Spec

\* The variables keep their types: S1 does not run past its end, and nobody
\* rings who is not a caller.
THEOREM ModemTypeCorrect == Spec => []TypeOK
<1>1. Inv => TypeOK
  BY DEF Inv
<1> QED
  BY <1>1, ModemInvariance, PTL

\* One call at a time (modem.rs: incoming, dial, answer).
THEOREM OneCallAtATime == Spec => []OneCall
<1>1. Inv => OneCall
  BY DEF Inv, Related
<1> QED
  BY <1>1, ModemInvariance, PTL

\* A caller hears a ringing tone just while the modem rings for it (modem.rs:
\* incoming, dial, execute's H1).
THEOREM EveryCallerIsAnswered == Spec => []NoCallerForgotten
<1>1. Inv => NoCallerForgotten
  BY DEF Inv, Related
<1> QED
  BY <1>1, ModemInvariance, PTL

\* Both at once: whoever calls is rung for, answered or refused, one at a time.
THEOREM CallersAreKept == Spec => []CallersKept
<1>1. Inv => CallersKept
  BY DEF Inv, Related, CallersKept
<1> QED
  BY <1>1, ModemInvariance, PTL

\* Result codes and modes agree (modem.rs: report at every change of mode).
THEOREM ComputerKnowsItsMode == Spec => []MeansTheSame
<1>1. Inv => MeansTheSame
  BY DEF Inv, Related, KnowsTheMode, MeansTheSame
<1> QED
  BY <1>1, ModemInvariance, PTL

\* DCD does not drop under a call (modem.rs: sync_dcd, execute).
THEOREM CarrierIsShown == Spec => []DcdWhileConnected
<1>1. Inv => DcdWhileConnected
  BY DEF Inv, Related, CarrierShown, DcdWhileConnected
<1> QED
  BY <1>1, ModemInvariance, PTL
=============================================================================
