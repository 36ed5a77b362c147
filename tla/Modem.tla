-------------------------------- MODULE Modem --------------------------------
(***************************************************************************)
(* One modem as its computer sees it, softmodem/src/modem.rs: command      *)
(* lines, ringing, dialling, and the life of a call.  The transport, the   *)
(* far end and the computer do what they may at any moment.                *)
(*                                                                         *)
(* The modem is one task.  While it carries out a command line, or waits   *)
(* for a dial, it takes no other event: "doing" says what it is in the     *)
(* middle of, and "todo" the commands of the line that are left.           *)
(***************************************************************************)
EXTENDS Naturals, Sequences

CONSTANTS
  Callers,        \* who may call
  NoCaller,       \* not a caller
  Lines,          \* the command lines the computer may send; "Dstay" is a dial
                  \* with ";"
  AutoAnswer,     \* what the computer sets S0 to, and the stored profile's
  ProfileFollows, \* whether the stored profile has &C1
  MaxRings        \* bound: rings counted, at least AutoAnswer

Commands ==
  {"A", "D", "Dstay", "O", "Z", "&F", "H0", "H1", "&C0", "&C1", "S0=0", "S0=n"}

ASSUME ModemAssumption ==
  /\ NoCaller \notin Callers
  /\ Lines \subseteq Seq(Commands)
  /\ AutoAnswer \in Nat /\ MaxRings \in Nat /\ AutoAnswer <= MaxRings
  /\ ProfileFollows \in BOOLEAN

VARIABLES
  mode,     \* what the computer's bytes mean
  line,     \* the call: none, silent under ";", sending digits before its
            \* handshake, in it, or connected
  ringing,  \* the caller that rings
  rings,    \* S1
  s0,       \* S0: the rings before the modem answers, 0 for never
  offHook,  \* H1
  follows,  \* &C1: DCD follows carrier
  dcd,      \* DCD as last given to the port
  ri,       \* the ring indicator is on
  doing,    \* what the modem's task is in the middle of
  todo,     \* the commands of the line in progress that are left
  stays,    \* the dial in progress has ";"
  told,     \* what the computer makes of the result codes so far
  waiting   \* the callers that the transport rings for

vars == <<mode, line, ringing, rings, s0, offHook, follows, dcd, ri, doing,
          todo, stays, told, waiting>>

Modes == {"Command", "Handshake", "Data", "OnlineCommand"}
CallStates == {"none", "silent", "digits", "starting", "connected"}

TypeOK ==
  /\ mode \in Modes /\ line \in CallStates
  /\ ringing \in Callers \cup {NoCaller} /\ rings \in 0 .. MaxRings
  /\ s0 \in {0, AutoAnswer}
  /\ offHook \in BOOLEAN /\ follows \in BOOLEAN
  /\ dcd \in BOOLEAN /\ ri \in BOOLEAN
  /\ doing \in {"nothing", "line", "dial"} /\ todo \in Seq(Commands)
  /\ stays \in BOOLEAN
  /\ told \in {"command", "busy", "data"} /\ waiting \subseteq Callers

Rest == doing = "nothing"
HasHandshake == line \in {"starting", "connected"}

\* What sync_dcd makes DCD once the modem is in a mode, with a call or not.
DcdIn(m, l, f) ==
  ~f \/ (l \in {"starting", "connected"} /\ m \in {"Data", "OnlineCommand"})

Init ==
  /\ mode = "Command" /\ line = "none"
  /\ ringing = NoCaller /\ rings = 0 /\ s0 = AutoAnswer /\ offHook = FALSE
  /\ follows = ProfileFollows /\ dcd = DcdIn("Command", "none", ProfileFollows)
  /\ ri = FALSE /\ doing = "nothing" /\ todo = <<>> /\ stays = FALSE
  /\ told = "command" /\ waiting = {}

-----------------------------------------------------------------------------
(***************************************************************************)
(* What several handlers do.                                               *)
(***************************************************************************)
EndLine == doing' = "nothing" /\ todo' = <<>>

\* A result code that leaves the computer in command mode.
Report == told' = "command"

HangUp == line' = "none" /\ mode' = "Command"

\* Mutant: the call ends without a word.
HangUpQuietly ==
  /\ HangUp /\ UNCHANGED told
  /\ dcd' = DcdIn("Command", "none", follows)

\* hang_up_with: the call ends, and the computer is told.
HangUpWith ==
  /\ HangUp /\ Report
  /\ dcd' = DcdIn("Command", "none", follows)

\* Mutant: the caller is dropped without a word.
RefuseSilently == ringing' = NoCaller /\ UNCHANGED waiting

\* The caller that rings is refused, if there is one.
Refuse == ringing' = NoCaller /\ waiting' = waiting \ {ringing}

\* The call is answered: "accept" of a caller there is.
Accept ==
  /\ ringing' = NoCaller /\ waiting' = waiting \ {ringing} /\ rings' = 0
  /\ ri' = FALSE
  /\ mode' = "Handshake" /\ line' = "starting"

\* ATA and S0.  The transport's answer may fail: the modem has let go of the
\* caller by then, and the transport rings for it no more.  What such a caller
\* hears depends on the transport (Sip, where it is told nothing).
Answer ==
  \/ /\ ringing = NoCaller
     /\ Report /\ ri' = FALSE
     /\ UNCHANGED <<mode, line, ringing, rings, waiting>>
  \/ /\ ringing # NoCaller
     /\ Accept
     /\ UNCHANGED told
  \/ /\ ringing # NoCaller
     /\ ringing' = NoCaller /\ rings' = 0 /\ ri' = FALSE
     /\ waiting' = waiting \ {ringing}
     /\ Report
     /\ UNCHANGED <<mode, line>>

-----------------------------------------------------------------------------
(***************************************************************************)
(* The computer.                                                           *)
(***************************************************************************)
SendLine(commands) ==
  /\ Rest /\ mode \in {"Command", "OnlineCommand"}
  /\ doing' = "line" /\ todo' = commands /\ told' = "busy"
  /\ UNCHANGED <<mode, line, ringing, rings, offHook, s0, follows, dcd, ri,
                 stays, waiting>>

\* The next command of the line is one of these.
Next1(commands) == doing = "line" /\ todo # <<>> /\ Head(todo) \in commands

RunAnswer ==
  /\ Next1({"A"})
  /\ Answer /\ EndLine
  /\ UNCHANGED <<offHook, s0, follows, dcd, stays>>

\* Dialling refuses a caller that rings.
RunDial ==
  /\ Next1({"D", "Dstay"})
  /\ IF line # "none"
     THEN /\ EndLine /\ Report
          /\ UNCHANGED <<ringing, waiting, stays>>
     ELSE /\ Refuse
          /\ doing' = "dial" /\ todo' = <<>> /\ stays' = (Head(todo) = "Dstay")
          /\ UNCHANGED told
  /\ UNCHANGED <<mode, line, rings, offHook, s0, follows, dcd, ri>>

\* The number is missing, also to dial again.
RunDialNothing ==
  /\ Next1({"D", "Dstay"}) /\ line = "none"
  /\ EndLine /\ Report
  /\ UNCHANGED <<mode, line, ringing, rings, offHook, s0, follows, dcd, ri,
                 stays, waiting>>

RunOnline ==
  /\ Next1({"O"})
  /\ \/ /\ line = "none"
        /\ Report /\ UNCHANGED <<mode, line>>
     \/ /\ line \in {"silent", "digits"}
        /\ mode' = "Handshake" /\ line' = "starting" /\ UNCHANGED told
     \/ /\ HasHandshake
        /\ mode' = "Data" /\ told' = "data" /\ UNCHANGED line
  /\ EndLine
  /\ UNCHANGED <<ringing, rings, offHook, s0, follows, dcd, ri, stays, waiting>>

\* ATZ, AT&F and ATH put the call down.  The settings that ATZ and AT&F
\* restore include the count of rings, S1.
RunPutDown ==
  /\ HangUp
  /\ \/ /\ Next1({"Z"})
        /\ follows' = ProfileFollows /\ s0' = AutoAnswer /\ rings' = 0
        /\ UNCHANGED offHook
     \/ /\ Next1({"&F"})
        /\ follows' = FALSE /\ s0' = 0 /\ rings' = 0
        /\ UNCHANGED offHook
     \/ /\ Next1({"H0"})
        /\ offHook' = FALSE
        /\ UNCHANGED <<rings, s0, follows>>
  /\ todo' = Tail(todo)
  /\ UNCHANGED <<ringing, dcd, ri, doing, stays, told, waiting>>

RunOffHook ==
  /\ Next1({"H1"})
  /\ offHook' = TRUE /\ Refuse
  /\ todo' = Tail(todo)
  /\ UNCHANGED <<mode, line, rings, s0, follows, dcd, ri, doing, stays, told>>

RunCarrierDetect ==
  /\ Next1({"&C0", "&C1"})
  /\ follows' = (Head(todo) = "&C1")
  /\ todo' = Tail(todo)
  /\ UNCHANGED <<mode, line, ringing, rings, s0, offHook, dcd, ri, doing, stays,
                 told, waiting>>

RunAutoAnswer ==
  /\ Next1({"S0=0", "S0=n"})
  /\ s0' = IF Head(todo) = "S0=n" THEN AutoAnswer ELSE 0
  /\ todo' = Tail(todo)
  /\ UNCHANGED <<mode, line, ringing, rings, offHook, follows, dcd, ri, doing,
                 stays, told, waiting>>

FinishLine ==
  /\ doing = "line" /\ todo = <<>>
  /\ doing' = "nothing" /\ Report
  /\ dcd' = DcdIn(mode, line, follows)
  /\ UNCHANGED <<mode, line, ringing, rings, offHook, s0, follows, ri, todo,
                 stays, waiting>>

\* The computer presses a key, or is gone, while the modem trains.
Abort ==
  /\ Rest /\ mode = "Handshake"
  /\ HangUpWith
  /\ UNCHANGED <<ringing, rings, offHook, s0, follows, ri, doing, todo, stays,
                 waiting>>

\* +++ between its guard times.
Escape ==
  /\ Rest /\ mode = "Data"
  /\ mode' = "OnlineCommand" /\ Report
  /\ UNCHANGED <<line, ringing, rings, offHook, s0, follows, dcd, ri, doing,
                 todo, stays, waiting>>

\* The end of a computer's input, on a port that takes another computer,
\* which knows of no call.
ComputerLeaves ==
  /\ Rest
  /\ HangUp /\ offHook' = FALSE /\ told' = "command"
  /\ UNCHANGED <<ringing, rings, s0, follows, dcd, ri, doing, todo, stays,
                 waiting>>

-----------------------------------------------------------------------------
(***************************************************************************)
(* The dial in progress.  Nothing else is heard until it is over.          *)
(***************************************************************************)
DialAnswered ==
  /\ doing = "dial"
  /\ EndLine
  /\ IF stays
     THEN mode' = "OnlineCommand" /\ line' = "silent" /\ Report
     ELSE /\ mode' = "Handshake" /\ line' \in {"digits", "starting"}
          /\ UNCHANGED told
  /\ UNCHANGED <<ringing, rings, offHook, s0, follows, dcd, ri, stays, waiting>>

\* Busy, an error of the transport, a key of the computer's, or S7.
DialFails ==
  /\ doing = "dial"
  /\ EndLine /\ Report
  /\ UNCHANGED <<mode, line, ringing, rings, offHook, s0, follows, dcd, ri,
                 stays, waiting>>

-----------------------------------------------------------------------------
(***************************************************************************)
(* The transport and the line.                                             *)
(***************************************************************************)
CallComes(c) ==
  /\ Rest /\ line = "none" /\ c \notin waiting
  /\ IF offHook \/ ringing # NoCaller
     THEN UNCHANGED <<ringing, rings, waiting>>
     ELSE ringing' = c /\ rings' = 0 /\ waiting' = waiting \cup {c}
  /\ UNCHANGED <<mode, line, offHook, s0, follows, dcd, ri, doing, todo, stays,
                 told>>

\* The caller gives up.
CallerLeaves(c) ==
  /\ Rest /\ line = "none" /\ c \in waiting
  /\ waiting' = waiting \ {c}
  /\ IF ringing = c
     THEN ringing' = NoCaller /\ rings' = 0 /\ ri' = FALSE
     ELSE UNCHANGED <<ringing, rings, ri>>
  /\ UNCHANGED <<mode, line, offHook, s0, follows, dcd, doing, todo, stays,
                 told>>

\* S1 stays at its end.
Counted == IF rings < MaxRings THEN rings + 1 ELSE rings

\* Six seconds have passed since the last ring.
Ring ==
  /\ Rest /\ ringing # NoCaller
  /\ IF s0 # 0 /\ Counted >= s0
     THEN Answer
     ELSE /\ rings' = Counted /\ ri' = TRUE
          /\ UNCHANGED <<mode, line, ringing, told, waiting>>
  /\ UNCHANGED <<offHook, s0, follows, dcd, doing, todo, stays>>

RingPauses ==
  /\ Rest /\ ri
  /\ ri' = FALSE
  /\ UNCHANGED <<mode, line, ringing, rings, offHook, s0, follows, dcd, doing,
                 todo, stays, told, waiting>>

DigitsSent ==
  /\ Rest /\ line = "digits"
  /\ line' = "starting"
  /\ UNCHANGED <<mode, ringing, rings, offHook, s0, follows, dcd, ri, doing,
                 todo, stays, told, waiting>>

\* Mutant: DCD is left for later.
ConnectUnsynced ==
  /\ Rest /\ line = "starting"
  /\ line' = "connected"
  /\ IF mode = "Handshake" THEN mode' = "Data" /\ told' = "data"
                           ELSE UNCHANGED <<mode, told>>
  /\ UNCHANGED <<dcd, ringing, rings, offHook, s0, follows, ri, doing, todo,
                 stays, waiting>>

\* The link has found out what the far end has.
Connect ==
  /\ Rest /\ line = "starting"
  /\ line' = "connected"
  /\ IF mode = "Handshake"
     THEN /\ mode' = "Data" /\ told' = "data"
          /\ dcd' = DcdIn("Data", "connected", follows)
     ELSE UNCHANGED <<mode, told, dcd>>
  /\ UNCHANGED <<ringing, rings, offHook, s0, follows, ri, doing, todo, stays,
                 waiting>>

\* The far end hangs up, the link is released, the pump is cleared down, S7
\* passes in a handshake, or S10 without carrier after it.
CallEnds ==
  /\ Rest /\ line # "none"
  /\ HangUpWith
  /\ UNCHANGED <<ringing, rings, offHook, s0, follows, ri, doing, todo, stays,
                 waiting>>

Computer ==
  \/ \E commands \in Lines : SendLine(commands)
  \/ RunAnswer \/ RunDial \/ RunDialNothing \/ RunOnline \/ RunPutDown
  \/ RunOffHook \/ RunCarrierDetect \/ RunAutoAnswer \/ FinishLine
  \/ Abort \/ Escape \/ ComputerLeaves

Elsewhere ==
  \/ DialAnswered \/ DialFails
  \/ \E c \in Callers : CallComes(c) \/ CallerLeaves(c)
  \/ Ring \/ RingPauses \/ DigitsSent \/ Connect \/ CallEnds

Next == Computer \/ Elsewhere

Spec == Init /\ [][Next]_vars

-----------------------------------------------------------------------------
(***************************************************************************)
(* Properties.                                                             *)
(***************************************************************************)

\* The modem has at most one thing on its line: a caller rings only while it
\* has no call, in a call the mode is that of a call, and no call is dropped
\* from sight by another that is dialled or answered.
OneCall ==
  /\ ringing # NoCaller => line = "none" /\ doing # "dial"
  /\ line = "none" <=> mode = "Command"
  /\ doing = "dial" => line = "none"
  /\ mode = "Data" => line = "connected"
  /\ mode = "Handshake" => line \in {"digits", "starting"}

\* The transport rings for a caller just while the modem does: no caller is
\* forgotten when the modem dials, goes off hook, resets, or loses its computer.
NoCallerForgotten ==
  waiting = IF ringing = NoCaller THEN {} ELSE {ringing}

\* Whoever calls is rung for, answered or refused, one at a time.
CallersKept == OneCall /\ NoCallerForgotten

\* The computer and the modem mean the same by the next byte, whatever ends a
\* call and whatever the line of commands: data mode is entered and left with
\* a result code that says so.
MeansTheSame ==
  Rest => /\ mode = "Data" <=> told = "data"
          /\ mode \in {"Command", "OnlineCommand"} => told = "command"

\* DCD is on for as long as the computer is connected.
DcdWhileConnected ==
  Rest /\ mode \in {"Data", "OnlineCommand"} /\ HasHandshake => dcd

\* docs/terminal.md:170-172: "&C1 makes it follow carrier: on at CONNECT, off
\* when the call ends, 200 ms after the result code".
DcdFollows == Rest /\ follows /\ line = "none" => ~dcd

=============================================================================
