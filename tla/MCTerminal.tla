----------------------------- MODULE MCTerminal -----------------------------
(***************************************************************************)
(* The modem's side of the terminal: the port its computer is on, the      *)
(* command lines that come by it, and the escape from data mode; one of    *)
(* them in each behaviour.                                                 *)
(*                                                                         *)
(* Escape: one escape character and one other, or none; no guard time, or  *)
(* one longer than the loop may be late.  Cuse: the system calls two       *)
(* programs make.  Commands: what a person types and pastes, and what a    *)
(* program sends.                                                          *)
(***************************************************************************)
EXTENDS Escape, Cuse, Ports, CommandLine

VARIABLE part

parts == <<part, vars, cuseVars, portsVars, commandVars>>

TerminalInit ==
  /\ part \in {"Escape", "Cuse", "Port", "Commands"}
  /\ Init /\ CuseInit /\ PortsInit /\ CommandInit
  /\ part # "Escape" => escape = None /\ \A g \in Guards : guard <= g
  /\ part # "Port" => port = "Pty"
  /\ part # "Commands" => user = "person" /\ profile = Factory

EscapeStep(A) == part = "Escape" /\ A /\ UNCHANGED <<part, cuseVars, portsVars, commandVars>>
CuseStep(A) ==
  /\ part = "Cuse" /\ A
  /\ UNCHANGED <<part, vars, port, ttyVars, ptyVars, tcpVars, commandVars>>
PortStep(A) == part = "Port" /\ A /\ UNCHANGED <<part, vars, cuseVars, commandVars>>
CommandStep(A) == part = "Commands" /\ A /\ UNCHANGED <<part, vars, cuseVars, portsVars>>

TerminalNext ==
  EscapeStep(Next) \/ CuseStep(CuseNext) \/ PortStep(PortsNext) \/ CommandStep(CommandNext)

\* The server's task and the modem's reads go on running.  The server picks
\* among the branches that are ready at random, so it takes each.
TerminalSpec ==
  /\ TerminalInit /\ [][TerminalNext]_parts
  /\ SF_cuseVars(part = "Cuse" /\ FromModem)
  /\ WF_cuseVars(part = "Cuse" /\ Watched)
  /\ WF_ttyVars(part = "Port" /\ port = "Tty" /\ DeviceDue)
  /\ WF_ttyVars(part = "Port" /\ port = "Tty" /\ Reopen)
  /\ WF_ttyVars(part = "Port" /\ port = "Tty" /\ StillMissing)
  /\ WF_ttyVars(part = "Port" /\ port = "Tty" /\ LoseDevice)

\* What a port owes in the end: a program that waits is served, the lines that
\* programs are told of become those of the modem, and a device that came back
\* is open again.
PortsGoOn == WaitersServed /\ <>[](part = "Cuse" => LinesFollow) /\ ComesBack


MCGuards == {0, 2}

MCCalls ==
  {[op |-> "read", size |-> 2, nonblock |-> FALSE],
   [op |-> "read", size |-> 1, nonblock |-> TRUE],
   [op |-> "write", size |-> 2],
   [op |-> "poll"],
   [op |-> "lines", on |-> FALSE, bits |-> {"DTR"}],
   [op |-> "flush", queue |-> 2]}

MCRegisters == {0, 2, 3, 4, 5}
MCKeys == {"A", "t", "/", "E", "0", "BS", "CR"}
\* Two characters short of the longest line.
MCPastes == {Chars("ATE1E1E1E1E1E1E1E1E1E1E1E1E1E1E1E1E1E1E1E1E1E1E1E1E1E1E1E1E1E1")}
MCInits == {<<>>, Chars("E0+ES=,,4")}

\* Commands that set, ask and act, some with mistakes; and those that dial,
\* which take the rest of their line.
Texts ==
  {"E0", "S0=2", "S5=256", "S2?", "Q1M2L3", "X5", "I3", "&D2&C1", "\\N2", "%C1\\N0",
   "&FX1", "Z", "H0", "O1", "A", "+ES=1,,5", "+ES=,4", "+ES?", "+DS=1,1,512,6",
   "+DS=,,511", "+DS?", "+ER=1", "+DR?", "+MS=V34,0,,9600", "+MS?", "+GCI=B5",
   "+XYZ=A", "+FCLASS=1"}
Dialling == {"D", "DT1,2;", "D,12,3W", "DL", "DE"}
\* What comes second on a line.
Late ==
  {"S2?", "X5", "&F", "Z", "\\N2", "+ES=,4", "+DS=1,1,512,6", "+MS=V34,0,,9600",
   "DL", "DT1,2;"}

Line(kind, pieces) == [kind |-> kind, pieces |-> pieces]
Again == [kind |-> "repeat"]
Alone == {Line("plain", <<Chars(t)>>) : t \in Texts \cup Dialling}
Together == {Line("spaced", <<Chars(t), Chars(u)>>) : t \in Texts, u \in Late}

\* First a line of one command or of two, or two lines; then a line that
\* repeats it or dials again, or one more.
MCReads ==
  <<{<<l>> : l \in Alone \cup Together}
      \cup {<<l, m>> : l \in Alone, m \in {Again, Line("plain", <<Chars("I3")>>)}},
    {<<l>> : l \in {Again, Line("plain", <<Chars("DL")>>),
                    Line("plain", <<Chars("E1"), Chars("H")>>)}}>>
=============================================================================
