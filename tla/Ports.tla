------------------------------- MODULE Ports --------------------------------
(***************************************************************************)
(* The serial ports a modem can be given besides a CUSE device, one of     *)
(* them in each behaviour: a serial device of the host (softmodem-terminal/*)
(* src/tty.rs), a pseudoterminal (pty.rs) and a TCP port (tcp.rs).         *)
(*                                                                         *)
(* The device, the programs and the network are external.  A device goes   *)
(* and comes back at its path, or hangs up when the computer drops DTR,    *)
(* and a descriptor of one that hung up reads as the end of input from     *)
(* then on.  Programs open the pseudoterminal's link at any moment, also   *)
(* between the steps of a hang-up, which are calls of the file system; a   *)
(* pseudoterminal is a number, its master closes when the port lets go of  *)
(* it, and those who have it open then see a hang-up.  Computers connect   *)
(* one after the other and wait in the listen queue.                       *)
(***************************************************************************)
EXTENDS SerialPort, FiniteSets

CONSTANTS MaxDevices,   \* bound: times the device is plugged in
          MaxHangUps,   \* bound: times it hangs up
          PtyPrograms,  \* programs that open the pseudoterminal
          MaxComputers  \* bound: computers that connect by TCP

VARIABLE port  \* which one the modem has

(***************************************************************************)
(* A serial device of the host.                                            *)
(***************************************************************************)
VARIABLES plugged,   \* which device is at the path, 0 if none is
          has_lines, \* whether it has control lines
          device,    \* the device the port has open, 0 if none
          hung,      \* whether that one has hung up
          reopen,    \* the timer of the next try: off, running or due
          dtr,       \* the device's DTR
          comings,   \* how many were plugged in
          losses     \* how many hung up while open

ttyVars == <<plugged, has_lines, device, hung, reopen, dtr, comings, losses>>

TtyInit ==
  /\ plugged = 1 /\ comings = 1 /\ has_lines \in BOOLEAN
  /\ device = 1 /\ hung = FALSE /\ reopen = "off" /\ dtr = FALSE
  /\ losses = 0

(* The device.                                                             *)
Plug ==
  /\ plugged = 0 /\ comings < MaxDevices
  /\ comings' = comings + 1 /\ plugged' = comings'
  /\ has_lines' \in BOOLEAN
  /\ UNCHANGED <<device, hung, reopen, dtr, losses, portVars>>

HungUp ==
  /\ hung' = (device # 0)
  /\ losses' = IF device # 0 /\ ~hung THEN losses + 1 ELSE losses
  /\ dtr' = FALSE

Unplug ==
  /\ plugged # 0
  /\ plugged' = 0
  /\ HungUp
  /\ UNCHANGED <<has_lines, device, reopen, comings, portVars>>

ComputerHangsUp ==
  /\ plugged # 0 /\ device = plugged /\ ~hung /\ losses < MaxHangUps
  /\ HungUp
  /\ UNCHANGED <<plugged, has_lines, device, reopen, comings, portVars>>

(* signal_carrier.  A device that has hung up refuses the change.          *)
Signalled(on) == IF device # 0 /\ ~hung /\ has_lines THEN on ELSE dtr

TtySetCarrier(on) ==
  /\ SetCarrier(on)
  /\ dtr' = Signalled(on)
  /\ UNCHANGED <<plugged, has_lines, device, hung, reopen, comings, losses>>

DeviceDue ==
  /\ reopen = "running" /\ reopen' = "due"
  /\ UNCHANGED <<plugged, has_lines, device, hung, dtr, comings, losses, portVars>>

(* DTR of a device just opened: open_raw clears it and poll_device then    *)
(* signals the carrier of now.                                             *)
DtrAtOpening == has_lines /\ carrier

(* poll_device, in a read: the device opens again, or the timer restarts.  *)
Reopen ==
  /\ device = 0 /\ reopen = "due" /\ plugged # 0
  /\ device' = plugged /\ hung' = FALSE /\ reopen' = "off"
  /\ dtr' = DtrAtOpening
  /\ UNCHANGED <<plugged, has_lines, comings, losses, portVars>>

StillMissing ==
  /\ device = 0 /\ reopen = "due" /\ plugged = 0
  /\ reopen' = "running"
  /\ UNCHANGED <<plugged, has_lines, device, hung, dtr, comings, losses, portVars>>

(* poll_read: the end of input, once, of a device that has hung up.        *)
LoseDevice ==
  /\ device # 0 /\ hung
  /\ device' = 0 /\ hung' = FALSE /\ reopen' = "running"
  /\ Hears(End)
  /\ UNCHANGED <<plugged, has_lines, dtr, comings, losses>>

TtyHears ==
  /\ device # 0 /\ ~hung /\ LastHeard # device
  /\ Hears(device)
  /\ UNCHANGED ttyVars

TtyNext ==
  \/ Plug \/ Unplug \/ ComputerHangsUp \/ DeviceDue
  \/ Reopen \/ StillMissing \/ LoseDevice \/ TtyHears
  \/ \E on \in BOOLEAN : TtySetCarrier(on)

(***************************************************************************)
(* A pseudoterminal.                                                       *)
(***************************************************************************)
VARIABLES live,    \* the pseudoterminal the port serves
          fresh,   \* the one a hang-up opened, 0 if none
          masters, \* those whose master is open
          link,    \* the one the link names, 0 if it is not there
          staging, \* the one the link's next name points to
          step,    \* where a hang-up is
          opened,  \* which one each program has open, 0 if none
          hangUps, \* how many hang-ups each has seen
          drops    \* how often carrier fell

ptyVars == <<live, fresh, masters, link, staging, step, opened, hangUps, drops>>

PtyInit ==
  /\ live = 1 /\ fresh = 0 /\ masters = {1} /\ link = 1 /\ staging = 0
  /\ step = "rest" /\ drops = 0
  /\ opened = [p \in PtyPrograms |-> 0]
  /\ hangUps = [p \in PtyPrograms |-> 0]

(* Programs: one that has seen the hang-up closes before it reopens.       *)
OpenLink(p) ==
  /\ opened[p] = 0 /\ link \in masters
  /\ opened' = [opened EXCEPT ![p] = link]
  /\ UNCHANGED <<live, fresh, masters, link, staging, step, hangUps, drops, portVars>>

Close(p) ==
  /\ opened[p] # 0
  /\ opened' = [opened EXCEPT ![p] = 0]
  /\ hangUps' = IF opened[p] \in masters THEN hangUps
                ELSE [hangUps EXCEPT ![p] = @ + 1]
  /\ UNCHANGED <<live, fresh, masters, link, staging, step, drops, portVars>>

(* set_carrier; a fall begins a hang-up, with a new pseudoterminal, if one *)
(* can be had.                                                             *)
PtySetCarrier(on) ==
  /\ step = "rest"
  /\ SetCarrier(on)
  /\ drops' = IF on THEN drops ELSE drops + 1
  /\ \/ /\ on
        /\ UNCHANGED <<fresh, masters, step>>
     \/ /\ ~on
        /\ fresh' = live + 1 /\ masters' = masters \cup {fresh'}
        /\ step' = "opened"
     \/ /\ ~on
        /\ step' = "failed"
        /\ UNCHANGED <<fresh, masters>>
  /\ UNCHANGED <<live, link, staging, opened, hangUps>>

(* point: the staging link is made anew and renamed over the link.         *)
Stage ==
  /\ step = "opened"
  /\ staging' = fresh /\ step' = "staged"
  /\ UNCHANGED <<live, fresh, masters, link, opened, hangUps, drops, portVars>>

Rename ==
  /\ step = "staged"
  /\ link' = staging /\ staging' = 0 /\ step' = "pointed"
  /\ UNCHANGED <<live, fresh, masters, opened, hangUps, drops, portVars>>

(* The error goes up to the modem, and the new pseudoterminal is let go.   *)
PointFails ==
  /\ step \in {"opened", "staged"}
  /\ step' = "failed"
  /\ masters' = masters \ {fresh} /\ fresh' = 0
  /\ UNCHANGED <<live, link, staging, opened, hangUps, drops, portVars>>

(* Mutant: the old one stays open.                                         *)
AllKept == masters
(* The masters open once the port serves the new pseudoterminal.           *)
Kept == masters \ {live}

Swap ==
  /\ step = "pointed"
  /\ live' = fresh /\ fresh' = 0 /\ masters' = Kept
  /\ step' = "rest"
  /\ UNCHANGED <<link, staging, opened, hangUps, drops, portVars>>

(* drop, after an error or when the modem stops.                           *)
Drop ==
  /\ step \in {"rest", "failed"}
  /\ step' = "dropped"
  /\ link' = 0 /\ masters' = {}
  /\ UNCHANGED <<live, fresh, staging, opened, hangUps, drops, portVars>>

PtyNext ==
  \/ Stage \/ Rename \/ Swap \/ PointFails \/ Drop
  \/ \E p \in PtyPrograms : OpenLink(p) \/ Close(p)
  \/ \E on \in BOOLEAN : PtySetCarrier(on)

(***************************************************************************)
(* TCP: one computer at a time, the next waiting in the listen queue.      *)
(***************************************************************************)
VARIABLES computer,   \* the one served, 0 if none
          queue,      \* those that wait in the listen queue
          left,       \* those that closed or broke their connection
          unread,     \* whether the one of the number has sent a byte not read
          connected   \* how many connected

tcpVars == <<computer, queue, left, unread, connected>>

TcpInit ==
  /\ computer = 0 /\ queue = <<>> /\ left = {} /\ connected = 0
  /\ unread = [c \in 1..MaxComputers |-> FALSE]

Connect ==
  /\ connected < MaxComputers
  /\ connected' = connected + 1
  /\ queue' = Append(queue, connected')
  /\ UNCHANGED <<computer, left, unread, portVars>>

(* Bound: a computer types a byte, and perhaps one the port never reads.   *)
Types(c) ==
  /\ c <= connected /\ c \notin left /\ ~unread[c]
  /\ \A i \in DOMAIN heard : heard[i] # c
  /\ unread' = [unread EXCEPT ![c] = TRUE]
  /\ UNCHANGED <<computer, queue, left, connected, portVars>>

(* It closes, and what it sent is still read, or breaks, and it is not.    *)
Leaves(c) ==
  /\ c <= connected /\ c \notin left
  /\ left' = left \cup {c}
  /\ \/ UNCHANGED unread
     \/ unread' = [unread EXCEPT ![c] = FALSE]
  /\ UNCHANGED <<computer, queue, connected, portVars>>

(* poll_read.                                                              *)
Accept ==
  /\ computer = 0 /\ queue # <<>>
  /\ computer' = Head(queue) /\ queue' = Tail(queue)
  /\ UNCHANGED <<left, unread, connected, portVars>>

TcpHears ==
  /\ computer # 0 /\ unread[computer]
  /\ unread' = [unread EXCEPT ![computer] = FALSE]
  /\ Hears(computer)
  /\ UNCHANGED <<computer, queue, left, connected>>

(* Whether the end of a connection is told as the end of input.            *)
TellsEnd == TRUE

Disconnected ==
  /\ computer \in left /\ ~unread[computer]
  /\ computer' = 0
  /\ IF TellsEnd THEN Hears(End) ELSE UNCHANGED portVars
  /\ UNCHANGED <<queue, left, unread, connected>>

TcpSetCarrier(on) == SetCarrier(on) /\ UNCHANGED tcpVars

TcpNext ==
  \/ Connect \/ Accept \/ TcpHears \/ Disconnected
  \/ \E c \in 1..MaxComputers : Types(c) \/ Leaves(c)
  \/ \E on \in BOOLEAN : TcpSetCarrier(on)

(***************************************************************************)
(* One port in each behaviour.                                             *)
(***************************************************************************)
portsVars == <<port, portVars, ttyVars, ptyVars, tcpVars>>

PortsInit ==
  /\ port \in {"Tty", "Pty", "Tcp"}
  /\ SerialPortInit /\ TtyInit /\ PtyInit /\ TcpInit
  /\ port # "Tty" => has_lines

TtyStep(A) == port = "Tty" /\ A /\ UNCHANGED <<port, ptyVars, tcpVars>>
PtyStep(A) == port = "Pty" /\ A /\ UNCHANGED <<port, ttyVars, tcpVars>>
TcpStep(A) == port = "Tcp" /\ A /\ UNCHANGED <<port, ttyVars, ptyVars>>

PortsNext == TtyStep(TtyNext) \/ PtyStep(PtyNext) \/ TcpStep(TcpNext)

PortsSpec == PortsInit /\ [][PortsNext]_portsVars

(***************************************************************************)
(* What the ports promise.                                                 *)
(***************************************************************************)
(* While the device the port has open works and has control lines, its DTR *)
(* is the carrier of now, even if that rose or fell while the device was   *)
(* away or had hung up unread: tty.rs signal_carrier, poll_device.         *)
CarrierOnDtr == port = "Tty" /\ device # 0 /\ ~hung /\ has_lines => dtr = carrier

(* How often the modem was told of the end of input.                       *)
EndsHeard == Cardinality({i \in DOMAIN heard : heard[i] = End})

(* Each hang-up of the device, and each connection's end, is told once as  *)
(* the end of input, whether or not it had come and gone unread: tty.rs    *)
(* and tcp.rs poll_read.                                                   *)
EndsOnce ==
  /\ port = "Tty" => EndsHeard + (IF hung THEN 1 ELSE 0) = losses
  /\ port = "Tcp" =>
       EndsHeard + (IF computer # 0 THEN 1 ELSE 0) + Len(queue) = connected

(* What two computers type never runs together: an end of input comes      *)
(* between them, so that the modem hangs up the first one's call.          *)
SessionsApart ==
  \A i \in 1..Len(heard) - 1 :
    heard[i] # heard[i + 1] => End \in {heard[i], heard[i + 1]}

(* Whoever opens the link at any moment, between the steps of a hang-up    *)
(* too, gets a pseudoterminal that works: pty.rs hang_up, point.           *)
LinkLives == step # "dropped" => link \in masters

(* Between hang-ups, a program that has not been hung up is on the port    *)
(* that the modem serves, and none has seen more hang-ups than carrier     *)
(* fell: those who reopened while one went on are not hung up again.       *)
NoneLeftBehind ==
  /\ step = "rest" => \A p \in PtyPrograms : opened[p] \in masters => opened[p] = live
  /\ step # "dropped" => \A p \in PtyPrograms : hangUps[p] <= drops

(* The computer that is connected, whichever way, is told of the carrier   *)
(* and the modem of the computer's end, and nobody is left with a link or  *)
(* a pseudoterminal that is dead.                                          *)
PortSound == CarrierOnDtr /\ EndsOnce /\ SessionsApart /\ LinkLives /\ NoneLeftBehind

(* A device that comes back and stays is opened again: REOPEN_AFTER.       *)
ComesBack == []<>(plugged = 0 \/ device = plugged)
=============================================================================
