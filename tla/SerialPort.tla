----------------------------- MODULE SerialPort -----------------------------
(***************************************************************************)
(* The serial port as the modem holds it (softmodem-terminal/src/port.rs): *)
(* a byte stream from the computer, and a carrier line towards it.         *)
(***************************************************************************)
EXTENDS Naturals, Sequences

CONSTANT MaxChanges  \* bound: changes of the carrier line

VARIABLES carrier,  \* the line as the modem last set it
          changes,
          heard     \* what the modem read: whose byte it was, or the end of input

portVars == <<carrier, changes, heard>>

End == 0

SerialPortInit == carrier = FALSE /\ changes = 0 /\ heard = <<>>

(* set_carrier, for a port with no such line.                              *)
SetCarrier(on) ==
  /\ carrier # on /\ changes < MaxChanges
  /\ carrier' = on /\ changes' = changes + 1
  /\ UNCHANGED heard

LastHeard == IF heard = <<>> THEN End ELSE heard[Len(heard)]

Hears(what) ==
  /\ heard' = Append(heard, what)
  /\ UNCHANGED <<carrier, changes>>
=============================================================================
