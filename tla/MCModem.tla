------------------------------ MODULE MCModem -------------------------------
(***************************************************************************)
(* Instances of Modem: every command line of up to two commands, and lines *)
(* of one command.                                                         *)
(***************************************************************************)
EXTENDS Modem

LinesOfOne == {<<c>> : c \in Commands}
LinesOfTwo == LinesOfOne \cup {<<c, d>> : c \in Commands, d \in Commands}
=============================================================================
