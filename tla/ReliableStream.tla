--------------------------- MODULE ReliableStream ---------------------------
(***************************************************************************)
(* What an error-corrected connection promises the two computers, without  *)
(* frames, numbers or timers: each direction is a pipe that hands over      *)
(* what was put in, in order, each unit once, until an end closes.          *)
(* LapmPair is shown to implement it.                                      *)
(***************************************************************************)
EXTENDS Naturals

CONSTANTS
  Ends,       \* the two ends
  PeerOf      \* the other end of each

VARIABLES
  put,     \* how many units the computer at each end has put in
  got,     \* how many of them have come out at the other end
  status   \* whether each end is "opening", "open" or "closed"

vars == <<put, got, status>>

Init ==
  /\ put = [e \in Ends |-> 0]
  /\ got = [e \in Ends |-> 0]
  /\ status = [e \in Ends |-> "opening"]

Put(e) ==
  /\ status[e] # "closed"
  /\ put' = [put EXCEPT ![e] = @ + 1]
  /\ UNCHANGED <<got, status>>

Open(e) ==
  /\ status[e] = "opening"
  /\ status' = [status EXCEPT ![e] = "open"]
  /\ UNCHANGED <<put, got>>

\* The next units put in at e come out.  The first to arrive may be what
\* tells the other end that the connection is open.
Get(e) ==
  /\ status[PeerOf[e]] # "closed"
  /\ status' = [status EXCEPT ![PeerOf[e]] = "open"]
  /\ \E n \in got[e] + 1 .. put[e] : got' = [got EXCEPT ![e] = n]
  /\ UNCHANGED put

Close(e) ==
  /\ status' = [status EXCEPT ![e] = "closed"]
  /\ UNCHANGED <<put, got>>

Next == \E e \in Ends : Put(e) \/ Open(e) \/ Get(e) \/ Close(e)

Safe == Init /\ [][Next]_vars


=============================================================================
