-------------------------------- MODULE Cuse --------------------------------
(***************************************************************************)
(* The character device served through CUSE (softmodem-terminal/src/       *)
(* cuse.rs): the server task between the modem's byte stream and the       *)
(* requests that programs' system calls become.                            *)
(*                                                                         *)
(* The kernel is external.  It queues a request for each call, gives the   *)
(* server the interrupts of calls it has already read before any other     *)
(* request, repeats an ioctl whose data the server asks for, and wakes the *)
(* programs asleep in poll when it is notified.  All programs share one    *)
(* open file, as a serial backend's threads do, so one poll handle.        *)
(*                                                                         *)
(* A byte is its number in its stream.                                     *)
(***************************************************************************)
EXTENDS SerialPort, FiniteSets, SequencesExt

CONSTANTS Programs,     \* threads, each in one system call at a time
          Calls,        \* the calls they may make
          MaxCalls,     \* bound: calls made, repeated polls and ioctls included
          MaxLines,     \* bound: changes of the carrier line
          MaxSent,      \* bound: bytes the modem writes
          DUPLEX,       \* bytes the stream to the modem holds each way
          CHUNK,        \* bytes the server reads from the modem at a time
          BUFFER_LIMIT  \* bytes it holds before it stops reading or taking

ASSUME CuseAssumption ==
  /\ {MaxSent, DUPLEX, CHUNK, BUFFER_LIMIT} \subseteq Nat
  /\ \A c \in Calls : c.op \in {"read", "write"} => c.size \in Nat

VARIABLES pipe,           \* bytes the modem has written and the server not read
          for_modem,          \* bytes for the modem to read
          to_computer, to_modem, waiting_reads, poll_handle,
          computer_lines, \* the lines programs set
          lines,          \* the carrier line as the server last saw it
          calls,          \* each program's call
          requests,       \* calls the server has not read
          interrupts,     \* calls that the server has read and is to interrupt
          made,           \* how many calls were made
          modem_sent,           \* how many bytes the modem wrote
          got,            \* the bytes programs read, in order
          discarded,      \* the bytes a flush threw away, of each stream
          written,        \* how many bytes programs' writes were told were taken
          taken,          \* the bytes the modem read, in order
          strays          \* answers to calls that have ended

serverVars == <<to_computer, to_modem, waiting_reads, poll_handle, computer_lines, lines>>
kernelVars == <<calls, requests, interrupts, made>>
modemVars == <<portVars, modem_sent, taken>>
historyVars == <<got, discarded, written, strays>>
cuseVars == <<serverVars, kernelVars, modem_sent, taken, historyVars, pipe, for_modem>>

\* Where a call is: its request waits, or the server keeps it, or the program
\* sleeps in poll, or has been woken; and whether its data was asked for.
NoCall == [op |-> "none"]
CallState ==
  [stage : {"idle", "queued", "read", "asleep", "roused"}, unique : Nat,
   call : Calls \cup {NoCall}, signalled : BOOLEAN, input : BOOLEAN]

Idle ==
  [stage |-> "idle", unique |-> 0, call |-> NoCall, signalled |-> FALSE, input |-> FALSE]

CuseInit ==
  /\ modem_sent = 0 /\ taken = <<>>
  /\ pipe = <<>> /\ for_modem = <<>>
  /\ to_computer = <<>> /\ to_modem = <<>> /\ waiting_reads = <<>>
  /\ poll_handle = FALSE
  /\ computer_lines = {"DTR", "RTS"}
  /\ lines = FALSE
  /\ calls = [p \in Programs |-> Idle]
  /\ requests = <<>> /\ interrupts = {} /\ made = 0
  /\ got = <<>> /\ discarded = [computer |-> {}, modem |-> {}]
  /\ written = 0 /\ strays = 0

(***************************************************************************)
(* The modem's end.                                                        *)
(***************************************************************************)
CuseSetCarrier(on) ==
  /\ changes < MaxLines
  /\ SetCarrier(on)
  /\ UNCHANGED <<serverVars, kernelVars, historyVars, modem_sent, taken, pipe, for_modem>>

ModemWrites ==
  /\ modem_sent < MaxSent /\ Len(pipe) < DUPLEX
  /\ modem_sent' = modem_sent + 1
  /\ pipe' = Append(pipe, modem_sent')
  /\ UNCHANGED <<serverVars, kernelVars, historyVars, portVars, taken, for_modem>>

ModemReads ==
  /\ for_modem # <<>>
  /\ taken' = taken \o for_modem /\ for_modem' = <<>>
  /\ UNCHANGED <<serverVars, kernelVars, historyVars, portVars, modem_sent, pipe>>

(***************************************************************************)
(* Programs and the kernel.                                                *)
(***************************************************************************)
Holder(unique) == {p \in Programs : calls[p].stage # "idle" /\ calls[p].unique = unique}

Sent(p) == calls[p].stage = "read"
Asleep(p) == calls[p].stage = "asleep"

(* A program makes a call: the kernel queues its request.                  *)
Make(p, c) ==
  /\ calls[p] = Idle /\ made < MaxCalls
  /\ made' = made + 1
  /\ calls' = [calls EXCEPT ![p] =
       [stage |-> "queued", unique |-> made', call |-> c, signalled |-> FALSE, input |-> FALSE]]
  /\ requests' = Append(requests, p)
  /\ UNCHANGED <<serverVars, modemVars, historyVars, interrupts, pipe, for_modem>>

(* A signal: the server is told if it has read the request, or once it does. *)
Signal(p) ==
  /\ ~calls[p].signalled
  /\ \/ /\ calls[p].stage = "queued"
        /\ calls' = [calls EXCEPT ![p].signalled = TRUE]
        /\ UNCHANGED interrupts
     \/ /\ Sent(p)
        /\ calls' = [calls EXCEPT ![p].signalled = TRUE]
        /\ interrupts' = interrupts \cup {calls[p].unique}
     \/ /\ Asleep(p)
        /\ calls' = [calls EXCEPT ![p] = Idle]
        /\ UNCHANGED interrupts
  /\ UNCHANGED <<serverVars, modemVars, historyVars, requests, made, pipe, for_modem>>

(***************************************************************************)
(* What answers do: the calls they end, whose interrupts are taken back.   *)
(***************************************************************************)
Ended(cs, uniques) ==
  [p \in Programs |->
     IF cs[p].stage # "idle" /\ cs[p].unique \in uniques THEN Idle ELSE cs[p]]

(***************************************************************************)
(* The server.  Each branch of its select loop runs to its end: nothing in *)
(* a handler waits.                                                        *)
(***************************************************************************)
(* serve_waiting_reads: the reads that wait are answered in turn, while    *)
(* there are bytes, which come to a program if it still waits for them.    *)
ServeRead(was, read) ==
  LET n == Len(was.bytes)
      take == IF read.size < n THEN read.size ELSE n
  IN  IF was.bytes = <<>> THEN was
      ELSE [bytes |-> SubSeq(was.bytes, take + 1, n),
            reached |-> IF Holder(read.unique) = {} THEN was.reached
                        ELSE was.reached \o SubSeq(was.bytes, 1, take),
            served |-> was.served + 1]

Served(waiting, bytes) ==
  LET After[i \in 0..Len(waiting)] ==
        IF i = 0 THEN [bytes |-> bytes, reached |-> <<>>, served |-> 0]
        ELSE ServeRead(After[i - 1], waiting[i])
  IN  After[Len(waiting)]

(* wake_poll: the kernel asks again for every program asleep.              *)
Roused(cs) ==
  [p \in Programs |->
     IF cs[p].stage = "asleep" THEN [cs[p] EXCEPT !.stage = "roused"] ELSE cs[p]]

(* Mutant: room for a whole chunk is asked for.                            *)
RoomForChunk == Len(to_computer) + CHUNK < BUFFER_LIMIT
Room == Len(to_computer) < BUFFER_LIMIT

FromModem ==
  /\ Room /\ pipe # <<>>
  /\ LET n == IF Len(pipe) < CHUNK THEN Len(pipe) ELSE CHUNK
         s == Served(waiting_reads, to_computer \o SubSeq(pipe, 1, n))
         uniques == {waiting_reads[i].unique : i \in 1..s.served}
         after == Ended(calls, uniques)
     IN /\ pipe' = SubSeq(pipe, n + 1, Len(pipe))
        /\ to_computer' = s.bytes
        /\ waiting_reads' = SubSeq(waiting_reads, s.served + 1, Len(waiting_reads))
        /\ got' = got \o s.reached
        /\ strays' = strays + Cardinality({u \in uniques : Holder(u) = {}})
        /\ calls' = IF poll_handle THEN Roused(after) ELSE after
        /\ interrupts' = interrupts \ uniques
        /\ poll_handle' = FALSE
  /\ UNCHANGED <<to_modem, computer_lines, lines, requests, made, modemVars,
                 discarded, written, for_modem>>

IntoModem ==
  /\ to_modem # <<>> /\ Len(for_modem) < DUPLEX
  /\ LET room == DUPLEX - Len(for_modem)
         n == IF Len(to_modem) < room THEN Len(to_modem) ELSE room
     IN /\ for_modem' = for_modem \o SubSeq(to_modem, 1, n)
        /\ to_modem' = SubSeq(to_modem, n + 1, Len(to_modem))
  /\ UNCHANGED <<to_computer, waiting_reads, poll_handle, computer_lines, lines,
                 kernelVars, modemVars, historyVars, pipe>>

Changed == lines # carrier

Watched ==
  /\ Changed
  /\ lines' = carrier
  /\ UNCHANGED <<to_computer, to_modem, waiting_reads, poll_handle, computer_lines,
                 kernelVars, modemVars, historyVars, pipe, for_modem>>

(* A write is taken whole or not at all.                                   *)
RoomFor(size) == Len(to_modem) + size <= BUFFER_LIMIT

(* The kernel gives the request of p to the server, which handles it.      *)
Take(p, op) ==
  /\ interrupts = {}
  /\ requests # <<>> /\ Head(requests) = p /\ calls[p].call.op = op
  /\ UNCHANGED <<modemVars, made, lines, pipe, for_modem>>

(* The program's call ends with the answer.                                *)
Answer(p) ==
  /\ calls' = [calls EXCEPT ![p] = Idle]
  /\ requests' = Tail(requests)
  /\ UNCHANGED <<interrupts, strays>>

Read(p) ==
  /\ Take(p, "read")
  /\ LET n == IF calls[p].call.size < Len(to_computer) THEN calls[p].call.size ELSE Len(to_computer)
     IN \/ /\ to_computer # <<>>
           /\ got' = got \o SubSeq(to_computer, 1, n)
           /\ to_computer' = SubSeq(to_computer, n + 1, Len(to_computer))
           /\ UNCHANGED waiting_reads
           /\ Answer(p)
        \/ /\ to_computer = <<>> /\ calls[p].call.nonblock
           /\ UNCHANGED <<got, to_computer, waiting_reads>>
           /\ Answer(p)
        \/ /\ to_computer = <<>> /\ ~calls[p].call.nonblock
           /\ waiting_reads' = Append(waiting_reads, [unique |-> calls[p].unique,
                                                      size |-> calls[p].call.size])
           /\ calls' = [calls EXCEPT ![p].stage = "read"]
           /\ interrupts' = IF calls[p].signalled THEN {calls[p].unique} ELSE {}
           /\ requests' = Tail(requests)
           /\ UNCHANGED <<got, to_computer, strays>>
  /\ UNCHANGED <<to_modem, poll_handle, computer_lines, discarded, written>>

Write(p) ==
  /\ Take(p, "write")
  /\ Answer(p)
  /\ IF RoomFor(calls[p].call.size)
     THEN /\ to_modem' = to_modem \o [j \in 1..calls[p].call.size |-> written + j]
          /\ written' = written + calls[p].call.size
     ELSE UNCHANGED <<to_modem, written>>
  /\ UNCHANGED <<to_computer, waiting_reads, poll_handle, computer_lines, got, discarded>>

(* The poll is answered at once; a program that finds nothing sleeps.      *)
Poll(p) ==
  /\ Take(p, "poll")
  /\ poll_handle' = TRUE
  /\ IF to_computer = <<>> /\ ~calls[p].signalled
     THEN calls' = [calls EXCEPT ![p].stage = "asleep"]
     ELSE calls' = [calls EXCEPT ![p] = Idle]
  /\ requests' = Tail(requests)
  /\ UNCHANGED <<to_computer, to_modem, waiting_reads, computer_lines, interrupts,
                 historyVars>>

(* A program that was woken polls again.                                   *)
PollAgain(p) ==
  /\ calls[p].stage = "roused" /\ made < MaxCalls
  /\ made' = made + 1
  /\ calls' = [calls EXCEPT ![p].stage = "queued", ![p].unique = made']
  /\ requests' = Append(requests, p)
  /\ UNCHANGED <<serverVars, modemVars, historyVars, interrupts, pipe, for_modem>>

(* retry: the kernel repeats the call with the data.                       *)
Retry(p) ==
  /\ calls' = [calls EXCEPT ![p].input = TRUE]
  /\ requests' = Append(Tail(requests), p)
  /\ UNCHANGED <<interrupts, strays>>

(* TIOCMBIS and TIOCMBIC, in two requests.                                 *)
SetLines(p) ==
  /\ Take(p, "lines")
  /\ IF ~calls[p].input
     THEN Retry(p) /\ UNCHANGED computer_lines
     ELSE /\ computer_lines' = IF calls[p].call.on THEN computer_lines \cup calls[p].call.bits
                               ELSE computer_lines \ calls[p].call.bits
          /\ Answer(p)
  /\ UNCHANGED <<to_computer, to_modem, waiting_reads, poll_handle, got, discarded,
                 written>>

(* TCFLSH: 0 throws input away, 1 output, 2 both.                          *)
Flush(p) ==
  /\ Take(p, "flush")
  /\ LET input == calls[p].call.queue # 1
         output == calls[p].call.queue # 0
     IN /\ to_computer' = IF input THEN <<>> ELSE to_computer
        /\ to_modem' = IF output THEN <<>> ELSE to_modem
        /\ discarded' =
             [computer |-> discarded.computer \cup (IF input THEN ToSet(to_computer) ELSE {}),
              modem |-> discarded.modem \cup (IF output THEN ToSet(to_modem) ELSE {})]
  /\ Answer(p)
  /\ UNCHANGED <<waiting_reads, poll_handle, computer_lines, got, written>>

(* Mutant: it goes on waiting.                                             *)
RemainingAll(target) == waiting_reads

Waits(target) == \E i \in DOMAIN waiting_reads : waiting_reads[i].unique = target

(* The waiting read that is to be interrupted is answered, and no longer waits. *)
Remaining(target) ==
  RemoveAt(waiting_reads,
           CHOOSE i \in DOMAIN waiting_reads : waiting_reads[i].unique = target)

Interrupt(target) ==
  /\ target \in interrupts
  /\ interrupts' = interrupts \ {target}
  /\ IF Waits(target)
     THEN /\ waiting_reads' = Remaining(target)
          /\ calls' = Ended(calls, {target})
          /\ strays' = IF Holder(target) = {} THEN strays + 1 ELSE strays
     ELSE UNCHANGED <<waiting_reads, calls, strays>>
  /\ UNCHANGED <<to_computer, to_modem, poll_handle, computer_lines, lines, requests,
                 made, modemVars, got, discarded, written, pipe, for_modem>>

Handle(p) == Read(p) \/ Write(p) \/ Poll(p) \/ SetLines(p) \/ Flush(p)

CuseNext ==
  \/ \E on \in BOOLEAN : CuseSetCarrier(on)
  \/ ModemWrites \/ ModemReads
  \/ FromModem \/ IntoModem \/ Watched \/ \E u \in interrupts : Interrupt(u)
  \/ \E p \in Programs :
       \/ \E c \in Calls : Make(p, c)
       \/ Signal(p) \/ PollAgain(p) \/ Handle(p)

CuseSpec == CuseInit /\ SerialPortInit /\ [][CuseNext]_<<cuseVars, portVars>>

Server ==
  \/ FromModem \/ IntoModem \/ Watched \/ \E u \in interrupts : Interrupt(u)
  \/ \E p \in Programs : Handle(p)

(***************************************************************************)
(* What the port promises.                                                 *)
(***************************************************************************)
(* Each call gets one answer: the calls the server has read and not        *)
(* answered are the reads that wait, each of them once, and no answer goes *)
(* to a call that has ended: cuse.rs read, interrupt, serve_waiting_reads. *)
AnsweredOnce ==
  /\ strays = 0
  /\ Len(waiting_reads) = Cardinality({p \in Programs : Sent(p)})
  /\ {waiting_reads[i].unique : i \in DOMAIN waiting_reads}
       = {calls[p].unique : p \in {q \in Programs : Sent(q)}}

Increasing(s) == \A i \in 1..Len(s) - 1 : s[i] < s[i + 1]

(* Programs read the modem's bytes in order, each once, and none is lost   *)
(* but to a flush; and so does the modem those that writes were told were  *)
(* taken.                                                                  *)
BytesKept ==
  /\ Increasing(got \o to_computer \o pipe)
  /\ ToSet(got \o to_computer \o pipe) \cup discarded.computer = 1..modem_sent
  /\ Increasing(taken \o for_modem \o to_modem)
  /\ ToSet(taken \o for_modem \o to_modem) \cup discarded.modem = 1..written

(* No program waits in a read or in a poll while a byte is there for it,   *)
(* and one asleep in poll can be woken: cuse.rs poll, wake_poll.           *)
NoneWaitsInVain ==
  /\ waiting_reads # <<>> => to_computer = <<>>
  /\ (\E p \in Programs : Asleep(p)) => to_computer = <<>> /\ poll_handle

(* What a system call of a program is owed, once however it ends.          *)
CallsServed == AnsweredOnce /\ BytesKept /\ NoneWaitsInVain

(* The lines that programs are told of are those of the modem: run, the    *)
(* branch of watched.                                                      *)
LinesFollow == lines = carrier

(* What the modem writes comes to a program that waits for it.             *)
WaitersServed ==
  []<>(pipe = <<>> \/ (waiting_reads = <<>> /\ \A p \in Programs : ~Asleep(p)))
=============================================================================
