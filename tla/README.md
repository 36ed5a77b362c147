# softmodem in TLA+

Specifications of [softmodem](../src/README.md), a modem in software: what its
protocols and state machines promise, model-checked with TLC on small
instances, and proved with TLAPS where a proof for every instance is in reach.

## The system

A computer talks to softmodem over a serial port with AT commands. softmodem
places and answers calls over a transport (UDP, SIP, or a loopback for tests),
and in a call it speaks as a modem does: it agrees on a modulation with the far
modem, trains, and then carries characters, with V.42 error control and V.42 bis
compression when both ends have them.

| Part | Source | State it keeps | What it does | What is hard about it |
| --- | --- | --- | --- | --- |
| Modem | `softmodem/src/modem.rs` | mode, call, ringing caller, settings, DCD, RI | one loop over the computer's bytes, the transport's events, the ring clock, a 20 ms tick and the far end's samples | events in every order; commands that wait; eight ways for a call to end |
| Line | `softmodem/src/line.rs` | one call's pump, link, digits to dial, recovery | moves samples to the pump and bits to the link | recovery races with the far end's own |
| Link | `softmodem-link/src/lib.rs`, `detect.rs` | phase (sending ODPs, looking for one, V.42, plain), codec, data | finds out whether the far end has V.42, then runs LAPM or plain characters | the ends decide at different instants |
| LAPM | `softmodem-link/src/lapm.rs` | state, V(S), V(A), V(R), frames sent, conditions, owed responses, T401 | XID, SABME, I frames, REJ, timer recovery | loss, repetition, early and late timers |
| V.42 bis | `softmodem-link/src/v42bis.rs` | a dictionary for each direction | compresses the octets of I frames | the dictionaries must stay in step |
| HDLC, start-stop | `softmodem-dsp/src/hdlc.rs`, `uart.rs` | shift registers | frames and characters to bits and back | |
| Automode, V.8, V.8 bis | `softmodem-dsp/src/automode.rs`, `v8.rs`, `v8bis.rs` | stage, menus heard | the modulation both ends have | stages left by different events at each end |
| Pumps | `softmodem-dsp/src/v21.rs` to `v90/` | stage of start-up, filters, rates | bits to samples and back, training, retrains | round trips, lost sequences, both ends starting over at once |
| Transports | `softmodem-transport/src/wire.rs`, `sip.rs`, `loopback.rs` | who rings, the call's tasks | dial, incoming, answer, reject, hang up | UDP; futures dropped in the middle |
| RTP session, reordering | `softmodem-transport/src/rtp.rs`, `reorder.rs` | held packets, next number and timestamp | A-law frames in order, gaps filled | wrap of numbers, late packets |
| Serial ports | `softmodem-terminal/src/pty.rs`, `tty.rs`, `tcp.rs`, `cuse.rs` | the computer's end | bytes, DCD, RI | a device that goes and comes back |
| Commands | `softmodem-terminal/src/command.rs`, `line.rs`, `settings.rs`, `escape.rs` | the line typed so far, settings, held `+` | AT command lines, `+++` | guard times |
| The rest | `main.rs`, `journal.rs`, `replay.rs`, panel, speaker, Android | | start-up, recording, display | |

How they meet: `Modem::run` owns a `Transport`, a `SerialPort` and at most one
`Line`. `Line::transmit` asks the link for bits when the pump's queue runs low,
and `Line::receive` gives it the bits the pump hears; the link asks LAPM for a
frame when the last has gone out, and gives it every good frame that comes in.
All of that is one task and needs no locks. Clocks are arguments: LAPM and the
link look at the time only when they are asked for bits or given some. Each
transport runs a task for the call's packets, joined to the modem by channels.

Correctness, part by part: LAPM hands over what it was given, in order and once,
and its ends never mean different things by a number; link and automode end with
both ends in the same state or both back; training ends in data that both ends
understand, or ends at both; a transport leaves nobody in a call that the other
end is not in; the modem has one call, and its computer knows what its bytes
mean; the codings are read as they were written; and a port or an escape loses,
repeats and invents nothing. `PROJECT.json` lists the hazards to each, at the
lines where they bite.

## Modules

| Module | Models | Composed of |
| --- | --- | --- |
| `Lapm` | one LAPM end as operators on a record, one for each method of `Lapm` | |
| `LapmOpen` | that end against any peer: every frame, in any order | `Lapm` |
| `LapmPair` | two ends over a line that loses frames, with timers early and late | `Lapm`, refines `ReliableStream` |
| `ReliableStream` | what a connection promises: two pipes | |
| `LapmLemmas` | what each method of `Lapm` keeps true of an end: the lemmas the next two share | `Lapm` |
| `LapmProofs` | theorems about `LapmOpen` | `LapmOpen`, `LapmLemmas` |
| `PairProofs` | theorems about `LapmPair`: agreement, delivery in order, refinement | `LapmPair`, `LapmLemmas` |
| `Link`, `LinkPair`, `LinkProofs` | one end's `Link` with LAPM inside; two of them over a line that damages symbols, and the `Handshake` that feeds them; theorems about the two | `Lapm` |
| `Negotiation`, `V8bis`, `Automode` | menus and what an ear makes of them; V.8 bis; both ends from the answer to the modulation | each extends the one before |
| `Phase2`, `V34`, `V90`, `V22bis`, `Training` | phase 2; the pumps of V.34, V.90, V.22 and V.22bis; two pumps over a line that delays and loses | `Training` composes the rest |
| `V42bis` | encoder and decoder of one direction, and the agreement on it | |
| `Bits` | fields of bits and the CRC | |
| `Framing` | HDLC through a scrambler; start-stop characters and the detection patterns | `Bits` |
| `Messages`, `Fields` | the messages of start-up, bit by bit; the octets of LAPM and XID frames | `Bits` |
| `Wire`, `Sip`, `Loopback`, `Reorder` | calls over UDP, through SIP, in memory; the receive path of their audio | |
| `Calls`, `CallsProofs` | the four of them, one in each behaviour; theorems about them | `Wire`, `Sip`, `Loopback`, `Reorder` |
| `Modem`, `ModemProofs` | one `Modem`: commands, callers, dialling, the life of a call; theorems | |
| `Escape` | `escape.rs` as the modem's loop feeds it bytes and ticks | |
| `CommandLine` | line editor, parser, settings and the carrying out of lines | |
| `SerialPort`, `Ports`, `Cuse` | what a port is to the modem; tty, pseudoterminal and TCP; CUSE | `SerialPort` |
| `TerminalProofs` | theorems about the three of these that share no state | `Escape`, `Ports`, `Cuse` |

The modules named `MC...` give the constants values that a configuration file
cannot. `MCTerminal` and `MCCoding` also compose modules that share no state,
one of them in each behaviour, so that they are checked in one run, as `Calls`
does; a property of the run is then the conjunction of what each part promises.

### Lapm, LapmOpen, LapmPair

`Lapm` keeps the fields of the Rust structure under their names. `received` and
`queue` are sequences of units of data and `sent` the frames kept for sending
again. `SendData`, `NextFrame` with `AfterNextFrame`, `Receive` and `Expire`
are the methods `send`, `next_frame`, `receive` and `expire`; as in the code,
`next_frame` and `receive` begin with `expire`. A timer is on or off. When it
is on, the step may find it expired or not: `late` says so. A released end is
as in the code, which has no way back.

Frames are records. Damage that the check sequence finds is loss. The numbers
are modulo a small `Modulus`; the window stays below it, as `MAX_K` does below
128. `LapmPair` bounds the frames on the line each way by `LineLength` and the
lost frames and early timers by `MaxUpsets`.

### Link, LinkPair

Below LAPM a line carries bits. `Link` has it carry symbols: a character, a
flag, a frame, or noise, which is what the receiving end makes of flags before
it knows they are flags. The clock appears as for LAPM. `last_sound` and the
`+ER` and `+DR` reports are left out. V.42 bis is its set-up each way and the
string its encoder holds back: data decoded by an end with no decoder is
damaged, and a string never flushed never arrives.

`LinkPair` has what `Handshake::fill` and `Handshake::receive` do: link bits
are asked for when the pump runs low, and the first call is `start`. `call`,
chosen at the start from `Calls`, says how the ends are set up, what their
computers send and how many symbols are damaged and timers early.

### Negotiation, V8bis, Automode

A station is a record that each tick of 100 ms is asked what it says and told
what it hears, as the pumps are asked for samples and given some. Menus are sets
of modes, and a menu is taken when it has been heard twice the same. `faults`
counts what goes wrong on the line: messages spoilt, and carriers that an end no
longer hears. Far ends of other makes (marks only, V.22bis or V.21 with no V.8,
other choices of V.8 bis) are modelled by what they send. `Settled` is the end:
both ends have their pump, or both have found that there is none.

### Phase2, V34, V90, V22bis, Training

An end is again a record with the stage, the timers and the counts of the pump,
in ticks of 20 ms (50 ms for V.22bis). Signals are told by name, and lengths of
sounds are counted in ticks, shortened in the configuration where the code
compares them only with each other. What the equaliser, the coders and the
rate tables do is one number, the rate that the line can bear. A sequence that
is sent once and lost is told apart from one that is sent until it is heard
(`SentOnce`), as the code has no way back from the first but its silence timers.
`left` says what may still go wrong and be asked for, and when: ticks lost,
renegotiations, retrains and cleardowns asked for by either end, by the modem
(`ATO1`, hang-up) or by `line.rs`'s recovery, which is in `Training`.

### V42bis, Bits, Framing, Messages, Fields

`V42bis` has the tree of strings with its counters C1 to C3, the bits of the
codewords packed as the code packs them, transparent and compressed mode and the
escape. `enc` and `dec` are the two ends, joined by the bits. The alphabet, the
least dictionary and the test window are parameters.

`Framing` has the HDLC and the start-stop receivers' registers bit by bit, with
the joining of a running line and one bit inverted anywhere. `Messages` and `Fields`
write and read what the code writes and reads, field by field, and pose messages
and octets that it does not write.

### Wire, Sip, Loopback, Reorder, Calls

`Wire` has a socket for each pair of ends, in which messages wait until whatever
serves it reads them: `incoming`, `dial` or the call's session. It loses
messages and has room for so many, and keeps the order of the rest. Each message
carries the dials it is about, which those of the code do not; a session that
answers a DIAL anew is about that dial too. The modem's own
wait before `Transport::dial` is a state in which nothing reads. `Sip` has the
modem where it is when it dials, answers, listens and hangs up, and beside it a
task for each dial, the layer that takes INVITEs and a task for each call; the
SIP library and the phones are external. Its steps fail where the code's do: no
socket for the audio (`Pcma::bind`) when it dials or answers, and a far end whose
audio is of no use (`NoPcma`, or no remote address) when an answer is accepted, a
dial completed or finished, or a call started. `letGo` is not in the code: it is
the far ends that such an error left without a word. `Loopback` has its offers and the
channel of each answer, which closes when the dial is dropped.

In `Reorder` a packet is its sequence number, its timestamp, and the place in
the sender's stream that a property needs and the code does not have. The
network delivers packets at most `Reach` places out of order, may lose any of
them, and may deliver any twice, across a jump of the sender's numbers too: a
late packet from before a jump starts the stream again where it is, as in the
code, and the next one from behind it starts it once more. `MaxTurns` bounds how
often that happens. `Numbers` and `Stamps` are small enough that
both wrap within the run, and `ResyncDistance` and `MaxGap` small enough that
both sides of each comparison happen.

### Modem

One action for each branch of `Modem::run`'s `select!` and for each command
that changes the state of the call. While a line of commands is carried out, or
a dial waits, `doing` keeps the other branches from running, as the task does.
`line` is the call with its stage; that the pump, the link or the far end ends
it is `CallEnds`. `told` is not in the code: it is what the computer may think
after the result codes so far. `waiting` is not either: it is the callers that
the transport rings for. One whose answer fails is none of them any more, in
this module; what becomes of its phone is in `Sip`.

Left out: `ATQ1` and the wording of results, the lengths of times, the data of
the call, the front panel, the speaker, and the end of the program. That `+++`
leads to command mode is one action here; how it is found is the next module's.

### Escape, CommandLine

`Type` is a byte read in data mode (`EscapeDetector::push`), `Tick` the branch
of the frame clock (`poll`), and `EnterData` a new detector with what S2 and S12
are set to. Time is counted from the start of a stay in data mode. A byte's
instant is that of its read, as in the code. Ticks need not be regular: `Pass`
lets time go on until the last tick is `MaxLate` old. `sent`, what the line was
given, and `typed`, what was read and when, are for the properties, which say
what an escape is in terms of the whole history and not of the detector.

`CommandLine` has characters as strings of one. The editor takes keys and
pastes; a line is parsed whole before any of it is carried out; a setting has
its limits and what a question about it is answered. A call fails, or gets
through and later ends: what commands do to one is `Modem`'s subject.

### SerialPort, Ports, Cuse

In `Ports` the device, the programs and the network are external: a device goes
and comes back, programs open the link between any two steps of a hang-up, which
are calls of the file system, and computers connect while another is served. In
`Cuse` the kernel is external: it queues requests, hands interrupts of calls
already read first, repeats an ioctl whose data is asked for, and wakes those
asleep in poll. Bytes are numbers in their stream, or the number of who sent
them.

## Runs

| Run | Checks | Bounds |
| --- | --- | --- |
| `lapm_open` | One end against any peer: no index out of bounds, no recovery without a poll, nothing stranded, and a released end stays dead. | modulus 3, N400 1, windows 1 and 2, XIDs that ask for too much and too little; every kind of frame at every moment, with the P/F bits the code tells apart |
| `lapm` | Two ends: numbers that agree, nothing lost, compression agreed the same at both ends, only silence releases a connection, the pair implements `ReliableStream`, and, the damage over, every call settles. | 4 units one way and 1 the other, modulus 3, window 2, N400 2, 3 upsets, two frames on the line each way |
| `link` | Every meeting of an end with V.42, one that sends flags at once, and one without: they never split for good, and early text is kept. V.42 bis one way, required and refused: the data arrives whole. | a character each way or two and one, one upset, slow and fast lines |
| `link_live` | Each end decides what it has, and the last character leaves V.42 bis's encoder. | one upset; one character |
| `link_gives_up` | A violation: see Findings. | no upset |
| `modem` | One call at a time, no caller forgotten, the computer knows what its bytes mean, DCD stays on during a call. | two callers, every line of one or two commands of twelve, S0 of 0 or 2 |
| `modem_dcd` | A violation: see Findings. | lines of one command |
| `automode` | Both ends come to the same modulation, on a sound line to the best they both have, with nobody left in the menus, and in time. | every pair of offers over four delays; one message spoilt or one carrier lost anywhere, two for some offers; far ends of other makes; 15 s |
| `training` | Both ends come to data, or end, in time; they mean the same rate and end together; the round trip measured is the line's. | V.34, V.90, V.90 that falls back to V.34, V.22bis and its meetings with V.22; a tick lost at any time of start-up; two things asked for at once or one in the other; a tick lost in what is asked for |
| `calls` | Nobody is left ringing or alone in a call, by SIP, loopback and wire; audio in order, and in time with the sender; only the far end ends a call; every call and every ringing ends. | two dials and two callers by SIP, one far end at a time let go of, four offers over the loopback, three ends over the wire with two messages in a socket and one upset; 8 packets, numbers modulo 32, window 2, reach 3, one jump and one turn back over it; 248,557 states |
| `coding` | What is written is what is read: V.42 bis, frames, characters, messages of start-up, LAPM and XID octets, with one bit inverted. | 8 characters, 7 strings and 11 characters sent for V.42 bis, so that the dictionary fills and recycles; 34 bits of a message at a time around each hit |
| `terminal` | Bytes get through whole but for an escape, none is found by chance and none missed; system calls answered once; ports keep sessions apart and the link alive; command lines do what they say. | escape: four bytes in eight instants, guards 0 and 2, ticks one instant late at most; ports: two programs, three computers, three comings of the device; CUSE: three calls and bytes; commands: six keys, lines of 64 characters, two reads |

Why the bounds are enough: a modulus of 3 with a window of 2 has every relation
between V(S), V(A) and N(R) that 128 with 127 has, N400 of 1 or 2 has a first
and a last try, and the code compares lengths only with the window. Four units
wrap the numbers, and three upsets lose a frame, its repetition and the answer
to a poll. Two callers are one that rings and one that finds it ringing; with
two commands on a line every pair of an ending command and one that follows it
happens. Three ends on the wire are the fewest with a third party. One fault in
automode or training is tried at every tick, and a second where the first has
led to a way back, so that the way back is itself disturbed. A dictionary of
seven strings is full after the eleven characters sent and recycles its first
leaf. Four bytes are an escape and a byte before or after it, or four escape
characters in a row, and eight instants have both of its guard times. What is
proved, below, holds without these bounds.

A passing run with `CHECK_DEADLOCK FALSE` is one whose system comes to rest: all
is delivered, the call is over, or the bounds of what the environment does are
reached. `Modem` and `LapmOpen` never stop, and are checked for deadlock.

### Fairness

- `LapmPair` and `LinkPair`: weak fairness of `Transmit` and `Hear`. The modem
  ticks every 20 ms and the pump always has room again after one. A timer that
  runs expires in time (`TransmitLate`), and a frame on the line arrives or is
  lost. `LinkPair` has strong fairness of `TransmitLate`: the pump's room, of
  which it depends, comes and goes with each symbol.
- The upsets are bounded, as no protocol of this kind delivers over a line that
  loses everything.
- A timer is early when it expires with the answer still under way. Early ones
  count as upsets: T401 is set from the time two long frames take at the bit rate
  (`Link::start`), so that it does not happen on a line without much delay. Only
  T400, of the detection, is lengthened by the round trip.
- `Calls`: the tasks of a SIP call and the modem's own waits go on (weak
  fairness of each); over the wire an end starts and repeats its dial, gives it
  up, stops ringing and notices silence when its clock says so, and reads what
  waits in the sockets it serves. Phones, computers and far ends need do nothing.
- `MCTerminal`: the server of CUSE picks at random among the branches of its
  `select!` that are ready, which is strong fairness of each that is ready again
  and again; a device whose time has come is looked for, opened, or found gone.
- `Automode` and `Training` have no fairness: time is in the model, each tick
  both ends step, and "in time" is an invariant at the last tick.

## Proofs

TLAPS proves, for every value of the constants that the assumptions allow:

- `LapmProofs`: the invariants of one LAPM end against a peer that may send any
  frame whatever: `TypeOK`, `IndexInBounds`, `NumbersUnambiguous`,
  `RecoveryPolls` and `NothingStranded`, and that a released end stays so,
  keeps nothing and hands nothing over (`ReleasedIsFinal`). The inductive invariant adds to them
  what the code relies on without saying so, such as that V(S) is within the
  frames kept in every connected state and that the window is below the
  modulus. The arithmetic of differences modulo N is a handful of lemmas; then
  each method of `Lapm` has a lemma that it keeps the invariant (`LapmLemmas`),
  and the actions follow from the methods they call.
- `PairProofs`: all that the run `lapm` checks of two ends but liveness, for any
  modulus above the window, any window, data, line and number of upsets, and so
  with no bound on how often numbers wrap: `TypeOK`, `NumbersAgree`,
  `NothingLost`, `InOrderOnce`, `CompressionAgrees`, `OnlySilenceReleases` and
  `ImplementsStream`, the refinement of `ReliableStream`. None of them is
  inductive: numbers modulo N say nothing of which frame is meant. `PairInv`
  gives each direction counts without end (`Way`): how many frames the sender
  has seen acknowledged, the receiver has taken and the sender has made, each
  within a window of the one before; a count for each I frame under way and for
  each N(R) coming back; and the unit of data each frame ends with. The frames
  kept are those after the acknowledged ones, the units received those up to the
  last frame taken, and a count's remainder is the number on the wire. An old I
  frame is at most a window behind the newest (`Carried`), which is why the
  receiver never takes it for a new one: `SameFrame` needs the window to be below
  the modulus and nothing else. A lemma for each thing that happens to a
  direction (`WayCut`, `WaySent`, `WayTaken`, `WayAcknowledged`, `WayOutLost` and
  so on) says that counts exist after it; what each method of `Lapm` does to the
  two directions is stated by `ExpireFacts` to `AnswererHears`. `Accord` is what
  XID and SABME under way say of the compression each end runs: the caller does
  not leave negotiation before the answerer has decided, and the answerer cannot
  decide otherwise when it is asked again.
- `ModemProofs`: `CallersKept`, `MeansTheSame`, `DcdWhileConnected` and the type
  invariant, for any set of callers, any set of command lines of any
  length, and any settings. The inductive invariant adds that the modem is in
  command mode while it carries out a line, that commands reach a call only
  silent or connected, and that DCD is up throughout and not only at rest.
- `TerminalProofs`: `Transparent`, `NeverByChance` and `NeverMissed`, for any
  bytes, guard times and lateness. The inductive invariant ties the detector to
  the history: what is held is the run of escape characters that the bytes end
  in (`HeldIsRun`), such a run is held if its pauses allow for the lateness
  (`RunIsHeld`), and a held run is looked at in time (`PolledInTime`).
  `PortSound`, for any devices, programs and computers: `PtyInv` says which
  pseudoterminals are there at each step of a hang-up and which of them a program
  can have open, `TtyInv` and `TcpInv` count the ends of input heard and owed.
  `CallsServed`, for any programs, calls and buffers: `WaitsWell` sets the reads
  that wait against the calls that the kernel has handed over, one for one, and
  `Kept3` is a stream as what was read, what is held and what is to come. What
  `serve_waiting_reads` does to any number of reads (`AllServed`) is an induction,
  made from the least number at which it would fail (`LeastNatural`).
- `CallsProofs`: `NobodyLeft` for any number of dials and callers by SIP and of
  far ends let go of, and
  `CallsJoined` for any sides and ends of the loopback and the wire, any losses,
  repetitions and early timers. `SipInv` says for each place a dial or a caller
  may be in where the modem, its task and the call's audio then are, and that
  the modem counts as busy just the calls whose tasks run (`CallsCounted`).
  `LoopInv` ties an end's side of a call to its peer's through the queue of
  offers and the answers under way. `WireInv` says what a DIAL, an ANSWER or a
  BYE still in a socket may be about: it is why an answer to a dial given up
  joins nobody to a computer that never answered. `OnlyTheFarEndEnds`, for any
  ends, room in their sockets and losses: `Backed` says of a DIAL or an ANSWER
  under way, of a phone that rings and of a call that the far end has left the
  dial it is about, or is still about it and has sent no BYE since. A socket keeps
  the order of what is sent, so a BYE about an earlier call has been read before
  the DIAL or the ANSWER of this one. `PlayedInOrder` and `ClockKept`
  of the received audio, for any window, packet length, widths of numbers and
  timestamps, and jumps of the sender. `AudioInv` says of what waits that each
  packet is as many numbers ahead of the next one as it is places behind the last
  that left, and that whatever came and neither left nor waits was passed over for
  a full window (`Kept`, `Knows`, `PassedOver`). What waits is from the same side
  of a jump as the last packet that left (`Waits`). So a number off by more than `ResyncDistance` is a jump, from
  whichever side, and one off by less is that packet and no other, as long as the
  network moves packets by less than that (`NetworkAssumption`) and the sender
  counts up but for its jumps, is silent no longer than a gap may be with
  `2 * Reach` packets missing, and jumps further than the network reaches, seen
  from either side (`SenderAssumption`). The network need not keep the two sides
  of a jump apart; that is why the order is claimed between jumps only.
- `LinkProofs`: `NeverSplit`, for any set-ups, texts, damage, lateness and number
  of flags. An end that is told of an error-corrected connection has heard a
  frame; only an end that has decided on V.42 sends frames, and it never falls
  back. `SplitInv` is that: a frame that an end is sending or that is on its line,
  or a peer that is connected, means that the end has decided. `TextKept`, for
  any set-ups, texts and number of symbols on the line. `TextInv` says it of every
  pair of ends that have not decided: what an end's computer gave it is what the
  other has, holds, or has coming. It is inductive because such an end has sent
  its text and ODPs and nothing else (`PlainSymbol`), so the other has heard no ADP
  (`Clean`), the only thing that would make it drop the text that it holds. That the
  text of two stretches of line is the text of the one and then of the other
  (`TextJoined`) is an induction from the least length at which it would fail.

The assumptions are those that the modules state of their constants
(`LapmAssumption`, `LapmOpenAssumption`, `LapmPairAssumption`, `ModemAssumption`,
`EscapeAssumption`, `CuseAssumption`, `SipAssumption`, `LoopAssumption`,
`WireAssumption`, `LinkPairAssumption`, `ReorderAssumption`,
`NetworkAssumption`, `SenderAssumption`), which TLC checks for the instances it
runs. All but two say of what type a constant is or what the code makes sure of.
Those two are about the world that the receiver of audio is in:
without them a packet may be a lap of the numbers away from where it seems, and
no receiver could tell.

Only model-checked, and why:

- Liveness (`Settles`, `Decides`, `DataArrives`, `CallsEnd`, `PortsGoOn`) is out
  of the prover's reach, as is anything that needs ENABLED.
- `Automode`, `Training`: two machines of dozens of stages each, whose safety is
  a matter of lengths of time that are numbers in the configuration; an
  invariant would have to name each pair of stages at each delay.
- `CommandLine`, `V42bis`, `Messages`, `Fields`, `Framing`: what a
  reader makes of what a writer wrote, for every input, is induction over data of
  several shapes at once, not attempted. `CommandLine` also has recursive
  operators, after which the provers lose arithmetic.
- `DataIntact` of `LinkPair` would carry the counts of `PairProofs` through the
  phases of a link, with lost frames where `LapmPair` has its own losses.

## Findings

- `link_gives_up`: `Lapm::answer` is documented to give up in N400 times T401.
  LAPM looks at its clock only when the link asks it for a frame or hears one,
  and an answerer's link does not ask while it sends ADPs. If the originator
  falls back as the ADP is under way, the answerer sends ADPs until S7 ends the
  call.
- `modem_dcd`: when the computer goes during a call, `run` hangs up without
  `sync_dcd`. Under `&C1` DCD stays on with no call, until a command line ends
  in OK. A `TtyPort` raises it again when the device is back.

Seen on the way, and not in a run:

LAPM and the link
- A LAPM end whose peer is busy stops T401 when an I frame acknowledges
  everything. If the peer's RR is then lost nothing asks it again. softmodem
  never sends RNR, so it takes another make of modem.
- A poll owed from a T401 that expired in the same call to `receive` that ends
  recovery is still sent. It does no harm.
- A SABME repeated around a late UA, when the answerer has already sent data,
  ends the call; `docs/v42.md` says so.

The modem
- A dial while RI is on keeps RI on, with nobody ringing, until the dial is
  answered or fails, since no event but the dial's is heard;
  `docs/terminal.md:194` has RI on only while the line rings.
- `ATH`, `ATZ` or `AT&C1` followed by `A`, `D` or `O` on one line leave DCD as
  it was before the line, since only a line that ends in OK renews it.
- Data received while the computer is in command mode during a call is dropped,
  as are bytes that follow `ATO` or `ATD` in the same read, and the commands that
  follow an `ATD...;` on its line (`modem.rs:242`). `CommandsKept` allows these.
- An end of input that a dial's wait for a key consumes leaves the off-hook
  state and the line editor as they were.
- An escape whose first or last guard time ends within a late tick may be
  missed: a byte that comes before the poll finds what is held still held, and
  makes it data. Hence the `MaxLate` in `NeverMissed`, in the code up to 20 ms.
- Guard times are measured between reads. When flow control or a long command
  keeps the modem from reading, bytes that waited are all read at once, and a
  pause may be in a place where the computer made none. `Escape` takes the
  reads as they come.
- `EscapeDetector::deadline` has no caller: the loop polls each tick instead.
- A command line over 255 characters is cut without a word and run. `S3` set to
  the code of `A` and `S5` to that of `a` leave no way to type `AT`. `+MS?` does
  not tell the rates that `+MS=` sets.

Start-up
- A carrier that drops for 50 ms while the answerer sends its JM makes it leave
  the menus early; with nothing in common both ends fall back to V.21. S7 ends
  such calls.
- What is sent once and lost is fatal to the start-up: E in V.90 and in a V.34
  renegotiation, and a reversal of S. A renegotiation whose S-bar is lost leaves
  the far end holding, not connected, with `Recovery` silent; LAPM's N400 ends
  the call (`docs/v42.md:49`).
- V.22bis settles the first rate by the last dibit it hears of the sequence.
- `README.md:63` of the repository says that V.90 retrains are not done yet;
  `docs/v90.md` from line 166 on describes them, and the code has them.

Transports
- An answer over SIP that fails (`sip.rs:376-386`) leaves the caller with a phone
  that rings, or with one that was answered if the failure is in `start`, and the
  program neither refuses it nor says BYE: the caller is in neither `ringing` nor a
  call any more. A dial that fails once the far end has answered
  (`sip.rs:309-321`) leaves it so too. `NobodyLeft`, `GivenUpEnds` and `EitherEnds`
  except these far ends, and say that they keep nobody else out and are not
  counted as up.
- A packet of audio from before a jump of the sender's numbers that comes after
  one from behind it is played out of its order, and those behind the jump that
  come again are played again, since `reorder.rs:51-60` takes any number far off
  for a new stream. `InOrderAtMostOnce` allows it there and nowhere else.
- A DIAL, ANSWER or BYE over UDP names no call. What is lost does no harm, as
  long as the rest comes in order (`OnlyTheFarEndEnds`); a BYE of a dial given up
  that the network lets the next DIAL overtake would end the new call.
- An INVITE that comes while the modem waits in a command is not answered until
  the modem listens again, and may then ring for a caller who has gone, until
  the CANCEL is seen; and an INVITE in the queue whose CANCEL has come makes
  `respond_provisional` fail, an error that would end `Modem::run`.

Ports
- CUSE keeps one poll handle: when two programs' polls are under way the first
  is not woken. A poll always says that writing is possible, though a write may
  then be told to try again. `TIOCMGET` may tell of lines that have changed
  since.
- A pseudoterminal that nobody reads from blocks the modem in `write_all`.

Coding
- `MAX_BITS` of a frame is checked only at data bits of 0.
- A bit in error in the last ones of a detection pattern spoils the next too.
- A hit in the fill or a start bit of a type 1 MP may make the twenty ones that
  are E: `EAlone` is for a line undamaged there.
- The descrambler does not undo the lock-up guard, on purpose
  (`docs/v22.md:40`).
- `read_private` of an XID ignores the name of a private set, and a second set
  overwrites the first.

## Not modelled

Signal processing (filters, equalisers, trellis, shell mapping, echo
cancelling), which is numeric and out of TLC's reach, the wording of results,
the levels of a CP's constellations, Ja, break signals' content, arguments and
files, the settings of a line (termios) and the counts and queues of the
ports' ioctls beside those of `Cuse`, socket errors other than those of `Sip`
above, and so the errors of `incoming` and `reject`, which end the program; the
silence that V.90's analogue end may ask for with CPs (`Send::Silent`), which
this program's never does; the RTP impairments, which are a test aid, SIP
registration, the front panel, the speaker, the Android
application, and the harnesses that run other modems against this one. The
components in `PROJECT.json` say so one by one.
