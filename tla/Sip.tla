-------------------------------- MODULE Sip ---------------------------------
(***************************************************************************)
(* Calls through a SIP registrar (softmodem-transport/src/sip.rs): the     *)
(* task that places a call, the layer that takes INVITEs, and the task     *)
(* that joins a call's signalling to its audio, each beside the modem,     *)
(* which is where the modem is (modem.rs) when it dials, answers, listens  *)
(* and hangs up.                                                           *)
(*                                                                         *)
(* The phones and the SIP library are external: requests and responses are *)
(* neither lost nor repeated, CANCEL ends a call that has not been taken   *)
(* into use, and an INVITE that nobody answers fails in the end.  A socket *)
(* may not bind, and a far end's description may hold no audio that can be *)
(* used (NoPcma): the program then lets go of the call with an error and   *)
(* says nothing to the far end, which stays as it is until it gives up.    *)
(***************************************************************************)
EXTENDS Naturals, FiniteSets, Sequences, SequencesExt

CONSTANTS Dials,    \* calls the modem may place
          Callers,  \* calls it may be called by
          Nobody,
          MaxLetGo  \* bound: far ends that are let go of at the same time

ASSUME SipAssumption ==
  /\ Dials \cap Callers = {} /\ Nobody \notin Dials \cup Callers
  /\ MaxLetGo \in Nat

Everyone == Dials \cup Callers
SipStates == {"Idle", "Waiting", "Dialling", "Answering", "Call", "Ending"}
PhoneStates == {"quiet", "invited", "ringing", "answered", "refused", "up", "over"}

VARIABLES modem,     \* what it does, and with which call
          bell,      \* ringing: the caller that rings
          task,      \* each dial's task
          outcome,   \* each dial's result, on its way to the dial
          invites,   \* INVITEs taken and not looked at
          calls_up,  \* the calls that are counted as up
          joined,    \* those whose signalling task runs
          audio,     \* those whose RTP session runs
          phone,     \* the far end of each call
          letGo      \* those that an error ended here, and whose far ends were told
             \* nothing, until these give up

far == <<phone, letGo>>

sipVars ==
  <<modem, bell, task, outcome, invites, calls_up, joined, audio, far>>

At(state, call) == [state |-> state, call |-> call]
OnHook == At("Idle", Nobody)
Listening == modem.state = "Idle"

SipInit ==
  /\ modem = OnHook /\ bell = Nobody
  /\ task = [d \in Dials |-> "none"] /\ outcome = [d \in Dials |-> "none"]
  /\ invites = <<>>
  /\ calls_up = {} /\ joined = {} /\ audio = {}
  /\ phone = [x \in Everyone |-> "quiet"] /\ letGo = {}

Over(x) == phone' = [phone EXCEPT ![x] = "over"]

(***************************************************************************)
(* The far ends.                                                           *)
(***************************************************************************)
Alerts(d) ==
  /\ phone[d] = "invited" /\ phone' = [phone EXCEPT ![d] = "ringing"]
  /\ UNCHANGED <<modem, bell, task, outcome, invites, calls_up, joined, audio,
                 letGo>>

PicksUp(d) ==
  /\ phone[d] \in {"invited", "ringing"} /\ phone' = [phone EXCEPT ![d] = "answered"]
  /\ UNCHANGED <<modem, bell, task, outcome, invites, calls_up, joined, audio,
                 letGo>>

Refuses(d) ==
  /\ phone[d] \in {"invited", "ringing"} /\ phone' = [phone EXCEPT ![d] = "refused"]
  /\ UNCHANGED <<modem, bell, task, outcome, invites, calls_up, joined, audio,
                 letGo>>

(* A caller cancels, either kind of phone hangs up, or one that the        *)
(* program has let go of gives up.                                         *)
PutsDown(x) ==
  /\ \/ phone[x] = "up"
     \/ x \in Callers /\ phone[x] \in {"invited", "ringing"}
     \/ x \in letGo /\ phone[x] = "answered"
  /\ Over(x) /\ letGo' = letGo \ {x}
  /\ UNCHANGED <<modem, bell, task, outcome, invites, calls_up, joined, audio>>

(* Invites::receive.                                                       *)
Busy == calls_up # {}

Invite(c) ==
  /\ phone[c] = "quiet"
  /\ IF Busy
     THEN /\ Over(c)
          /\ UNCHANGED invites
     ELSE /\ phone' = [phone EXCEPT ![c] = "invited"]
          /\ invites' = Append(invites, c)
  /\ UNCHANGED <<modem, bell, task, outcome, calls_up, joined, audio, letGo>>

(***************************************************************************)
(* The modem's calls of the transport.                                     *)
(***************************************************************************)
(* Mutant: the caller is forgotten and not refused.                        *)
Forgotten(c) == phone
Declined(c) == IF c = Nobody THEN phone ELSE [phone EXCEPT ![c] = "over"]

(* modem.rs dial: a caller that rings is refused, then the wait before the *)
(* dial.                                                                   *)
BeginsDial(d) ==
  /\ Listening /\ task[d] = "none"
  /\ modem' = At("Waiting", d)
  /\ phone' = Declined(bell)
  /\ bell' = Nobody
  /\ UNCHANGED <<task, outcome, invites, calls_up, joined, audio, letGo>>

(* Sip::dial: the task is spawned, and the dial waits for its result.  With*)
(* no socket for its audio (Pcma::bind) the dial fails before that.        *)
Dial ==
  /\ modem.state = "Waiting"
  /\ \/ /\ modem' = At("Dialling", modem.call)
        /\ task' = [task EXCEPT ![modem.call] = "making"]
        /\ phone' = [phone EXCEPT ![modem.call] = "invited"]
     \/ modem' = OnHook /\ UNCHANGED <<task, phone>>
  /\ UNCHANGED <<bell, outcome, invites, calls_up, joined, audio, letGo>>

Connected ==
  /\ modem.state = "Dialling" /\ outcome[modem.call] = "call"
  /\ modem' = At("Call", modem.call)
  /\ outcome' = [outcome EXCEPT ![modem.call] = "taken"]
  /\ UNCHANGED <<bell, task, invites, calls_up, joined, audio, far>>

Failed ==
  /\ modem.state = "Dialling" /\ outcome[modem.call] = "error"
  /\ modem' = OnHook
  /\ UNCHANGED <<bell, task, outcome, invites, calls_up, joined, audio, far>>

(* A key or the end of S7 drops the dial, and what it was sent.            *)
GivesUp ==
  /\ modem.state \in {"Waiting", "Dialling"}
  /\ modem' = OnHook
  /\ outcome' = [outcome EXCEPT ![modem.call] =
                   IF modem.state = "Dialling" THEN "dropped" ELSE @]
  /\ UNCHANGED <<bell, task, invites, calls_up, joined, audio, far>>

(* CallUp's Drop, when a call ends or is not accepted.                     *)
DropCallUp(x) == calls_up \ {x}

(* An error: the program lets go of the call, and says nothing.            *)
LetsGo(x) == Cardinality(letGo) < MaxLetGo /\ letGo' = letGo \cup {x}

(* Sip::answer, until accept returns.  The caller is taken from ringing    *)
(* before there is a socket for its audio (Pcma::bind).                    *)
Answers ==
  /\ Listening /\ bell # Nobody
  /\ bell' = Nobody
  /\ \/ /\ modem' = At("Answering", bell)
        /\ calls_up' = calls_up \cup {bell}
        /\ UNCHANGED letGo
     \/ LetsGo(bell) /\ UNCHANGED <<modem, calls_up>>
  /\ UNCHANGED <<task, outcome, invites, joined, audio, phone>>

(* accept and start: it succeeds, the caller has gone, or the caller's     *)
(* description is of no use.  That shows before the caller is answered or, *)
(* where the description comes with its ACK, after that.                   *)
Accepted ==
  /\ modem.state = "Answering"
  /\ \/ /\ phone[modem.call] = "ringing"
        /\ phone' = [phone EXCEPT ![modem.call] = "up"]
        /\ joined' = joined \cup {modem.call} /\ audio' = audio \cup {modem.call}
        /\ modem' = At("Call", modem.call)
        /\ UNCHANGED <<calls_up, letGo>>
     \/ /\ phone[modem.call] = "over"
        /\ calls_up' = DropCallUp(modem.call)
        /\ modem' = OnHook
        /\ UNCHANGED <<phone, joined, audio, letGo>>
     \/ /\ phone[modem.call] = "ringing"
        /\ LetsGo(modem.call)
        /\ phone' \in {phone, [phone EXCEPT ![modem.call] = "up"]}
        /\ calls_up' = DropCallUp(modem.call)
        /\ modem' = OnHook
        /\ UNCHANGED <<joined, audio>>
  /\ UNCHANGED <<bell, task, outcome, invites>>

Rejects ==
  /\ Listening /\ bell # Nobody
  /\ phone' = Declined(bell)
  /\ bell' = Nobody
  /\ UNCHANGED <<modem, task, outcome, invites, calls_up, joined, audio, letGo>>

(* Call::hang_up: the audio is dropped, and the call's tasks awaited.      *)
HangsUp ==
  /\ modem.state = "Call"
  /\ modem' = At("Ending", modem.call)
  /\ UNCHANGED <<bell, task, outcome, invites, calls_up, joined, audio, far>>

HungUp ==
  /\ modem.state = "Ending" /\ modem.call \notin joined \cup audio
  /\ modem' = OnHook
  /\ UNCHANGED <<bell, task, outcome, invites, calls_up, joined, audio, far>>

(* Sip::incoming, polled while the modem is on hook.                       *)
Gone ==
  /\ Listening /\ bell # Nobody /\ phone[bell] = "over"
  /\ bell' = Nobody
  /\ UNCHANGED <<modem, task, outcome, invites, calls_up, joined, audio, far>>

Rings ==
  /\ Listening /\ bell = Nobody /\ invites # <<>>
  /\ bell' = Head(invites) /\ invites' = Tail(invites)
  /\ phone' = IF phone[bell'] = "invited" THEN [phone EXCEPT ![bell'] = "ringing"]
              ELSE phone
  /\ UNCHANGED <<modem, task, outcome, calls_up, joined, audio, letGo>>

SecondCaller ==
  /\ Listening /\ bell # Nobody /\ invites # <<>>
  /\ invites' = Tail(invites)
  /\ phone' = Declined(Head(invites))
  /\ UNCHANGED <<modem, bell, task, outcome, calls_up, joined, audio, letGo>>

(***************************************************************************)
(* Dial::run, the task that places a call.                                 *)
(***************************************************************************)
Wanted(d) == modem = At("Dialling", d)

(* The task's last act: its result, if the dial still waits for it.        *)
Result(d, what) ==
  /\ task' = [task EXCEPT ![d] = "done"]
  /\ outcome' = [outcome EXCEPT ![d] = IF Wanted(d) THEN what ELSE @]

(* make_call, until a response.                                            *)
FirstResponse(d) ==
  /\ task[d] = "making" /\ phone[d] \in {"ringing", "answered"}
  /\ task' = [task EXCEPT ![d] = "waiting"]
  /\ UNCHANGED <<modem, bell, outcome, invites, calls_up, joined, audio, far>>

MakeFails(d) ==
  /\ task[d] = "making" /\ phone[d] \in {"invited", "refused"}
  /\ Result(d, "error")
  /\ Over(d)
  /\ UNCHANGED <<modem, bell, invites, calls_up, joined, audio, letGo>>

Completes(d) ==
  /\ task[d] = "waiting" /\ phone[d] = "answered"
  /\ task' = [task EXCEPT ![d] = "finishing"]
  /\ UNCHANGED <<modem, bell, outcome, invites, calls_up, joined, audio, far>>

(* The description that came with the answer is of no use.                 *)
CompletionFails(d) ==
  /\ task[d] = "waiting" /\ phone[d] = "answered"
  /\ Result(d, "error") /\ LetsGo(d)
  /\ UNCHANGED <<modem, bell, invites, calls_up, joined, audio, phone>>

Refused(d) ==
  /\ task[d] = "waiting" /\ phone[d] = "refused"
  /\ Result(d, "error")
  /\ Over(d)
  /\ UNCHANGED <<modem, bell, invites, calls_up, joined, audio, letGo>>

(* result.closed().                                                        *)
Closed(d) == ~Wanted(d)

Cancels(d) ==
  /\ task[d] = "waiting" /\ Closed(d)
  /\ Result(d, "error")
  /\ Over(d)
  /\ UNCHANGED <<modem, bell, invites, calls_up, joined, audio, letGo>>

(* finish and start: the call is up, whoever still wants it.               *)
Finishes(d) ==
  /\ task[d] = "finishing"
  /\ phone' = [phone EXCEPT ![d] = "up"]
  /\ calls_up' = calls_up \cup {d}
  /\ joined' = joined \cup {d} /\ audio' = audio \cup {d}
  /\ Result(d, "call")
  /\ UNCHANGED <<modem, bell, invites, letGo>>

(* finish fails, or start does and its CallUp is dropped with the call: the*)
(* far end has answered, and whether it had its ACK makes no difference.   *)
FinishFails(d) ==
  /\ task[d] = "finishing"
  /\ Result(d, "error") /\ LetsGo(d)
  /\ UNCHANGED <<modem, bell, invites, calls_up, joined, audio, phone>>

(***************************************************************************)
(* start: signalling and audio, each ending the other.                     *)
(***************************************************************************)
(* Somebody has the call: the modem, or the result on its way to it.       *)
Has(x) ==
  \/ modem = At("Call", x)
  \/ x \in Dials /\ outcome[x] = "call"

(* The RTP session ends when the call is dropped, and when nothing is      *)
(* heard from a far end that has gone.                                     *)
AudioEnds(x) ==
  /\ x \in audio /\ (~Has(x) \/ phone[x] = "over")
  /\ audio' = audio \ {x}
  /\ UNCHANGED <<modem, bell, task, outcome, invites, calls_up, joined, far>>

(* on_end: the signalling task says BYE as the audio has ended.            *)
SaysBye(x) == x \in joined /\ x \notin audio

Terminates(x) ==
  /\ SaysBye(x)
  /\ Over(x)
  /\ joined' = joined \ {x} /\ calls_up' = DropCallUp(x)
  /\ UNCHANGED <<modem, bell, task, outcome, invites, audio, letGo>>

(* The far end's BYE: the task ends, having stopped the audio.             *)
Terminated(x) ==
  /\ x \in joined /\ phone[x] = "over"
  /\ joined' = joined \ {x} /\ calls_up' = DropCallUp(x)
  /\ audio' = audio \ {x}
  /\ UNCHANGED <<modem, bell, task, outcome, invites, far>>

(* line.rs: the end of the audio hangs the call up.                        *)
EndHeard == modem.state = "Call" /\ modem.call \notin audio /\ HangsUp

SipTask(d) ==
  \/ FirstResponse(d) \/ MakeFails(d) \/ Completes(d) \/ Refused(d) \/ Cancels(d)
  \/ CompletionFails(d) \/ Finishes(d) \/ FinishFails(d)
SipCall(x) == AudioEnds(x) \/ Terminates(x) \/ Terminated(x)
SipModem == Dial \/ Connected \/ Failed \/ Accepted \/ HungUp \/ EndHeard
SipIncoming == Gone \/ Rings \/ SecondCaller

SipNext ==
  \/ \E d \in Dials : Alerts(d) \/ PicksUp(d) \/ Refuses(d) \/ BeginsDial(d) \/ SipTask(d)
  \/ \E c \in Callers : Invite(c)
  \/ \E x \in Everyone : PutsDown(x) \/ SipCall(x)
  \/ SipModem \/ SipIncoming
  \/ GivesUp \/ Answers \/ Rejects \/ HangsUp

(***************************************************************************)
(* What the transport promises.                                            *)
(***************************************************************************)
SipTypeOK ==
  /\ modem \in [state : SipStates, call : Everyone \cup {Nobody}]
  /\ bell \in Callers \cup {Nobody} /\ invites \in Seq(Callers)
  /\ task \in [Dials -> {"none", "making", "waiting", "finishing", "done"}]
  /\ outcome \in [Dials -> {"none", "call", "error", "taken", "dropped"}]
  /\ calls_up \subseteq Everyone /\ joined \subseteq Everyone
  /\ audio \subseteq Everyone
  /\ phone \in [Everyone -> PhoneStates] /\ letGo \subseteq Everyone

(* A modem is busy just for the calls whose tasks run and the one that it  *)
(* is answering: every CallUp is dropped with its call, and none before.   *)
CallsCounted ==
  calls_up = joined \cup (IF modem.state = "Answering" THEN {modem.call} ELSE {})

(* No caller is left with a phone that rings or talks to nobody but one    *)
(* whose answer failed: one that hears it ring is the one the modem rings  *)
(* for or is answering, and one that was answered has the modem until its  *)
(* call has been ended, whatever was dialled, cancelled or refused in      *)
(* between (sip.rs incoming, answer and reject; modem.rs dial, which       *)
(* refuses a caller first).  One whose answer failed hears nothing more,   *)
(* but keeps nobody else out: the modem neither rings for it nor has it,   *)
(* and it is not counted as up, however far its answer had come.           *)
NobodyLeft ==
  \A c \in Callers :
    /\ phone[c] = "ringing" => bell = c \/ modem = At("Answering", c) \/ c \in letGo
    /\ phone[c] = "up" => modem.call = c \/ c \in letGo
    /\ c \in letGo => bell # c /\ modem.call # c /\ c \notin calls_up

(* A dial that was given up leaves no phone ringing and no call up, however*)
(* late the answer comes: docs/transport.md:40, sip.rs Dial::run.  The one *)
(* exception is a dial whose answer the program can do nothing with, and   *)
(* ends with an error and no BYE.                                          *)
GivenUpEnds ==
  \A d \in Dials :
    []<>(task[d] # "none" /\ ~Wanted(d) /\ ~Has(d) =>
           phone[d] = "over" \/ d \in letGo)

(* Either end's hang-up ends the other (docs/transport.md:43): nobody has a*)
(* call with a phone that has gone, and no phone stays in a call that      *)
(* nobody has, but one that an error left there.                           *)
EitherEnds ==
  \A x \in Everyone :
    /\ []<>(phone[x] = "over" => ~Has(x))
    /\ []<>(phone[x] = "up" => Has(x) \/ x \in letGo)

(* A modem that stays on hook is not busy for ever: every call that was    *)
(* counted as up is given back, however it ended (CallUp).                 *)
FreeAgain == []<>(Listening => calls_up = {})
=============================================================================
