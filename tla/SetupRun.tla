------------------------------ MODULE SetupRun ------------------------------
(***************************************************************************)
(* A setup that runs: the server that starts rc.local and says how it      *)
(* ended (server/api/setup.go), the device that reboots several times and  *)
(* goes on by itself, and the wizard that follows it by polls and by a     *)
(* socket of its own (web/src/components/setup/SetupWizard.tsx).           *)
(*                                                                         *)
(* Timing assumed: the markers of an earlier setup are gone before the     *)
(* first poll, three seconds after the request was answered, and a poll of *)
(* running or rebooting is answered before the next one is due.  Those of  *)
(* finalizing may overlap, a slow one with the ones after it.              *)
(***************************************************************************)
EXTENDS Naturals, Sequences

CONSTANTS
  MaxApplies,  \* bound on setups started from the wizard
  MaxReboots,  \* bound on reboots
  MaxBlips,    \* bound on polls that fail although the server is up
  MaxPolls     \* bound on polls of finalizing under way at a time

SetupRunAssumption ==
  MaxApplies \in Nat /\ MaxReboots \in Nat /\ MaxBlips \in Nat /\ MaxPolls \in Nat

VARIABLES
  up,          \* the server answers
  running,     \* setupRunning.running
  started, finished,  \* the markers on the disk
  work,        \* "none"; "begin" and "script": the goroutine of runSetup; "boot": rc.local at the start
  dying,       \* the device is about to reboot
  phase,       \* phase
  post,        \* the request to start: "none", "sent", "ok" or "busy"
  poll,        \* a poll of running and rebooting: stage, the phase of its effect, the answer
  last,        \* the polls of finalizing: number, stage, wentDown of its effect, effects ended since
  wentDown,    \* wentDown of the effect of finalizing
  open, inbox, \* the socket of the wizard, and the messages in it
  applies, reboots, blips,
  failed, since, \* a setup has failed; the device has rebooted since the markers said finished
  misled       \* before that reboot a poll failed without it, or with an answer under way

device == <<up, running, started, finished, work, dying, since>>
sockets == <<open, inbox>>
page == <<phase, post, poll, last, wentDown, open, inbox>>
bounds == <<applies, reboots, blips>>
history == <<failed, misled>>
vars == <<device, page, bounds, history>>

NoPoll == [at |-> "none", of |-> "running", fin |-> FALSE, run |-> FALSE]
Phases == {"wizard", "applying", "running", "rebooting", "finalizing", "complete", "error"}
Words == {"running", "complete", "rebooting", "error"}

TypeOK ==
  /\ up \in BOOLEAN /\ running \in BOOLEAN /\ started \in BOOLEAN /\ finished \in BOOLEAN
  /\ work \in {"none", "begin", "script", "boot"} /\ dying \in BOOLEAN
  /\ phase \in Phases /\ post \in {"none", "sent", "ok", "busy"}
  /\ poll \in [at : {"none", "sent", "answered"}, of : {"running", "rebooting"},
               fin : BOOLEAN, run : BOOLEAN]
  /\ last \subseteq [n : 1 .. MaxPolls, at : {"sent", "ok"}, down : BOOLEAN, old : Nat]
  /\ wentDown \in BOOLEAN /\ open \in BOOLEAN
  /\ \A i \in DOMAIN inbox : inbox[i] \in Words
  /\ applies \in 0 .. MaxApplies /\ reboots \in 0 .. MaxReboots /\ blips \in 0 .. MaxBlips
  /\ failed \in BOOLEAN /\ since \in BOOLEAN /\ misled \in BOOLEAN

-----------------------------------------------------------------------------
(* The wizard: a change of the phase ends the effects of the old one       *)

Listens(p) == p \in {"running", "applying", "rebooting"}

SetPhase(p) ==
  /\ phase' = p
  /\ IF p = phase THEN UNCHANGED <<open, wentDown>> ELSE open' = FALSE /\ wentDown' = FALSE

\* the rest of the messages is lost with the socket
ClosesInbox(p) == inbox' = IF p = phase THEN inbox ELSE <<>>
\* the interval stops, what it has sent goes on and shares the wentDown of its effect
Abandons(p, polls) ==
  last' = IF p = phase \/ phase # "finalizing" THEN polls
          ELSE {[l EXCEPT !.old = @ + 1] : l \in polls}

Becomes(p) == SetPhase(p) /\ ClosesInbox(p) /\ Abandons(p, last)

\* doApply, after the configuration was stored
Apply ==
  /\ phase \in {"wizard", "error"} /\ post = "none" /\ applies < MaxApplies
  /\ applies' = applies + 1 /\ post' = "sent" /\ Becomes("applying")
  /\ UNCHANGED <<device, poll, reboots, blips, history>>

PostAnswered ==
  /\ post \in {"ok", "busy"} \/ (post = "sent" /\ ~up)
  /\ Becomes(IF post = "ok" THEN "running" ELSE "wizard") /\ post' = "none"
  /\ UNCHANGED <<device, poll, bounds, history>>

Connect ==
  /\ Listens(phase) /\ ~open /\ up
  /\ open' = TRUE
  /\ UNCHANGED <<device, phase, post, poll, last, wentDown, inbox, bounds, history>>

\* onmessage
Message ==
  /\ inbox # <<>>
  /\ LET p == CASE Head(inbox) = "complete" -> "finalizing"
                [] Head(inbox) = "running" -> phase
                [] OTHER -> Head(inbox)
     IN SetPhase(p) /\ Abandons(p, last) /\ inbox' = IF p = phase THEN Tail(inbox) ELSE <<>>
  /\ UNCHANGED <<device, post, poll, bounds, history>>

SendPoll ==
  /\ phase \in {"running", "rebooting"} /\ poll.at = "none" /\ work # "begin"
  /\ poll' = [NoPoll EXCEPT !.at = "sent", !.of = phase]
  /\ UNCHANGED <<device, phase, post, last, wentDown, sockets, bounds, history>>

\* getSetupStatus
Status == [poll EXCEPT !.at = "answered", !.fin = finished,
                       !.run = running \/ (started /\ ~finished)]

ServePoll ==
  /\ poll.at = "sent" /\ up
  /\ poll' = Status
  /\ UNCHANGED <<device, phase, post, last, wentDown, sockets, bounds, history>>

\* Mutant: the end is looked for only while the setup is known to run.
EndIfRunning == CASE poll.run /\ poll.of = "rebooting" -> "running"
                  [] poll.fin /\ poll.of = "running" -> "finalizing"
                  [] ~poll.run /\ poll.of = "running" -> "rebooting"
                  [] OTHER -> phase

\* the phase an answer leads to; the poll compares with the phase it began in
Told == CASE poll.fin -> "finalizing"
          [] poll.run /\ poll.of = "rebooting" -> "running"
          [] ~poll.run /\ poll.of = "running" -> "rebooting"
          [] OTHER -> phase

PollAnswered ==
  /\ poll.at = "answered" /\ poll' = NoPoll
  /\ Becomes(Told)
  /\ UNCHANGED <<device, post, bounds, history>>

PollFails ==
  /\ poll.at # "none" /\ poll' = NoPoll
  /\ \/ ~up /\ UNCHANGED blips
     \/ blips < MaxBlips /\ blips' = blips + 1
  /\ Becomes(IF poll.of # "rebooting" THEN "rebooting" ELSE phase)
  /\ UNCHANGED <<device, post, applies, reboots, history>>

-----------------------------------------------------------------------------
(* The last reboot: the server must have been seen down                    *)

SendLast ==
  /\ phase = "finalizing"
  /\ \E n \in 1 .. MaxPolls :
       /\ \A l \in last : l.n # n
       /\ \A m \in 1 .. n - 1 : \E l \in last : l.n = m
       /\ last' = last \cup {[n |-> n, at |-> "sent", down |-> wentDown, old |-> 0]}
  /\ UNCHANGED <<device, phase, post, poll, wentDown, sockets, bounds, history>>

ServeLast(l) ==
  /\ l.at = "sent" /\ up
  /\ last' = (last \ {l}) \cup {[l EXCEPT !.at = "ok"]}
  /\ UNCHANGED <<device, phase, post, poll, wentDown, sockets, bounds, history>>

\* Mutant: the first answer is enough.
AnyAnswer(l) == TRUE

SeenDown(l) == l.down

LastAnswered(l) ==
  /\ l.at = "ok"
  /\ LET p == IF SeenDown(l) THEN "complete" ELSE phase
     IN SetPhase(p) /\ ClosesInbox(p) /\ Abandons(p, last \ {l})
  /\ UNCHANGED <<device, post, poll, bounds, history>>

\* the server is down, or the network loses the request or its answer: for the page, and
\* for the polls that share wentDown, it is the reboot either way
LastFails(l) ==
  /\ l.at = "sent"
  /\ \/ ~up /\ UNCHANGED blips
     \/ up /\ blips < MaxBlips /\ blips' = blips + 1
  /\ wentDown' = (wentDown \/ l.old = 0)
  /\ last' = {[m EXCEPT !.down = @ \/ m.old = l.old] : m \in last \ {l}}
  /\ misled' = (misled \/ (~since /\ (up \/ \E m \in last : m.at = "ok")))
  /\ UNCHANGED <<device, phase, post, poll, sockets, applies, reboots, failed>>

BackToWizard ==
  /\ phase = "error" /\ Becomes("wizard")
  /\ UNCHANGED <<device, post, poll, bounds, history>>

-----------------------------------------------------------------------------
(* The device                                                              *)

Broadcast(word) ==
  /\ inbox' = IF open THEN Append(inbox, word) ELSE inbox
  /\ UNCHANGED <<phase, post, poll, last, wentDown, open>>

\* runSetup
PostServed ==
  /\ post = "sent" /\ up
  /\ IF running THEN post' = "busy" /\ UNCHANGED <<running, work>>
     ELSE post' = "ok" /\ running' = TRUE /\ work' = "begin"
  /\ UNCHANGED <<up, started, finished, dying, since, phase, poll, last, wentDown, sockets, bounds, history>>

\* its goroutine: the markers, then rc.local
Begin ==
  /\ work = "begin"
  /\ started' = TRUE /\ finished' = FALSE /\ since' = FALSE /\ work' = "script"
  /\ Broadcast("running")
  /\ UNCHANGED <<up, running, dying, bounds, history>>

\* rc.local ends: of one started by the server the goroutine says how, if it is not
\* killed before; of one started at boot nobody does
Ends(word) ==
  /\ work \in {"script", "boot"} /\ up /\ ~dying
  /\ work' = "none" /\ running' = FALSE
  /\ IF work = "script" THEN Broadcast(word) ELSE UNCHANGED page

Reboots ==
  /\ reboots < MaxReboots /\ Ends("rebooting") /\ dying' = TRUE
  /\ UNCHANGED <<up, started, finished, since, bounds, history>>

\* headless_setup_mark_setup_success, and the last reboot
Succeeds ==
  /\ reboots < MaxReboots /\ Ends("complete") /\ dying' = TRUE
  /\ started' = FALSE /\ finished' = TRUE /\ since' = FALSE
  /\ UNCHANGED <<up, bounds, history>>

\* a setup that fails ends rc.local without an error; one that took too long ends with one
Fails ==
  /\ \/ Ends("complete") \/ Ends("error")
  /\ failed' = TRUE
  /\ UNCHANGED <<up, started, finished, dying, since, bounds, misled>>

Down ==
  /\ up /\ dying /\ reboots < MaxReboots
  /\ up' = FALSE /\ dying' = FALSE /\ running' = FALSE /\ work' = "none"
  /\ reboots' = reboots + 1 /\ open' = FALSE
  /\ UNCHANGED <<started, finished, since, phase, post, poll, last, wentDown, inbox, applies, blips, history>>

\* rc.local goes on with a setup that was started and is not finished
Up ==
  /\ ~up /\ up' = TRUE
  /\ work' = IF started /\ ~finished THEN "boot" ELSE "none"
  /\ since' = finished
  /\ UNCHANGED <<running, started, finished, dying, page, bounds, history>>

\* the user, or a loss of power
PowerCycle ==
  /\ up /\ ~dying /\ reboots < MaxReboots /\ dying' = TRUE
  /\ UNCHANGED <<up, running, started, finished, work, since, page, bounds, history>>

-----------------------------------------------------------------------------
\* A new device, or one that was set up before.
Init ==
  /\ up = TRUE /\ running = FALSE /\ started = FALSE /\ finished \in BOOLEAN
  /\ work = "none" /\ dying = FALSE /\ since = finished
  /\ phase = "wizard" /\ post = "none" /\ poll = NoPoll /\ last = {} /\ wentDown = FALSE
  /\ open = FALSE /\ inbox = <<>>
  /\ applies = 0 /\ reboots = 0 /\ blips = 0 /\ failed = FALSE /\ misled = FALSE

Serving == PostServed \/ Begin
Polling == SendPoll \/ ServePoll \/ PollAnswered \/ (PollFails /\ ~up)
Finalizing ==
  SendLast \/ \E l \in last : ServeLast(l) \/ LastAnswered(l) \/ LastFails(l)

Next ==
  \/ Apply \/ PostAnswered \/ Connect \/ Message \/ BackToWizard
  \/ Polling \/ PollFails \/ Finalizing \/ Serving
  \/ Reboots \/ Succeeds \/ Fails \/ Down \/ Up \/ PowerCycle

Spec == Init /\ [][Next]_vars

\* Requests are answered, the intervals go on, and a device that goes down comes back.
FairSpec ==
  /\ Spec
  /\ WF_vars(Serving) /\ WF_vars(PostAnswered) /\ WF_vars(Polling) /\ WF_vars(Message)
  /\ WF_vars(Down) /\ WF_vars(Up)

-----------------------------------------------------------------------------
(* Properties                                                              *)

\* "Setup Complete!" is not said before the setup is done and the device has rebooted
\* for the last time, however polls and messages cross, if no setup has failed and no
\* poll failed for another reason, or before an older answer, while that reboot was due.
CompleteIsDone == phase = "complete" /\ ~failed /\ ~misled => finished /\ since

\* A wizard that waits for a reboot returns to the progress of a setup that goes on: a
\* restart of the server or a lost poll does not leave it waiting.
BlipsRecover == <>[](up /\ started /\ ~finished) => []<>(phase # "rebooting")

\* The end of the setup is noticed, also when its message went to a closed socket.
EndIsSeen == <>[]finished => []<>(phase \notin {"running", "rebooting"})
=============================================================================
