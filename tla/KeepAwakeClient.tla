-------------------------- MODULE KeepAwakeClient --------------------------
(***************************************************************************)
(* The keep-awake state that the web interface shows (useKeepAwake.tsx):   *)
(* polls, heartbeats, start and stop, whose answers arrive in any order,   *)
(* and the banner of the migration, which asks for a session of its own    *)
(* (MigrationBanner.tsx).  The server is the one of KeepAwakeService; a    *)
(* poll that was started before the last start or stop is ignored.         *)
(***************************************************************************)
EXTENDS KeepAwakeService, Naturals, FiniteSets

CONSTANTS Polls,     \* polls that can be under way at once
          Calls,     \* numbers of the heartbeats, starts and stops of the interface
          MaxEnds    \* bound on sessions that end by themselves

ClientAssumption == MaxEnds \in Nat /\ Calls \subseteq Nat

VARIABLES
  shown,    \* status.state
  poll,     \* each poll: its stage, its answer, whether it is older than lastMutation
  call,     \* each call: what it asks for, its stage, its answer
  ends

vars == <<session, wanted, shown, poll, call, ends>>

States == {"idle", "pending", "active"}
NoPoll == [at |-> "none", got |-> "idle", old |-> FALSE]
NoCall == [op |-> "none", at |-> "none", got |-> "idle"]

TypeOK ==
  /\ session \in States /\ wanted \in BOOLEAN
  /\ shown \in States
  /\ poll \in [Polls -> [at : {"none", "sent", "answered"}, got : States, old : BOOLEAN]]
  /\ call \in [Calls -> [op : {"none", "start", "stop", "heartbeat"},
                         at : {"none", "sent", "answered", "over"}, got : States]]
  /\ ends \in 0 .. MaxEnds

-----------------------------------------------------------------------------
(* Polls                                                                   *)

SendPoll(p) ==
  /\ poll[p].at = "none"
  /\ poll' = [poll EXCEPT ![p] = [at |-> "sent", got |-> "idle", old |-> FALSE]]
  /\ UNCHANGED <<svars, shown, call, ends>>

ServePoll(p) ==
  /\ poll[p].at = "sent"
  /\ poll' = [poll EXCEPT ![p].at = "answered", ![p].got = session]
  /\ UNCHANGED <<svars, shown, call, ends>>

\* Mutant: the comparison with lastMutation is the wrong way round.
AcceptsOld(p) == poll[p].old

Accepts(p) == ~poll[p].old

PollAnswered(p) ==
  /\ poll[p].at = "answered"
  /\ shown' = IF Accepts(p) THEN poll[p].got ELSE shown
  /\ poll' = [poll EXCEPT ![p] = NoPoll]
  /\ UNCHANGED <<svars, call, ends>>

-----------------------------------------------------------------------------
(* Starts, stops, heartbeats                                               *)

\* lastMutation becomes the time of now
Outdated == [p \in Polls |-> [poll[p] EXCEPT !.old = (@ \/ poll[p].at # "none")]]

Send(c, op) ==
  /\ call[c].at = "none" /\ \A d \in Calls : d < c => call[d].at # "none"
  /\ call' = [call EXCEPT ![c] = [op |-> op, at |-> "sent", got |-> "idle"]]

\* start(), also on behalf of the migration; the state is shown when it is answered
Start(c) ==
  /\ Send(c, "start")
  /\ poll' = Outdated
  /\ UNCHANGED <<svars, shown, ends>>

\* stop(), and updateMode("") of the settings: shown as idle at once
StopNow(c) ==
  /\ Send(c, "stop")
  /\ poll' = Outdated
  /\ shown' = "idle"
  /\ UNCHANGED <<svars, ends>>

\* a heartbeat on activity in the mode "auto", and the one of updateMode("auto")
Heartbeat(c) ==
  /\ Send(c, "heartbeat")
  /\ UNCHANGED <<svars, shown, poll, ends>>

\* the handlers of the server
ServeCall(c) ==
  /\ call[c].at = "sent"
  /\ IF call[c].op = "stop"
     THEN IF session = "idle" THEN UNCHANGED svars ELSE End
     ELSE Ask
  /\ call' = [call EXCEPT ![c].at = "answered", ![c].got = session']
  /\ UNCHANGED <<shown, poll, ends>>

\* The answer to a start or a heartbeat is shown, whatever happened since.
CallAnswered(c) ==
  /\ call[c].at = "answered"
  /\ shown' = IF call[c].op = "stop" THEN shown ELSE call[c].got
  /\ call' = [call EXCEPT ![c].at = "over"]
  /\ UNCHANGED <<svars, poll, ends>>

\* a request that fails is ignored
CallFails(c) ==
  /\ call[c].at \in {"sent", "answered"}
  /\ call' = [call EXCEPT ![c].at = "over"]
  /\ UNCHANGED <<svars, shown, poll, ends>>

-----------------------------------------------------------------------------
\* the session gets its turn or expires
Passes ==
  /\ \/ Begin /\ UNCHANGED ends
     \/ session = "active" /\ End /\ ends < MaxEnds /\ ends' = ends + 1
  /\ UNCHANGED <<shown, poll, call>>

Init ==
  /\ SInit
  /\ shown = "idle"
  /\ poll = [p \in Polls |-> NoPoll] /\ call = [c \in Calls |-> NoCall] /\ ends = 0

Polling(p) == SendPoll(p) \/ ServePoll(p) \/ PollAnswered(p)
Calling(c) == ServeCall(c) \/ CallAnswered(c)

Next ==
  \/ \E p \in Polls : Polling(p)
  \/ \E c \in Calls : Start(c) \/ StopNow(c) \/ Heartbeat(c) \/ Calling(c) \/ CallFails(c)
  \/ Passes

Spec == Init /\ [][Next]_vars

\* Polls go out every 5 seconds, and every request ends.
Fairness == (\A p \in Polls : WF_vars(Polling(p))) /\ (\A c \in Calls : WF_vars(Calling(c)))
FairSpec == Spec /\ Fairness

-----------------------------------------------------------------------------
(* Properties                                                              *)

\* Whatever polls, heartbeats, starts and stops cross each other, in the end the
\* interface shows what the server does.
ShownSettles == <>[](shown = session)
=============================================================================
