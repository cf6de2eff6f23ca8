----------------------------- MODULE AwayClient -----------------------------
(***************************************************************************)
(* The away mode as the web interface shows it (useAwayMode.tsx), and the  *)
(* note in the local storage that the banner of an outage goes by          *)
(* (ConnectionBanner.tsx): during away mode the browser loses the server   *)
(* as a rule.                                                              *)
(***************************************************************************)
EXTENDS Naturals, FiniteSets

CONSTANTS Polls,       \* polls that can be under way at once
          MaxActs      \* bound on enabling, disabling, expiry and failures

AwayClientAssumption == MaxActs \in Nat

VARIABLES
  active,   \* the server is in away mode
  shown,    \* status.state: "idle" or "active", or "odd" after an answer without it
  stored,   \* the note in the local storage
  poll,     \* each poll: its stage, its answer, whether it is older than lastMutation
  call,     \* the call of enable or disable under way, its stage, its answer
  acts

vars == <<active, shown, stored, poll, call, acts>>

NoPoll == [at |-> "none", got |-> FALSE, old |-> FALSE]
NoCall == [op |-> "none", at |-> "none", ok |-> FALSE]

TypeOK ==
  /\ active \in BOOLEAN /\ shown \in {"idle", "active", "odd"} /\ stored \in BOOLEAN
  /\ poll \in [Polls -> [at : {"none", "sent", "answered"}, got : BOOLEAN, old : BOOLEAN]]
  /\ call \in [op : {"none", "enable", "disable"}, at : {"none", "sent", "answered"},
               ok : BOOLEAN]
  /\ acts \in 0 .. MaxActs

Acts == acts < MaxActs /\ acts' = acts + 1
State(on) == IF on THEN "active" ELSE "idle"

SendPoll(p) ==
  /\ poll[p].at = "none"
  /\ poll' = [poll EXCEPT ![p].at = "sent"]
  /\ UNCHANGED <<active, shown, stored, call, acts>>

ServePoll(p) ==
  /\ poll[p].at = "sent"
  /\ poll' = [poll EXCEPT ![p].at = "answered", ![p].got = active]
  /\ UNCHANGED <<active, shown, stored, call, acts>>

\* "Keep localStorage in sync - clear it when idle"
SyncNote(on) == stored' = (stored /\ on)

PollAnswered(p) ==
  /\ poll[p].at = "answered"
  /\ IF poll[p].old THEN UNCHANGED <<shown, stored>>
     ELSE shown' = State(poll[p].got) /\ SyncNote(poll[p].got)
  /\ poll' = [poll EXCEPT ![p] = NoPoll]
  /\ UNCHANGED <<active, call, acts>>

PollFails(p) ==
  /\ poll[p].at # "none" /\ Acts
  /\ poll' = [poll EXCEPT ![p] = NoPoll]
  /\ UNCHANGED <<active, shown, stored, call>>

Outdated == [p \in Polls |-> [poll[p] EXCEPT !.old = (@ \/ poll[p].at # "none")]]

\* enable()
Enable ==
  /\ Acts /\ call.at = "none"
  /\ call' = [op |-> "enable", at |-> "sent", ok |-> FALSE]
  /\ poll' = Outdated
  /\ UNCHANGED <<active, shown, stored>>

\* disable(): shown and noted at once
Disable ==
  /\ Acts /\ call.at = "none"
  /\ call' = [op |-> "disable", at |-> "sent", ok |-> FALSE]
  /\ poll' = Outdated
  /\ shown' = "idle" /\ stored' = FALSE
  /\ UNCHANGED active

\* the server refuses to enable it when no access point is set up
ServeCall ==
  /\ call.at = "sent"
  /\ \E ok \in BOOLEAN :
       /\ call' = [call EXCEPT !.at = "answered", !.ok = ok]
       /\ active' = IF call.op = "disable" THEN FALSE ELSE active \/ ok
  /\ UNCHANGED <<shown, stored, poll, acts>>

\* The answer of enable is shown and noted whatever it says.
CallAnswered ==
  /\ call.at = "answered"
  /\ IF call.op = "enable"
     THEN shown' = (IF call.ok THEN "active" ELSE "odd") /\ stored' = TRUE
     ELSE UNCHANGED <<shown, stored>>
  /\ call' = NoCall
  /\ UNCHANGED <<active, poll, acts>>

CallFails ==
  /\ call.at # "none"
  /\ call' = NoCall
  /\ UNCHANGED <<active, shown, stored, poll, acts>>

\* enabled by another browser, or expired
Elsewhere ==
  /\ Acts
  /\ active' = ~active
  /\ UNCHANGED <<shown, stored, poll, call>>

Init ==
  /\ active = FALSE /\ shown = "idle" /\ stored = FALSE
  /\ poll = [p \in Polls |-> NoPoll] /\ call = NoCall /\ acts = 0

Polling(p) == SendPoll(p) \/ ServePoll(p) \/ PollAnswered(p)
Calling == ServeCall \/ CallAnswered

Next ==
  \/ \E p \in Polls : Polling(p) \/ PollFails(p)
  \/ Enable \/ Disable \/ Calling \/ CallFails \/ Elsewhere

Spec == Init /\ [][Next]_vars

\* Polls go out every 5 seconds, and every request ends.
FairSpec == Spec /\ (\A p \in Polls : WF_vars(Polling(p))) /\ WF_vars(Calling)

-----------------------------------------------------------------------------
(* Properties                                                              *)

\* In the end the interface shows what the server does, and the banner of a later
\* outage does not blame an away mode that is over, or never was.
NoteSettles == <>[](shown = State(active) /\ (stored => active))
=============================================================================
