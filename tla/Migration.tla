------------------------------ MODULE Migration ------------------------------
(***************************************************************************)
(* The banner of the drive data migration (useMigrationStatus.tsx,         *)
(* MigrationBanner.tsx): one poll after another, and the progress that the *)
(* server pushes, each of which replaces the status that is shown.  When   *)
(* the status turns active the banner asks for a keep-awake session.       *)
(***************************************************************************)
EXTENDS Naturals, Sequences

CONSTANTS Total,      \* batches of the migration
          MaxPushed,  \* bound on messages under way
          MaxFails    \* bound on polls that fail

MigrationAssumption == Total \in Nat \ {0} /\ MaxPushed \in Nat /\ MaxFails \in Nat

VARIABLES
  done,     \* batches the server has committed
  active,   \* the migration runs on the server
  loop,     \* driveMigrationKeepAwakeLoop has not said that it is over
  pushed,   \* progress on its way to the browser
  poll,     \* "idle", "sent" or "answered"
  answer,   \* the answer under way
  shown,    \* the status that is shown
  asked,    \* status.active when the banner's effect ran last
  fails

vars == <<done, active, loop, pushed, poll, answer, shown, asked, fails>>

Progress == [active : BOOLEAN, done : 0 .. Total]

TypeOK ==
  /\ done \in 0 .. Total /\ active \in BOOLEAN /\ loop \in BOOLEAN
  /\ pushed \in Seq(Progress) /\ Len(pushed) <= MaxPushed
  /\ poll \in {"idle", "sent", "answered"} /\ answer \in Progress
  /\ shown \in Progress /\ asked \in BOOLEAN /\ fails \in 0 .. MaxFails

\* a message is pushed, or lost with its socket
Push(p) ==
  \/ pushed' = pushed
  \/ Len(pushed) < MaxPushed /\ pushed' = Append(pushed, p)

\* a batch is committed
Commit ==
  /\ active /\ done < Total
  /\ done' = done + 1
  /\ Push([active |-> TRUE, done |-> done + 1])
  /\ UNCHANGED <<active, loop, poll, answer, shown, asked, fails>>

\* all batches are committed, or an error ends the migration before
Finish ==
  /\ active
  /\ active' = FALSE
  /\ UNCHANGED <<done, loop, pushed, poll, answer, shown, asked, fails>>

\* finishMigrationBroadcast, at the next turn of a loop of five minutes
FinishMigrationBroadcast ==
  /\ loop /\ ~active
  /\ loop' = FALSE
  /\ Push([active |-> FALSE, done |-> done])
  /\ UNCHANGED <<done, active, poll, answer, shown, asked, fails>>

SendPoll ==
  /\ poll = "idle"
  /\ poll' = "sent"
  /\ UNCHANGED <<done, active, loop, pushed, answer, shown, asked, fails>>

ServePoll ==
  /\ poll = "sent"
  /\ poll' = "answered" /\ answer' = [active |-> active, done |-> done]
  /\ UNCHANGED <<done, active, loop, pushed, shown, asked, fails>>

Takes(p) == p

PollAnswered ==
  /\ poll = "answered"
  /\ shown' = Takes(answer)
  /\ poll' = "idle"
  /\ UNCHANGED <<done, active, loop, pushed, answer, asked, fails>>

\* the next poll is scheduled after a failure too
PollFails ==
  /\ poll # "idle" /\ fails < MaxFails
  /\ poll' = "idle" /\ fails' = fails + 1
  /\ UNCHANGED <<done, active, loop, pushed, answer, shown, asked>>

\* the handler of "drives.migration.progress"
Pushed ==
  /\ pushed # <<>>
  /\ shown' = Head(pushed) /\ pushed' = Tail(pushed)
  /\ UNCHANGED <<done, active, loop, poll, answer, asked, fails>>

\* The effect on status.active asks for 15 minutes when it has become true; the
\* session is the subject of KeepAwakeClient.
Ask ==
  /\ asked # shown.active
  /\ asked' = shown.active
  /\ UNCHANGED <<done, active, loop, pushed, poll, answer, shown, fails>>

Init ==
  /\ done = 0 /\ active = TRUE /\ loop = TRUE /\ pushed = <<>> /\ poll = "idle"
  /\ shown = [active |-> FALSE, done |-> 0] /\ answer = shown /\ asked = FALSE /\ fails = 0

Going == SendPoll \/ ServePoll \/ PollAnswered
Next == Commit \/ Finish \/ FinishMigrationBroadcast \/ Going \/ PollFails \/ Pushed \/ Ask
Spec == Init /\ [][Next]_vars

\* The migration goes on, polls are repeated, and what was pushed arrives.
FairSpec ==
  /\ Spec
  /\ WF_vars(Commit \/ Finish) /\ WF_vars(Going) /\ WF_vars(Pushed) /\ WF_vars(Ask)

-----------------------------------------------------------------------------
\* In the end the banner is gone and the last count is shown, although pushed messages get
\* lost and a poll may bring back what was shown before.
MigrationSettles == <>[](~shown.active /\ shown.done = done /\ ~asked)
=============================================================================
