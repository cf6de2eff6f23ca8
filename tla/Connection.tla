----------------------------- MODULE Connection -----------------------------
(***************************************************************************)
(* The connection status of the web interface: the polls, and the check of *)
(* the button "Retry", of useConnectionStatus, and the banner that tells   *)
(* of an outage (ConnectionBanner).  A poll is started every 8 seconds and *)
(* given up after 10, so two can be under way; the check of the button has *)
(* no limit.                                                               *)
(***************************************************************************)
EXTENDS Naturals

CONSTANTS MaxTurns,    \* bound on the changes of the server between up and down
          MaxRetries   \* bound on clicks on "Retry"

ConnectionAssumption == MaxTurns \in Nat /\ MaxRetries \in Nat

VARIABLES
  up,         \* the server answers /api/status with success
  state,      \* state of useConnectionStatus
  httpOk, fails,
  polls,      \* the polls under way: "none", "sent", or its result "ok", "bad"
  check,      \* the check of retry(), the same
  prev,       \* prevState of the banner
  display,    \* displayState
  visible, dismissed,
  hide,       \* the timer that hides the flash "Connected"
  turns, retries

vars == <<up, state, httpOk, fails, polls, check, prev, display, visible, dismissed,
          hide, turns, retries>>
status == <<state, httpOk, fails, polls, check>>
banner == <<prev, display, visible, dismissed, hide>>
bounds == <<turns, retries>>

States == {"connected", "reconnecting", "disconnected"}
Requests == {"none", "sent", "ok", "bad"}

TypeOK ==
  /\ up \in BOOLEAN /\ state \in States /\ httpOk \in BOOLEAN /\ fails \in 0 .. 3
  /\ polls \in [1 .. 2 -> Requests] /\ check \in Requests
  /\ prev \in States /\ display \in States \cup {"flash"}
  /\ visible \in BOOLEAN /\ dismissed \in BOOLEAN /\ hide \in BOOLEAN
  /\ turns \in 0 .. MaxTurns /\ retries \in 0 .. MaxRetries

Served == IF up THEN "ok" ELSE "bad"

AtMost3(n) == IF n > 3 THEN 3 ELSE n

\* Mutant: a success leaves the failures counted.
CountsOn(answer, counts) ==
  /\ httpOk' = (answer = "ok")
  /\ fails' = IF answer = "bad" /\ counts THEN AtMost3(fails + 1) ELSE fails
  /\ state' = IF fails' = 3 THEN "disconnected"
              ELSE IF answer = "ok" THEN "connected" ELSE "reconnecting"

\* evaluate(), after the answer of a poll or of the check; counting stops at 3.
\* The check does not count an answer that tells of an error.
Evaluate(answer, counts) ==
  /\ httpOk' = (answer = "ok")
  /\ fails' = IF answer = "ok" THEN 0 ELSE IF counts THEN AtMost3(fails + 1) ELSE fails
  /\ state' = IF answer = "ok" THEN "connected"
              ELSE IF fails' = 3 THEN "disconnected" ELSE "reconnecting"

-----------------------------------------------------------------------------
(* useConnectionStatus                                                     *)

\* poll(); the effect on a change of state has run before anything else happens
Poll(i) ==
  /\ polls[i] = "none"
  /\ polls' = [polls EXCEPT ![i] = "sent"]
  /\ UNCHANGED <<up, state, httpOk, fails, check, banner, bounds>>

\* the server answers, or is found not to
Answers ==
  /\ \/ \E i \in 1 .. 2 : polls[i] = "sent" /\ polls' = [polls EXCEPT ![i] = Served]
                          /\ UNCHANGED check
     \/ check = "sent" /\ check' = Served /\ UNCHANGED polls
  /\ UNCHANGED <<up, state, httpOk, fails, banner, bounds>>

PollDone(i) ==
  /\ polls[i] \in {"ok", "bad"}
  /\ Evaluate(polls[i], TRUE)
  /\ polls' = [polls EXCEPT ![i] = "none"]
  /\ UNCHANGED <<up, check, banner, bounds>>

CheckDone ==
  /\ check \in {"ok", "bad"}
  /\ \E counts \in BOOLEAN : Evaluate(check, counts)
  /\ check' = "none"
  /\ UNCHANGED <<up, polls, banner, bounds>>

\* The button, and retry(); one check at a time is a bound, the sockets are in
\* module Push.
RetryShown == visible /\ ~dismissed /\ display = "disconnected"

Retry ==
  /\ RetryShown /\ retries < MaxRetries /\ retries' = retries + 1
  /\ check = "none" /\ check' = "sent"
  /\ state' = "reconnecting"
  /\ UNCHANGED <<up, httpOk, fails, polls, banner, turns>>

-----------------------------------------------------------------------------
(* The banner                                                              *)

\* Mutant: the cleanup of the effect does not clear the timer.
KeepsTimer == hide' = (hide \/ (state = "connected" /\ prev # "connected"))

\* The cleanup clears an older timer; the flash starts one.
NewTimer == hide' = (state = "connected" /\ prev # "connected")

\* the effect on a new state
Notice ==
  /\ state # prev
  /\ prev' = state /\ dismissed' = FALSE
  /\ display' = IF state = "connected" THEN "flash" ELSE state
  /\ visible' = TRUE
  /\ NewTimer
  /\ UNCHANGED <<up, status, bounds>>

Hide ==
  /\ hide
  /\ hide' = FALSE /\ visible' = FALSE
  /\ UNCHANGED <<up, status, prev, display, dismissed, bounds>>

Dismiss ==
  /\ visible /\ ~dismissed
  /\ dismissed' = TRUE
  /\ UNCHANGED <<up, status, prev, display, visible, hide, bounds>>

-----------------------------------------------------------------------------
Turn ==
  /\ turns < MaxTurns /\ turns' = turns + 1
  /\ up' = ~up
  /\ UNCHANGED <<status, banner, retries>>

Init ==
  /\ up = TRUE /\ state = "connected" /\ httpOk = TRUE /\ fails = 0
  /\ polls = [i \in 1 .. 2 |-> "none"] /\ check = "none"
  /\ prev = "connected" /\ display = "connected"
  /\ visible = FALSE /\ dismissed = FALSE /\ hide = FALSE
  /\ turns = 0 /\ retries = 0

Next ==
  \/ \E i \in 1 .. 2 : Poll(i) \/ PollDone(i)
  \/ Answers \/ CheckDone \/ Retry \/ Notice \/ Hide \/ Dismiss \/ Turn

Spec == Init /\ [][Next]_vars

\* Polls go out on their timer and end, if only by their limit of 10 seconds;
\* effects run.
Fairness ==
  /\ \A i \in 1 .. 2 : WF_vars(Poll(i)) /\ WF_vars(PollDone(i))
  /\ WF_vars(Answers) /\ WF_vars(CheckDone) /\ WF_vars(Notice)
FairSpec == Spec /\ Fairness

-----------------------------------------------------------------------------
(* Properties                                                              *)

\* In the end the page shows whether the server can be reached, whatever order
\* polls and checks are answered in.
StatusSettles == <>[](up) => <>[](state = "connected")
OutageShown == <>[](~up) => <>[](prev = "disconnected" /\ display = "disconnected")

\* An outage is not hidden by the timer of an earlier "Connected".
OutageVisible == prev # "connected" => visible /\ display = prev
=============================================================================
