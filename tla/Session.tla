------------------------------- MODULE Session -------------------------------
(***************************************************************************)
(* Which of its faces the web interface shows: the wizard of the setup,    *)
(* the progress of a setup under way, the login, or the pages (App.tsx,    *)
(* useAuth.tsx, Login.tsx).  A session of the server ends after 24 hours,  *)
(* or is missing in what a restart reads back from the disk; a check of    *)
(* the session that is under way during a login or a logout answers for    *)
(* the time before.  A password is set on the server.                      *)
(***************************************************************************)
EXTENDS Naturals, FiniteSets

CONSTANTS MaxChecks,   \* checks of the session that can be under way at once
          MaxActs      \* bound on logins, logouts, faults and steps of the setup

SessionAssumption == MaxChecks \in Nat /\ MaxActs \in Nat

VARIABLES
  setup,      \* the setup on the device: "none", "running", "finished"
  appState,   \* appState of App
  polled,     \* the answer on the setup that is under way: "none", "sent", or setup
  session,    \* the server knows the session of this browser
  authState,  \* state of useAuth
  checks,     \* checks of the session: of each, "none", "sent", "yes" or "no"
  login,      \* handleSubmit and login(): "none", "sent", "yes" or "no"
  loading,    \* loading of the login form
  logout,     \* logout(): "none", "sent" or "answered"
  acts

vars == <<setup, appState, polled, session, authState, checks, login, loading, logout, acts>>
app == <<setup, appState, polled>>
auth == <<session, authState, checks, login, loading, logout>>

SetupStates == {"none", "running", "finished"}
Answers == {"none", "sent", "yes", "no"}

TypeOK ==
  /\ setup \in SetupStates
  /\ appState \in {"loading", "setup", "configuring", "ready"}
  /\ polled \in {"idle", "sent"} \cup SetupStates
  /\ session \in BOOLEAN /\ authState \in {"loading", "authenticated", "unauthenticated"}
  /\ checks \in [1 .. MaxChecks -> Answers] /\ login \in Answers
  /\ loading \in BOOLEAN /\ logout \in {"none", "sent", "answered"}
  /\ acts \in 0 .. MaxActs

Acts == acts < MaxActs /\ acts' = acts + 1

-----------------------------------------------------------------------------
(* App.tsx                                                                 *)

\* the check at the start, and the polls while the setup runs
AskSetup ==
  /\ appState \in {"loading", "configuring"} /\ polled = "idle"
  /\ polled' = "sent"
  /\ UNCHANGED <<setup, appState, auth, acts>>

TellSetup ==
  /\ polled = "sent"
  /\ polled' = setup
  /\ UNCHANGED <<setup, appState, auth, acts>>

\* The first answer chooses; while the setup runs only its end counts.
Shows(answer) ==
  CASE answer = "finished" -> "ready"
    [] appState = "configuring" -> "configuring"
    [] answer = "running" -> "configuring"
    [] OTHER -> "setup"

SetupTold ==
  /\ polled \in SetupStates
  /\ appState' = IF appState = "ready" THEN "ready" ELSE Shows(polled)
  /\ polled' = "idle"
  /\ UNCHANGED <<setup, auth, acts>>

\* No answer: at the start the pages are shown, later the polls go on.
SetupUnknown ==
  /\ polled \in {"sent"} \cup SetupStates /\ Acts
  /\ appState' = IF appState = "loading" THEN "ready" ELSE appState
  /\ polled' = "idle"
  /\ UNCHANGED <<setup, auth>>

\* onClose of the wizard
CloseWizard ==
  /\ appState = "setup"
  /\ appState' = "ready"
  /\ UNCHANGED <<setup, polled, auth, acts>>

\* the device: the wizard, or another browser, runs the setup, which may fail
DeviceSetup ==
  /\ Acts
  /\ \/ setup = "none" /\ setup' = "running"
     \/ setup = "running" /\ setup' \in {"none", "finished"}
  /\ UNCHANGED <<appState, polled, auth>>

-----------------------------------------------------------------------------
(* useAuth.tsx                                                             *)

CheckAuth(i) ==
  /\ checks[i] = "none"
  /\ checks' = [checks EXCEPT ![i] = "sent"]
  /\ UNCHANGED <<session, authState, login, loading, logout, app, acts>>

CheckServed(i) ==
  /\ checks[i] = "sent"
  /\ checks' = [checks EXCEPT ![i] = IF session THEN "yes" ELSE "no"]
  /\ UNCHANGED <<session, authState, login, loading, logout, app, acts>>

\* The form of the login is there while the state is "unauthenticated".
Becomes(state) ==
  /\ authState' = state
  /\ loading' = IF state = "unauthenticated" /\ authState = state THEN loading ELSE FALSE

\* A check that failed counts as passed: "assume authenticated to avoid blocking".
Means(answer) == IF answer = "no" THEN "unauthenticated" ELSE "authenticated"

CheckAnswered(i) ==
  /\ checks[i] \in {"yes", "no"}
  /\ Becomes(Means(checks[i]))
  /\ checks' = [checks EXCEPT ![i] = "none"]
  /\ UNCHANGED <<session, login, logout, app, acts>>

CheckFails(i) ==
  /\ checks[i] # "none" /\ Acts
  /\ Becomes(Means("failed"))
  /\ checks' = [checks EXCEPT ![i] = "none"]
  /\ UNCHANGED <<session, login, logout, app>>

-----------------------------------------------------------------------------
(* Login.tsx, login() and logout()                                         *)

FormShown == appState = "ready" /\ authState = "unauthenticated"

HandleSubmit ==
  /\ FormShown /\ ~loading /\ Acts
  /\ login = "none" /\ login' = "sent"
  /\ loading' = TRUE
  /\ UNCHANGED <<session, authState, checks, logout, app>>

\* the password is right or wrong
LoginServed ==
  /\ login = "sent"
  /\ \E right \in BOOLEAN :
       login' = (IF right THEN "yes" ELSE "no") /\ session' = (session \/ right)
  /\ UNCHANGED <<authState, checks, loading, logout, app, acts>>

LoginEnds(ok) ==
  IF ok THEN Becomes("authenticated") ELSE loading' = FALSE /\ UNCHANGED authState

LoginAnswered ==
  /\ login \in {"yes", "no"}
  /\ LoginEnds(login = "yes")
  /\ login' = "none"
  /\ UNCHANGED <<session, checks, logout, app, acts>>

LoginFails ==
  /\ login # "none"
  /\ LoginEnds(FALSE)
  /\ login' = "none"
  /\ UNCHANGED <<session, checks, logout, app, acts>>

Logout ==
  /\ authState = "authenticated" /\ logout = "none" /\ Acts
  /\ logout' = "sent"
  /\ UNCHANGED <<session, authState, checks, login, loading, app>>

\* the server ends the session, unless the request does not reach it
LogoutServed ==
  /\ logout = "sent"
  /\ logout' = "answered"
  /\ session' \in {session, FALSE}
  /\ UNCHANGED <<authState, checks, login, loading, app, acts>>

LoggedOut ==
  /\ logout = "answered"
  /\ Becomes("unauthenticated")
  /\ logout' = "none"
  /\ UNCHANGED <<session, checks, login, app, acts>>

\* validate: the time of the session is over
Expire ==
  /\ session /\ Acts
  /\ session' = FALSE
  /\ UNCHANGED <<authState, checks, login, loading, logout, app>>

-----------------------------------------------------------------------------
Init ==
  /\ setup = "none" /\ appState = "loading" /\ polled = "idle"
  /\ session = FALSE /\ authState = "loading"
  /\ checks = [i \in 1 .. MaxChecks |-> "none"]
  /\ login = "none" /\ loading = FALSE /\ logout = "none" /\ acts = 0

Asking == AskSetup \/ TellSetup \/ SetupTold
Checking(i) == CheckAuth(i) \/ CheckServed(i) \/ CheckAnswered(i)
Answering == LoginServed \/ LoginAnswered \/ LogoutServed \/ LoggedOut

Next ==
  \/ Asking \/ SetupUnknown \/ CloseWizard \/ DeviceSetup
  \/ \E i \in 1 .. MaxChecks : Checking(i) \/ CheckFails(i)
  \/ HandleSubmit \/ Answering \/ LoginFails \/ Logout \/ Expire

Spec == Init /\ [][Next]_vars

\* The intervals of App and useAuth fire, and requests end.
Fairness ==
  /\ WF_vars(Asking) /\ WF_vars(Answering)
  /\ \A i \in 1 .. MaxChecks : WF_vars(Checking(i))
FairSpec == Spec /\ Fairness

-----------------------------------------------------------------------------
(* Properties                                                              *)

\* Whatever answers cross a login or a logout, in the end the login is shown
\* exactly to a browser without a session.
AuthSettles ==
  <>[](authState = IF session THEN "authenticated" ELSE "unauthenticated")

\* A page that was opened during the setup shows the pages when it is finished.
SetupLeadsOn == appState = "configuring" /\ setup = "finished" ~> appState = "ready"
=============================================================================
