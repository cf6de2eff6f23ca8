---------------------------- MODULE SetupProofs ----------------------------
(*****************************************************************************)
(* Proofs about the connection banner, the session, the clients of keep-awake*)
(* and away mode, and the setup.                                             *)
(*****************************************************************************)
EXTENDS Web, SequenceTheorems, TLAPS

-----------------------------------------------------------------------------
(*****************************************************************************)
(* The connection banner (Connection)                                        *)
(*****************************************************************************)

(* The timer that hides the banner runs only while the server is shown as reached: the *)
(* effect on a new state clears the timer of the one before.                           *)
HideInv == (connection_hide => connection_prev = "connected") /\ C!OutageVisible
ConnInv == C!TypeOK /\ HideInv

LEMMA ConnInit == C!ConnectionAssumption /\ C!Init => ConnInv
<1> SUFFICES ASSUME C!ConnectionAssumption, C!Init PROVE ConnInv
  OBVIOUS
<1>1. C!TypeOK
  <2>1. 0 \in 0 .. connection_MaxTurns /\ 0 \in 0 .. connection_MaxRetries /\ 0 \in 0 .. 3
    BY DEF C!ConnectionAssumption
  <2>2. connection_polls \in [1 .. 2 -> C!Requests]
    BY DEF C!Init, C!Requests
  <2> QED BY <2>1, <2>2 DEF C!Init, C!TypeOK, C!States, C!Requests
<1>2. HideInv
  BY DEF C!Init, HideInv, C!OutageVisible
<1> QED BY <1>1, <1>2 DEF ConnInv

LEMMA EvaluateTypes ==
  ASSUME C!TypeOK, NEW answer \in {"ok", "bad"}, NEW counts \in BOOLEAN,
         C!Evaluate(answer, counts)
  PROVE  connection_state' \in C!States /\ connection_httpOk' \in BOOLEAN
         /\ connection_fails' \in 0 .. 3
<1>1. connection_fails \in 0 .. 3
  BY DEF C!TypeOK
<1>2. C!AtMost3(connection_fails + 1) \in 0 .. 3
  BY <1>1 DEF C!AtMost3
<1> QED BY <1>1, <1>2 DEF C!Evaluate, C!States

LEMMA ConnNext == C!ConnectionAssumption /\ ConnInv /\ [C!Next]_(C!vars) => ConnInv'
<1> SUFFICES ASSUME C!ConnectionAssumption, ConnInv, [C!Next]_(C!vars) PROVE ConnInv'
  OBVIOUS
<1> USE DEF ConnInv
\* the polls and the check leave the banner alone
<1>1. UNCHANGED C!banner => HideInv'
  BY DEF HideInv, C!OutageVisible, C!banner
<1>2. ASSUME NEW i \in 1 .. 2, C!Poll(i) \/ C!PollDone(i) PROVE ConnInv'
  <2>1. CASE C!Poll(i)
    BY <1>1, <2>1 DEF C!Poll, C!TypeOK, C!Requests, C!banner, C!bounds
  <2>2. CASE C!PollDone(i)
    <3>1. connection_state' \in C!States /\ connection_httpOk' \in BOOLEAN
          /\ connection_fails' \in 0 .. 3
      BY <2>2, EvaluateTypes DEF C!PollDone
    <3> QED BY <1>1, <2>2, <3>1 DEF C!PollDone, C!TypeOK, C!Requests, C!banner, C!bounds
  <2> QED BY <1>2, <2>1, <2>2
<1>3. CASE C!Answers
  BY <1>1, <1>3 DEF C!Answers, C!Served, C!TypeOK, C!Requests, C!banner, C!bounds
<1>4. CASE C!CheckDone
  <2>1. connection_state' \in C!States /\ connection_httpOk' \in BOOLEAN
        /\ connection_fails' \in 0 .. 3
    BY <1>4, EvaluateTypes DEF C!CheckDone
  <2> QED BY <1>1, <1>4, <2>1 DEF C!CheckDone, C!TypeOK, C!Requests, C!banner, C!bounds
<1>5. CASE C!Retry
  BY <1>1, <1>5 DEF C!Retry, C!TypeOK, C!States, C!Requests, C!banner, C!ConnectionAssumption
<1>6. CASE C!Notice
  BY <1>6 DEF C!Notice, C!NewTimer, HideInv, C!OutageVisible, C!TypeOK, C!States, C!status,
     C!bounds
<1>7. CASE C!Hide \/ C!Dismiss
  <2>1. C!TypeOK'
    BY <1>7 DEF C!Hide, C!Dismiss, C!TypeOK, C!status, C!bounds
  <2>2. CASE C!Hide
    BY <2>1, <2>2 DEF C!Hide, HideInv, C!OutageVisible
  <2>3. CASE C!Dismiss
    BY <2>1, <2>3 DEF C!Dismiss, HideInv, C!OutageVisible
  <2> QED BY <1>7, <2>2, <2>3
<1>8. CASE C!Turn
  BY <1>1, <1>8 DEF C!Turn, C!TypeOK, C!status, C!banner, C!ConnectionAssumption
<1>9. CASE UNCHANGED C!vars
  BY <1>1, <1>9 DEF C!vars, C!TypeOK, C!banner
<1> QED BY <1>2, <1>3, <1>4, <1>5, <1>6, <1>7, <1>8, <1>9 DEF C!Next

\* The part keeps to its own specification.
LEMMA ConnectionSpec == Spec => C!Spec
<1>1. Init => C!Init
  BY DEF Init
<1>2. [Next]_vars => [C!Next]_(C!vars)
  BY DEF Next, vars, Alone, connectionVars, C!vars
<1> QED BY <1>1, <1>2, PTL DEF Spec, C!Spec

\* A banner that reports an outage stays while the outage does: the timer that hides the
\* banner after "Connected" is cleared by each new state, whatever polls and checks of
\* different ages answer in between (ConnectionStatus.tsx, useConnectionState.ts).
THEOREM OutagesStay == Spec => []OutageVisible
<1>1. C!ConnectionAssumption
  BY WebAssumption DEF WebAssumption
<1>2. ConnInv => OutageVisible
  BY DEF ConnInv, HideInv, OutageVisible
<1> QED BY <1>1, <1>2, ConnInit, ConnNext, ConnectionSpec, PTL DEF C!Spec

\* The types of the part
LEMMA ConnectionKeepsTypes == Spec => []C!TypeOK
<1>1. C!ConnectionAssumption
  BY WebAssumption DEF WebAssumption
<1>2. ConnInv => C!TypeOK
  BY DEF ConnInv
<1> QED BY <1>1, <1>2, ConnInit, ConnNext, ConnectionSpec, PTL DEF C!Spec

-----------------------------------------------------------------------------
(*****************************************************************************)
(* The session and the start of the interface (Session)                      *)
(*****************************************************************************)

LEMMA SessionInit == S!SessionAssumption /\ S!Init => S!TypeOK
<1> SUFFICES ASSUME S!SessionAssumption, S!Init PROVE S!TypeOK
  OBVIOUS
<1>1. 0 \in 0 .. session_MaxActs /\ session_checks \in [1 .. session_MaxChecks -> S!Answers]
  BY DEF S!SessionAssumption, S!Init, S!Answers
<1> QED BY <1>1 DEF S!Init, S!TypeOK, S!SetupStates, S!Answers

\* An act of the user or of the device counts.
LEMMA SessionActs ==
  ASSUME S!SessionAssumption, S!TypeOK, S!Acts
  PROVE  session_acts' \in 0 .. session_MaxActs
  BY DEF S!SessionAssumption, S!TypeOK, S!Acts

\* App: which of the faces is shown.
LEMMA AppTypes ==
  ASSUME S!SessionAssumption, S!TypeOK,
         S!Asking \/ S!SetupUnknown \/ S!CloseWizard \/ S!DeviceSetup
  PROVE  S!TypeOK'
<1> USE DEF S!TypeOK, S!auth
<1>1. CASE S!AskSetup \/ S!TellSetup \/ S!CloseWizard
  BY <1>1 DEF S!AskSetup, S!TellSetup, S!CloseWizard
<1>2. CASE S!SetupTold
  <2>1. S!Shows(session_polled) \in {"loading", "setup", "configuring", "ready"}
    BY DEF S!Shows
  <2> QED BY <1>2, <2>1 DEF S!SetupTold
<1>3. CASE S!SetupUnknown
  BY <1>3, SessionActs DEF S!SetupUnknown
<1>4. CASE S!DeviceSetup
  BY <1>4, SessionActs DEF S!DeviceSetup, S!SetupStates
<1> QED BY <1>1, <1>2, <1>3, <1>4 DEF S!Asking

LEMMA BecomesTypes ==
  ASSUME S!TypeOK, NEW s \in {"authenticated", "unauthenticated"}, S!Becomes(s)
  PROVE  session_authState' \in {"loading", "authenticated", "unauthenticated"}
         /\ session_loading' \in BOOLEAN
  BY DEF S!TypeOK, S!Becomes

\* useAuth: the checks of the session.
LEMMA CheckTypes ==
  ASSUME S!SessionAssumption, S!TypeOK, NEW i \in 1 .. session_MaxChecks, S!Checking(i)
         \/ S!CheckFails(i)
  PROVE  S!TypeOK'
<1> USE DEF S!app
<1>1. CASE S!CheckAuth(i) \/ S!CheckServed(i)
  <2>1. session_checks' \in [1 .. session_MaxChecks -> S!Answers]
        /\ UNCHANGED <<session_session, session_authState, session_login, session_loading,
                       session_logout, S!app, session_acts>>
    BY <1>1 DEF S!CheckAuth, S!CheckServed, S!TypeOK, S!Answers
  <2> QED BY <2>1 DEF S!TypeOK
<1>2. CASE S!CheckAnswered(i) \/ S!CheckFails(i)
  <2>1. S!Means(session_checks[i]) \in {"authenticated", "unauthenticated"}
        /\ S!Means("failed") \in {"authenticated", "unauthenticated"}
    BY DEF S!Means
  <2>2. session_authState' \in {"loading", "authenticated", "unauthenticated"}
        /\ session_loading' \in BOOLEAN
    BY <1>2, <2>1, BecomesTypes DEF S!CheckAnswered, S!CheckFails
  <2>3. session_checks' \in [1 .. session_MaxChecks -> S!Answers]
        /\ session_acts' \in 0 .. session_MaxActs
        /\ UNCHANGED <<session_session, session_login, session_logout, S!app>>
    BY <1>2, SessionActs DEF S!CheckAnswered, S!CheckFails, S!TypeOK, S!Answers
  <2> QED BY <2>2, <2>3 DEF S!TypeOK
<1> QED BY <1>1, <1>2 DEF S!Checking

\* The login and the logout.
LEMMA LoginTypes ==
  ASSUME S!SessionAssumption, S!TypeOK,
         S!HandleSubmit \/ S!Answering \/ S!LoginFails \/ S!Logout \/ S!Expire
  PROVE  S!TypeOK'
<1> USE DEF S!app
<1>1. CASE S!HandleSubmit \/ S!Logout \/ S!Expire
  BY <1>1, SessionActs DEF S!HandleSubmit, S!Logout, S!Expire, S!TypeOK, S!Answers
<1>2. CASE S!LoginServed
  BY <1>2 DEF S!LoginServed, S!TypeOK, S!Answers
<1>3. CASE S!LoginAnswered \/ S!LoginFails
  <2>1. PICK ok \in BOOLEAN : S!LoginEnds(ok) /\ session_login' = "none"
                              /\ UNCHANGED <<session_session, session_checks, session_logout,
                                             S!app, session_acts>>
    BY <1>3, Zenon DEF S!LoginAnswered, S!LoginFails
  <2>2. session_authState' \in {"loading", "authenticated", "unauthenticated"}
        /\ session_loading' \in BOOLEAN
    BY <2>1, BecomesTypes DEF S!LoginEnds, S!TypeOK
  <2> QED BY <2>1, <2>2 DEF S!TypeOK, S!Answers
<1>4. CASE S!LogoutServed
  BY <1>4 DEF S!LogoutServed, S!TypeOK
<1>5. CASE S!LoggedOut
  BY <1>5, BecomesTypes DEF S!LoggedOut, S!TypeOK
<1> QED BY <1>1, <1>2, <1>3, <1>4, <1>5 DEF S!Answering

LEMMA SessionNext == S!SessionAssumption /\ S!TypeOK /\ [S!Next]_(S!vars) => S!TypeOK'
<1>1. S!TypeOK /\ UNCHANGED S!vars => S!TypeOK'
  BY DEF S!TypeOK, S!vars
<1> QED BY <1>1, AppTypes, CheckTypes, LoginTypes DEF S!Next

\* The part keeps to its own specification.
LEMMA SessionSpec == Spec => S!Spec
<1>1. Init => S!Init
  BY DEF Init
<1>2. [Next]_vars => [S!Next]_(S!vars)
  BY DEF Next, vars, Alone, sessionVars, S!vars, S!app, S!auth
<1> QED BY <1>1, <1>2, PTL DEF Spec, S!Spec

\* The types of the part
LEMMA SessionKeepsTypes == Spec => []S!TypeOK
<1>1. S!SessionAssumption
  BY WebAssumption DEF WebAssumption
<1> QED BY <1>1, SessionInit, SessionNext, SessionSpec, PTL DEF S!Spec

-----------------------------------------------------------------------------
(*****************************************************************************)
(* The client of keep-awake (KeepAwakeClient)                                *)
(*****************************************************************************)

LEMMA ClientInit == B!ClientAssumption /\ B!Init => B!TypeOK
<1> SUFFICES ASSUME B!ClientAssumption, B!Init PROVE B!TypeOK
  OBVIOUS
<1>1. 0 \in 0 .. awake_page_MaxEnds
  BY DEF B!ClientAssumption
<1>2. awake_page_poll \in [awake_page_Polls -> [at : {"none", "sent", "answered"},
                                                got : B!States, old : BOOLEAN]]
  BY DEF B!Init, B!NoPoll, B!States
<1>3. awake_page_call \in [awake_page_Calls -> [op : {"none", "start", "stop", "heartbeat"},
                                                at : {"none", "sent", "answered", "over"},
                                                  got : B!States]]
  BY DEF B!Init, B!NoCall, B!States
<1> QED BY <1>1, <1>2, <1>3 DEF B!Init, B!SInit, B!TypeOK, B!States

\* The server keeps to the types of its service.
LEMMA ServiceTypes ==
  ASSUME B!TypeOK, B!Ask \/ B!Begin \/ B!End \/ UNCHANGED B!svars
  PROVE  awake_page_session' \in B!States /\ awake_page_wanted' \in BOOLEAN
  BY DEF B!TypeOK, B!Ask, B!Begin, B!End, B!svars, B!States

LEMMA AwakePagePollingTypes ==
  ASSUME B!TypeOK, NEW p \in awake_page_Polls, B!Polling(p)
  PROVE  B!TypeOK'
<1> USE DEF B!TypeOK, B!svars
<1>1. CASE B!SendPoll(p)
  BY <1>1 DEF B!SendPoll, B!States
<1>2. CASE B!ServePoll(p)
  <2>1. /\ awake_page_poll[p] \in [at : {"none", "sent", "answered"}, got : B!States,
                                   old : BOOLEAN]
        /\ awake_page_session \in B!States
    OBVIOUS
  <2>2. [awake_page_poll[p] EXCEPT !.at = "answered", !.got = awake_page_session]
          \in [at : {"none", "sent", "answered"}, got : B!States, old : BOOLEAN]
    BY <2>1
  <2>3. awake_page_poll' = [awake_page_poll EXCEPT ![p] =
          [awake_page_poll[p] EXCEPT !.at = "answered", !.got = awake_page_session]]
    BY <1>2 DEF B!ServePoll
  <2>4. awake_page_poll' \in [awake_page_Polls -> [at : {"none", "sent", "answered"},
                                                  got : B!States, old : BOOLEAN]]
    BY <2>2, <2>3
  <2> QED BY <1>2, <2>4 DEF B!ServePoll
<1>3. CASE B!PollAnswered(p)
  BY <1>3 DEF B!PollAnswered, B!NoPoll, B!States
<1> QED BY <1>1, <1>2, <1>3 DEF B!Polling

LEMMA OutdatedTypes ==
  ASSUME B!TypeOK
  PROVE  B!Outdated \in [awake_page_Polls -> [at : {"none", "sent", "answered"},
                                              got : B!States, old : BOOLEAN]]
<1>1. ASSUME NEW p \in awake_page_Polls, NEW b \in BOOLEAN
      PROVE  [awake_page_poll[p] EXCEPT !.old = b] \in [at : {"none", "sent", "answered"},
                                                        got : B!States, old : BOOLEAN]
  BY DEF B!TypeOK
<1>2. \A p \in awake_page_Polls : (awake_page_poll[p].old
                                   \/ awake_page_poll[p].at # "none") \in BOOLEAN
  BY Zenon
<1> QED BY <1>1, <1>2, Zenon DEF B!Outdated

LEMMA AwakePageSendTypes ==
  ASSUME B!TypeOK, NEW c \in awake_page_Calls, NEW op \in {"start", "stop", "heartbeat"},
         B!Send(c, op)
  PROVE  awake_page_call' \in [awake_page_Calls -> [op : {"none", "start", "stop", "heartbeat"},
                                                    at : {"none", "sent", "answered", "over"},
                                                      got : B!States]]
  BY DEF B!TypeOK, B!Send, B!States

LEMMA CallTypes ==
  ASSUME B!TypeOK, NEW c \in awake_page_Calls,
         B!Start(c) \/ B!StopNow(c) \/ B!Heartbeat(c) \/ B!Calling(c) \/ B!CallFails(c)
  PROVE  B!TypeOK'
<1>1. CASE B!Start(c)
  BY <1>1, AwakePageSendTypes, OutdatedTypes DEF B!Start, B!TypeOK, B!svars
<1>2. CASE B!StopNow(c)
  BY <1>2, AwakePageSendTypes, OutdatedTypes DEF B!StopNow, B!TypeOK, B!svars, B!States
<1>3. CASE B!Heartbeat(c)
  BY <1>3, AwakePageSendTypes DEF B!Heartbeat, B!TypeOK, B!svars
<1>4. CASE B!ServeCall(c)
  <2>1. awake_page_session' \in B!States /\ awake_page_wanted' \in BOOLEAN
    BY <1>4, ServiceTypes DEF B!ServeCall
  <2> QED BY <1>4, <2>1, ZenonT(60) DEF B!ServeCall, B!TypeOK
<1>5. CASE B!CallAnswered(c)
  BY <1>5 DEF B!CallAnswered, B!TypeOK, B!svars
<1>6. CASE B!CallFails(c)
  BY <1>6 DEF B!CallFails, B!TypeOK, B!svars
<1> QED BY <1>1, <1>2, <1>3, <1>4, <1>5, <1>6 DEF B!Calling

LEMMA ClientNext == B!ClientAssumption /\ B!TypeOK /\ [B!Next]_(B!vars) => B!TypeOK'
<1> SUFFICES ASSUME B!ClientAssumption, B!TypeOK, [B!Next]_(B!vars) PROVE B!TypeOK'
  OBVIOUS
<1>1. CASE B!Passes
  <2>1. awake_page_session' \in B!States /\ awake_page_wanted' \in BOOLEAN
    BY <1>1, ServiceTypes DEF B!Passes
  <2>2. awake_page_ends' \in 0 .. awake_page_MaxEnds
        /\ UNCHANGED <<awake_page_shown, awake_page_poll, awake_page_call>>
    BY <1>1 DEF B!Passes, B!TypeOK, B!ClientAssumption
  <2> QED BY <2>1, <2>2 DEF B!TypeOK
<1>2. CASE UNCHANGED B!vars
  BY <1>2 DEF B!vars, B!TypeOK
<1> QED BY <1>1, <1>2, AwakePagePollingTypes, CallTypes DEF B!Next

\* The part keeps to its own specification.
LEMMA AwakePageSpec == Spec => B!Spec
<1>1. Init => B!Init
  BY DEF Init
<1>2. [Next]_vars => [B!Next]_(B!vars)
  BY DEF Next, vars, Alone, awake_pageVars, B!vars
<1> QED BY <1>1, <1>2, PTL DEF Spec, B!Spec

\* The types of the part
LEMMA AwakePageKeepsTypes == Spec => []B!TypeOK
<1>1. B!ClientAssumption
  BY WebAssumption DEF WebAssumption
<1> QED BY <1>1, ClientInit, ClientNext, AwakePageSpec, PTL DEF B!Spec

-----------------------------------------------------------------------------
(*****************************************************************************)
(* The client of away mode (AwayClient)                                      *)
(*****************************************************************************)

AwayPagePollType == [at : {"none", "sent", "answered"}, got : BOOLEAN, old : BOOLEAN]

LEMMA AwayClientInit == E!AwayClientAssumption /\ E!Init => E!TypeOK
<1> SUFFICES ASSUME E!AwayClientAssumption, E!Init PROVE E!TypeOK
  OBVIOUS
<1>1. 0 \in 0 .. away_page_MaxActs /\ away_page_poll \in [away_page_Polls -> AwayPagePollType]
  BY DEF E!AwayClientAssumption, E!Init, E!NoPoll, AwayPagePollType
<1> QED BY <1>1 DEF E!Init, E!TypeOK, E!NoCall, AwayPagePollType

\* An act of the user or of another client counts.
LEMMA AwayClientActs ==
  ASSUME E!AwayClientAssumption, E!TypeOK, E!Acts
  PROVE  away_page_acts' \in 0 .. away_page_MaxActs
  BY DEF E!AwayClientAssumption, E!TypeOK, E!Acts

\* Polls keep the types.
LEMMA AwayPolls ==
  ASSUME E!AwayClientAssumption, E!TypeOK, NEW p \in away_page_Polls, E!Polling(p)
         \/ E!PollFails(p)
  PROVE  E!TypeOK'
<1> USE DEF E!TypeOK
<1>1. CASE E!SendPoll(p) \/ E!ServePoll(p)
  BY <1>1 DEF E!SendPoll, E!ServePoll
<1>2. CASE E!PollAnswered(p)
  <2>1. away_page_poll' \in [away_page_Polls -> AwayPagePollType]
        /\ UNCHANGED <<away_page_active, away_page_call, away_page_acts>>
    BY <1>2 DEF E!PollAnswered, E!NoPoll, AwayPagePollType
  <2>2. away_page_shown' \in {"idle", "active", "odd"}
    BY <1>2 DEF E!PollAnswered, E!State
  <2>3. away_page_stored' \in BOOLEAN
    BY <1>2 DEF E!PollAnswered, E!SyncNote
  <2> QED BY <2>1, <2>2, <2>3 DEF AwayPagePollType
<1>3. CASE E!PollFails(p)
  BY <1>3, AwayClientActs DEF E!PollFails, E!NoPoll
<1> QED BY <1>1, <1>2, <1>3 DEF E!Polling

\* A call makes the polls under way outdated.
LEMMA AwayOutdated ==
  ASSUME E!TypeOK
  PROVE  E!Outdated \in [away_page_Polls -> AwayPagePollType]
<1>1. ASSUME NEW p \in away_page_Polls, NEW b \in BOOLEAN
      PROVE  [away_page_poll[p] EXCEPT !.old = b] \in AwayPagePollType
  BY DEF E!TypeOK, AwayPagePollType
<1>2. \A p \in away_page_Polls : (away_page_poll[p].old
                                  \/ away_page_poll[p].at # "none") \in BOOLEAN
  BY Zenon
<1> QED BY <1>1, <1>2, Zenon DEF E!Outdated

LEMMA AwayClientNext == E!AwayClientAssumption /\ E!TypeOK /\ [E!Next]_(E!vars) => E!TypeOK'
<1> SUFFICES ASSUME E!AwayClientAssumption, E!TypeOK, [E!Next]_(E!vars) PROVE E!TypeOK'
  OBVIOUS
<1>1. CASE E!Enable \/ E!Disable
  <2>1. away_page_call' \in [op : {"none", "enable", "disable"},
                             at : {"none", "sent", "answered"}, ok : BOOLEAN]
    <3>1. \E op \in {"enable", "disable"} : away_page_call' = [op |-> op, at |-> "sent",
          ok |-> FALSE]
      BY <1>1 DEF E!Enable, E!Disable
    <3> QED BY <3>1
  <2>2. away_page_poll' \in [away_page_Polls -> AwayPagePollType]
        /\ away_page_acts' \in 0 .. away_page_MaxActs
    BY <1>1, AwayOutdated, AwayClientActs DEF E!Enable, E!Disable
  <2>3. away_page_active' = away_page_active /\ away_page_shown' \in {"idle", away_page_shown}
        /\ away_page_stored' \in {FALSE, away_page_stored}
    BY <1>1 DEF E!Enable, E!Disable
  <2> QED BY <2>1, <2>2, <2>3 DEF E!TypeOK, AwayPagePollType
<1>2. CASE E!ServeCall
  <2>1. PICK ok \in BOOLEAN : /\ away_page_call' = [away_page_call EXCEPT !.at = "answered",
                                                    !.ok = ok]
                              /\ away_page_active' = IF away_page_call.op = "disable" THEN FALSE ELSE away_page_active \/ ok
    BY <1>2 DEF E!ServeCall
  <2>2. away_page_active' \in BOOLEAN
    BY <2>1 DEF E!TypeOK
  <2>3. away_page_call' \in [op : {"none", "enable", "disable"},
                             at : {"none", "sent", "answered"}, ok : BOOLEAN]
    BY <2>1 DEF E!TypeOK
  <2> QED BY <1>2, <2>2, <2>3 DEF E!ServeCall, E!TypeOK
<1>3. CASE E!CallAnswered \/ E!CallFails
  <2>1. E!NoCall \in [op : {"none", "enable", "disable"}, at : {"none", "sent", "answered"},
                      ok : BOOLEAN]
    BY DEF E!NoCall
  <2>2. away_page_shown' \in {"idle", "active", "odd"} /\ away_page_stored' \in BOOLEAN
    BY <1>3 DEF E!CallAnswered, E!CallFails, E!TypeOK
  <2> QED BY <1>3, <2>1, <2>2 DEF E!CallAnswered, E!CallFails, E!TypeOK
<1>4. CASE E!Elsewhere
  BY <1>4, AwayClientActs DEF E!Elsewhere, E!TypeOK
<1>5. CASE UNCHANGED E!vars
  BY <1>5 DEF E!vars, E!TypeOK
<1> QED BY <1>1, <1>2, <1>3, <1>4, <1>5, AwayPolls DEF E!Next, E!Calling

\* The part keeps to its own specification.
LEMMA AwayPageSpec == Spec => E!Spec
<1>1. Init => E!Init
  BY DEF Init
<1>2. [Next]_vars => [E!Next]_(E!vars)
  BY DEF Next, vars, Alone, away_pageVars, E!vars
<1> QED BY <1>1, <1>2, PTL DEF Spec, E!Spec

\* The types of the part
LEMMA AwayPageKeepsTypes == Spec => []E!TypeOK
<1>1. E!AwayClientAssumption
  BY WebAssumption DEF WebAssumption
<1> QED BY <1>1, AwayClientInit, AwayClientNext, AwayPageSpec, PTL DEF E!Spec

-----------------------------------------------------------------------------
(*****************************************************************************)
(* The form of the setup (SetupForm)                                         *)
(*****************************************************************************)

(* What the question about the drives is asked of has no step with an error, unless a   *)
(* backup came meanwhile, and what is on its way to the server obeys what is said of    *)
(* the configuration that is written.                                                   *)
Complete(a) == a # NoValue /\ ~form_late => G!BadSteps(a.form) = {}
Unasked(a) ==
  a # NoValue /\ a.how = "plain" /\ a.clean /\ a.disk # NoValue =>
    a.form.exfat = a.disk.exfat /\ a.form.size = a.disk.size
AskedOfFit == form_warning # {} /\ ~form_late => G!BadSteps(form_form) = {}
CleanIsDisk == form_clean => form_original = form_disk
Runs == form_phase = "running" => form_applied # NoValue
FormInv ==
  /\ G!TypeOK /\ AskedOfFit /\ CleanIsDisk /\ Runs
  /\ Complete(form_sending) /\ Complete(form_applied) /\ Unasked(form_sending)
       /\ Unasked(form_applied)

LEMMA FormInit == G!SetupFormAssumption /\ G!Init => FormInv
<1> SUFFICES ASSUME G!SetupFormAssumption, G!Init PROVE FormInv
  OBVIOUS
<1>1. PICK d \in G!Drives : form_form = [filled |-> form_Saved, system |-> "cifs",
                                         method |-> NoValue, exfat |-> d.exfat,
                                         size |-> d.size]
  BY DEF G!Init
<1>2. form_form \in G!Data
  BY <1>1 DEF G!Data, G!Drives, G!SetupFormAssumption
<1>3. 0 \in G!Steps /\ 0 \in 0 .. form_MaxActs
  BY DEF G!Steps, G!SetupFormAssumption
<1>4. G!TypeOK
  BY <1>2, <1>3 DEF G!Init, G!TypeOK
<1>5. AskedOfFit /\ CleanIsDisk /\ Runs /\ Complete(form_sending) /\ Complete(form_applied)
      /\ Unasked(form_sending) /\ Unasked(form_applied)
  BY DEF G!Init, AskedOfFit, CleanIsDisk, Runs, Complete, Unasked
<1> QED BY <1>4, <1>5 DEF FormInv

\* the first step with an error
LEMMA FirstTypes ==
  ASSUME NEW X \in SUBSET G!Steps, X # {}
  PROVE  G!First(X) \in G!Steps
<1>1. \E i \in X : \A j \in X : i <= j
  <2>1. ASSUME NEW i \in X PROVE i \in {0, 1, 2, 3, 4, 5, 6, 7, 8, 9}
    BY DEF G!Steps
  <2> QED BY <2>1
<1> QED BY <1>1 DEF G!First

\* only these parts of the form have errors
LEMMA SameErrors ==
  ASSUME NEW f, NEW g, f.filled = g.filled, f.system = g.system, f.method = g.method
  PROVE  G!BadSteps(f) = G!BadSteps(g)
<1>1. G!Method(f) = G!Method(g)
  BY DEF G!Method
<1> QED BY <1>1 DEF G!BadSteps, G!Bad, G!NetworkBad, G!ArchiveBad, G!KeepAwakeBad,
       G!NotificationsBad, G!SecurityBad

\* Steps that leave what is asked, sent and written alone.
LEMMA ChangeKeeps ==
  ASSUME G!SetupFormAssumption, FormInv, NEW f \in G!Data, G!Change(f), G!FormShown
  PROVE  FormInv'
<1> USE DEF FormInv
<1>1. form_acts' \in 0 .. form_MaxActs /\ form_form' = f
      /\ UNCHANGED <<form_step, form_warning, form_restoring, G!move>> /\ form_warning = {}
  BY DEF G!Change, G!FormShown, G!TypeOK, G!SetupFormAssumption
<1>2. G!TypeOK'
  BY <1>1 DEF G!TypeOK, G!move
<1> QED BY <1>1, <1>2 DEF G!move, AskedOfFit, CleanIsDisk, Runs, Complete, Unasked

\* What the user fills in is neither sent nor the configuration of the device.
LEMMA FillingKeeps ==
  ASSUME G!SetupFormAssumption, FormInv,
         \/ \E f \in form_Typed : G!HandleChange(f)
         \/ G!ToggleAP \/ G!SetDrive
         \/ \E s \in form_Systems : G!SetSystem(s)
         \/ \E m \in form_Methods : G!SetMethod(m)
  PROVE  FormInv'
<1>1. form_form \in G!Data
  BY DEF FormInv, G!TypeOK
<1> DEFINE Fields == SUBSET (form_Typed \cup form_Saved \cup {"AP_SSID", "AP_PASS"})
<1>2. form_form.filled \in Fields
  BY <1>1 DEF G!Data
<1>3. \A w \in Fields : [form_form EXCEPT !.filled = w] \in G!Data
  BY <1>1 DEF G!Data
<1>4. ASSUME NEW x \in form_Typed, G!HandleChange(x) PROVE FormInv'
  <2>1. PICK w \in Fields : G!Change([form_form EXCEPT !.filled = w]) /\ G!FormShown
    <3>1. (IF x \in form_form.filled THEN form_form.filled \ {x} ELSE form_form.filled \cup {x}) \in Fields
      BY <1>2
    <3> QED BY <1>4, <3>1 DEF G!HandleChange
  <2> QED BY <1>3, <2>1, ChangeKeeps
<1>5. CASE G!ToggleAP
  <2>1. PICK w \in Fields : G!Change([form_form EXCEPT !.filled = w]) /\ G!FormShown
    <3>1. (IF "AP_SSID" \in form_form.filled THEN form_form.filled \ {"AP_SSID", "AP_PASS"}
           ELSE form_form.filled \cup {"AP_SSID"}) \in Fields
      BY <1>2
    <3> QED BY <1>5, <3>1 DEF G!ToggleAP
  <2> QED BY <1>3, <2>1, ChangeKeeps
<1>6. CASE G!SetDrive
  <2>1. CASE G!FormShown /\ G!Change([form_form EXCEPT !.exfat = ~@])
    <3>1. [form_form EXCEPT !.exfat = ~@] \in G!Data
      BY <1>1 DEF G!Data
    <3> QED BY <2>1, <3>1, ChangeKeeps
  <2>2. ASSUME NEW i \in form_Images, NEW s \in 0 .. form_MaxSize, G!FormShown,
               G!Change([form_form EXCEPT !.size[i] = s])
        PROVE  FormInv'
    <3>1. [form_form EXCEPT !.size[i] = s] \in G!Data
      BY <1>1 DEF G!Data
    <3> QED BY <2>2, <3>1, ChangeKeeps
  <2> QED BY <1>6, <2>1, <2>2 DEF G!SetDrive
<1>7. ASSUME NEW s \in form_Systems, G!SetSystem(s) PROVE FormInv'
  <2>1. [form_form EXCEPT !.system = s] \in G!Data
    BY <1>1 DEF G!Data
  <2> QED BY <1>7, <2>1, ChangeKeeps DEF G!SetSystem
<1>8. ASSUME NEW m \in form_Methods, G!SetMethod(m) PROVE FormInv'
  <2>1. form_form.filled \ UNION {G!Awake[o] : o \in DOMAIN G!Awake \ {m}} \in Fields
    BY <1>2
  <2>2. PICK w \in Fields : G!Change([form_form EXCEPT !.method = m, !.filled = w]) /\ G!FormShown
    BY <1>8, <2>1 DEF G!SetMethod
  <2>3. [form_form EXCEPT !.method = m, !.filled = w] \in G!Data
    BY <1>1 DEF G!Data
  <2> QED BY <2>2, <2>3, ChangeKeeps
<1> QED BY <1>4, <1>5, <1>6, <1>7, <1>8

LEMMA MergedTypes ==
  ASSUME FormInv, NEW d \in G!Drives, NEW s \in form_Systems
  PROVE  G!Merged(d, s) \in G!Data
<1>1. form_form \in G!Data /\ d.exfat \in BOOLEAN /\ d.size \in [form_Images -> 0 .. form_MaxSize]
  BY DEF FormInv, G!TypeOK, G!Drives
<1> QED BY <1>1 DEF G!Merged, G!Data

\* A restored backup replaces what the drives are compared with, and is not clean.
LEMMA ImportKeeps ==
  ASSUME G!SetupFormAssumption, FormInv, NEW d \in G!Drives, NEW s \in form_Systems,
         G!ImportFile(d, s) \/ G!RestoreEnds(d, s)
  PROVE  FormInv'
<1> USE DEF FormInv
<1>1. G!Merged(d, s) \in G!Data
  BY MergedTypes
<1>2. CASE G!ImportFile(d, s)
  <2>1. G!TypeOK'
    BY <1>1, <1>2 DEF G!ImportFile, G!TypeOK, G!Compared, G!SetupFormAssumption
  <2> QED BY <1>2, <2>1 DEF G!ImportFile, G!FormShown, G!Compared, AskedOfFit, CleanIsDisk,
         Runs, Complete, Unasked
<1>3. CASE G!RestoreEnds(d, s)
  <2>1. G!TypeOK'
    BY <1>1, <1>3 DEF G!RestoreEnds, G!TypeOK
  <2>2. UNCHANGED <<form_disk, form_warning, form_sending, form_applied>>
        /\ \/ ~form_clean' /\ (form_late' \/ form_warning = {}) /\ (form_late => form_late')
           \/ UNCHANGED <<form_form, form_original, form_clean, form_late>>
    BY <1>3 DEF G!RestoreEnds
  <2>3. AskedOfFit' /\ CleanIsDisk' /\ Runs'
    BY <1>3, <2>2 DEF G!RestoreEnds, AskedOfFit, CleanIsDisk, Runs
  <2>4. (Complete(form_sending) /\ Complete(form_applied) /\ Unasked(form_sending)
         /\ Unasked(form_applied))'
    BY <2>2 DEF Complete, Unasked
  <2> QED BY <2>1, <2>3, <2>4
<1> QED BY <1>2, <1>3

\* Going from step to step changes no field.
LEMMA MovingKeeps ==
  ASSUME G!SetupFormAssumption, FormInv, G!RestoreBegins \/ G!NextStep \/ G!Back
         \/ \E i \in G!Steps : G!GoTo(i)
  PROVE  FormInv'
<1> USE DEF FormInv
<1>1. form_step' \in G!Steps
  <2>1. CASE G!RestoreBegins \/ G!NextStep \/ G!Back
    BY <2>1 DEF G!RestoreBegins, G!NextStep, G!Back, G!TypeOK, G!Steps
  <2>2. ASSUME NEW i \in G!Steps, G!GoTo(i) PROVE form_step' \in G!Steps
    <3>1. {s \in G!BadSteps(form_form) : s < i} \in SUBSET G!Steps
      BY DEF G!BadSteps
    <3> QED BY <2>2, <3>1, FirstTypes DEF G!GoTo
  <2> QED BY <2>1, <2>2
<1>2. UNCHANGED <<form_form, form_warning, G!move>> /\ form_restoring' \in BOOLEAN
      /\ form_acts' \in 0 .. form_MaxActs
  <2>1. CASE G!RestoreBegins
    BY <2>1 DEF G!RestoreBegins, G!TypeOK, G!SetupFormAssumption
  <2>2. CASE G!NextStep \/ G!Back \/ \E i \in G!Steps : G!GoTo(i)
    BY <2>2 DEF G!NextStep, G!Back, G!GoTo, G!TypeOK
  <2> QED BY <2>1, <2>2
<1> QED BY <1>1, <1>2 DEF G!move, G!TypeOK, AskedOfFit, CleanIsDisk, Runs, Complete, Unasked

\* A configuration is sent: one without errors, and one that keeps the drives of the
\* device unless the user was asked.
LEMMA FormApplyKeeps ==
  ASSUME G!SetupFormAssumption, FormInv, NEW f \in G!Data,
         NEW how \in {"plain", "all", "skip"}, G!DoApply(f, how),
         ~form_late => G!BadSteps(f) = {},
         how = "plain" /\ form_original # NoValue
           => f.exfat = form_original.exfat /\ f.size = form_original.size,
         UNCHANGED form_step, form_acts' \in 0 .. form_MaxActs
  PROVE  FormInv'
<1> USE DEF FormInv
<1> DEFINE s == [form |-> f, how |-> how, was |-> form_original, disk |-> form_disk,
                 clean |-> form_clean]
<1>1. form_sending' = s /\ form_warning' = {}
      /\ UNCHANGED <<form_form, form_original, form_disk, form_phase, form_applied,
                     form_restoring, form_clean, form_late>>
  BY DEF G!DoApply
<1>2. s \in G!Sending
  BY DEF G!Sending, G!TypeOK
<1>3. G!TypeOK'
  BY <1>1, <1>2 DEF G!TypeOK
<1>4. Complete(form_sending)'
  BY <1>1 DEF Complete
<1>5. Unasked(form_sending)'
  BY <1>1 DEF Unasked, CleanIsDisk
<1> QED BY <1>1, <1>3, <1>4, <1>5 DEF AskedOfFit, CleanIsDisk, Runs, Complete, Unasked

\* A form without changes has the drives of the configuration it is compared with.
LEMMA NoChanges ==
  ASSUME G!TypeOK, G!Changes(form_form, form_original) = {}, form_original # NoValue
  PROVE  form_form.exfat = form_original.exfat /\ form_form.size = form_original.size
<1>1. form_form.exfat = form_original.exfat
  BY DEF G!Changes
<1>2. form_form.size \in [form_Images -> 0 .. form_MaxSize]
      /\ form_original.size \in [form_Images -> 0 .. form_MaxSize]
  BY DEF G!TypeOK, G!Data, G!Drives
<1>3. \A i \in form_Images : form_form.size[i] = form_original.size[i]
  BY <1>1 DEF G!Changes
<1> QED BY <1>1, <1>2, <1>3

\* A form is sent, or asked about, when no step has an error.
LEMMA HandleApplyKeeps ==
  ASSUME G!SetupFormAssumption, FormInv, G!HandleApply
  PROVE  FormInv'
<1> USE DEF FormInv
<1>1. form_acts' \in 0 .. form_MaxActs /\ form_form \in G!Data
  BY DEF G!HandleApply, G!TypeOK, G!SetupFormAssumption
<1>2. CASE G!Unfit(form_form) # {}
  <2>1. form_step' \in G!Steps
    BY <1>2, FirstTypes DEF G!HandleApply, G!Unfit, G!BadSteps
  <2>2. UNCHANGED <<form_form, form_warning, form_restoring, G!move>>
    BY <1>2 DEF G!HandleApply
  <2> QED BY <1>1, <2>1, <2>2 DEF G!move, G!TypeOK, AskedOfFit, CleanIsDisk, Runs, Complete,
         Unasked
<1>3. CASE G!Unfit(form_form) = {} /\ G!Changes(form_form, form_original) # {}
  <2>1. form_warning' = G!Changes(form_form, form_original)
        /\ UNCHANGED <<form_step, form_form, form_restoring, G!move>>
    BY <1>3 DEF G!HandleApply
  <2>2. form_warning' \subseteq form_Images \cup {"USE_EXFAT"}
    BY <2>1 DEF G!Changes
  <2> QED BY <1>1, <1>3, <2>1, <2>2 DEF G!Unfit, G!move, G!TypeOK, AskedOfFit, CleanIsDisk,
         Runs, Complete, Unasked
<1>4. CASE G!Unfit(form_form) = {} /\ G!Changes(form_form, form_original) = {}
  <2>1. G!DoApply(form_form, "plain") /\ UNCHANGED form_step
    BY <1>4 DEF G!HandleApply
  <2> QED BY <1>1, <1>4, <2>1, FormApplyKeeps, NoChanges DEF G!Unfit
<1> QED BY <1>2, <1>3, <1>4

\* What the question sends has no step with an error: skipping changes the drives only.
LEMMA AnswersKeep ==
  ASSUME G!SetupFormAssumption, FormInv, G!CancelWarning \/ G!HandleApplyAll
         \/ G!HandleSkipDestructive
  PROVE  FormInv'
<1> USE DEF FormInv
<1>1. form_form \in G!Data /\ form_acts \in 0 .. form_MaxActs
  BY DEF G!TypeOK
<1>2. CASE G!CancelWarning
  BY <1>2 DEF G!CancelWarning, G!move, G!TypeOK, AskedOfFit, CleanIsDisk, Runs, Complete, Unasked
<1>3. CASE G!HandleApplyAll
  BY <1>1, <1>3, FormApplyKeeps DEF G!HandleApplyAll, AskedOfFit
<1>4. CASE G!HandleSkipDestructive
  <2> DEFINE f == G!Skipped(form_form, form_original)
  <2>1. form_original.exfat \in BOOLEAN
        /\ form_original.size \in [form_Images -> 0 .. form_MaxSize]
        /\ form_form.size \in [form_Images -> 0 .. form_MaxSize]
    BY <1>4 DEF G!HandleSkipDestructive, G!TypeOK, G!Drives, G!Data
  <2>2. f \in G!Data
    <3>1. [i \in form_Images |-> IF i \in form_warning THEN form_original.size[i] ELSE form_form.size[i]]
            \in [form_Images -> 0 .. form_MaxSize]
      BY <2>1
    <3> QED BY <1>1, <2>1, <3>1 DEF G!Skipped, G!Data
  <2>3. f.filled = form_form.filled /\ f.system = form_form.system /\ f.method = form_form.method
    BY <1>1 DEF G!Skipped, G!Data
  <2>4. G!BadSteps(f) = G!BadSteps(form_form)
    BY <2>3, SameErrors
  <2>5. G!DoApply(f, "skip") /\ form_warning # {} /\ UNCHANGED <<form_step, form_acts>>
    BY <1>4 DEF G!HandleSkipDestructive
  <2> HIDE DEF f
  <2> QED BY <1>1, <2>2, <2>4, <2>5, FormApplyKeeps DEF AskedOfFit
<1> QED BY <1>2, <1>3, <1>4

\* A form that is sent becomes the one applied; a failed setup is not clean any more.
LEMMA SetupKeeps ==
  ASSUME G!SetupFormAssumption, FormInv, G!Sent \/ G!SetupFails \/ G!BackToWizard
  PROVE  FormInv'
<1> USE DEF FormInv
<1>1. CASE G!Sent
  BY <1>1 DEF G!Sent, G!TypeOK, AskedOfFit, CleanIsDisk, Runs, Complete, Unasked
<1>2. CASE G!BackToWizard
  BY <1>2 DEF G!BackToWizard, G!TypeOK, G!Steps, AskedOfFit, CleanIsDisk, Runs, Complete, Unasked
<1>3. CASE G!SetupFails
  <2>1. form_disk' \in G!Drives \cup {NoValue}
    BY <1>3 DEF G!SetupFails, G!TypeOK, G!Sending, G!Data, G!Drives, Runs
  <2> QED BY <1>3, <2>1 DEF G!SetupFails, G!TypeOK, AskedOfFit, CleanIsDisk, Runs, Complete,
         Unasked
<1> QED BY <1>1, <1>2, <1>3

LEMMA FormNext == G!SetupFormAssumption /\ FormInv /\ [G!Next]_(G!vars) => FormInv'
<1> SUFFICES ASSUME G!SetupFormAssumption, FormInv, [G!Next]_(G!vars) PROVE FormInv'
  OBVIOUS
<1>1. CASE G!Filling
  BY <1>1, FillingKeeps, ImportKeeps, MovingKeeps DEF G!Filling
<1>2. CASE UNCHANGED G!vars
  BY <1>2 DEF G!vars, FormInv, G!TypeOK, AskedOfFit, CleanIsDisk, Runs, Complete, Unasked
<1> QED BY <1>1, <1>2, MovingKeeps, HandleApplyKeeps, AnswersKeep, SetupKeeps DEF G!Next

\* What the run checks follows.
LEMMA FormSafe == FormInv => G!AppliedComplete /\ G!UnaskedKeeps
  BY DEF FormInv, Complete, Unasked, G!AppliedComplete, G!UnaskedKeeps

\* The part keeps to its own specification.
LEMMA FormSpec == Spec => G!Spec
<1>1. Init => G!Init
  BY DEF Init
<1>2. [Next]_vars => [G!Next]_(G!vars)
  BY DEF Next, vars, Alone, formVars, G!vars
<1> QED BY <1>1, <1>2, PTL DEF Spec, G!Spec

\* What the wizard writes passes the checks of all its steps (getStepError of SetupWizard.tsx,
\* which ask nothing of ntfy), as long as no backup came while the question about what
\* affects the data was shown.  And as long as neither a backup was restored nor a setup has
\* run since the wizard was opened, the images of the device are left as they are unless
\* the user was asked.
THEOREM AppliedSafe == Spec => []FormApplied
<1>1. G!SetupFormAssumption
  BY WebAssumption DEF WebAssumption
<1>2. FormInv => FormApplied
  BY FormSafe DEF FormApplied
<1> QED BY <1>1, <1>2, FormInit, FormNext, FormSpec, PTL DEF G!Spec

\* The types of the part
LEMMA FormKeepsTypes == Spec => []G!TypeOK
<1>1. G!SetupFormAssumption
  BY WebAssumption DEF WebAssumption
<1>2. FormInv => G!TypeOK
  BY DEF FormInv
<1> QED BY <1>1, <1>2, FormInit, FormNext, FormSpec, PTL DEF G!Spec

-----------------------------------------------------------------------------
(*****************************************************************************)
(* A setup that runs (SetupRun)                                              *)
(*****************************************************************************)

(* What a page that says "Setup Complete!" rests on, as long as no setup has failed and *)
(* no poll has misled the page.  A setup is started by one request only: before it is  *)
(* taken up nothing has been polled or said (Fresh), and while its goroutine has not   *)
(* removed the old markers the wizard waits (Waits).  After that the markers that say  *)
(* finished stay, so what was read or said of them holds on (EndIsTrue).  A failed     *)
(* poll then means that the server is down for the last time or has come back from     *)
(* it, and so has every answer that is still to be handled (DownIsLast).               *)
Silent == setup_poll.at = "none" /\ setup_last = {} /\ ~setup_wentDown
  /\ setup_inbox = <<>>
Requested ==
  /\ setup_phase = "applying" => setup_post # "none"
  /\ setup_post \in {"none", "sent", "ok"} /\ setup_phase # "error"
  /\ setup_phase = "wizard" => setup_post = "none"
  /\ setup_post = "sent" => setup_phase = "applying"
Fresh == setup_phase = "wizard" \/ setup_post = "sent"
  => Silent /\ setup_work = "none" /\ ~setup_running /\ ~setup_started
Waits == setup_work = "begin" => Silent /\ setup_phase \in {"applying", "running"}
Marked == setup_finished => setup_work \in {"none", "begin"}
EndIsTrue ==
  /\ setup_poll.at = "answered" /\ setup_poll.fin => setup_finished
  /\ \A i \in DOMAIN setup_inbox : setup_inbox[i] # "error"
       /\ (setup_inbox[i] = "complete" => setup_finished)
  /\ setup_phase \in {"finalizing", "complete"} \/ setup_last # {} => setup_finished
Noticed == setup_wentDown \/ \E l \in setup_last : l.down
DownIsLast == Noticed =>
  /\ setup_finished /\ (~setup_up \/ setup_since)
  /\ \A l \in setup_last : l.at = "ok" => setup_since
Unfailed == Requested /\ Fresh /\ Waits /\ Marked /\ EndIsTrue /\ DownIsLast /\ H!CompleteIsDone
Typed == H!TypeOK /\ setup_inbox \in Seq(H!Words)
SetupInv == Typed /\ (~setup_failed /\ ~setup_misled => Unfailed)

SetupPollType == [at : {"none", "sent", "answered"}, of : {"running", "rebooting"},
                  fin : BOOLEAN, run : BOOLEAN]
LastPolls == [n : 1 .. setup_MaxPolls, at : {"sent", "ok"}, down : BOOLEAN, old : Nat]

LEMMA SetupInit == H!SetupRunAssumption /\ H!Init => SetupInv
<1> SUFFICES ASSUME H!SetupRunAssumption, H!Init PROVE SetupInv
  OBVIOUS
<1>1. 0 \in 0 .. setup_MaxApplies /\ 0 \in 0 .. setup_MaxReboots /\ 0 \in 0 .. setup_MaxBlips
  BY DEF H!SetupRunAssumption
<1>2. setup_poll \in SetupPollType /\ setup_last \subseteq LastPolls /\ setup_inbox \in Seq(H!Words)
      /\ DOMAIN setup_inbox = {}
  BY DEF H!Init, SetupPollType, LastPolls, H!NoPoll
<1>3. Typed
  BY <1>1, <1>2 DEF H!Init, Typed, H!TypeOK, H!Phases, SetupPollType, LastPolls
<1>4. Unfailed
  BY <1>2 DEF H!Init, Unfailed, Requested, Fresh, Waits, Silent, Marked, EndIsTrue, DownIsLast,
              Noticed, H!CompleteIsDone, H!NoPoll
<1> QED BY <1>3, <1>4 DEF SetupInv

-----------------------------------------------------------------------------
(* The steps of the page                                                   *)

\* The polls of new are polls of before, with the same stages and the same wentDown.
Stay(new, polls) ==
  new \subseteq LastPolls /\ \A l \in new : \E m \in polls : l.at = m.at /\ l.down = m.down

LEMMA AbandonsStays ==
  ASSUME NEW p, NEW polls \in SUBSET LastPolls, H!Abandons(p, polls)
  PROVE  Stay(setup_last', polls)
<1>1. CASE setup_last' = polls
  BY <1>1 DEF Stay
<1>2. CASE setup_last' = {[l EXCEPT !.old = @ + 1] : l \in polls}
  <2>1. ASSUME NEW l \in polls
        PROVE  /\ [l EXCEPT !.old = @ + 1] \in LastPolls
               /\ [l EXCEPT !.old = @ + 1].at = l.at /\ [l EXCEPT !.old = @ + 1].down = l.down
    BY DEF LastPolls
  <2> QED BY <1>2, <2>1 DEF Stay
<1> QED BY <1>1, <1>2 DEF H!Abandons

\* While they stay and nothing else fails, what the failures mean stays true.
LEMMA StayingIsSafe ==
  ASSUME Stay(setup_last', setup_last), setup_wentDown' => setup_wentDown,
         UNCHANGED <<setup_up, setup_finished, setup_since>>
  PROVE  /\ setup_last = {} => setup_last' = {}
         /\ DownIsLast => DownIsLast'
<1>1. setup_last = {} => setup_last' = {}
  BY DEF Stay
<1>2. Noticed' => Noticed
  BY DEF Stay, Noticed
<1>3. (\A l \in setup_last : l.at = "ok" => setup_since)
        => (\A l \in setup_last' : l.at = "ok" => setup_since')
  BY DEF Stay
<1> QED BY <1>1, <1>2, <1>3 DEF DownIsLast

\* They do too while a step leaves them and takes back neither the reboot nor the end.
LEMMA LeavingIsSafe ==
  ASSUME UNCHANGED <<setup_last, setup_wentDown, setup_finished>>, setup_since => setup_since',
         ~setup_up \/ setup_since => ~setup_up' \/ setup_since'
  PROVE  DownIsLast => DownIsLast'
<1>1. Noticed' => Noticed
  BY DEF Noticed
<1> QED BY <1>1 DEF DownIsLast

\* A change of the phase empties the inbox and forgets that the server was down; the polls
\* of the end that are under way stay.
LEMMA BecomesDoes ==
  ASSUME Typed, NEW p \in H!Phases, H!Becomes(p)
  PROVE  /\ setup_phase' = p /\ setup_open' \in BOOLEAN /\ setup_wentDown' \in BOOLEAN
              /\ setup_inbox' \in Seq(H!Words)
         /\ Stay(setup_last', setup_last) /\ setup_last' \subseteq LastPolls
         /\ setup_wentDown' => setup_wentDown
         /\ setup_inbox' = setup_inbox \/ (setup_inbox' = <<>> /\ DOMAIN setup_inbox' = {})
         /\ p = setup_phase => UNCHANGED <<setup_open, setup_wentDown, setup_inbox, setup_last>>
<1>1. setup_last \subseteq LastPolls /\ setup_wentDown \in BOOLEAN /\ setup_open \in BOOLEAN
  BY DEF Typed, H!TypeOK, LastPolls
<1>2. Stay(setup_last', setup_last) /\ setup_last' \subseteq LastPolls
  BY <1>1, AbandonsStays DEF H!Becomes, Stay
<1>3. /\ setup_phase' = p /\ setup_open' \in BOOLEAN /\ setup_wentDown' \in BOOLEAN
      /\ setup_wentDown' => setup_wentDown
      /\ p = setup_phase => UNCHANGED <<setup_open, setup_wentDown, setup_inbox, setup_last>>
  BY <1>1 DEF H!Becomes, H!SetPhase, H!ClosesInbox, H!Abandons
<1>4. setup_inbox' \in Seq(H!Words) /\ (setup_inbox' = setup_inbox
                                        \/ (setup_inbox' = <<>> /\ DOMAIN setup_inbox' = {}))
  BY DEF Typed, H!Becomes, H!ClosesInbox
<1> QED BY <1>2, <1>3, <1>4

\* A change of the phase ends what was under way in the old one.
LEMMA SetupApplyKeeps ==
  ASSUME H!SetupRunAssumption, SetupInv, H!Apply \/ H!PostAnswered \/ H!Connect \/ H!BackToWizard
  PROVE  SetupInv'
<1> USE DEF SetupInv
<1>1. /\ setup_poll \in SetupPollType /\ setup_last \subseteq LastPolls /\ setup_phase \in H!Phases
      /\ \A i \in DOMAIN setup_inbox : setup_inbox[i] \in H!Words
  BY DEF Typed, H!TypeOK, SetupPollType, LastPolls
<1>2. CASE H!Apply
  <2>1. "applying" \in H!Phases /\ H!Becomes("applying")
    BY <1>2 DEF H!Apply, H!Phases
  <2>2. setup_applies' \in 0 .. setup_MaxApplies
    BY <1>2 DEF H!Apply, Typed, H!TypeOK, H!SetupRunAssumption
  <2>3. Typed'
    BY <1>2, <2>1, <2>2, BecomesDoes DEF H!Apply, Typed, H!TypeOK, H!device, H!history, LastPolls
  <2>4. /\ setup_last = {} => setup_last' = {}
        /\ DownIsLast => DownIsLast'
    BY <1>2, <2>1, BecomesDoes, StayingIsSafe DEF H!Apply, H!device
  <2>5. Unfailed => Unfailed'
    BY <1>2, <2>1, <2>4, BecomesDoes DEF H!Apply, H!device, Unfailed, Requested, Fresh, Waits,
       Silent, Marked, EndIsTrue, H!CompleteIsDone
  <2> QED BY <1>2, <2>3, <2>5 DEF H!Apply, H!history
<1>3. CASE H!PostAnswered
  <2>1. PICK p \in {"running", "wizard"} : H!Becomes(p) /\ (p = "running" <=> setup_post = "ok")
    BY <1>3 DEF H!PostAnswered
  <2>2. p \in H!Phases
    BY DEF H!Phases
  <2>3. Typed'
    BY <1>3, <2>1, <2>2, BecomesDoes DEF H!PostAnswered, Typed, H!TypeOK, H!device, H!bounds,
       H!history, LastPolls
  <2>4. /\ setup_last = {} => setup_last' = {}
        /\ DownIsLast => DownIsLast'
    BY <1>3, <2>1, <2>2, BecomesDoes, StayingIsSafe DEF H!PostAnswered, H!device
  <2>5. Unfailed => Unfailed'
    BY <1>3, <2>1, <2>2, <2>4, BecomesDoes DEF H!PostAnswered, H!device, Unfailed, Requested,
       Fresh, Waits, Silent, Marked, EndIsTrue, H!CompleteIsDone
  <2> QED BY <1>3, <2>3, <2>5 DEF H!PostAnswered, H!history
<1>4. CASE H!Connect
  <2>1. UNCHANGED <<H!device, setup_phase, setup_post, setup_poll, setup_last, setup_wentDown,
                    setup_inbox, H!bounds, H!history>>
    BY <1>4 DEF H!Connect
  <2>2. Typed'
    BY <1>4, <2>1 DEF H!Connect, Typed, H!TypeOK, H!device, H!bounds, H!history
  <2>3. DownIsLast => DownIsLast'
    BY <2>1, LeavingIsSafe DEF H!device
  <2>4. Unfailed => Unfailed'
    BY <2>1, <2>3 DEF H!device, Unfailed, Requested, Fresh, Waits, Silent, Marked,
       EndIsTrue, H!CompleteIsDone, H!history
  <2> QED BY <2>1, <2>2, <2>4 DEF H!history
<1>5. CASE H!BackToWizard
  <2>1. "wizard" \in H!Phases /\ H!Becomes("wizard") /\ setup_phase = "error"
    BY <1>5 DEF H!BackToWizard, H!Phases
  <2>2. Typed'
    BY <1>5, <2>1, BecomesDoes DEF H!BackToWizard, Typed, H!TypeOK, H!device, H!bounds,
       H!history, LastPolls
  <2>3. setup_failed \/ setup_misled
    BY <2>1 DEF Unfailed, Requested
  <2> QED BY <1>5, <2>2, <2>3 DEF H!BackToWizard, H!history
<1> QED BY <1>2, <1>3, <1>4, <1>5

\* What a message says still holds when it is read.
LEMMA MessageKeeps ==
  ASSUME SetupInv, H!Message
  PROVE  SetupInv'
<1> USE DEF SetupInv
<1>1. /\ setup_inbox \in Seq(H!Words) /\ setup_inbox # <<>> /\ setup_last \subseteq LastPolls
           /\ setup_phase \in H!Phases
      /\ setup_open \in BOOLEAN /\ setup_wentDown \in BOOLEAN
  BY DEF H!Message, Typed, H!TypeOK, LastPolls
<1>2. Head(setup_inbox) \in H!Words /\ Head(setup_inbox) = setup_inbox[1]
      /\ 1 \in DOMAIN setup_inbox
  BY <1>1
<1>3. Tail(setup_inbox) \in Seq(H!Words) /\ \A i \in DOMAIN Tail(setup_inbox) :
                                               i + 1 \in DOMAIN setup_inbox
                                                 /\ Tail(setup_inbox)[i] = setup_inbox[i + 1]
  BY <1>1
<1>4. DEFINE p == CASE Head(setup_inbox) = "complete" -> "finalizing"
                    [] Head(setup_inbox) = "running" -> setup_phase
                    [] OTHER -> Head(setup_inbox)
<1>5. p \in H!Phases
  BY <1>1, <1>2 DEF H!Words, H!Phases
<1>6. /\ H!SetPhase(p) /\ H!Abandons(p, setup_last)
           /\ setup_inbox' = (IF p = setup_phase THEN Tail(setup_inbox) ELSE <<>>)
      /\ UNCHANGED <<H!device, setup_post, setup_poll, H!bounds, H!history>>
  BY DEF H!Message
<1>7. p \in {"finalizing", "rebooting", "error"} \/ p = setup_phase
  BY <1>2 DEF H!Words
<1>8. ASSUME ~setup_failed, ~setup_misled, Unfailed
      PROVE  /\ p # "error" /\ (p = "finalizing" => setup_finished)
             /\ setup_work # "begin" /\ setup_post # "sent" /\ setup_phase # "wizard"
  <2>1. setup_work # "begin" /\ setup_post # "sent" /\ setup_phase # "wizard"
    BY <1>1, <1>8 DEF Unfailed, Waits, Fresh, Silent
  <2>2. Head(setup_inbox) # "error" /\ (Head(setup_inbox) = "complete" => setup_finished)
    BY <1>2, <1>8 DEF Unfailed, EndIsTrue
  <2>3. setup_phase # "error" /\ (setup_phase = "finalizing" => setup_finished)
    BY <1>8 DEF Unfailed, Requested, EndIsTrue
  <2> QED BY <1>2, <2>1, <2>2, <2>3 DEF H!Words
<1> HIDE DEF p
<1>9. /\ setup_phase' = p /\ setup_open' \in BOOLEAN /\ setup_wentDown' \in BOOLEAN
      /\ setup_wentDown' => setup_wentDown
      /\ p = setup_phase => setup_wentDown' = setup_wentDown
  BY <1>1, <1>6 DEF H!SetPhase
<1>10. /\ setup_last' \subseteq LastPolls
       /\ setup_last = {} => setup_last' = {}
       /\ DownIsLast => DownIsLast'
  <2>1. Stay(setup_last', setup_last)
    BY <1>1, <1>6, AbandonsStays
  <2> QED BY <1>6, <1>9, <2>1, StayingIsSafe DEF Stay, H!device
<1>11. setup_inbox' \in Seq(H!Words)
  BY <1>3, <1>6
<1>12. Typed'
  BY <1>5, <1>6, <1>9, <1>10, <1>11
     DEF Typed, H!TypeOK, H!device, H!bounds, H!history, LastPolls
<1>13. ASSUME ~setup_failed, ~setup_misled, Unfailed PROVE Unfailed'
  <2>1. \A i \in DOMAIN setup_inbox' : setup_inbox'[i] # "error"
        /\ (setup_inbox'[i] = "complete" => setup_finished')
    BY <1>3, <1>6, <1>13 DEF H!device, Unfailed, EndIsTrue
  <2>2. EndIsTrue'
    BY <1>5, <1>6, <1>7, <1>8, <1>9, <1>10, <1>13, <2>1 DEF H!device, Unfailed, EndIsTrue
  <2>3. DownIsLast' /\ H!CompleteIsDone' /\ Marked'
    BY <1>6, <1>7, <1>8, <1>9, <1>10, <1>13 DEF H!device, Unfailed, EndIsTrue,
       H!CompleteIsDone, Marked
  <2>4. Requested' /\ Fresh' /\ Waits'
    BY <1>1, <1>6, <1>7, <1>8, <1>9, <1>10, <1>13
       DEF H!device, Unfailed, Requested, Fresh, Waits, Silent
  <2> QED BY <2>2, <2>3, <2>4 DEF Unfailed
<1> QED BY <1>6, <1>12, <1>13 DEF H!history

\* An answer that says "finished" still holds when it is read.
LEMMA PollKeeps ==
  ASSUME H!SetupRunAssumption, SetupInv, H!SendPoll \/ H!ServePoll \/ H!PollAnswered
         \/ H!PollFails
  PROVE  SetupInv'
<1> USE DEF SetupInv
<1>1. setup_poll \in SetupPollType /\ setup_last \subseteq LastPolls /\ setup_phase \in H!Phases
  BY DEF Typed, H!TypeOK, SetupPollType, LastPolls
<1>2. H!NoPoll \in SetupPollType /\ H!NoPoll.at = "none"
  BY DEF H!NoPoll, SetupPollType
<1>3. CASE H!SendPoll
  <2>1. setup_poll' \in SetupPollType /\ setup_poll'.at = "sent"
    BY <1>1, <1>2, <1>3 DEF H!SendPoll, H!NoPoll, SetupPollType
  <2>2. Typed'
    BY <1>3, <2>1 DEF H!SendPoll, Typed, H!TypeOK, H!device, H!sockets, H!bounds,
       H!history, SetupPollType
  <2>3. DownIsLast => DownIsLast'
    BY <1>1, <1>3, <2>1, LeavingIsSafe DEF H!SendPoll, H!device, H!sockets
  <2>4. Unfailed => Unfailed'
    BY <1>1, <1>3, <2>1, <2>3 DEF H!SendPoll, H!device, H!sockets, Unfailed, Requested,
       Fresh, Waits, Silent, Marked, EndIsTrue, H!CompleteIsDone, H!history
  <2> QED BY <1>3, <2>2, <2>4 DEF H!SendPoll, H!history
<1>4. CASE H!ServePoll
  <2>1. setup_poll' \in SetupPollType /\ setup_poll'.at = "answered"
        /\ setup_poll'.fin = setup_finished /\ setup_poll.at = "sent"
    BY <1>1, <1>4 DEF H!ServePoll, H!Status, SetupPollType, Typed, H!TypeOK
  <2>2. Typed'
    BY <1>4, <2>1 DEF H!ServePoll, Typed, H!TypeOK, H!device, H!sockets, H!bounds,
       H!history, SetupPollType
  <2>3. DownIsLast => DownIsLast'
    BY <1>1, <1>4, <2>1, LeavingIsSafe DEF H!ServePoll, H!device, H!sockets
  <2>4. Unfailed => Unfailed'
    BY <1>1, <1>4, <2>1, <2>3 DEF H!ServePoll, H!device, H!sockets, Unfailed, Requested,
       Fresh, Waits, Silent, Marked, EndIsTrue, H!CompleteIsDone, H!history
  <2> QED BY <1>4, <2>2, <2>4 DEF H!ServePoll, H!history
<1>5. ASSUME NEW p \in H!Phases, H!Becomes(p), setup_poll.at # "none", setup_poll' = H!NoPoll,
             setup_blips' \in 0 .. setup_MaxBlips,
             UNCHANGED <<H!device, setup_post, setup_applies, setup_reboots, H!history>>,
             p \in {"running", "rebooting", setup_phase}
               \/ (p = "finalizing" /\ setup_poll.at = "answered" /\ setup_poll.fin)
      PROVE  SetupInv'
  <2>1. Typed'
    BY <1>2, <1>5, BecomesDoes DEF Typed, H!TypeOK, H!device, H!history, LastPolls,
       SetupPollType
  <2>2. ASSUME ~setup_failed, ~setup_misled, Unfailed PROVE Unfailed'
    <3>1. setup_work # "begin" /\ setup_post # "sent" /\ setup_phase # "wizard"
      BY <1>5, <2>2 DEF Unfailed, Waits, Fresh, Silent
    <3>2. p = "finalizing" => setup_finished
      BY <1>5, <2>2 DEF Unfailed, EndIsTrue
    <3>3. EndIsTrue'
      BY <1>2, <1>5, <2>2, <3>2, BecomesDoes, StayingIsSafe DEF H!device, Unfailed, EndIsTrue
    <3>4. DownIsLast' /\ H!CompleteIsDone' /\ Marked'
      BY <1>5, <2>2, BecomesDoes, StayingIsSafe DEF H!device, Unfailed, H!CompleteIsDone, Marked
    <3>5. Requested' /\ Fresh' /\ Waits'
      BY <1>5, <2>2, <3>1, BecomesDoes DEF H!device, Unfailed, Requested, Fresh, Waits
    <3> QED BY <3>3, <3>4, <3>5 DEF Unfailed
  <2> QED BY <1>5, <2>1, <2>2 DEF H!history
<1>6. CASE H!PollAnswered
  <2>1. /\ H!Becomes(H!Told) /\ setup_poll.at # "none" /\ setup_poll' = H!NoPoll
             /\ setup_blips' = setup_blips
        /\ UNCHANGED <<H!device, setup_post, setup_applies, setup_reboots, H!history>>
    BY <1>6 DEF H!PollAnswered, H!bounds
  <2>2. H!Told \in {"running", "rebooting", setup_phase}
        \/ (H!Told = "finalizing" /\ setup_poll.at = "answered" /\ setup_poll.fin)
    BY <1>6 DEF H!PollAnswered, H!Told
  <2>3. H!Told \in H!Phases /\ setup_blips' \in 0 .. setup_MaxBlips
    BY <1>1, <2>1, <2>2 DEF H!Phases, Typed, H!TypeOK
  <2> QED BY <1>5, <2>1, <2>2, <2>3
<1>7. CASE H!PollFails
  <2>1. PICK p \in {"rebooting", setup_phase} : H!Becomes(p)
    BY <1>7 DEF H!PollFails
  <2>2. p \in H!Phases /\ setup_blips' \in 0 .. setup_MaxBlips
    BY <1>1, <1>7, <2>1 DEF H!PollFails, H!Phases, Typed, H!TypeOK, H!SetupRunAssumption
  <2>3. setup_poll.at # "none" /\ setup_poll' = H!NoPoll
        /\ UNCHANGED <<H!device, setup_post, setup_applies, setup_reboots, H!history>>
    BY <1>7 DEF H!PollFails
  <2> QED BY <1>5, <2>1, <2>2, <2>3
<1> QED BY <1>3, <1>4, <1>6, <1>7

\* A poll that fails before the last reboot although the server is up, or while an answer
\* of it is under way, is the one that misleads: without it the polls keep their meaning.
LEMMA LastKeeps ==
  ASSUME H!SetupRunAssumption, SetupInv, H!Finalizing
  PROVE  SetupInv'
<1> USE DEF SetupInv
<1>1. /\ setup_last \subseteq LastPolls /\ setup_phase \in H!Phases /\ setup_wentDown \in BOOLEAN
           /\ setup_up \in BOOLEAN /\ setup_since \in BOOLEAN /\ setup_misled \in BOOLEAN
      /\ setup_open \in BOOLEAN /\ setup_inbox \in Seq(H!Words)
  BY DEF Typed, H!TypeOK, LastPolls
<1>2. ASSUME setup_last' \subseteq LastPolls, setup_wentDown' \in BOOLEAN,
             setup_blips' \in 0 .. setup_MaxBlips, setup_misled' \in BOOLEAN,
             UNCHANGED <<H!device, setup_phase, setup_post, setup_poll, H!sockets,
                         setup_applies, setup_reboots, setup_failed>>
      PROVE  Typed'
  BY <1>2 DEF Typed, H!TypeOK, H!device, H!sockets, LastPolls
<1>3. ASSUME UNCHANGED <<H!device, setup_phase, setup_post, setup_poll, H!sockets>>,
             ~setup_failed, ~setup_misled, Unfailed, DownIsLast',
             setup_phase = "finalizing" \/ setup_last # {}
      PROVE  Unfailed'
  <2>1. setup_finished /\ setup_work # "begin" /\ setup_post # "sent" /\ setup_phase # "wizard"
    BY <1>3 DEF Unfailed, Requested, EndIsTrue, Waits, Fresh, Silent
  <2>2. Requested' /\ Fresh' /\ Waits' /\ Marked'
    BY <1>3, <2>1 DEF H!device, H!sockets, Unfailed, Requested, Fresh, Waits, Marked
  <2>3. EndIsTrue' /\ H!CompleteIsDone'
    BY <1>3, <2>1 DEF H!device, H!sockets, Unfailed, EndIsTrue, H!CompleteIsDone
  <2> QED BY <1>3, <2>2, <2>3 DEF Unfailed
<1>4. CASE H!SendLast
  <2>1. PICK n \in 1 .. setup_MaxPolls : setup_last' = setup_last
             \cup {[n |-> n, at |-> "sent", down |-> setup_wentDown, old |-> 0]}
    BY <1>4 DEF H!SendLast
  <2>2. [n |-> n, at |-> "sent", down |-> setup_wentDown, old |-> 0] \in LastPolls
    BY <1>1 DEF LastPolls
  <2>3. UNCHANGED <<H!device, setup_phase, setup_post, setup_poll, setup_wentDown, H!sockets,
                    H!bounds, H!history>> /\ setup_phase = "finalizing"
    BY <1>4 DEF H!SendLast
  <2>4. Typed'
    BY <1>1, <1>2, <2>1, <2>2, <2>3 DEF H!bounds, H!history, Typed, H!TypeOK
  <2>5. Noticed' => Noticed
    BY <2>1, <2>3 DEF Noticed
  <2>6. \A l \in setup_last' : l.at = "ok" => l \in setup_last
    BY <2>1
  <2>7. DownIsLast => DownIsLast'
    BY <2>3, <2>5, <2>6 DEF DownIsLast, H!device
  <2> QED BY <1>3, <2>3, <2>4, <2>7 DEF H!history, Unfailed
<1>5. ASSUME NEW l \in setup_last, H!ServeLast(l) PROVE SetupInv'
  <2>1. [l EXCEPT !.at = "ok"] \in LastPolls /\ [l EXCEPT !.at = "ok"].down = l.down
    BY <1>1 DEF LastPolls
  <2>2. /\ UNCHANGED <<H!device, setup_phase, setup_post, setup_poll, setup_wentDown,
                       H!sockets, H!bounds, H!history>> /\ setup_up
        /\ setup_last' = (setup_last \ {l}) \cup {[l EXCEPT !.at = "ok"]}
    BY <1>5 DEF H!ServeLast
  <2>3. Typed'
    BY <1>1, <1>2, <2>1, <2>2 DEF H!bounds, H!history, Typed, H!TypeOK
  <2>4. Noticed' => Noticed
    BY <2>1, <2>2 DEF Noticed
  <2>5. DownIsLast => DownIsLast'
    BY <2>2, <2>4 DEF DownIsLast, H!device
  <2> QED BY <1>3, <2>2, <2>3, <2>5 DEF H!history, Unfailed
<1>6. ASSUME NEW l \in setup_last, H!LastAnswered(l) PROVE SetupInv'
  <2>1. PICK p \in {"complete", setup_phase} :
          /\ H!SetPhase(p) /\ H!ClosesInbox(p) /\ H!Abandons(p, setup_last \ {l})
          /\ p # setup_phase => l.down
    BY <1>6 DEF H!LastAnswered, H!SeenDown
  <2>2. l.at = "ok" /\ UNCHANGED <<H!device, setup_post, setup_poll, H!bounds, H!history>>
    BY <1>6 DEF H!LastAnswered
  <2>3. Stay(setup_last', setup_last) /\ setup_last' \subseteq LastPolls
    BY <1>1, <2>1, AbandonsStays DEF Stay
  <2>4. /\ setup_phase' = p /\ p \in H!Phases /\ setup_open' \in BOOLEAN
             /\ setup_wentDown' \in BOOLEAN
        /\ setup_wentDown' => setup_wentDown
    BY <1>1, <2>1 DEF H!SetPhase, H!Phases
  <2>5. setup_inbox' \in Seq(H!Words) /\ (setup_inbox' = setup_inbox
                                          \/ (setup_inbox' = <<>> /\ DOMAIN setup_inbox' = {}))
    BY <1>1, <2>1 DEF H!ClosesInbox
  <2>6. Typed'
    BY <2>2, <2>3, <2>4, <2>5 DEF Typed, H!TypeOK, H!device, H!bounds, H!history, LastPolls
  <2>7. ASSUME ~setup_failed, ~setup_misled, Unfailed PROVE Unfailed'
    <3>1. setup_finished /\ (l.down => setup_since) /\ setup_work # "begin"
          /\ setup_post # "sent" /\ setup_phase # "wizard"
      BY <2>2, <2>7 DEF Unfailed, EndIsTrue, DownIsLast, Noticed, Waits, Fresh, Silent
    <3>2. DownIsLast'
      BY <2>2, <2>3, <2>4, <2>7, StayingIsSafe DEF Unfailed, H!device
    <3>3. EndIsTrue' /\ H!CompleteIsDone' /\ Marked'
      BY <2>1, <2>2, <2>4, <2>5, <2>7, <3>1
         DEF H!device, Unfailed, EndIsTrue, H!CompleteIsDone, Marked
    <3>4. Requested' /\ Fresh' /\ Waits'
      BY <2>1, <2>2, <2>4, <2>5, <2>7, <3>1 DEF H!device, Unfailed, Requested, Fresh, Waits
    <3> QED BY <3>2, <3>3, <3>4 DEF Unfailed
  <2> QED BY <2>2, <2>6, <2>7 DEF H!history
<1>7. ASSUME NEW l \in setup_last, H!LastFails(l) PROVE SetupInv'
  <2>1. /\ setup_wentDown' = (setup_wentDown \/ l.old = 0)
        /\ setup_misled' = (setup_misled \/ (~setup_since
                                  /\ (setup_up \/ \E m \in setup_last : m.at = "ok")))
        /\ setup_last' = {[m EXCEPT !.down = @ \/ m.old = l.old] : m \in setup_last \ {l}}
        /\ UNCHANGED <<H!device, setup_phase, setup_post, setup_poll, H!sockets, setup_applies,
                       setup_reboots, setup_failed>>
    BY <1>7 DEF H!LastFails
  <2>2. ASSUME NEW m \in setup_last, NEW d \in BOOLEAN
        PROVE  [m EXCEPT !.down = d] \in LastPolls /\ [m EXCEPT !.down = d].at = m.at
    BY <1>1 DEF LastPolls
  <2>3. ASSUME NEW m \in setup_last PROVE (m.down \/ m.old = l.old) \in BOOLEAN
    BY <1>1 DEF LastPolls
  <2>4. setup_last' \subseteq LastPolls
    BY <2>1, <2>2, <2>3
  <2>5. \A k \in setup_last' : \E m \in setup_last : k.at = m.at
    BY <2>1, <2>2, <2>3
  <2>6. Typed'
    <3>1. setup_wentDown' \in BOOLEAN /\ setup_misled' \in BOOLEAN
      BY <1>1, <2>1
    <3>2. setup_blips' \in 0 .. setup_MaxBlips
      BY <1>7 DEF H!LastFails, Typed, H!TypeOK, H!SetupRunAssumption
    <3> QED BY <1>2, <2>1, <2>4, <3>1, <3>2
  <2>7. ASSUME ~setup_failed, ~setup_misled', Unfailed PROVE Unfailed'
    <3>1. ~setup_misled /\ (setup_since \/ (~setup_up /\ \A m \in setup_last : m.at # "ok"))
      BY <2>1, <2>7
    <3>2. setup_finished
      BY <1>7, <2>7 DEF Unfailed, EndIsTrue
    <3>3. DownIsLast'
      BY <2>1, <2>5, <3>1, <3>2 DEF DownIsLast, H!device
    <3> QED BY <1>3, <1>7, <2>1, <2>7, <3>1, <3>3
  <2> QED BY <2>1, <2>6, <2>7
<1> QED BY <1>4, <1>5, <1>6, <1>7 DEF H!Finalizing

-----------------------------------------------------------------------------
(* The steps of the server and of the device                               *)

\* What is said reaches the page while its socket is open.
LEMMA BroadcastDoes ==
  ASSUME Typed, NEW word \in H!Words, H!Broadcast(word)
  PROVE  /\ setup_inbox' \in Seq(H!Words)
         /\ \A i \in DOMAIN setup_inbox' : (i \in DOMAIN setup_inbox
                                            /\ setup_inbox'[i] = setup_inbox[i])
                                              \/ setup_inbox'[i] = word
         /\ UNCHANGED <<setup_phase, setup_post, setup_poll, setup_last, setup_wentDown,
                        setup_open>>
<1>1. setup_inbox \in Seq(H!Words)
  BY DEF Typed
<1>2. Append(setup_inbox, word) \in Seq(H!Words)
  BY <1>1
<1>3. \A i \in DOMAIN Append(setup_inbox, word) :
        (i \in DOMAIN setup_inbox /\ Append(setup_inbox, word)[i] = setup_inbox[i])
          \/ Append(setup_inbox, word)[i] = word
  BY <1>1
<1> QED BY <1>1, <1>2, <1>3 DEF H!Broadcast

\* The setup begins and takes the markers of an earlier one back.
LEMMA ServingKeeps ==
  ASSUME SetupInv, H!Serving
  PROVE  SetupInv'
<1> USE DEF SetupInv
<1>1. CASE H!PostServed
  <2>1. Typed'
    <3>1. /\ setup_post' \in {"ok", "busy"} /\ setup_running' \in BOOLEAN
          /\ setup_work' \in {"none", "begin", "script", "boot"}
      BY <1>1 DEF H!PostServed, Typed, H!TypeOK
    <3>2. /\ UNCHANGED <<setup_up, setup_started, setup_finished, setup_dying, setup_since,
                         setup_phase, setup_poll, setup_last, setup_wentDown>>
          /\ UNCHANGED <<H!sockets, H!bounds, H!history>>
      BY <1>1 DEF H!PostServed
    <3> QED BY <3>1, <3>2 DEF Typed, H!TypeOK, H!sockets, H!bounds, H!history
  <2>2. DownIsLast => DownIsLast'
    BY <1>1, LeavingIsSafe DEF H!PostServed, H!sockets
  <2>3. ~setup_failed /\ Unfailed => Unfailed'
    BY <1>1, <2>2 DEF H!PostServed, H!sockets, Unfailed, Requested, Fresh, Waits,
       Silent, Marked, EndIsTrue, H!CompleteIsDone, H!history
  <2> QED BY <1>1, <2>1, <2>3 DEF H!PostServed, H!history
<1>2. CASE H!Begin
  <2>1. /\ "running" \in H!Words /\ H!Broadcast("running")
        /\ UNCHANGED <<setup_up, setup_running, setup_dying, H!bounds, H!history>>
        /\ setup_work = "begin" /\ setup_work' = "script" /\ setup_started' = TRUE
             /\ setup_finished' = FALSE /\ setup_since' = FALSE
    BY <1>2 DEF H!Begin, H!Words
  <2>2. Typed'
    BY <2>1, BroadcastDoes, ZenonT(60) DEF Typed, H!TypeOK, H!bounds, H!history
  <2>3. ASSUME ~setup_failed, ~setup_misled, Unfailed PROVE Unfailed'
    <3>1. Silent /\ setup_phase \in {"applying", "running"} /\ DOMAIN setup_inbox = {}
      BY <2>1, <2>3 DEF Unfailed, Waits, Silent
    <3>2. EndIsTrue'
      BY <2>1, <3>1, BroadcastDoes DEF EndIsTrue, Silent
    <3>3. setup_post # "sent" /\ setup_phase # "wizard" /\ setup_phase # "error"
      BY <2>1, <2>3 DEF Unfailed, Requested, Fresh
    <3>4. Requested' /\ Fresh' /\ Waits' /\ Marked' /\ DownIsLast' /\ H!CompleteIsDone'
      BY <2>1, <2>3, <3>1, <3>3, BroadcastDoes
         DEF Unfailed, Requested, Fresh, Waits, Marked, DownIsLast, Noticed, H!CompleteIsDone, Silent
    <3> QED BY <3>2, <3>4 DEF Unfailed
  <2> QED BY <2>1, <2>2, <2>3 DEF H!history
<1> QED BY <1>1, <1>2 DEF H!Serving

\* rc.local ends: how, is said by the goroutine that started it, if there is one
LEMMA EndsDoes ==
  ASSUME Typed, NEW word \in H!Words, H!Ends(word)
  PROVE  /\ setup_inbox' \in Seq(H!Words)
         /\ \A i \in DOMAIN setup_inbox' : (i \in DOMAIN setup_inbox
                                            /\ setup_inbox'[i] = setup_inbox[i])
                                              \/ setup_inbox'[i] = word
         /\ UNCHANGED <<setup_phase, setup_post, setup_poll, setup_last, setup_wentDown,
                        setup_open>>
         /\ setup_work \in {"script", "boot"} /\ setup_work' = "none" /\ setup_running' = FALSE
              /\ setup_up /\ ~setup_dying
<1>1. CASE setup_work = "script"
  BY <1>1, BroadcastDoes DEF H!Ends
<1>2. CASE setup_work # "script"
  BY <1>2 DEF H!Ends, H!page, Typed
<1> QED BY <1>1, <1>2

\* The marker of the end is set before the reboot, and stays.
LEMMA LastEndKeeps ==
  ASSUME H!SetupRunAssumption, SetupInv, H!Reboots \/ H!Succeeds \/ H!Fails
  PROVE  SetupInv'
<1> USE DEF SetupInv
<1>1. CASE H!Reboots
  <2>1. /\ "rebooting" \in H!Words /\ H!Ends("rebooting") /\ setup_dying' = TRUE
        /\ UNCHANGED <<setup_up, setup_started, setup_finished, setup_since, H!bounds,
                       H!history>>
    BY <1>1 DEF H!Reboots, H!Words
  <2>2. Typed'
    BY <2>1, EndsDoes, ZenonT(60) DEF Typed, H!TypeOK, H!bounds, H!history
  <2>3. ASSUME ~setup_failed, ~setup_misled, Unfailed PROVE Unfailed'
    <3>1. EndIsTrue'
      BY <2>1, <2>3, EndsDoes DEF Unfailed, EndIsTrue
    <3>2. setup_post # "sent" /\ setup_phase # "wizard"
      BY <2>1, <2>3, EndsDoes DEF Unfailed, Fresh
    <3>3. Requested' /\ Fresh' /\ Waits' /\ Marked' /\ DownIsLast' /\ H!CompleteIsDone'
      BY <2>1, <2>3, <3>2, EndsDoes
         DEF Unfailed, Requested, Fresh, Waits, Marked, DownIsLast, Noticed, H!CompleteIsDone
    <3> QED BY <3>1, <3>3 DEF Unfailed
  <2> QED BY <2>1, <2>2, <2>3 DEF H!history
<1>2. CASE H!Succeeds
  <2>1. /\ "complete" \in H!Words /\ H!Ends("complete") /\ setup_dying' = TRUE
        /\ setup_started' = FALSE /\ setup_finished' = TRUE /\ setup_since' = FALSE
        /\ UNCHANGED <<setup_up, H!bounds, H!history>>
    BY <1>2 DEF H!Succeeds, H!Words
  <2>2. Typed'
    BY <2>1, EndsDoes, ZenonT(60) DEF Typed, H!TypeOK, H!bounds, H!history
  <2>3. ASSUME ~setup_failed, ~setup_misled, Unfailed PROVE Unfailed'
    <3>1. ~setup_finished /\ setup_phase # "complete" /\ ~setup_wentDown /\ setup_last = {}
          /\ ~Noticed
      BY <2>1, <2>3, EndsDoes DEF Unfailed, Marked, EndIsTrue, DownIsLast, Noticed
    <3>2. EndIsTrue'
      BY <2>1, <2>3, EndsDoes DEF Unfailed, EndIsTrue
    <3>3. setup_post # "sent" /\ setup_phase # "wizard"
      BY <2>1, <2>3, EndsDoes DEF Unfailed, Fresh
    <3>4. Requested' /\ Fresh' /\ Waits' /\ Marked' /\ DownIsLast' /\ H!CompleteIsDone'
      BY <2>1, <2>3, <3>1, <3>3, EndsDoes
         DEF Unfailed, Requested, Fresh, Waits, Marked, DownIsLast, Noticed, H!CompleteIsDone
    <3> QED BY <3>2, <3>4 DEF Unfailed
  <2> QED BY <2>1, <2>2, <2>3 DEF H!history
<1>3. CASE H!Fails
  <2>1. PICK word \in {"complete", "error"} : H!Ends(word)
    BY <1>3 DEF H!Fails
  <2>2. /\ word \in H!Words /\ setup_failed' = TRUE
        /\ UNCHANGED <<setup_up, setup_started, setup_finished, setup_dying, setup_since,
                       H!bounds, setup_misled>>
    BY <1>3 DEF H!Fails, H!Words
  <2>3. Typed'
    BY <2>1, <2>2, EndsDoes, ZenonT(60) DEF Typed, H!TypeOK, H!bounds, H!history
  <2> QED BY <2>2, <2>3
<1> QED BY <1>1, <1>2, <1>3

\* A server that goes down after the end comes up with the setup finished.
LEMMA DeviceKeeps ==
  ASSUME H!SetupRunAssumption, SetupInv, H!Down \/ H!Up \/ H!PowerCycle
  PROVE  SetupInv'
<1> USE DEF SetupInv
<1>1. CASE H!Down
  <2>1. setup_reboots' \in 0 .. setup_MaxReboots
    BY <1>1 DEF H!Down, Typed, H!TypeOK, H!SetupRunAssumption
  <2>2. Typed'
    <3>1. /\ setup_up' = FALSE /\ setup_dying' = FALSE /\ setup_running' = FALSE
               /\ setup_work' = "none" /\ setup_open' = FALSE
          /\ UNCHANGED <<setup_started, setup_finished, setup_since, setup_phase, setup_post,
                         setup_poll, setup_last, setup_wentDown, setup_inbox>>
          /\ UNCHANGED <<setup_applies, setup_blips, setup_failed, setup_misled>>
      BY <1>1 DEF H!Down, H!history
    <3>2. /\ setup_up' \in BOOLEAN /\ setup_dying' \in BOOLEAN /\ setup_running' \in BOOLEAN
               /\ setup_open' \in BOOLEAN
          /\ setup_work' \in {"none", "begin", "script", "boot"}
      BY <3>1
    <3>3. /\ UNCHANGED <<setup_started, setup_finished, setup_since, setup_phase, setup_post,
                         setup_poll, setup_last, setup_wentDown, setup_inbox>>
          /\ UNCHANGED <<setup_applies, setup_blips, setup_failed, setup_misled>>
      BY <3>1
    <3> QED BY <2>1, <3>2, <3>3 DEF Typed, H!TypeOK
  <2>3. DownIsLast => DownIsLast'
    BY <1>1, LeavingIsSafe DEF H!Down
  <2>4. Unfailed => Unfailed'
    BY <1>1, <2>3 DEF H!Down, Unfailed, Requested, Fresh, Waits, Silent, Marked,
       EndIsTrue, H!CompleteIsDone, H!history
  <2> QED BY <1>1, <2>2, <2>4 DEF H!Down, H!history
<1>2. CASE H!Up
  <2>1. Typed'
    BY <1>2 DEF H!Up, Typed, H!TypeOK, H!page, H!bounds, H!history
  <2>2. Unfailed => Unfailed'
    BY <1>2 DEF H!Up, H!page, Unfailed, Requested, Fresh, Waits, Silent, Marked, EndIsTrue,
       DownIsLast, Noticed, H!CompleteIsDone, Typed, H!TypeOK
  <2> QED BY <1>2, <2>1, <2>2 DEF H!Up, H!history
<1>3. CASE H!PowerCycle
  <2>1. Typed'
    BY <1>3 DEF H!PowerCycle, Typed, H!TypeOK, H!page, H!bounds, H!history
  <2>2. DownIsLast => DownIsLast'
    BY <1>3, LeavingIsSafe DEF H!PowerCycle, H!page
  <2>3. Unfailed => Unfailed'
    BY <1>3, <2>2 DEF H!PowerCycle, H!page, Unfailed, Requested, Fresh, Waits,
       Silent, Marked, EndIsTrue, H!CompleteIsDone, H!history
  <2> QED BY <1>3, <2>1, <2>3 DEF H!PowerCycle, H!history
<1> QED BY <1>1, <1>2, <1>3

LEMMA SetupNext == H!SetupRunAssumption /\ SetupInv /\ [H!Next]_(H!vars) => SetupInv'
<1>1. SetupInv /\ UNCHANGED H!vars => SetupInv'
  BY DEF SetupInv, Typed, H!TypeOK, Unfailed, Requested, Fresh, Waits, Silent, Marked, EndIsTrue,
         DownIsLast, Noticed, H!CompleteIsDone, H!vars, H!device, H!page, H!bounds, H!history
<1> QED
  BY <1>1, SetupApplyKeeps, MessageKeeps, PollKeeps, LastKeeps, ServingKeeps, LastEndKeeps,
     DeviceKeeps
     DEF H!Next, H!Polling

\* The part keeps to its own specification.
LEMMA SetupSpec == Spec => H!Spec
<1>1. Init => H!Init
  BY DEF Init
<1>2. [Next]_vars => [H!Next]_(H!vars)
  BY DEF Next, vars, Alone, setupVars, H!vars, H!device, H!page, H!bounds, H!history
<1> QED BY <1>1, <1>2, PTL DEF Spec, H!Spec

\* Unless a setup failed, or before the last reboot a poll failed without that reboot or
\* with an answer still under way, the wizard says "Setup Complete!" only when the setup
\* has finished and the device has booted since, whichever of the messages of the socket,
\* the answers of polls and the overlapping last checks reaches it first (SetupWizard.tsx).
THEOREM CompleteAtEnd == Spec => []CompleteIsDone
<1>1. H!SetupRunAssumption
  BY WebAssumption DEF WebAssumption
<1>2. SetupInv => CompleteIsDone
  BY DEF SetupInv, Unfailed, CompleteIsDone, H!CompleteIsDone
<1> QED BY <1>1, <1>2, SetupInit, SetupNext, SetupSpec, PTL DEF H!Spec

\* The types of the part
LEMMA SetupKeepsTypes == Spec => []H!TypeOK
<1>1. H!SetupRunAssumption
  BY WebAssumption DEF WebAssumption
<1>2. SetupInv => H!TypeOK
  BY DEF Typed, SetupInv
<1> QED BY <1>1, <1>2, SetupInit, SetupNext, SetupSpec, PTL DEF H!Spec
=============================================================================
