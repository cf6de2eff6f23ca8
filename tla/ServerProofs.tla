---------------------------- MODULE ServerProofs ----------------------------
(*****************************************************************************)
(* Proofs about the parts of the server: the hub, keep-awake, away mode.     *)
(*****************************************************************************)
EXTENDS Web, TLAPS

-----------------------------------------------------------------------------
(*****************************************************************************)
(* The socket and the hub (Push)                                             *)
(*****************************************************************************)

(* A client is in the hub only between its registration and its removal, so a      *)
(* handler that is about to register it brings a channel that was never closed.    *)
Stages == {"none", "register", "read", "unregister", "close", "over"}
Unregistered == \A s \in push_Sockets : push_reader[s] \in {"none", "register"}
  => s \notin push_over
InHub == \A s \in push_hub : push_reader[s] \in {"read", "unregister"}

HubInv ==
  /\ push_reader \in [push_Sockets -> Stages]
  /\ push_hub \subseteq push_Sockets /\ push_over \subseteq push_Sockets
  /\ Unregistered
  /\ InHub
  /\ P!ChannelsOpen

LEMMA HubInit == P!Init => HubInv
  BY DEF P!Init, HubInv, Stages, Unregistered, InHub, P!ChannelsOpen

\* What the browser does, and the writers, leave the hub alone.
LEMMA OthersKeep ==
  ASSUME HubInv, UNCHANGED <<push_hub, push_over, push_reader>>
  PROVE  HubInv'
  BY DEF HubInv, Unregistered, InHub, P!ChannelsOpen

LEMMA HubNext == HubInv /\ [P!Next]_(P!vars) => HubInv'
<1> SUFFICES ASSUME HubInv, [P!Next]_(P!vars) PROVE HubInv'
  OBVIOUS
<1> USE DEF HubInv, Stages, Unregistered, InHub, P!ChannelsOpen
<1>1. CASE P!Subscribe \/ P!Retry \/ P!Reconnect \/ UNCHANGED P!vars
  BY <1>1, OthersKeep DEF P!Subscribe, P!Retry, P!Reconnect, P!vars, P!server
<1>2. ASSUME NEW s \in push_Sockets, P!Opens(s) \/ P!Closes(s) \/ P!Write(s) \/ P!Breaks(s)
             PROVE HubInv'
  BY <1>2, OthersKeep DEF P!Opens, P!Closes, P!Write, P!Breaks, P!server
<1>3. CASE P!Broadcast
  BY <1>3 DEF P!Broadcast, P!DropSlow
<1>4. CASE P!Restart
  <2>1. push_hub' = {} /\ push_over' = {} /\ push_reader' \in [push_Sockets -> Stages]
    BY <1>4 DEF P!Restart
  <2> QED BY <2>1
<1>5. ASSUME NEW s \in push_Sockets, P!Accept(s) PROVE HubInv'
  BY <1>5 DEF P!Accept
<1>6. ASSUME NEW s \in push_Sockets, P!Register(s) PROVE HubInv'
  BY <1>6 DEF P!Register
<1>7. ASSUME NEW s \in push_Sockets, P!ReadFails(s) PROVE HubInv'
  BY <1>7 DEF P!ReadFails
<1>8. ASSUME NEW s \in push_Sockets, P!Unregister(s) PROVE HubInv'
  BY <1>8 DEF P!Unregister
<1>9. ASSUME NEW s \in push_Sockets, P!CloseConn(s) PROVE HubInv'
  BY <1>9 DEF P!CloseConn
<1>10. ASSUME NEW s \in push_Sockets, P!Collect(s) PROVE HubInv'
  BY <1>10 DEF P!Collect
<1> QED BY <1>1, <1>2, <1>3, <1>4, <1>5, <1>6, <1>7, <1>8, <1>9, <1>10 DEF P!Next, P!Goes


-----------------------------------------------------------------------------
(* The types                                                               *)

SocketStates == {"new", "connecting", "open", "closing", "aborting", "lost", "closed"}

LEMMA PushTypesInit == P!PushAssumption /\ P!Init => P!TypeOK
<1> SUFFICES ASSUME P!PushAssumption, P!Init PROVE P!TypeOK
  OBVIOUS
<1>1. 0 \in 0 .. push_MaxFaults /\ 0 \in 0 .. push_MaxCalls /\ 0 \in 0 .. push_Cap
  BY DEF P!PushAssumption
<1> QED BY <1>1 DEF P!Init, P!TypeOK

\* What connect() makes of the sockets.
LEMMA ConnectTypes ==
  ASSUME NEW states \in [push_Sockets -> SocketStates], NEW current \in push_Sockets \cup {0},
         P!ConnectFrom(states, current)
  PROVE  push_sock' \in [push_Sockets -> SocketStates] /\ push_ws' \in push_Sockets \cup {0}
<1>1. CASE current # 0 /\ states[current] = "open"
  BY <1>1 DEF P!ConnectFrom
<1>2. CASE ~(current # 0 /\ states[current] = "open")
  BY <1>2 DEF P!ConnectFrom, SocketStates
<1> QED BY <1>1, <1>2

LEMMA BrowserTypes ==
  ASSUME P!PushAssumption, P!TypeOK, P!Subscribe \/ P!Retry \/ P!Reconnect
  PROVE  P!TypeOK'
<1>1. push_sock \in [push_Sockets -> SocketStates] /\ push_ws \in push_Sockets \cup {0}
  BY DEF P!TypeOK, SocketStates
<1>2. \A r \in push_Sockets : P!Closing(push_sock[r]) \in SocketStates
  BY <1>1 DEF P!Closing, SocketStates
<1>3. (IF push_ws = 0 THEN push_sock ELSE [push_sock EXCEPT ![push_ws] = P!Closing(@)]) \in [push_Sockets -> SocketStates]
  BY <1>1, <1>2
<1>4. push_sock' \in [push_Sockets -> SocketStates] /\ push_ws' \in push_Sockets \cup {0}
  BY <1>1, <1>3, ConnectTypes DEF P!Subscribe, P!Retry, P!Reconnect
<1>5. push_timer' \in BOOLEAN /\ push_ping' \in BOOLEAN /\ UNCHANGED <<push_connected, P!server>>
  BY DEF P!Subscribe, P!Retry, P!Reconnect, P!TypeOK
<1>6. push_faults' = push_faults /\ push_calls' \in 0 .. push_MaxCalls
  <2>1. UNCHANGED P!bounds \/ (P!Called /\ push_calls \in 0 .. push_MaxCalls)
    BY DEF P!Subscribe, P!Retry, P!Reconnect, P!TypeOK
  <2> QED BY <2>1 DEF P!Called, P!bounds, P!TypeOK, P!PushAssumption
<1> QED BY <1>4, <1>5, <1>6 DEF P!TypeOK, SocketStates, P!server

LEMMA SocketTypes ==
  ASSUME P!PushAssumption, P!TypeOK, NEW s \in push_Sockets, P!Goes(s) \/ P!Write(s)
         \/ P!Breaks(s)
  PROVE  P!TypeOK'
<1> USE DEF P!TypeOK, P!browser, P!server, P!bounds
<1>1. CASE P!Opens(s)
  BY <1>1 DEF P!Opens
<1>2. CASE P!Closes(s)
  <2>1. \A r \in push_Sockets : P!Closing(push_sock[r]) \in SocketStates
    BY DEF P!Closing, SocketStates
  <2>2. push_sock' \in [push_Sockets -> SocketStates]
    <3>1. push_sock' = [r \in push_Sockets |-> push_sock'[r]]
      BY <1>2 DEF P!Closes
    <3>2. \A r \in push_Sockets : push_sock'[r] \in {"closed", P!Closing(push_sock[r]),
                                                     push_sock[r]}
      BY <1>2 DEF P!Closes
    <3>3. \A r \in push_Sockets : push_sock'[r] \in SocketStates
      BY <2>1, <3>2 DEF SocketStates
    <3> QED BY <3>1, <3>3
  <2> QED BY <1>2, <2>2 DEF P!Closes, P!ScheduleReconnect, SocketStates
<1>3. CASE P!Accept(s)
  BY <1>3 DEF P!Accept
<1>4. CASE P!Register(s)
  BY <1>4 DEF P!Register
<1>5. CASE P!ReadFails(s)
  BY <1>5 DEF P!ReadFails
<1>6. CASE P!Unregister(s)
  BY <1>6 DEF P!Unregister
<1>7. CASE P!CloseConn(s)
  BY <1>7 DEF P!CloseConn
<1>8. CASE P!Collect(s)
  <2>1. push_queue' \in [push_Sockets -> 0 .. push_Cap]
    BY <1>8 DEF P!Collect, P!PushAssumption
  <2> QED BY <1>8, <2>1 DEF P!Collect
<1>9. CASE P!Write(s)
  <2>1. push_queue' \in [push_Sockets -> 0 .. push_Cap]
    BY <1>9 DEF P!Write, P!PushAssumption
  <2>2. push_writer' \in SUBSET push_Sockets
    BY <1>9 DEF P!Write
  <2> QED BY <1>9, <2>1, <2>2 DEF P!Write
<1>10. CASE P!Breaks(s)
  <2>1. push_faults' \in 0 .. push_MaxFaults /\ push_calls' = push_calls
    BY <1>10 DEF P!Breaks, P!Faulty, P!PushAssumption
  <2> QED BY <1>10, <2>1 DEF P!Breaks
<1> QED BY <1>1, <1>2, <1>3, <1>4, <1>5, <1>6, <1>7, <1>8, <1>9, <1>10 DEF P!Goes

LEMMA PushTypesNext == P!PushAssumption /\ P!TypeOK /\ [P!Next]_(P!vars) => P!TypeOK'
<1> SUFFICES ASSUME P!PushAssumption, P!TypeOK, [P!Next]_(P!vars) PROVE P!TypeOK'
  OBVIOUS
<1>1. CASE P!Broadcast
  <2>1. push_queue' \in [push_Sockets -> 0 .. push_Cap]
    BY <1>1 DEF P!Broadcast, P!TypeOK, P!PushAssumption
  <2>2. push_hub' \in SUBSET push_Sockets /\ push_over' \in SUBSET push_Sockets
    BY <1>1 DEF P!Broadcast, P!DropSlow, P!TypeOK
  <2> QED BY <1>1, <2>1, <2>2 DEF P!Broadcast, P!TypeOK, P!browser, P!bounds
<1>2. CASE P!Restart
  <2>1. push_faults' \in 0 .. push_MaxFaults /\ push_calls' = push_calls
    BY <1>2 DEF P!Restart, P!Faulty, P!TypeOK, P!PushAssumption
  <2>2. push_queue' \in [push_Sockets -> 0 .. push_Cap]
    BY <1>2 DEF P!Restart, P!PushAssumption
  <2>3. push_reader' \in [push_Sockets -> {"none", "register", "read", "unregister", "close",
                                           "over"}]
    BY <1>2 DEF P!Restart
  <2>4. push_sock' \in [push_Sockets -> SocketStates]
    BY <1>2 DEF P!Restart, P!TypeOK, SocketStates
  <2> QED BY <1>2, <2>1, <2>2, <2>3, <2>4 DEF P!Restart, P!TypeOK, SocketStates
<1>3. CASE UNCHANGED P!vars
  BY <1>3 DEF P!vars, P!TypeOK
<1> QED BY <1>1, <1>2, <1>3, BrowserTypes, SocketTypes DEF P!Next

\* The part keeps to its own specification.
LEMMA PushSpec == Spec => P!Spec
<1>1. Init => P!Init
  BY DEF Init
<1>2. [Next]_vars => [P!Next]_(P!vars)
  BY DEF Next, vars, Alone, pushVars, P!vars
<1> QED BY <1>1, <1>2, PTL DEF Spec, P!Spec

\* The hub neither sends on a channel it has closed nor closes one twice, which would end
\* the server: a client that was dropped for being slow is unregistered later by its own
\* reader, and one that registers brings a channel of its own (Run and ServeWs, hub.go).
THEOREM HubSafe == Spec => []ChannelsOpen
<1>1. HubInv => ChannelsOpen
  BY DEF HubInv, ChannelsOpen
<1> QED BY <1>1, HubInit, HubNext, PushSpec, PTL DEF P!Spec

\* The types of the part
LEMMA PushKeepsTypes == Spec => []P!TypeOK
<1>1. P!PushAssumption
  BY WebAssumption DEF WebAssumption
<1> QED BY <1>1, PushTypesInit, PushTypesNext, PushSpec, PTL DEF P!Spec

-----------------------------------------------------------------------------
(*****************************************************************************)
(* The keep-awake manager (KeepAwake)                                        *)
(*****************************************************************************)

(* The part of the types that the refinement needs, and the registration that  *)
(* setState keeps in step with the state.                                      *)
States == {"idle", "pending", "active"}
Registered == ("webui" \in awake_registry) <=> (awake_state # "idle")
KInv == awake_state \in States /\ awake_requests \in Nat /\ Registered

\* setState keeps the registry in step with the state.
LEMMA SetStateRegisters ==
  ASSUME NEW s \in States, K!SetState(s)
  PROVE  awake_state' = s /\ Registered'
  BY DEF K!SetState, Registered, States

LEMMA KInvInit == K!Init => KInv
  BY DEF K!Init, KInv, Registered, States

LEMMA KInvNext == KInv /\ [K!Next]_(K!vars) => KInv'
<1> SUFFICES ASSUME KInv, [K!Next]_(K!vars) PROVE KInv'
  OBVIOUS
<1> USE DEF KInv
<1>1. CASE K!Start
  <2>1. awake_requests' \in Nat
    BY <1>1 DEF K!Start, K!Requested
  <2>2. CASE awake_state # "idle"
    BY <1>1, <2>1, <2>2 DEF K!Start, Registered, States
  <2>3. CASE awake_state = "idle"
    <3>1. \E s \in States : K!SetState(s)
      BY <1>1, <2>3 DEF K!Start, States
    <3> QED BY <2>1, <3>1, SetStateRegisters
  <2> QED BY <2>2, <2>3
<1>2. CASE K!Stop
  BY <1>2, SetStateRegisters DEF K!Stop, K!Requested, States
<1>3. ASSUME NEW t \in awake_Tasks, K!Run(t) PROVE KInv'
  <2>1. CASE K!Begins(t)
    BY <2>1, SetStateRegisters DEF K!Begins, Registered, States
  <2>2. CASE K!Expire(t)
    BY <2>2, SetStateRegisters DEF K!Expire, Registered, States
  <2>3. CASE ~K!Begins(t) /\ ~K!Expire(t)
    BY <1>3, <2>3 DEF K!Run, K!WaitEnter, K!WaitTick, K!Launch, K!Stopped, K!WatchFirst,
       K!WatchEnter,
                      K!WatchTick, K!Rearm, Registered
  <2> QED BY <2>1, <2>2, <2>3
<1>4. CASE K!TimePasses \/ K!WorkBegins \/ K!WorkEnds
  BY <1>4 DEF K!TimePasses, K!WorkBegins, K!WorkEnds, Registered
<1>5. CASE UNCHANGED K!vars
  BY <1>5 DEF K!vars, Registered
<1> QED BY <1>1, <1>2, <1>3, <1>4, <1>5 DEF K!Next

-----------------------------------------------------------------------------
(* A step of the manager is one of the service, or leaves it as it is.     *)

LEMMA StepRefines == KInv /\ KInv' /\ [K!Next]_(K!vars) => [K!Service!SNext]_(K!Service!svars)
<1> SUFFICES ASSUME KInv, KInv', [K!Next]_(K!vars) PROVE [K!Service!SNext]_(K!Service!svars)
  OBVIOUS
<1> USE DEF KInv, Registered, States, K!Service!SNext, K!Service!svars
<1>1. CASE K!Start
  <2>1. CASE awake_state # "idle"
    BY <1>1, <2>1 DEF K!Start
  <2>2. CASE awake_state = "idle"
    <3>1. awake_state' \in {"pending", "active"}
      BY <1>1, <2>2 DEF K!Start, K!SetState
    <3>2. K!Service!Ask
      BY <2>2, <3>1 DEF K!Service!Ask
    <3> QED BY <3>2
  <2> QED BY <2>1, <2>2
<1>2. CASE K!Stop
  BY <1>2 DEF K!Stop, K!SetState, K!Service!End
<1>3. ASSUME NEW t \in awake_Tasks, K!Run(t) PROVE [K!Service!SNext]_(K!Service!svars)
  <2>1. CASE K!Begins(t)
    BY <2>1 DEF K!Begins, K!StillQueued, K!SetState, K!Service!Begin
  <2>2. CASE K!Expire(t)
    BY <2>2 DEF K!Expire, K!Expires, K!SetState, K!Service!End
  <2>3. CASE ~K!Begins(t) /\ ~K!Expire(t)
    BY <1>3, <2>3 DEF K!Run, K!WaitEnter, K!WaitTick, K!Launch, K!Stopped, K!WatchFirst,
       K!WatchEnter,
                      K!WatchTick, K!Rearm
  <2> QED BY <2>1, <2>2, <2>3
<1>4. CASE K!TimePasses \/ K!WorkBegins \/ K!WorkEnds
  BY <1>4 DEF K!TimePasses, K!WorkBegins, K!WorkEnds
<1>5. CASE UNCHANGED K!vars
  BY <1>5 DEF K!vars
<1> QED BY <1>1, <1>2, <1>3, <1>4, <1>5 DEF K!Next

\* Only a request begins a session: a step that leaves "idle" takes one.
LEMMA OnlyRequestsBegin ==
  KInv /\ [K!Next]_(K!vars) => [awake_state = "idle"
                                => awake_state' = "idle"
                                  \/ awake_requests' # awake_requests]_(K!vars)
<1> SUFFICES ASSUME KInv, K!Next, awake_state = "idle", awake_state' # "idle"
                    PROVE awake_requests' # awake_requests
  OBVIOUS
<1> USE DEF KInv
<1>1. CASE K!Start
  BY <1>1 DEF K!Start, K!Requested
<1>2. CASE K!Stop
  BY <1>2 DEF K!Stop, K!Requested
<1>3. ASSUME NEW t \in awake_Tasks, K!Run(t) PROVE FALSE
  BY <1>3 DEF K!Run, K!WaitEnter, K!WaitTick, K!Begins, K!StillQueued, K!Launch, K!Stopped,
     K!WatchFirst,
              K!WatchEnter, K!WatchTick, K!Expire, K!Expires, K!Rearm
<1>4. CASE K!TimePasses \/ K!WorkBegins \/ K!WorkEnds
  BY <1>4 DEF K!TimePasses, K!WorkBegins, K!WorkEnds
<1> QED BY <1>1, <1>2, <1>3, <1>4 DEF K!Next

-----------------------------------------------------------------------------
(* The types                                                               *)

TaskType == [at : K!Places, ch : 0 .. awake_MaxSessions, was : BOOLEAN, active : BOOLEAN]

LEMMA AwakeTypesInit == K!KeepAwakeAssumption /\ K!Init => K!TypeOK
<1> SUFFICES ASSUME K!KeepAwakeAssumption, K!Init PROVE K!TypeOK
  OBVIOUS
<1>1. 0 \in 0 .. awake_MaxSessions /\ 0 \in 0 .. awake_MaxRequests /\ 0 \in 0 .. awake_MaxWork
  BY DEF K!KeepAwakeAssumption
<1>2. awake_task \in [awake_Tasks -> TaskType]
  BY <1>1 DEF K!Init, K!NoTask, TaskType, K!Places
<1> QED BY <1>1, <1>2 DEF K!Init, K!TypeOK, TaskType

LEMMA SetStateTypes ==
  ASSUME K!TypeOK, NEW s \in {"idle", "pending", "active"}, K!SetState(s)
  PROVE  awake_state' \in {"idle", "pending", "active"}
         /\ awake_registry' \in SUBSET {"webui", "processor"}
  BY DEF K!TypeOK, K!SetState

LEMMA CloseStopTypes ==
  ASSUME K!TypeOK, K!CloseStop
  PROVE  awake_closed' \in SUBSET (1 .. awake_MaxSessions)
<1>1. awake_stopCh \in 0 .. awake_MaxSessions /\ awake_closed \in SUBSET (1 .. awake_MaxSessions)
  BY DEF K!TypeOK
<1>2. awake_stopCh # 0 => awake_stopCh \in 1 .. awake_MaxSessions
  BY <1>1
<1> QED BY <1>1, <1>2 DEF K!CloseStop

LEMMA GoesTypes ==
  ASSUME K!TypeOK, NEW t \in awake_Tasks, NEW place \in K!Places, K!Goes(t, place)
  PROVE  awake_task' \in [awake_Tasks -> TaskType]
  BY DEF K!TypeOK, K!Goes, TaskType

LEMMA EndsTypes ==
  ASSUME K!KeepAwakeAssumption, K!TypeOK, NEW t \in awake_Tasks, K!Ends(t)
  PROVE  awake_task' \in [awake_Tasks -> TaskType]
<1>1. K!NoTask \in TaskType
  BY DEF K!NoTask, TaskType, K!Places, K!KeepAwakeAssumption
<1> QED BY <1>1 DEF K!TypeOK, K!Ends, TaskType

LEMMA AwakeRequestTypes ==
  ASSUME K!KeepAwakeAssumption, K!TypeOK, K!Start \/ K!Stop
  PROVE  K!TypeOK'
<1>1. awake_requests' \in 0 .. awake_MaxRequests /\ UNCHANGED <<awake_busy, awake_works>>
  <2>1. K!Requested /\ awake_requests \in 0 .. awake_MaxRequests
        /\ UNCHANGED <<awake_busy, awake_works>>
    BY DEF K!Start, K!Stop, K!env, K!TypeOK
  <2> QED BY <2>1 DEF K!Requested, K!KeepAwakeAssumption
<1>2. CASE K!Start
  <2>1. CASE awake_state # "idle"
    <3>1. awake_due' \in BOOLEAN /\ UNCHANGED <<awake_state, awake_registry, awake_stopCh,
                                                awake_made, awake_closed, awake_task,
                                                  awake_called>>
      BY <1>2, <2>1 DEF K!Start, K!TypeOK
    <3> QED BY <1>1, <3>1 DEF K!TypeOK
  <2>2. CASE awake_state = "idle"
    <3>1. /\ awake_made < awake_MaxSessions /\ K!CloseStop /\ awake_made' = awake_made + 1
               /\ awake_stopCh' = awake_made + 1
          /\ awake_due' = FALSE /\ awake_called' \in {awake_called, "start"}
      BY <1>2, <2>2 DEF K!Start
    <3>2. awake_made' \in 0 .. awake_MaxSessions /\ awake_stopCh' \in 0 .. awake_MaxSessions
      BY <3>1 DEF K!TypeOK, K!KeepAwakeAssumption
    <3>3. \E t \in awake_Tasks, place \in K!Places : K!Goes(t, place)
      BY <1>2, <2>2 DEF K!Start, K!Places
    <3>4. \E s \in {"idle", "pending", "active"} : K!SetState(s)
      BY <1>2, <2>2 DEF K!Start
    <3>5. awake_task' \in [awake_Tasks -> TaskType]
      BY <3>3, GoesTypes
    <3>6. awake_state' \in {"idle", "pending", "active"}
          /\ awake_registry' \in SUBSET {"webui", "processor"}
      BY <3>4, SetStateTypes
    <3> QED BY <1>1, <3>1, <3>2, <3>5, <3>6, CloseStopTypes DEF K!TypeOK, TaskType
  <2> QED BY <2>1, <2>2
<1>3. CASE K!Stop
  <2>1. awake_state' \in {"idle", "pending", "active"}
        /\ awake_registry' \in SUBSET {"webui", "processor"}
    BY <1>3, SetStateTypes DEF K!Stop
  <2>2. /\ awake_stopCh' \in 0 .. awake_MaxSessions /\ awake_due' = FALSE
             /\ awake_called' \in {awake_called, "stop"}
        /\ UNCHANGED <<awake_made, awake_task>>
    BY <1>3 DEF K!Stop, K!KeepAwakeAssumption
  <2>3. awake_closed' \in SUBSET (1 .. awake_MaxSessions)
    BY <1>3, CloseStopTypes DEF K!Stop
  <2> QED BY <1>1, <2>1, <2>2, <2>3 DEF K!TypeOK
<1> QED BY <1>2, <1>3

LEMMA RunTypes ==
  ASSUME K!KeepAwakeAssumption, K!TypeOK, NEW t \in awake_Tasks, K!Run(t)
  PROVE  K!TypeOK'
<1> USE DEF K!env
<1>1. awake_stopCh \in 0 .. awake_MaxSessions /\ awake_busy \in BOOLEAN
      /\ awake_task \in [awake_Tasks -> TaskType]
  BY DEF K!TypeOK, TaskType
<1>2. CASE K!WaitEnter(t) \/ K!WatchEnter(t) \/ K!WatchFirst(t) \/ K!WatchTick(t) \/ K!Rearm(t)
  <2>1. awake_task' \in [awake_Tasks -> TaskType]
    <3>1. CASE K!WaitEnter(t) \/ K!WatchEnter(t)
      BY <1>1, <3>1 DEF K!WaitEnter, K!WatchEnter, TaskType, K!Places
    <3>2. CASE K!WatchFirst(t) \/ K!Rearm(t)
      BY <1>1, <3>2 DEF K!WatchFirst, K!Rearm, TaskType, K!Places
    <3>3. CASE K!WatchTick(t)
      <4>1. PICK p \in K!Places, b \in BOOLEAN : awake_task' = [awake_task EXCEPT ![t].at = p,
            ![t].active = b]
        BY <3>3, Zenon DEF K!WatchTick, K!Places
      <4> QED BY <1>1, <4>1 DEF TaskType
    <3> QED BY <1>2, <3>1, <3>2, <3>3
  <2>2. awake_called' \in {awake_called, "start"}
        /\ UNCHANGED <<awake_state, awake_registry, awake_due, awake_stopCh, awake_made,
                       awake_closed, awake_requests, K!env>>
    BY <1>2 DEF K!WaitEnter, K!WatchEnter, K!WatchFirst, K!WatchTick, K!Rearm
  <2> QED BY <2>1, <2>2 DEF K!TypeOK, TaskType
<1>3. CASE K!WaitTick(t) \/ K!Launch(t)
  <2>1. \E place \in K!Places : K!Goes(t, place)
    BY <1>3 DEF K!WaitTick, K!Launch, K!Places
  <2>2. awake_task' \in [awake_Tasks -> TaskType]
    BY <2>1, GoesTypes
  <2> QED BY <1>3, <2>2 DEF K!WaitTick, K!Launch, K!TypeOK, TaskType
<1>4. CASE K!Stopped(t)
  BY <1>4, EndsTypes DEF K!Stopped, K!TypeOK, TaskType
<1>5. CASE K!Begins(t)
  <2>1. awake_task' \in [awake_Tasks -> TaskType]
    BY <1>5, GoesTypes, EndsTypes DEF K!Begins, K!Places
  <2>2. awake_state' \in {"idle", "pending", "active"}
        /\ awake_registry' \in SUBSET {"webui", "processor"}
        /\ awake_due' \in BOOLEAN
    BY <1>5, SetStateTypes DEF K!Begins, K!TypeOK
  <2> QED BY <1>5, <2>1, <2>2 DEF K!Begins, K!TypeOK, TaskType
<1>6. CASE K!Expire(t)
  <2>1. awake_task' \in [awake_Tasks -> TaskType]
        /\ awake_closed' \in SUBSET (1 .. awake_MaxSessions)
    BY <1>6, EndsTypes, CloseStopTypes DEF K!Expire
  <2>2. awake_state' \in {"idle", "pending", "active"}
        /\ awake_registry' \in SUBSET {"webui", "processor"}
        /\ awake_due' \in BOOLEAN
    BY <1>6, SetStateTypes DEF K!Expire, K!TypeOK
  <2>3. awake_called' \in {"none", "start", "stop"} /\ awake_stopCh' \in 0 .. awake_MaxSessions
    BY <1>6 DEF K!Expire, K!TypeOK, K!KeepAwakeAssumption
  <2> QED BY <1>6, <2>1, <2>2, <2>3 DEF K!Expire, K!TypeOK, TaskType
<1> QED BY <1>2, <1>3, <1>4, <1>5, <1>6 DEF K!Run

LEMMA AwakeTypesNext == K!KeepAwakeAssumption /\ K!TypeOK /\ [K!Next]_(K!vars) => K!TypeOK'
<1> SUFFICES ASSUME K!KeepAwakeAssumption, K!TypeOK, [K!Next]_(K!vars) PROVE K!TypeOK'
  OBVIOUS
<1>1. CASE K!TimePasses
  BY <1>1 DEF K!TimePasses, K!TypeOK, K!env
<1>2. CASE K!WorkBegins
  BY <1>2 DEF K!WorkBegins, K!TypeOK, K!KeepAwakeAssumption
<1>3. CASE K!WorkEnds
  BY <1>3 DEF K!WorkEnds, K!TypeOK
<1>4. CASE UNCHANGED K!vars
  BY <1>4 DEF K!vars, K!TypeOK
<1> QED BY <1>1, <1>2, <1>3, <1>4, AwakeRequestTypes, RunTypes DEF K!Next

\* The part keeps to its own specification.
LEMMA AwakeSpec == Spec => K!Spec
<1>1. Init => K!Init
  BY DEF Init
<1>2. [Next]_vars => [K!Next]_(K!vars)
  BY DEF Next, vars, Alone, awakeVars, K!vars
<1> QED BY <1>1, <1>2, PTL DEF Spec, K!Spec

\* The web interface is on record as wanting the car awake exactly while it has a session,
\* whatever goroutines of earlier sessions are still about (setState, keepawake.go).
THEOREM RegistryKept == Spec => []KInv
  BY KInvInit, KInvNext, AwakeSpec, PTL DEF K!Spec

\* What the run checks on a small instance: the manager is an implementation of the
\* service its clients are written for, and no goroutine left over from a session that
\* was stopped brings it back (waitForIdleThenStart looks at the state again under the
\* lock).
THEOREM Refinement == Spec => ServiceKept
<1>1. K!Init => K!Service!SInit
  BY DEF K!Init, K!Service!SInit
<1> QED
  BY <1>1, RegistryKept, StepRefines, OnlyRequestsBegin, AwakeSpec, PTL
     DEF K!Spec, ServiceKept, K!ServiceKept, K!Service!SSpec

\* The types of the part
LEMMA AwakeKeepsTypes == Spec => []K!TypeOK
<1>1. K!KeepAwakeAssumption
  BY WebAssumption DEF WebAssumption
<1> QED BY <1>1, AwakeTypesInit, AwakeTypesNext, AwakeSpec, PTL DEF K!Spec

-----------------------------------------------------------------------------
(*****************************************************************************)
(* Away mode (AwayMode)                                                      *)
(*****************************************************************************)

-----------------------------------------------------------------------------
(* The flag file                                                           *)

\* While the server runs the file is there exactly during a session; without the server
\* there is no session.  No time that is left is the value that stands for no file.
FlagInv ==
  /\ away_running \in BOOLEAN
  /\ away_state \in {"idle", "active"}
  /\ away_left \in 0 .. away_MaxLeft
  /\ away_file \in 0 .. A!None
  /\ ~away_running => away_state = "idle"
  /\ A!FlagIsSession

LEMMA FlagInit == A!AwayAssumption /\ A!Init => FlagInv
  BY DEF A!AwayAssumption, A!Init, FlagInv, A!FlagIsSession, A!None

LEMMA FlagNext == A!AwayAssumption /\ FlagInv /\ [A!Next]_(A!vars) => FlagInv'
<1> SUFFICES ASSUME A!AwayAssumption, FlagInv, [A!Next]_(A!vars) PROVE FlagInv'
  OBVIOUS
<1> USE DEF FlagInv, A!FlagIsSession, A!AwayAssumption, A!None
<1>1. CASE A!Enable
  <2>1. PICK d \in 1 .. away_MaxLeft : away_left' = d /\ away_file' = d
    BY <1>1 DEF A!Enable
  <2>2. away_state' = "active" /\ UNCHANGED away_running /\ away_running
    BY <1>1 DEF A!Enable
  <2> QED BY <2>1, <2>2
<1>2. CASE A!Disable
  BY <1>2 DEF A!Disable, A!EndSession, A!RemoveFlagFile
<1>3. CASE A!TimePasses \/ A!ClockGoesOn
  BY <1>3 DEF A!TimePasses, A!ClockGoesOn
<1>4. CASE A!Crash
  <2>1. away_running' = FALSE /\ away_state' = "idle" /\ UNCHANGED away_file
    BY <1>4 DEF A!Crash
  <2>2. away_left' = IF away_hasRTC THEN away_left ELSE 0
    BY <1>4 DEF A!Crash
  <2>3. away_left' \in 0 .. away_MaxLeft
    BY <2>2
  <2> QED BY <2>1, <2>3
<1>5. CASE A!Restore
  <2>1. ~away_running /\ away_running' /\ A!Remaining \in 0 .. A!None
    BY <1>5 DEF A!Restore, A!Remaining
  <2>2. CASE away_file = A!None
    BY <1>5, <2>1, <2>2 DEF A!Restore
  <2>3. CASE away_file # A!None /\ A!Remaining = 0
    <3>1. A!RemoveFlagFile /\ UNCHANGED <<away_state, away_left>>
      BY <1>5, <2>3 DEF A!Restore
    <3> QED BY <2>1, <3>1 DEF A!RemoveFlagFile
  <2>4. CASE away_file # A!None /\ A!Remaining > 0
    <3>1. away_state' = "active" /\ away_left' = A!Remaining /\ UNCHANGED away_file
      BY <1>5, <2>4 DEF A!Restore
    <3>2. A!Remaining \in 0 .. away_MaxLeft
      BY <2>4 DEF A!Remaining
    <3> QED BY <2>1, <2>4, <3>1, <3>2
  <2> QED BY <2>1, <2>2, <2>3, <2>4
<1>6. CASE A!RunAP \/ UNCHANGED A!vars
  BY <1>6 DEF A!RunAP, A!vars
<1>7. ASSUME NEW t \in away_Tasks, A!Enter(t) \/ A!Stopped(t) PROVE FlagInv'
  BY <1>7 DEF A!Enter, A!Stopped
<1>8. ASSUME NEW t \in away_Tasks, A!Tick(t) PROVE FlagInv'
  <2>1. away_running /\ UNCHANGED away_running
    BY <1>8 DEF A!Tick
  <2>2. CASE away_state = "active" /\ away_left > 0
    BY <1>8, <2>1, <2>2 DEF A!Tick, A!WriteFlagFile
  <2>3. CASE away_state = "active" /\ ~(away_left > 0)
    <3>1. A!EndSession
      BY <1>8, <2>3 DEF A!Tick
    <3> QED BY <2>1, <3>1 DEF A!EndSession, A!RemoveFlagFile
  <2>4. CASE away_state # "active"
    BY <1>8, <2>1, <2>4 DEF A!Tick
  <2> QED BY <2>2, <2>3, <2>4
<1> QED BY <1>1, <1>2, <1>3, <1>4, <1>5, <1>6, <1>7, <1>8 DEF A!Next

(* A channel is made for a request or for a restart, so their numbers are bounded; a server *)
(* that does not run will make one when it restores its session.                           *)
MadeFor == away_made + (IF away_running THEN 0 ELSE 1) <= away_enables + away_restarts
AwayTyped == A!TypeOK /\ MadeFor

LEMMA AwayTypesInit == A!AwayAssumption /\ A!Init => AwayTyped
<1> SUFFICES ASSUME A!AwayAssumption, A!Init PROVE AwayTyped
  OBVIOUS
<1>1. 0 \in A!Channels /\ 0 \in 0 .. away_MaxEnables /\ 0 \in 0 .. away_MaxRestarts
      /\ 0 \in 0 .. away_MaxLeft
      /\ A!None \in 0 .. A!None
  BY DEF A!AwayAssumption, A!Channels, A!None
<1>2. away_watch \in [away_Tasks -> [at : {"none", "enter", "wait"}, ch : A!Channels]]
  BY <1>1 DEF A!Init, A!NoWatch
<1> QED BY <1>1, <1>2 DEF A!Init, AwayTyped, A!TypeOK, MadeFor

\* What is closed is a channel, and what ends a session keeps to its types.
LEMMA EndTypes ==
  ASSUME A!AwayAssumption, AwayTyped, A!EndSession
  PROVE  /\ away_state' = "idle" /\ away_left' \in 0 .. away_MaxLeft
              /\ away_stopCh' \in A!Channels
         /\ away_closed' \in SUBSET A!Channels /\ away_file' \in 0 .. A!None
              /\ away_ap' \in SUBSET {"start", "stop"}
<1>1. away_closed' \in SUBSET A!Channels
  BY DEF A!EndSession, A!CloseStop, AwayTyped, A!TypeOK
<1>2. 0 \in A!Channels /\ 0 \in 0 .. away_MaxLeft /\ A!None \in 0 .. A!None
  BY DEF A!AwayAssumption, A!Channels, A!None
<1> QED BY <1>1, <1>2 DEF A!EndSession, A!RemoveFlagFile, AwayTyped, A!TypeOK

\* A new watcher, and its channel.
LEMMA WatchedTypes ==
  ASSUME A!AwayAssumption, AwayTyped, A!Watched, away_made + 1 \in A!Channels
  PROVE  /\ away_made' = away_made + 1 /\ away_stopCh' \in A!Channels
         /\ away_watch' \in [away_Tasks -> [at : {"none", "enter", "wait"}, ch : A!Channels]]
<1>1. 0 \in A!Channels
  BY DEF A!AwayAssumption, A!Channels
<1> QED BY <1>1 DEF A!Watched, AwayTyped, A!TypeOK

LEMMA SessionTypes ==
  ASSUME A!AwayAssumption, AwayTyped, A!Enable \/ A!Disable
  PROVE  AwayTyped'
<1> USE DEF AwayTyped
<1>1. away_enables \in 0 .. away_MaxEnables /\ away_restarts \in 0 .. away_MaxRestarts
      /\ away_made \in Nat
      /\ away_MaxEnables \in Nat /\ away_MaxRestarts \in Nat
  BY DEF A!TypeOK, A!AwayAssumption, A!Channels
<1>2. away_enables' = away_enables + 1 /\ away_enables' \in 0 .. away_MaxEnables
      /\ away_running /\ UNCHANGED <<away_hasRTC, away_running, away_restarts>>
  BY <1>1 DEF A!Enable, A!Disable
<1>3. CASE A!Enable
  <2>1. away_left' \in 0 .. away_MaxLeft /\ away_file' \in 0 .. A!None
    BY <1>3 DEF A!Enable, A!None, A!AwayAssumption
  <2>2. CASE away_state = "active"
    <3>1. UNCHANGED <<away_state, away_stopCh, away_made, away_closed, away_watch, away_ap>>
      BY <1>3, <2>2 DEF A!Enable
    <3>2. MadeFor'
      BY <1>1, <1>2, <3>1 DEF MadeFor
    <3> QED BY <1>2, <2>1, <3>1, <3>2 DEF A!TypeOK
  <2>3. CASE away_state # "active"
    <3>1. A!CloseStop /\ away_state' = "active" /\ A!Watched /\ away_ap' = away_ap \cup {"start"}
      BY <1>3, <2>3 DEF A!Enable
    <3>2. away_made + 1 \in A!Channels
      BY <1>1, <1>2 DEF MadeFor, A!Channels
    <3>3. away_made' = away_made + 1 /\ away_stopCh' \in A!Channels
          /\ away_watch' \in [away_Tasks -> [at : {"none", "enter", "wait"}, ch : A!Channels]]
      BY <3>1, <3>2, WatchedTypes
    <3>4. MadeFor'
      BY <1>1, <1>2, <3>3 DEF MadeFor
    <3>5. away_closed' \in SUBSET A!Channels /\ away_ap' \in SUBSET {"start", "stop"}
      BY <3>1 DEF A!CloseStop, A!TypeOK
    <3> QED BY <1>2, <2>1, <3>1, <3>2, <3>3, <3>4, <3>5 DEF A!TypeOK
  <2> QED BY <2>2, <2>3
<1>4. CASE A!Disable
  <2>1. A!EndSession /\ UNCHANGED <<away_made, away_watch>>
    BY <1>4 DEF A!Disable
  <2>2. MadeFor'
    BY <1>1, <1>2, <2>1 DEF MadeFor
  <2> QED BY <1>2, <2>1, <2>2, EndTypes DEF A!TypeOK
<1> QED BY <1>3, <1>4

LEMMA WatcherTypes ==
  ASSUME A!AwayAssumption, AwayTyped, NEW t \in away_Tasks, A!Enter(t) \/ A!Stopped(t)
         \/ A!Tick(t)
  PROVE  AwayTyped'
<1> USE DEF AwayTyped
<1>1. 0 \in A!Channels /\ UNCHANGED <<away_hasRTC, away_running, away_made, away_enables,
                                      away_restarts>>
  BY DEF A!AwayAssumption, A!Channels, A!Enter, A!Stopped, A!Tick
<1>2. MadeFor'
  BY <1>1 DEF MadeFor
<1>3. away_watch' \in [away_Tasks -> [at : {"none", "enter", "wait"}, ch : A!Channels]]
  BY <1>1 DEF A!Enter, A!Stopped, A!Tick, A!NoWatch, A!TypeOK
<1>4. CASE A!Enter(t) \/ A!Stopped(t)
  BY <1>1, <1>2, <1>3, <1>4 DEF A!Enter, A!Stopped, A!TypeOK
<1>5. CASE A!Tick(t)
  <2>1. CASE away_state = "active" /\ away_left > 0
    <3>1. away_file' \in 0 .. A!None /\ UNCHANGED <<away_state, away_left, away_stopCh,
                                                    away_closed, away_ap>>
      BY <1>5, <2>1 DEF A!Tick, A!WriteFlagFile, A!TypeOK, A!None, A!AwayAssumption
    <3> QED BY <1>1, <1>2, <1>3, <3>1 DEF A!TypeOK
  <2>2. CASE away_state = "active" /\ ~(away_left > 0)
    <3>1. A!EndSession
      BY <1>5, <2>2 DEF A!Tick
    <3> QED BY <1>1, <1>2, <1>3, <3>1, EndTypes DEF A!TypeOK
  <2>3. CASE away_state # "active"
    <3>1. UNCHANGED <<away_state, away_left, away_file, away_stopCh, away_closed, away_ap>>
      BY <1>5, <2>3 DEF A!Tick
    <3> QED BY <1>1, <1>2, <1>3, <3>1 DEF A!TypeOK
  <2> QED BY <2>1, <2>2, <2>3
<1> QED BY <1>4, <1>5

\* The server ends and begins again.
LEMMA RestartTypes ==
  ASSUME A!AwayAssumption, AwayTyped, A!Crash \/ A!Restore
  PROVE  AwayTyped'
<1> USE DEF AwayTyped
<1>1. away_enables \in 0 .. away_MaxEnables /\ away_restarts \in 0 .. away_MaxRestarts
      /\ away_made \in Nat
      /\ away_MaxEnables \in Nat /\ away_MaxRestarts \in Nat /\ away_MaxLeft \in Nat
           /\ 0 \in A!Channels
  BY DEF A!TypeOK, A!AwayAssumption, A!Channels
<1>2. CASE A!Crash
  <2>1. /\ away_restarts' = away_restarts + 1 /\ away_restarts' \in 0 .. away_MaxRestarts
             /\ away_running /\ away_running' = FALSE
        /\ UNCHANGED <<away_hasRTC, away_file, away_made, away_enables>>
    BY <1>1, <1>2 DEF A!Crash
  <2>2. MadeFor'
    BY <1>1, <2>1 DEF MadeFor
  <2>3. away_left' \in 0 .. away_MaxLeft
    BY <1>1, <1>2 DEF A!Crash, A!TypeOK
  <2>4. away_watch' \in [away_Tasks -> [at : {"none", "enter", "wait"}, ch : A!Channels]]
    BY <1>1, <1>2 DEF A!Crash, A!NoWatch
  <2> QED BY <1>1, <1>2, <2>1, <2>2, <2>3, <2>4 DEF A!Crash, A!TypeOK
<1>3. CASE A!Restore
  <2>1. ~away_running /\ away_running' = TRUE
        /\ UNCHANGED <<away_hasRTC, away_closed, away_enables, away_restarts>>
    BY <1>3 DEF A!Restore
  <2>2. away_made + 1 \in A!Channels
    BY <1>1, <2>1 DEF MadeFor, A!Channels
  <2>3. CASE away_file = A!None
    <3>1. UNCHANGED <<away_state, away_left, away_file, away_stopCh, away_made, away_watch,
                      away_ap>>
      BY <1>3, <2>3 DEF A!Restore
    <3>2. MadeFor'
      BY <1>1, <2>1, <3>1 DEF MadeFor
    <3> QED BY <2>1, <3>1, <3>2 DEF A!TypeOK
  <2>4. CASE away_file # A!None /\ A!Remaining = 0
    <3>1. A!RemoveFlagFile /\ away_ap' = away_ap \cup {"stop"}
          /\ UNCHANGED <<away_state, away_left, away_stopCh, away_made, away_watch>>
      BY <1>3, <2>4 DEF A!Restore
    <3>2. MadeFor'
      BY <1>1, <2>1, <3>1 DEF MadeFor
    <3>3. away_file' \in 0 .. A!None
      BY <1>1, <3>1 DEF A!RemoveFlagFile, A!None
    <3> QED BY <2>1, <3>1, <3>2, <3>3 DEF A!TypeOK
  <2>5. CASE away_file # A!None /\ A!Remaining > 0
    <3>1. away_state' = "active" /\ away_left' = A!Remaining /\ A!Watched
          /\ away_ap' = away_ap \cup {"start"} /\ UNCHANGED away_file
      BY <1>3, <2>5 DEF A!Restore
    <3>2. away_left' \in 0 .. away_MaxLeft
      BY <1>1, <2>5, <3>1 DEF A!Remaining, A!TypeOK, A!None
    <3>3. away_made' = away_made + 1 /\ away_stopCh' \in A!Channels
          /\ away_watch' \in [away_Tasks -> [at : {"none", "enter", "wait"}, ch : A!Channels]]
      BY <2>2, <3>1, WatchedTypes
    <3>4. MadeFor'
      BY <1>1, <2>1, <3>3 DEF MadeFor
    <3> QED BY <2>1, <2>2, <3>1, <3>2, <3>3, <3>4 DEF A!TypeOK
  <2>6. A!Remaining \in Nat
    BY <1>1 DEF A!Remaining, A!TypeOK, A!None
  <2> QED BY <2>3, <2>4, <2>5, <2>6
<1> QED BY <1>2, <1>3

LEMMA AwayTypesNext == A!AwayAssumption /\ AwayTyped /\ [A!Next]_(A!vars) => AwayTyped'
<1> SUFFICES ASSUME A!AwayAssumption, AwayTyped, [A!Next]_(A!vars) PROVE AwayTyped'
  OBVIOUS
<1> USE DEF AwayTyped
<1>1. CASE A!TimePasses \/ A!ClockGoesOn
  <2>1. away_left' \in 0 .. away_MaxLeft
    BY <1>1 DEF A!TimePasses, A!ClockGoesOn, A!TypeOK, A!AwayAssumption
  <2>2. UNCHANGED <<away_hasRTC, away_running, away_state, away_file, away_stopCh, away_made,
                    away_closed, away_watch, away_ap, away_enables, away_restarts>>
    BY <1>1 DEF A!TimePasses, A!ClockGoesOn
  <2> QED BY <2>1, <2>2 DEF A!TypeOK, MadeFor
<1>2. CASE A!RunAP
  BY <1>2 DEF A!RunAP, A!TypeOK, MadeFor
<1>3. CASE UNCHANGED A!vars
  BY <1>3 DEF A!vars, A!TypeOK, MadeFor
<1> QED BY <1>1, <1>2, <1>3, SessionTypes, WatcherTypes, RestartTypes DEF A!Next

\* The part keeps to its own specification.
LEMMA AwaySpec == Spec => A!Spec
<1>1. Init => A!Init
  BY DEF Init
<1>2. [Next]_vars => [A!Next]_(A!vars)
  BY DEF Next, vars, Alone, awayVars, A!vars
<1> QED BY <1>1, <1>2, PTL DEF Spec, A!Spec

\* archiveloop, which goes by the flag file, leaves the radio alone exactly while a session
\* is under way, however watchers of earlier sessions, requests and restarts interleave
\* (Enable, Disable, RestoreFromFile and expirationWatcher, awaymode.go).
THEOREM FlagKept == Spec => []FlagIsSession
<1>1. A!AwayAssumption
  BY WebAssumption DEF WebAssumption
<1>2. FlagInv => FlagIsSession
  BY DEF FlagInv, FlagIsSession
<1> QED BY <1>1, <1>2, FlagInit, FlagNext, AwaySpec, PTL DEF A!Spec

\* The types of the part
LEMMA AwayKeepsTypes == Spec => []A!TypeOK
<1>1. A!AwayAssumption
  BY WebAssumption DEF WebAssumption
<1>2. AwayTyped => A!TypeOK
  BY DEF AwayTyped
<1> QED BY <1>1, <1>2, AwayTypesInit, AwayTypesNext, AwaySpec, PTL DEF A!Spec
=============================================================================
