-------------------------------- MODULE Push --------------------------------
(***************************************************************************)
(* Messages pushed to the browser: the client in web/src/lib/ws.ts, which  *)
(* opens a socket again when one closed, and the hub of the server         *)
(* (server/ws/hub.go), with a reader and a writer goroutine per socket.    *)
(* connect() replaces a socket that is still connecting; the handlers of   *)
(* every socket, the replaced ones too, act on the same client.            *)
(***************************************************************************)
EXTENDS Naturals, FiniteSets

CONSTANTS
  Sockets,     \* numbers of the sockets there can be at once
  Cap,         \* capacity of a send channel
  MaxFaults,   \* bound on connections that fail and restarts of the server
  MaxCalls     \* bound on calls of subscribe and retry

PushAssumption == Sockets \subseteq Nat \ {0} /\ Cap \in Nat
                           /\ MaxFaults \in Nat /\ MaxCalls \in Nat

VARIABLES
  sock,        \* readyState of each socket; "aborting" was closed while connecting
  ws,          \* this.ws, 0 for null
  timer,       \* reconnectTimer is set
  ping,        \* pingTimer is set
  connected,   \* _connected
  hub,         \* h.clients
  queue,       \* messages in each send channel
  over,        \* the send channels that are closed
  reader,      \* the handler of each socket: what it does next
  writer,      \* the sockets whose writer runs
  faults, calls

vars == <<sock, ws, timer, ping, connected, hub, queue, over, reader, writer, faults, calls>>
browser == <<sock, ws, timer, ping, connected>>
server == <<hub, queue, over, reader, writer>>
bounds == <<faults, calls>>

TypeOK ==
  /\ sock \in [Sockets -> {"new", "connecting", "open", "closing", "aborting", "lost", "closed"}]
  /\ ws \in Sockets \cup {0}
  /\ timer \in BOOLEAN /\ ping \in BOOLEAN /\ connected \in BOOLEAN
  /\ hub \in SUBSET Sockets /\ over \in SUBSET Sockets /\ writer \in SUBSET Sockets
  /\ queue \in [Sockets -> 0 .. Cap]
  /\ reader \in [Sockets -> {"none", "register", "read", "unregister", "close", "over"}]
  /\ faults \in 0 .. MaxFaults /\ calls \in 0 .. MaxCalls

Faulty == faults < MaxFaults /\ faults' = faults + 1 /\ UNCHANGED calls
Called == calls < MaxCalls /\ calls' = calls + 1 /\ UNCHANGED faults

-----------------------------------------------------------------------------
(* The browser                                                             *)

IsOpen(s) == s # 0 /\ sock[s] = "open"

\* close() on a socket: what becomes of its state
Closing(state) == CASE state = "open" -> "closing"
                    [] state = "connecting" -> "aborting"
                    [] OTHER -> state

\* connect(): from the states given, unless the current socket is open
ConnectFrom(states, current) ==
  IF current # 0 /\ states[current] = "open"
  THEN sock' = states /\ ws' = current
  ELSE \E s \in Sockets :
         /\ states[s] = "new" /\ \A r \in Sockets : r < s => states[r] # "new"
         /\ sock' = [states EXCEPT ![s] = "connecting"] /\ ws' = s

\* subscribe() of a page, and the effect of the connection provider
Subscribe ==
  /\ Called
  /\ ConnectFrom(sock, ws)
  /\ UNCHANGED <<timer, ping, connected, server>>

\* reconnect(), the button "Retry"
Retry ==
  /\ Called
  /\ ping' = FALSE /\ timer' = FALSE
  /\ ConnectFrom(IF ws = 0 THEN sock ELSE [sock EXCEPT ![ws] = Closing(@)], 0)
  /\ UNCHANGED <<connected, server>>

\* onopen
Opens(s) ==
  /\ sock[s] = "connecting" /\ reader[s] # "none"
  /\ sock' = [sock EXCEPT ![s] = "open"]
  /\ connected' = TRUE /\ ping' = TRUE
  /\ UNCHANGED <<ws, timer, server, bounds>>

\* Mutant: only a connection that was there is made again.
OnlyLost == timer' = (timer \/ connected)

ScheduleReconnect == timer' = TRUE

\* onclose, of whichever socket; a socket that failed has onerror called before,
\* which closes the socket that is current now
Closes(s) ==
  /\ sock[s] \in {"closing", "aborting", "lost"}
  /\ sock' = [r \in Sockets |->
       CASE r = s -> "closed"
         [] r = ws /\ r # s /\ sock[s] # "closing" -> Closing(sock[r])
         [] OTHER -> sock[r]]
  /\ ping' = FALSE /\ connected' = FALSE /\ ScheduleReconnect
  /\ UNCHANGED <<ws, server, bounds>>

\* three seconds later; by then the browser has reported every socket that failed
Reconnect ==
  /\ timer
  /\ \A s \in Sockets : sock[s] \notin {"aborting", "lost"}
  /\ timer' = FALSE
  /\ ConnectFrom(sock, ws)
  /\ UNCHANGED <<ping, connected, server, bounds>>

-----------------------------------------------------------------------------
(* The server                                                              *)

\* the handshake of ServeWs: the handler runs
Accept(s) ==
  /\ sock[s] = "connecting" /\ reader[s] = "none"
  /\ reader' = [reader EXCEPT ![s] = "register"]
  /\ UNCHANGED <<browser, hub, queue, over, writer, bounds>>

\* case client := <-h.register; the handler goes on to start the writer
Register(s) ==
  /\ reader[s] = "register"
  /\ hub' = hub \cup {s}
  /\ writer' = writer \cup {s}
  /\ reader' = [reader EXCEPT ![s] = "read"]
  /\ UNCHANGED <<browser, queue, over, bounds>>

\* The browser sends pings on the current socket while the ping timer is set; the
\* read deadline passes on any other.
Pinged(s) == ping /\ ws = s /\ sock[s] = "open"

\* Read fails: the peer is gone, or 60 seconds passed; close(done) ends the writer
ReadFails(s) ==
  /\ reader[s] = "read" /\ ~Pinged(s) /\ sock[s] # "connecting"
  /\ reader' = [reader EXCEPT ![s] = "unregister"]
  /\ writer' = writer \ {s}
  /\ UNCHANGED <<browser, hub, queue, over, bounds>>

\* case client := <-h.unregister
Unregister(s) ==
  /\ reader[s] = "unregister"
  /\ IF s \in hub THEN hub' = hub \ {s} /\ over' = over \cup {s}
     ELSE UNCHANGED <<hub, over>>
  /\ reader' = [reader EXCEPT ![s] = "close"]
  /\ UNCHANGED <<browser, queue, writer, bounds>>

\* conn.Close()
CloseConn(s) ==
  /\ reader[s] = "close"
  /\ reader' = [reader EXCEPT ![s] = "over"]
  /\ sock' = [sock EXCEPT ![s] = IF @ \in {"open", "connecting"} THEN "closing" ELSE @]
  /\ UNCHANGED <<ws, timer, ping, connected, hub, queue, over, writer, bounds>>

\* Mutant: a slow client stays in the hub after its channel was closed.
KeepsSlow(slow) == hub' = hub /\ over' = over \cup slow

DropSlow(slow) == hub' = hub \ slow /\ over' = over \cup slow

\* case message := <-h.broadcast: to every client, but one whose channel is full is
\* dropped
Broadcast ==
  /\ hub # {}
  /\ DropSlow({s \in hub : queue[s] = Cap})
  /\ queue' = [s \in Sockets |-> IF s \in hub /\ queue[s] < Cap THEN queue[s] + 1 ELSE queue[s]]
  /\ UNCHANGED <<browser, reader, writer, bounds>>

\* the writer takes a message, or finds the channel closed; a write may fail
Write(s) ==
  /\ s \in writer
  /\ \/ queue[s] > 0 /\ queue' = [queue EXCEPT ![s] = @ - 1]
        /\ writer' \in {writer, writer \ {s}}
     \/ queue[s] = 0 /\ s \in over /\ writer' = writer \ {s} /\ UNCHANGED queue
  /\ UNCHANGED <<browser, hub, over, reader, bounds>>

\* What is left of a socket that both sides are done with is collected.
Collect(s) ==
  /\ sock[s] = "closed" /\ reader[s] \in {"none", "over"} /\ s \notin writer
  /\ sock' = [sock EXCEPT ![s] = "new"]
  /\ ws' = IF ws = s THEN 0 ELSE ws
  /\ queue' = [queue EXCEPT ![s] = 0] /\ over' = over \ {s}
  /\ reader' = [reader EXCEPT ![s] = "none"]
  /\ UNCHANGED <<timer, ping, connected, hub, writer, bounds>>

-----------------------------------------------------------------------------
(* Faults                                                                  *)

\* a connection breaks, or cannot be made
Breaks(s) ==
  /\ Faulty
  /\ sock[s] \in {"connecting", "open"}
  /\ sock' = [sock EXCEPT ![s] = "lost"]
  /\ UNCHANGED <<ws, timer, ping, connected, server>>

\* the server is started anew
Restart ==
  /\ Faulty
  /\ hub' = {} /\ over' = {} /\ writer' = {}
  /\ queue' = [s \in Sockets |-> 0]
  /\ reader' = [s \in Sockets |-> IF reader[s] = "none" THEN "none" ELSE "over"]
  /\ sock' = [s \in Sockets |-> IF reader[s] # "none" /\ sock[s] \in {"connecting", "open"}
                                THEN "lost" ELSE sock[s]]
  /\ UNCHANGED <<ws, timer, ping, connected>>

-----------------------------------------------------------------------------
Init ==
  /\ sock = [s \in Sockets |-> "new"] /\ ws = 0
  /\ timer = FALSE /\ ping = FALSE /\ connected = FALSE
  /\ hub = {} /\ over = {} /\ writer = {}
  /\ queue = [s \in Sockets |-> 0] /\ reader = [s \in Sockets |-> "none"]
  /\ faults = 0 /\ calls = 0

Goes(s) ==
  \/ Opens(s) \/ Closes(s) \/ Accept(s) \/ Register(s) \/ ReadFails(s) \/ Unregister(s)
  \/ CloseConn(s) \/ Collect(s)

Next ==
  \/ Subscribe \/ Retry \/ Reconnect \/ Broadcast \/ Restart
  \/ \E s \in Sockets : Goes(s) \/ Write(s) \/ Breaks(s)

Spec == Init /\ [][Next]_vars

\* Timers fire, events are delivered, handlers and goroutines go on.
Fairness ==
  /\ WF_vars(Reconnect)
  /\ \A s \in Sockets : WF_vars(Goes(s)) /\ WF_vars(Write(s))
FairSpec == Spec /\ Fairness

-----------------------------------------------------------------------------
(* Properties                                                              *)

\* The hub never sends on a channel that is closed, nor closes one twice, which
\* would end the whole server: a channel in the map of clients is open, and one
\* that is about to be unregistered was closed at most once.
ChannelsOpen == hub \cap over = {}

\* A client that lost its connection has one again, however many sockets were
\* replaced, dropped or timed out meanwhile.
Reconnects == calls > 0 /\ ~connected ~> connected
=============================================================================
