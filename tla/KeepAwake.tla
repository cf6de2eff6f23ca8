------------------------------ MODULE KeepAwake ------------------------------
(***************************************************************************)
(* The keep-awake manager of the web server (server/api/keepawake.go).     *)
(* Requests and goroutines take its mutex in turn; a goroutine also waits  *)
(* on a channel that it reads from the manager, without the mutex, each    *)
(* time its loop comes round, and acts on what it read before it locked.   *)
(***************************************************************************)
EXTENDS Naturals, FiniteSets

CONSTANTS
  MaxSessions,   \* bound on sessions, each with a stop channel of its own
  MaxRequests,   \* bound on requests
  MaxWork,       \* bound on the times the system becomes busy
  Tasks          \* goroutines that may exist at once

KeepAwakeAssumption ==
  MaxSessions \in Nat /\ MaxRequests \in Nat /\ MaxWork \in Nat

VARIABLES
  state,      \* m.state
  registry,   \* who wants keep-awake; the flag file exists while it is not empty
  due,        \* expiresAt has passed
  stopCh,     \* m.stopCh: the number of the session it was made for, or 0 for nil
  made,       \* how many channels have been made
  closed,     \* the channels that are closed
  task,       \* the goroutines of the manager
  busy,       \* isBusy: the archive, the drive processor or the migration
  called,     \* the script that was started last
  requests, works

vars == <<state, registry, due, stopCh, made, closed, task, busy, called, requests, works>>
env == <<busy, works>>

NoTask == [at |-> "none", ch |-> 0, was |-> FALSE, active |-> FALSE]
Places == {"none", "waitEnter", "wait", "begin", "launch",
           "first", "watchEnter", "watch", "expire", "rearm"}

TypeOK ==
  /\ state \in {"idle", "pending", "active"}
  /\ registry \in SUBSET {"webui", "processor"}
  /\ due \in BOOLEAN /\ busy \in BOOLEAN
  /\ stopCh \in 0 .. MaxSessions /\ made \in 0 .. MaxSessions
  /\ closed \in SUBSET (1 .. MaxSessions)
  /\ task \in [Tasks -> [at : Places, ch : 0 .. MaxSessions, was : BOOLEAN, active : BOOLEAN]]
  /\ called \in {"none", "start", "stop"}
  /\ requests \in 0 .. MaxRequests /\ works \in 0 .. MaxWork

\* setState, with its registration
SetState(s) ==
  /\ state' = s
  /\ registry' = IF s = "idle" THEN registry \ {"webui"} ELSE registry \cup {"webui"}

CloseStop == closed' = closed \cup ({stopCh} \ {0})
Goes(t, place) == task' = [task EXCEPT ![t].at = place]
Ends(t) == task' = [task EXCEPT ![t] = NoTask]
Requested == requests < MaxRequests /\ requests' = requests + 1

-----------------------------------------------------------------------------
(* Requests                                                                *)

\* Start; and Heartbeat, which extends a session or starts one
Start ==
  /\ Requested
  /\ CASE state = "active" ->
            due' = FALSE /\ UNCHANGED <<state, registry, stopCh, made, closed, task, called>>
       [] state = "pending" ->
            UNCHANGED <<state, registry, due, stopCh, made, closed, task, called>>
       [] state = "idle" ->
            /\ made < MaxSessions
            /\ CloseStop /\ made' = made + 1 /\ stopCh' = made + 1
            /\ due' = FALSE
            /\ \E t \in Tasks :
                 /\ task[t].at = "none"
                 /\ Goes(t, IF busy THEN "waitEnter" ELSE "first")
            /\ SetState(IF busy THEN "pending" ELSE "active")
            /\ called' = IF busy THEN called ELSE "start"
  /\ UNCHANGED env

\* Stop
Stop ==
  /\ Requested
  /\ CloseStop /\ stopCh' = 0
  /\ SetState("idle")
  /\ due' = FALSE
  /\ called' = IF state = "active" /\ ~busy THEN "stop" ELSE called
  /\ UNCHANGED <<made, task, env>>

-----------------------------------------------------------------------------
(* waitForIdleThenStart                                                    *)

\* the select reads m.stopCh
WaitEnter(t) ==
  /\ task[t].at = "waitEnter"
  /\ task' = [task EXCEPT ![t].at = "wait", ![t].ch = stopCh]
  /\ UNCHANGED <<state, registry, due, stopCh, made, closed, called, requests, env>>

\* the channel of either loop is closed
Stopped(t) ==
  /\ task[t].at \in {"wait", "watch"} /\ task[t].ch \in closed
  /\ Ends(t)
  /\ UNCHANGED <<state, registry, due, stopCh, made, closed, called, requests, env>>

WaitTick(t) ==
  /\ task[t].at = "wait"
  /\ Goes(t, IF busy THEN "waitEnter" ELSE "begin")
  /\ UNCHANGED <<state, registry, due, stopCh, made, closed, called, requests, env>>

\* Mutant: the state is not looked at again under the lock.
GoesAhead == TRUE

StillQueued == state = "pending"

Begins(t) ==
  /\ task[t].at = "begin"
  /\ IF StillQueued
     THEN SetState("active") /\ due' = FALSE /\ Goes(t, "launch")
     ELSE Ends(t) /\ UNCHANGED <<state, registry, due>>
  /\ UNCHANGED <<stopCh, made, closed, called, requests, env>>

\* after the lock was released: awake_start, and the watcher in its place
Launch(t) ==
  /\ task[t].at = "launch"
  /\ called' = "start"
  /\ Goes(t, "first")
  /\ UNCHANGED <<state, registry, due, stopCh, made, closed, requests, env>>

-----------------------------------------------------------------------------
(* expirationWatcher                                                       *)

WatchFirst(t) ==
  /\ task[t].at = "first"
  /\ task' = [task EXCEPT ![t].at = "watchEnter", ![t].was = busy]
  /\ UNCHANGED <<state, registry, due, stopCh, made, closed, called, requests, env>>

WatchEnter(t) ==
  /\ task[t].at = "watchEnter"
  /\ task' = [task EXCEPT ![t].at = "watch", ![t].ch = stopCh]
  /\ UNCHANGED <<state, registry, due, stopCh, made, closed, called, requests, env>>

\* what it reads under the read lock
WatchTick(t) ==
  /\ task[t].at = "watch"
  /\ task' = [task EXCEPT ![t].at = IF state = "active" /\ due THEN "expire" ELSE "rearm",
                          ![t].active = (state = "active")]
  /\ UNCHANGED <<state, registry, due, stopCh, made, closed, called, requests, env>>

\* Mutant: a session that expires while the system is busy is left as it is.
ExpiresIdle == state = "active" /\ ~busy

Expires == state = "active"

\* "if expired": the lock is taken anew, the stop channel is closed in any case
Expire(t) ==
  /\ task[t].at = "expire"
  /\ IF Expires
     THEN /\ SetState("idle") /\ due' = FALSE
          /\ called' = IF busy THEN called ELSE "stop"
     ELSE UNCHANGED <<state, registry, due, called>>
  /\ CloseStop /\ stopCh' = 0
  /\ Ends(t)
  /\ UNCHANGED <<made, requests, env>>

\* awake_start again when the archive has ended its own
Rearm(t) ==
  /\ task[t].at = "rearm"
  /\ called' = IF task[t].was /\ ~busy /\ task[t].active THEN "start" ELSE called
  /\ task' = [task EXCEPT ![t].at = "watchEnter", ![t].was = busy]
  /\ UNCHANGED <<state, registry, due, stopCh, made, closed, requests, env>>

-----------------------------------------------------------------------------
(* Around the manager                                                      *)

TimePasses ==
  /\ state = "active" /\ ~due
  /\ due' = TRUE
  /\ UNCHANGED <<state, registry, stopCh, made, closed, task, called, requests, env>>

\* the drive processor registers and releases a want of its own, the archive none
WorkBegins ==
  /\ ~busy /\ works < MaxWork
  /\ busy' = TRUE /\ works' = works + 1
  /\ registry' \in {registry, registry \cup {"processor"}}
  /\ UNCHANGED <<state, due, stopCh, made, closed, task, called, requests>>

WorkEnds ==
  /\ busy
  /\ busy' = FALSE
  /\ registry' = registry \ {"processor"}
  /\ UNCHANGED <<state, due, stopCh, made, closed, task, called, requests, works>>

-----------------------------------------------------------------------------
Init ==
  /\ state = "idle" /\ registry = {} /\ due = FALSE
  /\ stopCh = 0 /\ made = 0 /\ closed = {}
  /\ task = [t \in Tasks |-> NoTask]
  /\ busy = FALSE /\ called = "none" /\ requests = 0 /\ works = 0

Run(t) ==
  \/ WaitEnter(t) \/ WaitTick(t) \/ Begins(t) \/ Launch(t) \/ Stopped(t)
  \/ WatchFirst(t) \/ WatchEnter(t) \/ WatchTick(t) \/ Expire(t) \/ Rearm(t)

Next ==
  \/ Start \/ Stop
  \/ \E t \in Tasks : Run(t)
  \/ TimePasses \/ WorkBegins \/ WorkEnds

Spec == Init /\ [][Next]_vars

\* Goroutines run, tickers tick, time passes, and what keeps the system busy ends.
Fairness == (\A t \in Tasks : WF_vars(Run(t))) /\ WF_vars(TimePasses) /\ WF_vars(WorkEnds)
FairSpec == Spec /\ Fairness

-----------------------------------------------------------------------------
(* Properties                                                              *)

\* The manager keeps the promise that the web interface is written for: "webui" is
\* on record exactly while there is a session, and only a request begins one: no
\* goroutine left over from a session that was stopped brings it back.
Service == INSTANCE KeepAwakeService
             WITH session <- state, wanted <- ("webui" \in registry)
ServiceKept ==
  /\ Service!SSpec
  /\ [][state = "idle" => state' = "idle" \/ requests' # requests]_vars

\* An active session ends when its time is over or earlier: as long as one is active a
\* goroutine is left that sees to it.  This says nothing of a session that is queued:
\* the stale expiry of an earlier session may close the channel of the goroutine that
\* waits for the work to end (keepawake.go:360-363), and nothing is left to begin it.
ActiveEnds == state = "active" ~> state = "idle"
=============================================================================
