------------------------------ MODULE AwayMode ------------------------------
(***************************************************************************)
(* Away mode on the server (server/api/awaymode.go): the access point gets *)
(* the radio for a time the user chose.  The state lives in memory and in  *)
(* a flag file that survives a restart; a watcher writes the time that is  *)
(* left every 30 seconds for devices without a clock.  startAP and stopAP  *)
(* run as goroutines that nothing orders.  The file system is assumed to   *)
(* take every write and removal: a failed one is only logged.              *)
(***************************************************************************)
EXTENDS Naturals, FiniteSets

CONSTANTS MaxLeft,      \* the longest time the user can choose, in half minutes
          MaxEnables,   \* bound on requests
          MaxRestarts,  \* bound on restarts
          Tasks         \* watchers that may exist at once

AwayAssumption ==
  /\ MaxLeft \in Nat \ {0} /\ MaxEnables \in Nat /\ MaxRestarts \in Nat

VARIABLES
  hasRTC,     \* the device has a clock
  running,    \* the server runs
  state,      \* m.state
  left,       \* time until m.expiresAt
  file,       \* time left by the flag file, or None
  stopCh,     \* m.stopCh: the number of its session, or 0 for nil
  made, closed,
  watch,      \* the watchers: "none", "enter" (before the select) or "wait", and the channel
  ap,         \* the calls of startAP and stopAP that have not run yet
  enables, restarts

vars == <<hasRTC, running, state, left, file, stopCh, made, closed, watch, ap, enables, restarts>>

None == MaxLeft + 1
NoWatch == [at |-> "none", ch |-> 0]
Channels == 0 .. MaxEnables + MaxRestarts

TypeOK ==
  /\ hasRTC \in BOOLEAN /\ running \in BOOLEAN /\ state \in {"idle", "active"}
  /\ left \in 0 .. MaxLeft /\ file \in 0 .. None
  /\ stopCh \in Channels /\ made \in Channels /\ closed \in SUBSET Channels
  /\ watch \in [Tasks -> [at : {"none", "enter", "wait"}, ch : Channels]]
  /\ ap \in SUBSET {"start", "stop"}
  /\ enables \in 0 .. MaxEnables /\ restarts \in 0 .. MaxRestarts

CloseStop == closed' = closed \cup ({stopCh} \ {0})

\* a new channel, and a watcher of its own
Watched ==
  /\ made' = made + 1 /\ stopCh' = made + 1
  /\ \E t \in Tasks : /\ watch[t].at = "none"
                      /\ watch' = [watch EXCEPT ![t] = [at |-> "enter", ch |-> 0]]

\* Enable, once the profile of the access point was found
Enable ==
  /\ running /\ enables < MaxEnables /\ enables' = enables + 1
  /\ \E d \in 1 .. MaxLeft : left' = d /\ file' = d
  /\ IF state = "active"
     THEN UNCHANGED <<state, stopCh, made, closed, watch, ap>>
     ELSE CloseStop /\ state' = "active" /\ Watched /\ ap' = ap \cup {"start"}
  /\ UNCHANGED <<hasRTC, running, restarts>>

\* Mutant: the flag file outlives the session.
KeepsFile == file' = file

RemoveFlagFile == file' = None

\* what Disable and the watcher do when a session ends
EndSession ==
  /\ state' = "idle" /\ left' = 0
  /\ CloseStop /\ stopCh' = 0
  /\ RemoveFlagFile
  /\ ap' = ap \cup {"stop"}

Disable ==
  /\ running /\ enables < MaxEnables /\ enables' = enables + 1
  /\ state = "active"
  /\ EndSession
  /\ UNCHANGED <<hasRTC, running, made, watch, restarts>>

-----------------------------------------------------------------------------
(* expirationWatcher                                                       *)

\* the select reads m.stopCh without the lock
Enter(t) ==
  /\ running /\ watch[t].at = "enter"
  /\ watch' = [watch EXCEPT ![t] = [at |-> "wait", ch |-> stopCh]]
  /\ UNCHANGED <<hasRTC, running, state, left, file, stopCh, made, closed, ap, enables, restarts>>

Stopped(t) ==
  /\ running /\ watch[t].at = "wait" /\ watch[t].ch \in closed
  /\ watch' = [watch EXCEPT ![t] = NoWatch]
  /\ UNCHANGED <<hasRTC, running, state, left, file, stopCh, made, closed, ap, enables, restarts>>

WriteFlagFile == file' = left

Tick(t) ==
  /\ running /\ watch[t].at = "wait"
  /\ IF state = "active" /\ left > 0
     THEN /\ WriteFlagFile
          /\ watch' = [watch EXCEPT ![t].at = "enter"]
          /\ UNCHANGED <<state, left, stopCh, closed, ap>>
     ELSE /\ watch' = [watch EXCEPT ![t] = NoWatch]
          /\ IF state = "active" THEN EndSession
             ELSE UNCHANGED <<state, left, file, stopCh, closed, ap>>
  /\ UNCHANGED <<hasRTC, running, made, enables, restarts>>

-----------------------------------------------------------------------------
(* Time, restarts, the access point                                        *)

\* half a minute passes for the session
TimePasses ==
  /\ running /\ state = "active" /\ left > 0
  /\ left' = left - 1
  /\ UNCHANGED <<hasRTC, running, state, file, stopCh, made, closed, watch, ap, enables, restarts>>

\* the process ends; the file and the access point stay
Crash ==
  /\ running /\ restarts < MaxRestarts /\ restarts' = restarts + 1
  /\ running' = FALSE
  /\ state' = "idle" /\ stopCh' = 0 /\ closed' = {}
  /\ left' = IF hasRTC THEN left ELSE 0
  /\ watch' = [t \in Tasks |-> NoWatch] /\ ap' = {}
  /\ UNCHANGED <<hasRTC, file, made, enables>>

\* Without the server running the clock of a device that has one goes on.
ClockGoesOn ==
  /\ ~running /\ left > 0
  /\ left' = left - 1
  /\ UNCHANGED <<hasRTC, running, state, file, stopCh, made, closed, watch, ap, enables, restarts>>

\* what is left by the clock, or by the file
Remaining == IF hasRTC THEN left ELSE file

\* RestoreFromFile
Restore ==
  /\ ~running
  /\ running' = TRUE
  /\ CASE file = None ->
            UNCHANGED <<state, left, file, stopCh, made, watch, ap>>
       [] file # None /\ Remaining = 0 ->
            /\ RemoveFlagFile /\ ap' = ap \cup {"stop"}
            /\ UNCHANGED <<state, left, stopCh, made, watch>>
       [] file # None /\ Remaining > 0 ->
            /\ state' = "active" /\ left' = Remaining
            /\ Watched /\ ap' = ap \cup {"start"}
            /\ UNCHANGED file
  /\ UNCHANGED <<hasRTC, closed, enables, restarts>>

RunAP ==
  /\ running
  /\ \E call \in ap : ap' = ap \ {call}
  /\ UNCHANGED <<hasRTC, running, state, left, file, stopCh, made, closed, watch, enables, restarts>>

-----------------------------------------------------------------------------
Init ==
  /\ hasRTC \in BOOLEAN
  /\ running = TRUE /\ state = "idle" /\ left = 0 /\ file = None
  /\ stopCh = 0 /\ made = 0 /\ closed = {}
  /\ watch = [t \in Tasks |-> NoWatch] /\ ap = {}
  /\ enables = 0 /\ restarts = 0

Next ==
  \/ Enable \/ Disable \/ TimePasses \/ Crash \/ ClockGoesOn \/ Restore \/ RunAP
  \/ \E t \in Tasks : Enter(t) \/ Stopped(t) \/ Tick(t)

Spec == Init /\ [][Next]_vars

\* Tickers tick, time passes, a server that crashed is started again.
Fairness ==
  /\ WF_vars(TimePasses) /\ WF_vars(Restore)
  /\ \A t \in Tasks : WF_vars(Enter(t) \/ Stopped(t) \/ Tick(t))
FairSpec == Spec /\ Fairness

-----------------------------------------------------------------------------
(* Properties                                                              *)

\* archiveloop leaves the radio alone while the flag file exists: it exists exactly
\* while a session is active, restarts included.
FlagIsSession == running => ((file # None) <=> (state = "active"))

\* Away mode ends, although the server may restart on the way and has to go by the
\* time it wrote: the Wi-Fi of the home is not given up for good.
AwayEnds == state = "active" ~> (running /\ state = "idle" /\ file = None)
=============================================================================
