---------------------------- MODULE CamDiskProofs ----------------------------
(***************************************************************************)
(* Proofs about module CamDisk, for every set of goroutines and of lock    *)
(* sounds and for every bound: type correctness, that camDiskMu lets one   *)
(* goroutine at a time into the mount of the image, and that archiveloop   *)
(* alone never has the image mounted while the car has it, unless the      *)
(* script that unbinds the gadget or an umount has failed.                 *)
(***************************************************************************)
EXTENDS CamDisk, TLAPS

(***************************************************************************)
(* Type correctness.                                                       *)
(***************************************************************************)

\* Each call of connect_usb_drives_to_host returns to a stage of archiveloop.
LEMMA StageTypes == AfterConnect => pc' \in LoopStages /\ ret' \in Returns
BY DEF AfterConnect, LoopStages, Connecting, Waiting, Returns, Call

\* Another request or fault that the bound admits is within the bound.
LEMMA CountTypes ==
  ASSUME NEW max \in Nat, NEW n \in 0 .. max, n < max
  PROVE  n + 1 \in 0 .. max
OBVIOUS

\* The ways a goroutine's record changes.
LEMMA JobTypes ==
  ASSUME TypeOK, NEW w \in Web
  PROVE  /\ NoJob \in Job
         /\ web[w] \in Job
         /\ \A s \in Stages : Goes(w, s) => web' \in [Web -> Job]
         /\ Ends(w) => web' \in [Web -> Job]
         /\ \A j \in Job : web' = [web EXCEPT ![w] = j] => web' \in [Web -> Job]
<1>1. NoJob \in Job
  BY DEF NoJob, Job, Stages, Sound
<1>2. web \in [Web -> Job] /\ web[w] \in Job
  BY DEF TypeOK
<1>3. \A s \in Stages : [web[w] EXCEPT !.stage = s] \in Job
  BY <1>2 DEF Job
<1> QED BY <1>1, <1>2, <1>3 DEF Goes, Ends

\* A script that may fail keeps within the bound on faults, and leaves the gadget
\* in one of its states.
LEMMA ScriptTypes ==
  ASSUME TypeOK, NEW fails, Failing(fails)
  PROVE  /\ faults' \in 0 .. MaxFaults
         /\ Releases(fails) => /\ gadget' \in {"absent", "half", "bound"}
                               /\ stuck' \in BOOLEAN
         /\ Prepares(fails) => gadget' \in {"absent", "half", "bound"}
BY ConstantsAssumption DEF TypeOK, Failing, Releases, Prepares

\* Every step of archiveloop preserves the types.
LEMMA TypeLoop ==
  ASSUME TypeOK, Loop \/ WaitReachable \/ WaitUnreachable
  PROVE  TypeOK'
<1> USE DEF TypeOK, server, chime
<1>1. ASSUME NEW s, NEW f \in LoopStages, NEW n \in LoopStages, Down(s, f, n) PROVE TypeOK'
  BY <1>1, ScriptTypes DEF Down, At
<1>2. ASSUME NEW s, NEW n \in LoopStages, Work(s, n) PROVE TypeOK'
  BY <1>2 DEF Work, At
<1>3. ASSUME NEW s, NEW n \in LoopStages, NEW e \in LoopStages, Mount(s, n, e) PROVE TypeOK'
  BY <1>3, ScriptTypes DEF Mount, At
<1>4. ASSUME NEW s, NEW n \in LoopStages, Unmount(s, n) PROVE TypeOK'
  BY <1>4, ScriptTypes DEF Unmount, At
<1> USE DEF LoopStages, Cleaning, Connecting, Waiting
<1>5. CASE Boot
  BY <1>5 DEF Boot, Call, Returns
<1>6. CASE CleanCamMount
  BY <1>6, <1>1, <1>2, <1>3, <1>4 DEF CleanCamMount
<1>7. CASE Snapshot
  BY <1>7 DEF Snapshot, Call, At, Returns
<1>8. CASE ConnectToHost
  <2>1. CASE Randomize
    BY <2>1 DEF Randomize, At, Sound, Picks
  <2>2. CASE CopyOut
    BY <2>2 DEF CopyOut, At
  <2>3. CASE Enable
    <3>1. PICK fails \in BOOLEAN : Failing(fails) /\ Prepares(fails)
      BY <2>3 DEF Enable
    <3>2. pc' \in LoopStages /\ ret' \in Returns
      BY <2>3, StageTypes DEF Enable
    <3> QED BY <2>3, <3>1, <3>2, ScriptTypes DEF Enable
  <2> QED BY <1>8, <1>1, <1>2, <1>3, <1>4, <2>1, <2>2, <2>3 DEF ConnectToHost
<1>9. CASE Archive
  BY <1>9 DEF Archive, Call, Returns
<1>10. CASE Music
  BY <1>10, <1>1, <1>2 DEF Music
<1>11. CASE Check
  BY <1>11, <1>1, <1>2 DEF Check, At, Call, Returns
<1>12. CASE WaitReachable \/ WaitUnreachable
  BY <1>12 DEF WaitReachable, WaitUnreachable, At
<1> QED BY <1>5, <1>6, <1>7, <1>8, <1>9, <1>10, <1>11, <1>12 DEF Loop

\* Every step of a goroutine preserves the types.
LEMMA TypeWeb ==
  ASSUME TypeOK, NEW w \in Web, Asks(w) \/ WebStep(w)
  PROVE  TypeOK'
<1> USE DEF TypeOK, asked, chime
<1>1. web[w] \in Job
  BY JobTypes
<1>2. ASSUME NEW op \in {"activate", "clear"}, Request(w, op) PROVE TypeOK'
  <2>1. PICK c \in Sound :
          /\ staged' = c
          /\ web' = [web EXCEPT ![w] = [op |-> op, stage |-> "name", chime |-> c, was |-> FALSE]]
    BY <1>2 DEF Request, Sound
  <2>2. [op |-> op, stage |-> "name", chime |-> c, was |-> FALSE] \in Job
    BY <2>1 DEF Job, Stages
  <2>3. web' \in [Web -> Job]
    BY <2>1, <2>2
  <2>4. changes' \in 0 .. MaxChanges
    BY <1>2, ConstantsAssumption DEF Request
  <2> QED BY <1>2, <2>1, <2>3, <2>4 DEF Request
<1>3. CASE Toggle(w)
  <2>1. \A s \in Stages, c \in Sound : [NoJob EXCEPT !.stage = s, !.chime = c] \in Job
    BY DEF NoJob, Job
  <2>2. \A s \in Stages : [NoJob EXCEPT !.stage = s] \in Job
    BY DEF NoJob, Job, Sound
  <2>3. web' \in [Web -> Job] /\ staged' \in Sound
    <3>1. CASE web' = [web EXCEPT ![w] = [NoJob EXCEPT !.stage = "down"]] /\ UNCHANGED staged
      BY <3>1, <2>2, JobTypes DEF Stages
    <3>2. CASE web' = [web EXCEPT ![w] = [NoJob EXCEPT !.stage = "lock"]] /\ UNCHANGED staged
      BY <3>2, <2>2, JobTypes DEF Stages
    <3>3. ASSUME NEW c \in Picks, staged' = c,
                 web' = [web EXCEPT ![w] = [NoJob EXCEPT !.stage = "name", !.chime = c]]
          PROVE  web' \in [Web -> Job] /\ staged' \in Sound
      <4>1. c \in Sound
        BY DEF Picks, Sound
      <4>2. [NoJob EXCEPT !.stage = "name", !.chime = c] \in Job
        BY <4>1, <2>1 DEF Stages
      <4> QED BY <3>3, <4>1, <4>2, JobTypes
    <3> QED BY <1>3, <3>1, <3>2, <3>3 DEF Toggle
  <2>4. toggles' \in 0 .. MaxToggles
    <3>1. toggles < MaxToggles /\ toggles' = toggles + 1
      BY <1>3 DEF Toggle
    <3> QED BY <3>1, CountTypes, ConstantsAssumption
  <2> QED BY <1>3, <2>3, <2>4 DEF Toggle
<1>4. CASE Name(w)
  <2>1. web' \in [Web -> Job]
    BY <1>4, JobTypes DEF Name, Stages
  <2> QED BY <1>4, <1>1, <2>1 DEF Name, Job
<1>5. CASE Lock(w)
  <2>1. \A b \in BOOLEAN, s \in Stages : [web[w] EXCEPT !.was = b, !.stage = s] \in Job
    BY <1>1 DEF Job
  <2>2. web' \in [Web -> Job]
    BY <1>5, <2>1 DEF Lock, Stages
  <2> QED BY <1>5, <2>2 DEF Lock, TakesMutex
<1>6. CASE WebDown(w)
  <2>1. web' \in [Web -> Job]
    BY <1>6, JobTypes DEF WebDown, Stages
  <2> QED BY <1>6, <2>1, ScriptTypes DEF WebDown
<1>7. CASE WebMount(w)
  <2>1. Leave(w) \in Stages
    BY DEF Leave, Stages
  <2>2. \A s \in Stages, c \in Sound : [web[w] EXCEPT !.stage = s, !.chime = c] \in Job
    BY <1>1 DEF Job
  <2>3. CASE Goes(w, Leave(w)) /\ UNCHANGED <<mounted, faults>>
    BY <1>7, <2>1, <2>3, JobTypes DEF WebMount
  <2>4. CASE \E fails \in BOOLEAN :
               /\ Failing(fails)
               /\ mounted' = ~fails
               /\ web' = [web EXCEPT ![w].stage = IF fails THEN Leave(w) ELSE "write",
                                     ![w].chime = IF web[w].op = "clear" THEN None ELSE staged]
    <3>1. PICK fails \in BOOLEAN :
               /\ Failing(fails)
               /\ mounted' = ~fails
               /\ web' = [web EXCEPT ![w].stage = IF fails THEN Leave(w) ELSE "write",
                                     ![w].chime = IF web[w].op = "clear" THEN None ELSE staged]
      BY <2>4
    <3>2. web' \in [Web -> Job]
      BY <2>1, <2>2, <3>1 DEF Stages, Sound
    <3> QED BY <1>7, <3>1, <3>2, ScriptTypes DEF WebMount
  <2> QED BY <1>7, <2>3, <2>4 DEF WebMount
<1>8. CASE Write(w)
  <2>1. web' \in [Web -> Job]
    BY <1>8, JobTypes DEF Write, Stages
  <2> QED BY <1>8, <1>1, <2>1 DEF Write, Job
<1>9. CASE WebUnmount(w)
  <2>1. web' \in [Web -> Job]
    BY <1>9, JobTypes DEF WebUnmount, Stages, Leave
  <2>2. /\ faults' \in 0 .. MaxFaults
        /\ mounted' \in BOOLEAN /\ stuck' \in BOOLEAN
    BY <1>9, ScriptTypes DEF WebUnmount
  <2> QED BY <1>9, <2>1, <2>2 DEF WebUnmount
<1>10. CASE Unlock(w)
  <2>1. web' \in [Web -> Job]
    BY <1>10, JobTypes DEF Unlock, Stages
  <2> QED BY <1>10, <2>1 DEF Unlock
<1>11. CASE WebUp(w)
  <2>1. web' \in [Web -> Job]
    BY <1>11, JobTypes DEF WebUp
  <2> QED BY <1>11, <2>1, ScriptTypes DEF WebUp
<1> QED BY <1>2, <1>3, <1>4, <1>5, <1>6, <1>7, <1>8, <1>9, <1>10, <1>11 DEF Asks, WebStep

\* At the start, and after a power loss, no goroutine is at work.
LEMMA EmptyTypes == [w \in Web |-> NoJob] \in [Web -> Job]
<1>1. NoJob \in Job
  BY DEF NoJob, Job, Stages, Sound
<1> QED BY <1>1

LEMMA TypeStep == TypeOK /\ [Next]_vars => TypeOK'
<1> SUFFICES ASSUME TypeOK, [Next]_vars PROVE TypeOK'
  OBVIOUS
<1>1. CASE ServiceRestart
  <2>1. faults' \in 0 .. MaxFaults
    BY <1>1, CountTypes, ConstantsAssumption DEF ServiceRestart, TypeOK
  <2>2. pc' \in LoopStages /\ ret' \in Returns
    BY <1>1 DEF ServiceRestart, Call, LoopStages, Returns
  <2> QED BY <1>1, <2>1, <2>2 DEF ServiceRestart, TypeOK, server, chime
<1>2. CASE PowerLoss
  <2>1. faults' \in 0 .. MaxFaults
    BY <1>2, CountTypes, ConstantsAssumption DEF PowerLoss, TypeOK
  <2>2. pc' \in LoopStages /\ ret' \in Returns
    BY <1>2 DEF PowerLoss, Call, LoopStages, Returns
  <2>3. web' \in [Web -> Job]
    BY <1>2, EmptyTypes DEF PowerLoss
  <2> QED BY <1>2, <2>1, <2>2, <2>3 DEF PowerLoss, TypeOK, asked, chime
<1>3. CASE UNCHANGED vars
  BY <1>3 DEF vars, TypeOK
<1> QED BY <1>1, <1>2, <1>3, TypeLoop, TypeWeb DEF Next

\* Every variable keeps its type, whatever archiveloop, the goroutines and the
\* faults do.
THEOREM TypeCorrect == Spec => []TypeOK
<1>1. Init => TypeOK
  <2> SUFFICES ASSUME Init PROVE TypeOK
    OBVIOUS
  <2>1. web \in [Web -> Job]
    BY EmptyTypes DEF Init
  <2>2. changes \in 0 .. MaxChanges /\ toggles \in 0 .. MaxToggles /\ faults \in 0 .. MaxFaults
    BY ConstantsAssumption DEF Init
  <2>3. pc \in LoopStages /\ ret \in Returns
    BY DEF Init, LoopStages, Returns
  <2> QED BY <2>1, <2>2, <2>3 DEF Init, TypeOK, Sound
<1> QED BY <1>1, TypeStep, PTL DEF Spec

(***************************************************************************)
(* The mutex.                                                              *)
(***************************************************************************)

\* archiveloop knows nothing of the mutex and of the goroutines.
LEMMA LoopKeeps ==
  ASSUME Loop \/ WaitReachable \/ WaitUnreachable
  PROVE  UNCHANGED <<mu, web>>
BY DEF Loop, Boot, CleanCamMount, Snapshot, ConnectToHost, Archive, Music, Check,
       WaitReachable, WaitUnreachable, Down, Work, Mount, Unmount, Randomize, CopyOut,
       Enable, server

\* Goroutine w is between Lock and Unlock of camDiskMu.
Inside(w) ==
  \/ web[w].stage \in {"copy", "write", "umount", "unlock"}
  \/ web[w].stage \in {"down", "up"} /\ web[w].op # "toggle"

\* The goroutine between Lock and Unlock is the one that holds the mutex.
MutexHeld == \A w \in Web : Inside(w) => mu = w

\* Only toggleDrives gives the mutex back before it sets up the gadget.
OnlyToggleUnlocks == \A w \in Web : web[w].stage = "unlock" => web[w].op = "toggle"

LEMMA UnlockStep == TypeOK /\ OnlyToggleUnlocks /\ [Next]_vars => OnlyToggleUnlocks'
<1> SUFFICES ASSUME TypeOK, OnlyToggleUnlocks, [Next]_vars PROVE OnlyToggleUnlocks'
  OBVIOUS
<1> USE DEF OnlyToggleUnlocks
<1>1. ASSUME NEW w \in Web, Asks(w) \/ WebStep(w) PROVE OnlyToggleUnlocks'
  <2>1. web \in [Web -> Job] /\ web[w] \in Job
    BY DEF TypeOK
  <2>2. \A v \in Web \ {w} : web'[v] = web[v]
    BY <1>1, <2>1 DEF Asks, Request, Toggle, WebStep, Name, Lock, WebDown, WebMount, Write,
      WebUnmount, Unlock, WebUp, Goes, Ends
  <2>3. web'[w].stage = "unlock" => web'[w].op = "toggle"
    <3>1. ASSUME NEW op, Request(w, op) PROVE web'[w].stage # "unlock"
      BY <2>1, <3>1 DEF Request
    <3>2. CASE Toggle(w)
      BY <2>1, <3>2 DEF Toggle, NoJob
    <3>3. CASE Name(w) \/ Write(w) \/ Unlock(w)
      BY <2>1, <3>3 DEF Name, Write, Unlock, Goes, Job
    <3>4. CASE Lock(w)
      BY <2>1, <3>4 DEF Lock, Job
    <3>5. CASE WebDown(w) \/ WebUp(w)
      BY <2>1, <3>5 DEF WebDown, WebUp, Goes, Ends, NoJob, Job
    <3>6. Leave(w) = "unlock" => web[w].op = "toggle"
      BY DEF Leave
    <3>7. CASE WebMount(w)
      <4>1. CASE Goes(w, Leave(w))
        BY <2>1, <3>6, <4>1 DEF Goes, Job
      <4>2. ASSUME NEW fails, NEW c,
                   web' = [web EXCEPT ![w].stage = IF fails THEN Leave(w) ELSE "write",
                                      ![w].chime = c]
            PROVE  web'[w].stage = "unlock" => web'[w].op = "toggle"
        BY <2>1, <3>6, <4>2 DEF Job
      <4> QED BY <3>7, <4>1, <4>2 DEF WebMount
    <3>8. CASE WebUnmount(w)
      BY <2>1, <3>6, <3>8 DEF WebUnmount, Goes, Job
    <3> QED BY <1>1, <3>1, <3>2, <3>3, <3>4, <3>5, <3>7, <3>8 DEF Asks, WebStep
  <2> QED BY <2>2, <2>3
<1>2. CASE Loop \/ WaitReachable \/ WaitUnreachable
  BY <1>2, LoopKeeps
<1>3. CASE ServiceRestart
  BY <1>3 DEF ServiceRestart, server
<1>4. CASE PowerLoss
  BY <1>4 DEF PowerLoss, NoJob
<1>5. CASE UNCHANGED vars
  BY <1>5 DEF vars
<1> QED BY <1>1, <1>2, <1>3, <1>4, <1>5 DEF Next

\* A goroutine takes the mutex when nobody has it, and gives it back when it
\* leaves the critical section.
LEMMA MutexWeb ==
  ASSUME TypeOK, MutexHeld, OnlyToggleUnlocks, NEW w \in Web, Asks(w) \/ WebStep(w)
  PROVE  MutexHeld'
<1> SUFFICES ASSUME NEW v \in Web, Inside(v)' PROVE mu' = v
  BY DEF MutexHeld
<1> USE DEF MutexHeld, Inside
<1>1. web \in [Web -> Job] /\ "free" \notin Web /\ web[w] \in Job /\ web[v] \in Job
  BY ConstantsAssumption DEF TypeOK
<1>2. ASSUME v # w, web'[v] = web[v] PROVE mu = v
  BY <1>2
<1>3. ASSUME NEW op, Request(w, op) PROVE mu' = v
  BY <1>1, <1>3 DEF Request
<1>4. CASE Toggle(w)
  BY <1>1, <1>4, ZenonT(60) DEF Toggle, NoJob
<1>5. CASE Name(w)
  BY <1>1, <1>5 DEF Name, Goes, Job
<1>6. CASE Lock(w)
  <2>1. mu = "free" /\ mu' = w
    BY <1>6 DEF Lock, TakesMutex
  <2>2. v = w
    BY <1>1, <1>2, <1>6, <2>1 DEF Lock
  <2> QED BY <2>1, <2>2
<1>7. CASE WebDown(w)
  BY <1>1, <1>7 DEF WebDown, Goes, Ends, NoJob, Job
<1>8. CASE WebMount(w)
  <2>1. mu = w /\ mu' = mu
    BY <1>8 DEF WebMount
  <2>2. v # w => web'[v] = web[v]
    BY <1>1, <1>8 DEF WebMount, Goes
  <2> QED BY <1>2, <2>1, <2>2
<1>9. CASE Write(w) \/ WebUnmount(w)
  <2>1. mu = w /\ mu' = mu
    BY <1>9 DEF Write, WebUnmount, asked
  <2>2. v # w => web'[v] = web[v]
    BY <1>1, <1>9 DEF Write, WebUnmount, Goes
  <2> QED BY <1>2, <2>1, <2>2
<1>10. CASE Unlock(w)
  <2>1. web[w].op = "toggle" /\ mu = w
    BY <1>10 DEF Unlock, OnlyToggleUnlocks
  <2>2. v # w => web'[v] = web[v] /\ mu = v
    BY <1>1, <1>2, <1>10 DEF Unlock, Goes
  <2>3. v # w
    BY <1>1, <1>10, <2>1 DEF Unlock, Goes, Job
  <2> QED BY <2>1, <2>2, <2>3
<1>11. CASE WebUp(w)
  <2>1. v # w /\ web'[v] = web[v]
    BY <1>1, <1>11 DEF WebUp, Ends, NoJob
  <2>2. mu = v
    BY <1>2, <2>1
  <2> QED BY <1>11, <2>1, <2>2 DEF WebUp, Holds
<1> QED BY <1>3, <1>4, <1>5, <1>6, <1>7, <1>8, <1>9, <1>10, <1>11 DEF Asks, WebStep

LEMMA MutexStep == TypeOK /\ MutexHeld /\ OnlyToggleUnlocks /\ [Next]_vars => MutexHeld'
<1> SUFFICES ASSUME TypeOK, MutexHeld, OnlyToggleUnlocks, [Next]_vars PROVE MutexHeld'
  OBVIOUS
<1>1. CASE ServiceRestart
  BY <1>1 DEF ServiceRestart, server, MutexHeld, Inside
<1>2. CASE PowerLoss
  BY <1>2 DEF PowerLoss, NoJob, MutexHeld, Inside
<1>3. CASE UNCHANGED vars
  BY <1>3 DEF vars, MutexHeld, Inside
<1>4. CASE Loop \/ WaitReachable \/ WaitUnreachable
  BY <1>4, LoopKeeps DEF MutexHeld, Inside
<1> QED BY <1>1, <1>2, <1>3, <1>4, MutexWeb DEF Next

\* camDiskMu does what its comment says of the goroutines: they are in the mount
\* of the image one at a time, however many there are.
THEOREM OneAtATimeSafe == Spec => []OneAtATime
<1>1. Init => MutexHeld /\ OnlyToggleUnlocks
  BY DEF Init, MutexHeld, OnlyToggleUnlocks, Inside, NoJob
<1>2. MutexHeld => OneAtATime
  BY DEF MutexHeld, Inside, OneAtATime
<1> QED BY <1>1, <1>2, MutexStep, UnlockStep, TypeCorrect, PTL DEF Spec

(***************************************************************************)
(* archiveloop alone.                                                      *)
(***************************************************************************)

\* The stages between the release of the gadget and its set-up.
Released == {"clean fsck", "clean mount", "clean", "clean umount",
             "conn fsck", "in mount", "in", "in umount", "randomize",
             "out mount", "out", "out umount", "enable"}

\* Where archiveloop may have the image mounted it has released the gadget, and
\* it sets the gadget up with the image unmounted.
Alone ==
  stuck \/ /\ NoSharedAccess
           /\ pc \in Released => gadget # "bound"
           /\ pc = "enable" => ~mounted

LEMMA AloneLoop ==
  ASSUME Alone, Loop \/ WaitReachable \/ WaitUnreachable
  PROVE  Alone'
<1> USE DEF Alone, NoSharedAccess
<1>1. ASSUME NEW s, NEW f, NEW n, f # "enable", n # "enable", Down(s, f, n) PROVE Alone'
  BY <1>1 DEF Down, Releases, At
<1>2. ASSUME NEW s, NEW n, s \in Released \/ n \notin Released, n # "enable", Work(s, n)
      PROVE  Alone'
  BY <1>2 DEF Work, At
<1>3. ASSUME NEW s \in Released, NEW n, NEW e, n # "enable", Mount(s, n, e) PROVE Alone'
  BY <1>3 DEF Mount, At
<1>4. ASSUME NEW s \in Released, NEW n, Unmount(s, n) PROVE Alone'
  BY <1>4 DEF Unmount, At
<1>5. ASSUME pc' \notin Released, pc' # "enable", UNCHANGED <<gadget, mounted, stuck>> PROVE Alone'
  BY <1>5
<1> HIDE DEF Alone, NoSharedAccess
<1> USE DEF Released
<1>6. CASE Boot
  BY <1>6, <1>5 DEF Boot, Call
<1>7. CASE CleanCamMount
  BY <1>7, <1>1, <1>2, <1>3, <1>4 DEF CleanCamMount
<1>8. CASE Snapshot
  BY <1>8, <1>5 DEF Snapshot, Call, At
<1>9. CASE ConnectToHost
  <2>1. CASE Randomize \/ CopyOut
    BY <2>1 DEF Randomize, CopyOut, At, Alone, NoSharedAccess
  <2>2. CASE Enable
    <3>1. pc' \notin Released
      BY <2>2 DEF Enable, AfterConnect, Call
    <3> QED BY <2>2, <3>1 DEF Enable, Alone, NoSharedAccess
  <2> QED BY <1>9, <1>1, <1>2, <1>3, <1>4, <2>1, <2>2 DEF ConnectToHost
<1>10. CASE Archive
  BY <1>10, <1>5 DEF Archive, Call
<1>11. CASE Music
  BY <1>11, <1>1, <1>2, <1>5 DEF Music
<1>12. CASE Check
  BY <1>12, <1>1, <1>2, <1>5 DEF Check, At, Call
<1>13. CASE WaitReachable \/ WaitUnreachable
  BY <1>13, <1>5 DEF WaitReachable, WaitUnreachable, At
<1> QED BY <1>6, <1>7, <1>8, <1>9, <1>10, <1>11, <1>12, <1>13 DEF Loop

\* While no goroutine of the web server touches the gadget, archiveloop never has
\* the image mounted while the car has it, as long as every disable_gadget.sh has
\* unbound the gadget and every umount has unmounted the image: not when mounts and
\* enable_gadget.sh fail or disable_gadget.sh leaves the gadget half set up, and not
\* when the service or the computer is restarted at any point.
THEOREM AloneSafe ==
  ASSUME Web = {}
  PROVE  Spec => []SharedIfStuck
<1>1. Init => Alone
  BY DEF Init, Alone, NoSharedAccess, Released
<1>2. Alone /\ [Next]_vars => Alone'
  <2> SUFFICES ASSUME Alone, [Next]_vars PROVE Alone'
    OBVIOUS
  <2>1. CASE ServiceRestart
    BY <2>1 DEF ServiceRestart, Call, Alone, NoSharedAccess, Released
  <2>2. CASE PowerLoss
    BY <2>2 DEF PowerLoss, Call, Alone, NoSharedAccess, Released
  <2>3. CASE UNCHANGED vars
    BY <2>3 DEF vars, Alone, NoSharedAccess
  <2> QED BY <2>1, <2>2, <2>3, AloneLoop, Web = {} DEF Next
<1>3. Alone => SharedIfStuck
  BY DEF Alone, SharedIfStuck
<1> QED BY <1>1, <1>2, <1>3, PTL DEF Spec

(***************************************************************************)
(* The gadget comes back.                                                  *)
(***************************************************************************)

\* Goroutine w released the gadget and is going to set it up again.
Restores(w) == web[w].stage \in {"copy", "write", "umount", "up"} /\ web[w].was

\* Nothing failed, and the user did not touch the drives.
Untouched == faults = 0 /\ toggles = 0

\* While archiveloop waits and the gadget is released, some goroutine is going to
\* set it up again.
BackInv ==
  Untouched =>
    /\ gadget # "half"
    /\ \A w \in Web : web[w].op = "toggle" => web[w].stage = "idle"
    /\ \A w \in Web : web[w].stage = "down" => web[w].was
    /\ pc \in Waiting /\ gadget = "absent" => \E w \in Web : Restores(w)

\* What did not fail in a step without faults released the gadget, or set it up.
LEMMA Works ==
  ASSUME TypeOK, NEW fails, Failing(fails), faults' = 0
  PROVE  /\ faults = 0
         /\ Releases(fails) => gadget' = "absent"
         /\ Prepares(fails) => gadget' = IF gadget = "absent" THEN "bound" ELSE gadget
<1>1. faults \in Nat
  BY ConstantsAssumption DEF TypeOK
<1>2. ~fails /\ faults = 0
  BY <1>1 DEF Failing
<1> QED BY <1>2 DEF Releases, Prepares

\* archiveloop waits only where it found the gadget bound, or set it up.
LEMMA BackLoop ==
  ASSUME TypeOK, BackInv, Loop \/ WaitReachable \/ WaitUnreachable
  PROVE  BackInv'
<1> SUFFICES ASSUME Untouched' PROVE BackInv'
  BY DEF BackInv
<1>1. UNCHANGED <<web, toggles>>
  BY DEF Loop, Boot, CleanCamMount, Snapshot, ConnectToHost, Archive, Music, Check,
         WaitReachable, WaitUnreachable, Down, Work, Mount, Unmount, Randomize, CopyOut,
         Enable, server
<1>2. faults' = 0
  BY DEF Untouched
<1>3. ASSUME faults = 0,
             gadget # "half" => gadget' # "half",
             pc' \in Waiting /\ gadget' = "absent" /\ gadget # "half"
               => pc \in Waiting /\ gadget = "absent"
      PROVE  BackInv'
  <2>1. Untouched
    BY <1>1, <1>3 DEF Untouched
  <2> QED BY <1>1, <1>3, <2>1 DEF BackInv, Restores
<1>4. ASSUME NEW s, NEW f, NEW n, f \notin Waiting, n \notin Waiting, Down(s, f, n)
      PROVE  BackInv'
  <2>1. PICK fails \in BOOLEAN : Failing(fails) /\ Releases(fails) /\ At(IF fails THEN n ELSE f)
    BY <1>4 DEF Down
  <2>2. faults = 0 /\ gadget' = "absent"
    BY <1>2, <2>1, Works
  <2>3. pc' \notin Waiting
    BY <1>4, <2>1 DEF At
  <2> QED BY <1>3, <2>2, <2>3
<1>5. ASSUME NEW s, NEW n, n \notin Waiting, Work(s, n) PROVE BackInv'
  BY <1>2, <1>3, <1>5 DEF Work, At
<1>16. ASSUME NEW s, NEW n, n \notin Waiting, Unmount(s, n) PROVE BackInv'
  <2>1. faults = 0
    BY <1>2, <1>16, Works DEF Unmount
  <2> QED BY <1>3, <1>16, <2>1 DEF Unmount, At
<1>6. ASSUME NEW s, NEW n, NEW e, n \notin Waiting, e \notin Waiting, Mount(s, n, e)
      PROVE  BackInv'
  <2>1. PICK fails \in BOOLEAN : Failing(fails) /\ At(IF mounted' THEN n ELSE e)
    BY <1>6 DEF Mount
  <2>2. faults = 0 /\ pc' \notin Waiting
    BY <1>2, <1>6, <2>1, Works DEF At
  <2>3. gadget' = gadget
    BY <1>6 DEF Mount
  <2> QED BY <1>3, <2>2, <2>3
<1>7. ASSUME UNCHANGED <<gadget, faults>>, pc' \notin Waiting \/ gadget = "bound" \/ pc \in Waiting
      PROVE  BackInv'
  BY <1>2, <1>3, <1>7
<1> USE DEF Waiting
<1>8. CASE Boot
  BY <1>7, <1>8 DEF Boot, Call
<1>9. CASE CleanCamMount
  BY <1>9, <1>4, <1>5, <1>6, <1>16 DEF CleanCamMount
<1>10. CASE Snapshot
  BY <1>7, <1>10 DEF Snapshot, Call, At
<1>11. CASE ConnectToHost
  <2>1. CASE Randomize \/ CopyOut
    BY <1>7, <2>1 DEF Randomize, CopyOut, At
  <2>2. CASE Enable
    <3>1. PICK fails \in BOOLEAN : Failing(fails) /\ Prepares(fails)
      BY <2>2 DEF Enable
    <3>2. faults = 0 /\ gadget' = IF gadget = "absent" THEN "bound" ELSE gadget
      BY <1>2, <3>1, Works
    <3>3. gadget' # "absent" /\ (gadget # "half" => gadget' # "half")
      BY <3>2
    <3> QED BY <1>3, <3>2, <3>3
  <2> QED BY <1>11, <1>4, <1>5, <1>6, <1>16, <2>1, <2>2 DEF ConnectToHost
<1>12. CASE Archive
  BY <1>7, <1>12 DEF Archive, Call
<1>13. CASE Music
  BY <1>4, <1>5, <1>7, <1>13 DEF Music
<1>14. CASE Check
  BY <1>4, <1>5, <1>7, <1>14 DEF Check, At, Call
<1>15. CASE WaitReachable \/ WaitUnreachable
  BY <1>7, <1>15 DEF WaitReachable, WaitUnreachable
<1> QED BY <1>8, <1>9, <1>10, <1>11, <1>12, <1>13, <1>14, <1>15 DEF Loop

\* The goroutine that released the gadget sets it up again, and nothing else
\* releases it for good.
LEMMA BackWeb ==
  ASSUME TypeOK, BackInv, NEW w \in Web, Asks(w) \/ WebStep(w)
  PROVE  BackInv'
<1> SUFFICES ASSUME Untouched' PROVE BackInv'
  BY DEF BackInv
<1>1. web \in [Web -> Job] /\ web[w] \in Job /\ toggles \in Nat /\ faults' = 0 /\ toggles' = 0
  BY ConstantsAssumption DEF TypeOK, Untouched
<1>2. ~Toggle(w)
  <2>1. Toggle(w) => toggles' = toggles + 1
    BY DEF Toggle
  <2> QED BY <1>1, <2>1
<1>3. toggles = 0 /\ UNCHANGED pc
  BY <1>1, <1>2 DEF Asks, Request, WebStep, Name, Lock, WebDown, WebMount, Write, WebUnmount,
    Unlock, WebUp, asked
<1>4. \A v \in Web \ {w} : web'[v] = web[v]
  BY <1>1, <1>2 DEF Asks, Request, WebStep, Name, Lock, WebDown, WebMount, Write, WebUnmount,
    Unlock, WebUp, Goes, Ends
\* What is left to show of each step of w.
<1>5. ASSUME faults = 0,
             gadget # "half" => gadget' # "half",
             web[w].op # "toggle" \/ web[w].stage = "idle"
               => web'[w].op # "toggle" \/ web'[w].stage = "idle",
             web'[w].stage = "down" => web'[w].was,
             gadget' = "absent" => Restores(w)' \/ (gadget = "absent" /\ ~Restores(w))
      PROVE  BackInv'
  <2>1. Untouched
    BY <1>3, <1>5 DEF Untouched
  <2>2. gadget' # "half"
    BY <1>5, <2>1 DEF BackInv
  <2>3. ASSUME NEW v \in Web
        PROVE  /\ web'[v].op = "toggle" => web'[v].stage = "idle"
               /\ web'[v].stage = "down" => web'[v].was
    BY <1>4, <1>5, <2>1 DEF BackInv
  <2>4. ASSUME pc' \in Waiting, gadget' = "absent" PROVE \E v \in Web : Restores(v)'
    <3>1. CASE Restores(w)'
      BY <3>1
    <3>2. CASE gadget = "absent" /\ ~Restores(w)
      <4>1. PICK v \in Web : Restores(v)
        BY <1>3, <2>1, <2>4, <3>2 DEF BackInv
      <4>2. v # w
        BY <3>2, <4>1
      <4> QED BY <1>4, <4>1, <4>2 DEF Restores
    <3> QED BY <1>5, <2>4, <3>1, <3>2
  <2> QED BY <2>2, <2>3, <2>4 DEF BackInv
<1>6. ASSUME faults = 0
      PROVE  /\ web[w].op = "toggle" => web[w].stage = "idle"
             /\ web[w].stage = "down" => web[w].was
  BY <1>3, <1>6 DEF BackInv, Untouched
<1>7. \A s \in Stages : Goes(w, s) => /\ web'[w].stage = s
                                      /\ web'[w].op = web[w].op /\ web'[w].was = web[w].was
  BY <1>1 DEF Goes, Job
<1>8. Ends(w) => web'[w] = NoJob
  BY <1>1 DEF Ends
<1>9. ASSUME NEW op \in {"activate", "clear"}, Request(w, op) PROVE BackInv'
  <2>1. web'[w].op # "toggle" /\ web'[w].stage = "name"
    BY <1>1, <1>9 DEF Request
  <2>2. web[w].stage = "idle" /\ UNCHANGED <<gadget, faults>>
    BY <1>9 DEF Request
  <2> QED BY <1>1, <1>5, <2>1, <2>2 DEF Restores
<1>10. CASE Name(w)
  <2>1. web[w].stage = "name" /\ web'[w].stage = "lock" /\ web'[w].op = web[w].op
    BY <1>7, <1>10 DEF Name, Stages
  <2>2. UNCHANGED <<gadget, faults>>
    BY <1>10 DEF Name, asked
  <2> QED BY <1>1, <1>5, <2>1, <2>2 DEF Restores
<1>11. CASE Lock(w)
  <2>1. /\ web[w].stage = "lock" /\ web'[w].op = web[w].op
        /\ web'[w].stage \in {"down", "copy"} /\ web'[w].stage = "down" => web'[w].was
    BY <1>1, <1>11 DEF Lock, Job
  <2>2. UNCHANGED <<gadget, faults>>
    BY <1>11 DEF Lock
  <2> QED BY <1>1, <1>5, <2>1, <2>2 DEF Restores
<1>12. CASE WebDown(w)
  <2>1. PICK fails \in BOOLEAN : Failing(fails) /\ Releases(fails)
    BY <1>12 DEF WebDown
  <2>2. faults = 0 /\ gadget' = "absent"
    BY <1>1, <2>1, Works
  <2>3. web[w].stage = "down" /\ web[w].was /\ web[w].op # "toggle"
    BY <1>6, <1>12, <2>2 DEF WebDown
  <2>4. web'[w].stage = "copy" /\ web'[w].op # "toggle" /\ web'[w].was
    BY <1>7, <1>12, <2>3 DEF WebDown, Stages
  <2> QED BY <1>5, <2>2, <2>4 DEF Restores
<1>13. ASSUME web[w].stage \in {"copy", "write", "umount"}, faults = 0, UNCHANGED gadget,
              web'[w].stage \in {Leave(w), "write", "umount"},
              web'[w].op = web[w].op, web'[w].was = web[w].was
       PROVE  BackInv'
  <2>1. web[w].op # "toggle"
    BY <1>6, <1>13
  <2>2. web'[w].stage \in {"up", "write", "umount"}
    BY <1>13, <2>1 DEF Leave
  <2> QED BY <1>5, <1>13, <2>1, <2>2 DEF Restores
<1>14. CASE WebMount(w)
  <2>1. CASE Goes(w, Leave(w)) /\ UNCHANGED <<mounted, faults>>
    BY <1>1, <1>7, <1>13, <1>14, <2>1 DEF WebMount, Leave, Stages
  <2>2. ASSUME NEW fails, NEW c, Failing(fails),
               web' = [web EXCEPT ![w].stage = IF fails THEN Leave(w) ELSE "write",
                                  ![w].chime = c]
        PROVE  BackInv'
    <3>1. faults = 0
      BY <1>1, <2>2, Works
    <3>2. /\ web'[w].stage \in {Leave(w), "write"}
          /\ web'[w].op = web[w].op /\ web'[w].was = web[w].was
      BY <1>1, <2>2 DEF Job
    <3> QED BY <1>13, <1>14, <3>1, <3>2 DEF WebMount
  <2> QED BY <1>14, <2>1, <2>2 DEF WebMount
<1>15. CASE Write(w)
  BY <1>1, <1>7, <1>13, <1>15 DEF Write, asked, Stages
<1>16. CASE WebUnmount(w)
  <2>1. faults = 0
    BY <1>1, <1>16, Works DEF WebUnmount
  <2> QED BY <1>1, <1>7, <1>13, <1>16, <2>1 DEF WebUnmount, Leave, Stages
<1>17. CASE Unlock(w)
  <2>1. faults = 0 /\ web[w].stage = "unlock" /\ UNCHANGED gadget
    BY <1>1, <1>17 DEF Unlock
  <2>2. web'[w].stage = "up" /\ web'[w].op = web[w].op
    BY <1>7, <1>17 DEF Unlock, Stages
  <2>3. web[w].op # "toggle"
    BY <1>6, <2>1
  <2> QED BY <1>5, <2>1, <2>2, <2>3 DEF Restores
<1>18. CASE WebUp(w)
  <2>1. web[w].stage = "up" /\ web'[w] = NoJob
    BY <1>8, <1>18 DEF WebUp
  <2>2. CASE web[w].was
    <3>1. PICK fails \in BOOLEAN : Failing(fails) /\ Prepares(fails)
      BY <1>18, <2>2 DEF WebUp
    <3>2. faults = 0 /\ gadget' = IF gadget = "absent" THEN "bound" ELSE gadget
      BY <1>1, <3>1, Works
    <3>3. gadget' # "absent" /\ (gadget # "half" => gadget' # "half")
      BY <3>2
    <3> QED BY <1>5, <2>1, <3>2, <3>3 DEF NoJob
  <2>3. CASE ~web[w].was /\ UNCHANGED <<gadget, faults>>
    BY <1>1, <1>5, <2>1, <2>3 DEF NoJob, Restores
  <2>4. CASE web[w].op = "toggle"
    <3>1. faults = 0
      BY <1>1, <1>18, Works DEF WebUp
    <3> QED BY <1>6, <2>1, <2>4, <3>1
  <2> QED BY <1>18, <2>2, <2>3, <2>4 DEF WebUp
<1> QED BY <1>2, <1>9, <1>10, <1>11, <1>12, <1>14, <1>15, <1>16, <1>17, <1>18 DEF Asks, WebStep

\* Without faults, and unless the user disconnects the drives, the car has its disk
\* whenever archiveloop waits for the archive and no goroutine is at work, however
\* many goroutines there are and in whatever order they take their steps.
THEOREM BackSafe == Spec => []GadgetBack
<1>1. Init => BackInv
  BY DEF Init, BackInv, Waiting, NoJob
<1>2. TypeOK /\ BackInv /\ [Next]_vars => BackInv'
  <2> SUFFICES ASSUME TypeOK, BackInv, [Next]_vars PROVE BackInv'
    OBVIOUS
  <2>1. CASE ServiceRestart \/ PowerLoss
    <3>1. faults' # 0
      BY <2>1, ConstantsAssumption DEF TypeOK, ServiceRestart, PowerLoss
    <3> QED BY <3>1 DEF BackInv, Untouched
  <2>2. CASE UNCHANGED vars
    BY <2>2 DEF vars, BackInv, Untouched, Restores
  <2> QED BY <2>1, <2>2, BackLoop, BackWeb DEF Next
<1>3. TypeOK /\ BackInv => GadgetBack
  BY DEF TypeOK, BackInv, Untouched, GadgetBack, Idle, Restores
<1> QED BY <1>1, <1>2, <1>3, TypeCorrect, PTL DEF Spec
=============================================================================
