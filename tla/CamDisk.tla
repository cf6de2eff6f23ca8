------------------------------- MODULE CamDisk -------------------------------
(***************************************************************************)
(* Who uses the image of the dash cam disk: the car, through the USB       *)
(* gadget, or the host, which checks it with fsck and mounts it at         *)
(* /mnt/cam.  Modelled from run/archiveloop, run/enable_gadget.sh,         *)
(* run/disable_gadget.sh and from the handlers of the web server that      *)
(* cycle the gadget (server/api/lock_chime.go, server/api/system.go).      *)
(*                                                                         *)
(* archiveloop is one process.  Every handler of the web server runs as a  *)
(* goroutine of its own; they share the mutex camDiskMu, of which          *)
(* archiveloop knows nothing.                                              *)
(***************************************************************************)
EXTENDS Naturals

CONSTANTS
  Web,          \* goroutines of the web server that can be at work at once
  Chimes,       \* the lock sounds of the library
  MaxChanges,   \* bound on asked that set or clear the lock sound
  MaxToggles,   \* bound on asked that disconnect or connect the drives
  MaxFaults,    \* bound on failing scripts, service restarts and power losses
  None          \* no lock sound is active

ASSUME ConstantsAssumption ==
  /\ MaxChanges \in Nat /\ MaxToggles \in Nat /\ MaxFaults \in Nat
  /\ None \notin Chimes
  /\ "free" \notin Web

Sound == Chimes \cup {None}

VARIABLES
  gadget,     \* the USB gadget in configfs: absent, half set up or bound
  mounted,    \* the image is mounted at /mnt/cam
  stuck,      \* history: since the power came on, disable_gadget.sh has left the
              \* gadget bound, or an umount has left the image mounted
  pc, ret,    \* archiveloop: its stage, and where the procedure returns to
  mu,         \* the holder of camDiskMu
  web,        \* the goroutines
  staged,     \* /mutable/LockChime.wav, which the web server copies
  active,     \* .active_name, which archiveloop goes by
  disk,       \* LockChime.wav on the cam disk
  changes, toggles, faults   \* how many there were

vars == <<gadget, mounted, stuck, pc, ret, mu, web, staged, active, disk,
          changes, toggles, faults>>
chime == <<staged, active, disk>>
server == <<mu, web, changes, toggles>>
asked == <<changes, toggles>>

\* clean_cam_mount, connect_usb_drives_to_host, and the rest of archiveloop
Cleaning == {"clean down", "clean fsck", "clean mount", "clean", "clean umount"}
Connecting == {"conn down", "conn fsck", "in mount", "in", "in umount", "randomize",
               "out mount", "out", "out umount", "enable"}
\* Whose Clean or Connect it is: that of the start, of the first or a later
\* archive_clips, the one after archive_clips, or that of
\* check_if_usb_gadget_is_mounted.
Returns == {"start", "first archive", "first", "archive", "cycle", "repair"}
Waiting == {"wait reachable", "wait unreachable"}
LoopStages == Cleaning \cup Connecting \cup Waiting
                \cup {"boot", "snapshot", "archive", "music", "music down",
                      "music fsck", "check", "check down", "check fsck", "repair"}

Stages == {"idle", "name", "lock", "down", "copy", "write", "umount", "unlock", "up"}
Job == [op : {"activate", "clear", "toggle"}, stage : Stages, chime : Sound, was : BOOLEAN]
NoJob == [op |-> "toggle", stage |-> "idle", chime |-> None, was |-> FALSE]

TypeOK ==
  /\ gadget \in {"absent", "half", "bound"}
  /\ mounted \in BOOLEAN /\ stuck \in BOOLEAN
  /\ pc \in LoopStages
  /\ ret \in Returns
  /\ mu \in Web \cup {"free"}
  /\ web \in [Web -> Job]
  /\ staged \in Sound /\ active \in Sound /\ disk \in Sound
  /\ changes \in 0 .. MaxChanges /\ toggles \in 0 .. MaxToggles
  /\ faults \in 0 .. MaxFaults

-----------------------------------------------------------------------------
(* The scripts and the mount                                               *)

\* A script or a mount that can fail: whether it does.
Failing(fails) ==
  /\ fails \in BOOLEAN
  /\ fails => faults < MaxFaults
  /\ faults' = IF fails THEN faults + 1 ELSE faults

\* Mutant: the directory of the gadget is left behind.
KeepsDirectory(fails) ==
  /\ gadget' = IF gadget = "absent" THEN "absent" ELSE "half"
  /\ UNCHANGED stuck

\* disable_gadget.sh.  One that fails did nothing, could not unbind the gadget, or
\* leaves a gadget directory that is not bound.
Releases(fails) ==
  /\ gadget' \in IF gadget = "absent" \/ ~fails THEN {"absent"} ELSE {gadget, "half"}
  /\ stuck' = (stuck \/ gadget' = "bound")

\* enable_gadget.sh does nothing when the gadget directory is there
Prepares(fails) ==
  gadget' = IF gadget # "absent" THEN gadget ELSE IF fails THEN "half" ELSE "bound"

At(stage) == pc' = stage

\* Mutant: the procedure returns to itself.
CallsItself(stage, r) == pc' = stage /\ ret' = stage

Call(stage, r) == pc' = stage /\ ret' = r

Holds(w) == mu = w

-----------------------------------------------------------------------------
(* archiveloop                                                             *)

\* fix_errors_in_images, then clean_cam_mount boot
Boot ==
  /\ pc = "boot"
  /\ Call("clean down", "start")
  /\ UNCHANGED <<gadget, stuck, mounted, server, chime, faults>>

\* disable_gadget.sh, then fsck unless it failed; ensure_cam_file_is_mounted,
\* connect_usb_drives_to_host, ensure_music_file_is_mounted and
\* check_if_usb_gadget_is_mounted all begin like this
Down(stage, fsck, next) ==
  /\ pc = stage
  /\ \E fails \in BOOLEAN :
       Failing(fails) /\ Releases(fails) /\ At(IF fails THEN next ELSE fsck)
  /\ UNCHANGED <<mounted, ret, server, chime>>

\* fsck, or work in the mount, that changes nothing of what is modelled
Work(stage, next) ==
  /\ pc = stage
  /\ At(next)
  /\ UNCHANGED <<gadget, stuck, mounted, ret, server, chime, faults>>

\* ensure_mountpoint_is_mounted
Mount(stage, next, else) ==
  /\ pc = stage
  /\ \E fails \in BOOLEAN :
       /\ Failing(fails)
       /\ mounted' = (mounted \/ ~fails)
       /\ At(IF mounted' THEN next ELSE else)
  /\ UNCHANGED <<gadget, stuck, ret, server, chime>>

\* Mutant: the image is left mounted when umount finds it busy.
UmountsIdle(stage, next) ==
  /\ pc = stage
  /\ mounted' \in {FALSE, mounted}
  /\ At(next)
  /\ UNCHANGED <<gadget, stuck, ret, server, chime, faults>>

\* unmount_mount_point: umount, and umount -l when that fails; when both fail
\* archiveloop goes on with the image mounted
Unmount(stage, next) ==
  /\ pc = stage
  /\ \E fails \in BOOLEAN : Failing(fails) /\ mounted' = (mounted /\ fails)
  /\ stuck' = (stuck \/ mounted')
  /\ At(next)
  /\ UNCHANGED <<gadget, ret, server, chime>>

\* clean_cam_mount.  Only at the start does a mount that keeps failing end
\* archiveloop, which systemd then starts again.
CleanCamMount ==
  \/ Down("clean down", "clean fsck", "clean mount")
  \/ Work("clean fsck", "clean mount")
  \/ Mount("clean mount", "clean", IF ret = "start" THEN "boot" ELSE "clean")
  \/ Work("clean", "clean umount")
  \/ Unmount("clean umount", IF ret = "start" THEN "snapshot" ELSE "music")

\* make_snapshot.sh, which does not touch the image itself
Snapshot ==
  /\ pc = "snapshot"
  /\ IF ret = "start" THEN At("conn down") /\ UNCHANGED ret ELSE Call("archive", "archive")
  /\ UNCHANGED <<gadget, stuck, mounted, server, chime, faults>>

\* pickAndActivateRandom avoids the active sound when there is another
Picks == IF Chimes \subseteq {active} THEN Chimes ELSE Chimes \ {active}

\* The server, asked by archiveloop, may pick another sound.
Randomize ==
  /\ pc = "randomize"
  /\ \/ \E c \in Picks : staged' = c /\ active' = c
     \/ UNCHANGED <<staged, active>>
  /\ At("out mount")
  /\ UNCHANGED <<gadget, stuck, mounted, ret, server, disk, faults>>

\* Mutant: a sound that is no longer active stays on the disk.
CopiesOnly ==
  /\ pc = "out"
  /\ disk' = IF mounted /\ active # None THEN active ELSE disk
  /\ At("out umount")
  /\ UNCHANGED <<gadget, stuck, mounted, ret, server, staged, active, faults>>

\* sync_user_media_to_cam copies the active sound, or removes the one on the disk
CopyOut ==
  /\ pc = "out"
  /\ disk' = IF mounted THEN active ELSE disk
  /\ At("out umount")
  /\ UNCHANGED <<gadget, stuck, mounted, ret, server, staged, active, faults>>

\* What follows connect_usb_drives_to_host, after each of its calls.
AfterConnect ==
  \/ ret = "start" /\ Call("archive", "first archive")
  \/ ret = "first archive" /\ Call("conn down", "first")
  \/ ret = "archive" /\ Call("conn down", "cycle")
  \/ ret = "first" /\ Call("wait unreachable", "first")
  \/ ret = "cycle" /\ (Call("wait unreachable", "cycle") \/ Call("check", "cycle"))
  \/ ret \in {"start", "first", "repair"} /\ Call("wait reachable", "cycle")

Enable ==
  /\ pc = "enable"
  /\ \E fails \in BOOLEAN : Failing(fails) /\ Prepares(fails)
  /\ AfterConnect
  /\ UNCHANGED <<mounted, stuck, server, chime>>

\* connect_usb_drives_to_host, with sync_disk_media_to_host and sync_user_media_to_cam
ConnectToHost ==
  \/ Down("conn down", "conn fsck", "in mount")
  \/ Work("conn fsck", "in mount")
  \/ Mount("in mount", "in", "randomize")
  \/ Work("in", "in umount")
  \/ Unmount("in umount", "randomize")
  \/ Randomize
  \/ Mount("out mount", "out", "enable")
  \/ CopyOut
  \/ Unmount("out umount", "enable")
  \/ Enable

\* archive_clips: connect-archive.sh fails; or the clips are archived, and cleaned
\* from the disk unless that failed, the car left or it was done minutes ago
Archive ==
  /\ pc = "archive"
  /\ \/ Call("conn down", IF ret = "first archive" THEN "first" ELSE "cycle")
     \/ pc' \in {"clean down", "music"} /\ UNCHANGED ret
  /\ UNCHANGED <<gadget, stuck, mounted, server, chime, faults>>

\* the music drive is synced if there is one to sync
Music ==
  \/ /\ pc = "music"
     /\ pc' \in {"music down", "conn down"}
     /\ UNCHANGED <<gadget, stuck, mounted, ret, server, chime, faults>>
  \/ Down("music down", "music fsck", "conn down")
  \/ Work("music fsck", "conn down")

\* the archive can be reached, or somebody pretends that it can
WaitReachable ==
  /\ pc = "wait reachable"
  /\ At("snapshot")
  /\ UNCHANGED <<gadget, stuck, mounted, ret, server, chime, faults>>

WaitUnreachable ==
  /\ pc = "wait unreachable"
  /\ At(IF ret = "first" THEN "wait reachable" ELSE "check")
  /\ UNCHANGED <<gadget, stuck, mounted, ret, server, chime, faults>>

\* check_if_usb_gadget_is_mounted
Check ==
  \/ /\ pc = "check"
     /\ IF gadget = "bound" THEN At("wait reachable") ELSE At("check down")
     /\ UNCHANGED <<gadget, stuck, mounted, ret, server, chime, faults>>
  \/ Down("check down", "check fsck", "repair")
  \/ Work("check fsck", "repair")
  \/ /\ pc = "repair"
     /\ Call("conn down", "repair")
     /\ UNCHANGED <<gadget, stuck, mounted, server, chime, faults>>

Loop == Boot \/ CleanCamMount \/ Snapshot \/ ConnectToHost \/ Archive \/ Music \/ Check

-----------------------------------------------------------------------------
(* The web server                                                          *)

Goes(w, stage) == web' = [web EXCEPT ![w].stage = stage]
Ends(w) == web' = [web EXCEPT ![w] = NoJob]

\* lockChimeActivate, the randomize handler and the scheduler stage a sound,
\* lockChimeClear and the delete handler remove it; the name follows.
Request(w, op) ==
  /\ web[w].stage = "idle" /\ changes < MaxChanges
  /\ changes' = changes + 1
  /\ \E c \in (IF op = "activate" THEN Chimes ELSE {None}) :
       /\ staged' = c
       /\ web' = [web EXCEPT ![w] = [op |-> op, stage |-> "name", chime |-> c, was |-> FALSE]]
  /\ UNCHANGED <<gadget, stuck, mounted, pc, ret, mu, active, disk, toggles, faults>>

\* toggleDrives: release the gadget if it is there, else set it up, with another
\* sound perhaps
Toggle(w) ==
  /\ web[w].stage = "idle" /\ toggles < MaxToggles
  /\ toggles' = toggles + 1
  /\ \/ /\ gadget # "absent"
        /\ web' = [web EXCEPT ![w] = [NoJob EXCEPT !.stage = "down"]]
        /\ UNCHANGED staged
     \/ /\ gadget = "absent"
        /\ web' = [web EXCEPT ![w] = [NoJob EXCEPT !.stage = "lock"]]
        /\ UNCHANGED staged
     \/ /\ gadget = "absent"
        /\ \E c \in Picks :
             /\ staged' = c
             /\ web' = [web EXCEPT ![w] = [NoJob EXCEPT !.stage = "name", !.chime = c]]
  /\ UNCHANGED <<gadget, stuck, mounted, pc, ret, mu, active, disk, changes, faults>>

Name(w) ==
  /\ web[w].stage = "name"
  /\ active' = web[w].chime
  /\ Goes(w, "lock")
  /\ UNCHANGED <<gadget, stuck, mounted, pc, ret, mu, staged, disk, asked, faults>>

\* Mutant: the mutex is not taken.
LockNothing(w) == UNCHANGED mu

TakesMutex(w) == mu = "free" /\ mu' = w

\* camDiskMu, and isGadgetActive: the gadget is released only if it is there
Lock(w) ==
  /\ web[w].stage = "lock"
  /\ TakesMutex(w)
  /\ LET was == web[w].op # "toggle" /\ gadget # "absent" IN
     web' = [web EXCEPT ![w].was = was, ![w].stage = IF was THEN "down" ELSE "copy"]
  /\ UNCHANGED <<gadget, stuck, mounted, pc, ret, chime, asked, faults>>

\* disable_gadget.sh; its failure is logged and forgotten
WebDown(w) ==
  /\ web[w].stage = "down"
  /\ \E fails \in BOOLEAN : Failing(fails) /\ Releases(fails)
  /\ IF web[w].op = "toggle" THEN Ends(w) ELSE Goes(w, "copy")
  /\ UNCHANGED <<mounted, pc, ret, mu, chime, asked>>

\* Where a goroutine goes once it is done with the image.
Leave(w) == IF web[w].op = "toggle" THEN "unlock" ELSE "up"

\* copyLockChimeToCamMount: nothing to do without a staged sound or when the
\* image is mounted; clearLockChimeFromCamDisk, whose mount fails then
WebMount(w) ==
  /\ web[w].stage = "copy"
  /\ IF mounted \/ (web[w].op # "clear" /\ staged = None)
     THEN Goes(w, Leave(w)) /\ UNCHANGED <<mounted, faults>>
     ELSE \E fails \in BOOLEAN :
            /\ Failing(fails)
            /\ mounted' = ~fails
            /\ web' = [web EXCEPT ![w].stage = IF fails THEN Leave(w) ELSE "write",
                                  ![w].chime = IF web[w].op = "clear" THEN None ELSE staged]
  /\ UNCHANGED <<gadget, stuck, pc, ret, mu, chime, asked>>

Write(w) ==
  /\ web[w].stage = "write"
  /\ disk' = IF mounted THEN web[w].chime ELSE disk
  /\ Goes(w, "umount")
  /\ UNCHANGED <<gadget, stuck, mounted, pc, ret, mu, staged, active, asked, faults>>

\* umount fails at times, and while archiveloop is at work in the mount; its
\* failure is logged and forgotten
WebUnmount(w) ==
  /\ web[w].stage = "umount"
  /\ \/ /\ \E fails \in BOOLEAN : Failing(fails) /\ mounted' = (mounted /\ fails)
        /\ stuck' = (stuck \/ mounted')
     \/ pc \in {"clean", "in", "out"} /\ UNCHANGED <<mounted, stuck, faults>>
  /\ Goes(w, Leave(w))
  /\ UNCHANGED <<gadget, pc, ret, mu, chime, asked>>

\* toggleDrives gives the mutex back before it sets up the gadget
Unlock(w) ==
  /\ web[w].stage = "unlock"
  /\ mu' = "free"
  /\ Goes(w, "up")
  /\ UNCHANGED <<gadget, stuck, mounted, pc, ret, chime, asked, faults>>

\* Mutant: the gadget stays released.
ForgetsGadget(w) ==
  /\ web[w].stage = "up"
  /\ UNCHANGED <<gadget, faults>>
  /\ mu' = IF Holds(w) THEN "free" ELSE mu
  /\ Ends(w)
  /\ UNCHANGED <<mounted, stuck, pc, ret, chime, asked>>

\* enable_gadget.sh, if the gadget was there before
WebUp(w) ==
  /\ web[w].stage = "up"
  /\ IF web[w].op = "toggle" \/ web[w].was
     THEN \E fails \in BOOLEAN : Failing(fails) /\ Prepares(fails)
     ELSE UNCHANGED <<gadget, faults>>
  /\ mu' = IF Holds(w) THEN "free" ELSE mu
  /\ Ends(w)
  /\ UNCHANGED <<mounted, stuck, pc, ret, chime, asked>>

-----------------------------------------------------------------------------
(* Faults                                                                  *)

\* systemd starts archiveloop again; the web server is another service, and
\* the gadget and the mount stay
ServiceRestart ==
  /\ faults < MaxFaults
  /\ faults' = faults + 1
  /\ Call("boot", "start")
  /\ UNCHANGED <<gadget, stuck, mounted, server, chime>>

PowerLoss ==
  /\ faults < MaxFaults
  /\ faults' = faults + 1
  /\ gadget' = "absent" /\ mounted' = FALSE /\ stuck' = FALSE
  /\ Call("boot", "start")
  /\ mu' = "free" /\ web' = [w \in Web |-> NoJob]
  /\ UNCHANGED <<chime, asked>>

-----------------------------------------------------------------------------
Init ==
  /\ gadget = "absent" /\ mounted = FALSE /\ stuck = FALSE
  /\ pc = "boot" /\ ret = "start"
  /\ mu = "free" /\ web = [w \in Web |-> NoJob]
  /\ staged = None /\ active = None /\ disk = None
  /\ changes = 0 /\ toggles = 0 /\ faults = 0

Asks(w) == Request(w, "activate") \/ Request(w, "clear") \/ Toggle(w)

WebStep(w) ==
  Name(w) \/ Lock(w) \/ WebDown(w) \/ WebMount(w) \/ Write(w) \/ WebUnmount(w)
    \/ Unlock(w) \/ WebUp(w)

Next ==
  \/ Loop \/ WaitReachable \/ WaitUnreachable
  \/ \E w \in Web : Asks(w) \/ WebStep(w)
  \/ ServiceRestart \/ PowerLoss

Spec == Init /\ [][Next]_vars

\* archiveloop and the goroutines go on; the mutex goes to each goroutine that
\* waits for it; the car comes home, and leaves again.
Fairness ==
  /\ WF_vars(Loop) /\ WF_vars(WaitReachable) /\ WF_vars(WaitUnreachable)
  /\ \A w \in Web : SF_vars(Lock(w)) /\ WF_vars(WebStep(w))

FairSpec == Spec /\ Fairness

-----------------------------------------------------------------------------
(* Properties                                                              *)

\* No goroutine is at work.
Idle == \A w \in Web : web[w].stage = "idle"

\* The car and the host never use the image at the same time, which "would give
\* the Pi and the car simultaneous access to the same block device, corrupting
\* the filesystem" (connect_usb_drives_to_host).
NoSharedAccess == ~(gadget = "bound" /\ mounted)

\* As long as every disable_gadget.sh unbinds the gadget and every umount unmounts the
\* image, archiveloop alone keeps to that, whatever else fails and whenever it, or the
\* computer, is restarted.
SharedIfStuck == stuck \/ NoSharedAccess

\* Goroutines are in the mount of the image one at a time, which is what
\* camDiskMu is for.
OneAtATime ==
  \A v, w \in Web :
    web[v].stage \in {"copy", "write", "umount"} /\ web[w].stage \in {"copy", "write", "umount"}
      => v = w

\* Without faults, and unless the user disconnected the drives, the car has its
\* disk whenever archiveloop waits for the archive and no lock sound is being
\* changed, in whatever order archiveloop and the goroutines released the gadget
\* and set it up.
GadgetBack == (faults = 0 /\ toggles = 0 /\ pc \in Waiting /\ Idle) => gadget = "bound"

\* Without faults the car gets its disk back, also when the user disconnected the
\* drives: when it comes home at the latest.
GadgetReturns ==
  (gadget # "bound" /\ faults = 0) ~> (gadget = "bound" \/ faults > 0)

\* Without faults a lock sound that was activated, or cleared, reaches the cam
\* disk: the next connect_usb_drives_to_host makes up for a copy that the server
\* skipped or that archiveloop overwrote.
ChimeArrives ==
  (disk # active /\ faults = 0) ~> (disk = active \/ faults > 0)

\* The server may skip the copy while the image is mounted since "archiveloop's
\* sync_user_media_to_cam will handle the copy" (copyLockChimeToCamMount): once
\* archiveloop waits and no goroutine is at work the car sees the active sound.
ChimeSettled == (faults = 0 /\ pc \in Waiting /\ Idle) => disk = active
=============================================================================
