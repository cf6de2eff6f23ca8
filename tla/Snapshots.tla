------------------------------ MODULE Snapshots ------------------------------
(***************************************************************************)
(* Snapshots of the dash cam disk and the free space manager that deletes  *)
(* them.  Modelled from run/make_snapshot.sh, run/release_snapshot.sh,     *)
(* run/manage_free_space.sh and run/auto.sentryusb, with the loops of      *)
(* run/archiveloop that start them.                                        *)
(*                                                                         *)
(* A snapshot n is the directory /backingfiles/snapshots/snap-n.  It holds *)
(* the image snap.bin and, once the snapshot is complete, snap.bin.toc,    *)
(* the listing of the image.  The tree /mutable/TeslaCam holds one link    *)
(* per clip, and a link names the snapshot it points into.  The scripts    *)
(* make_snapshot.sh and manage_free_space.sh run under one flock;          *)
(* auto.sentryusb, which autofs runs when somebody follows a link, does    *)
(* not take it.                                                            *)
(***************************************************************************)
EXTENDS Integers, FiniteSets

CONSTANTS
  Recent,     \* clips of TeslaCam/RecentClips
  Event,      \* clips of TeslaCam/SavedClips and TeslaCam/SentryClips
  Track,      \* clips of TeslaTrackMode
  MaxSize,    \* bound on the size of a clip: 0 is an absent file
  MaxNum,     \* bound on snapshot numbers
  MaxFaults,  \* bound on power losses and service restarts
  MaxReruns,  \* bound on setup re-runs
  Takers,     \* who runs make_snapshot.sh: snapshotloop, the main loop, samba
  NoFile      \* what a missing snap.bin, snap.bin.toc or mount holds

Clips == Recent \cup Event \cup Track
Num == 0 .. MaxNum
NoNum == -1

\* What find -printf '%s %P\n' says of an image: the size of each clip.
Listing == [Clips -> 0 .. MaxSize]
Empty == [c \in Clips |-> 0]

\* The links a clip gets: one under RecentClips for every clip but the track
\* mode ones, and one in its event folder for a saved or a sentry clip.
LinkNames == ({"recent"} \X (Recent \cup Event)) \cup ({"event"} \X Event)
               \cup ({"track"} \X Track)

Actors == Takers \cup {"fsm", "autofs"}

Stages == {"idle", "purge", "copy", "list", "compare", "links", "rebuild",
           "check", "umount", "rm", "unlink"}

ASSUME ConstantsAssumption ==
  /\ MaxSize \in Nat /\ MaxNum \in Nat /\ MaxFaults \in Nat /\ MaxReruns \in Nat
  /\ Takers \cap {"fsm", "autofs", "free"} = {}
  /\ NoFile \notin Listing

VARIABLES
  cam,      \* the files on cam_disk.bin, as the car writes them
  dirs,     \* the numbers n for which the directory snap-n exists
  image,    \* snap-n/snap.bin
  toc,      \* snap-n/snap.bin.toc
  automount,  \* autofs is active
  mount,    \* what autofs has mounted at /tmp/snapshots/snap-n
  link,     \* the snapshot each link of /mutable/TeslaCam points into
  lock,     \* the holder of the flock on /backingfiles/snapshots
  pc, job,  \* the stage and the local variables of each running script
  rebuildFlag,  \* /mutable/.rebuild_snapshot_symlinks exists
  reruns, faults,  \* setup re-runs, power losses and service restarts so far
  dropped   \* history: links removed for good (deleted by the user, or cleaned up)

vars == <<cam, dirs, image, toc, automount, mount, link, lock, pc, job, rebuildFlag, reruns,
          faults, dropped>>
files == <<dirs, image, toc>>

Job == [num : Num \cup {NoNum}, prev : Num \cup {NoNum},
        list : Listing, todo : SUBSET LinkNames, queue : SUBSET Num]
NoJob == [num |-> NoNum, prev |-> NoNum, list |-> Empty, todo |-> {}, queue |-> {}]

TypeOK ==
  /\ cam \in Listing
  /\ dirs \subseteq Num
  /\ image \in [Num -> Listing \cup {NoFile}]
  /\ toc \in [Num -> Listing \cup {NoFile}]
  /\ automount \in BOOLEAN
  /\ mount \in [Num -> Listing \cup {NoFile}]
  /\ link \in [LinkNames -> Num \cup {NoNum}]
  /\ lock \in Takers \cup {"fsm", "free"}
  /\ pc \in [Actors -> Stages]
  /\ job \in [Actors -> Job]
  /\ rebuildFlag \in BOOLEAN
  /\ reruns \in 0 .. MaxReruns
  /\ faults \in 0 .. MaxFaults
  /\ dropped \subseteq LinkNames

-----------------------------------------------------------------------------
(* What the scripts compute.                                               *)

Images == {n \in Num : image[n] # NoFile}
Complete(n) == n \in Num /\ image[n] # NoFile /\ toc[n] # NoFile
HasToc(n) == n \in Num /\ toc[n] # NoFile

Newest(S) == CHOOSE n \in S : \A m \in S : m <= n
Oldest(S) == CHOOSE n \in S : \A m \in S : n <= m

\* diff old new | grep '^>': a clip that is new or whose size changed
HasNewLines(old, new) == \E c \in Clips : new[c] > 0 /\ new[c] # old[c]

\* the links make_links_for_snapshot makes for a listing
LinksFor(f) == {l \in LinkNames : f[l[2]] > 0}

\* the links cleanup_deleted_clips removes: event folders only
GoneLinks(old, new) ==
  {l \in LinkNames : l[1] = "event" /\ old[l[2]] > 0 /\ new[l[2]] = 0}

\* Mutant: the scripts run without flock.
UnlockedAlways == TRUE

\* the flock on the snapshots directory can be had
Unlocked == lock = "free"

\* Mutants: the snapshots are counted; the increment is forgotten.
FollowingCount(old) == Cardinality(Images)
FollowingSame(old) == old

\* the number of the next snapshot, given the newest one
Following(old) == old + 1

\* Mutant: one is taken off twice when a snapshot is incomplete.
PrecedingTwice(num) == num - 2

\* the snapshot that a new one is compared with
Preceding(num) == num - 1

\* Mutant: the links of a released snapshot are left.
LinksIntoKept(n) == {}

\* find -lname "*/snap-n/*" of release_snapshot.sh
LinksInto(n) == {l \in LinkNames : link[l] = n}

\* Mutant: ln -s, which leaves a link that exists.
RetargetNew(l, n) == [link EXCEPT ![l] = IF @ = NoNum THEN n ELSE @]

\* ln -sf replaces the link that an older snapshot made
Retarget(l, n) == [link EXCEPT ![l] = n]

\* Mutants: the last image may go; the directories are not sorted.
SparesNone == Cardinality(Images) >= 1
VictimByTail == Newest(dirs)

\* manage_free_space.sh: more than the snapshot that was just taken, and the
\* first directory in the order of names
SparesOne == Cardinality(Images) >= 2
Victim == Oldest(dirs)

Linked(n) == LinksInto(n) # {}

\* What an access to /tmp/snapshots/snap-n may show.  A mount outlives its
\* image; without one autofs mounts the image, and the mount may fail.
Views(n) ==
  IF mount[n] # NoFile THEN {mount[n]} ELSE ({image[n]} \ {NoFile}) \cup {Empty}

\* the mounts after an access to snap-n that showed f
Mounted(n, f) ==
  [mount EXCEPT ![n] = IF mount[n] = NoFile /\ f = image[n] THEN f ELSE @]

\* auto.sentryusb does not run for snap-n: an access to snap-n waits for it
Settled(n) == pc["autofs"] # "idle" => job["autofs"].num # n

Goto(q, stage) == pc' = [pc EXCEPT ![q] = stage]

Unlinked(S) == [l \in LinkNames |-> IF l \in S THEN NoNum ELSE link[l]]

-----------------------------------------------------------------------------
(* make_snapshot.sh                                                        *)

\* The flock is taken and the numbers are chosen.  The newest snapshot is
\* incomplete when it has no snap.bin.toc: its number is then used again.
Select(p) ==
  /\ pc[p] = "idle" /\ Unlocked
  /\ lock' = p
  /\ LET old == Newest(Images)
         redo == Images # {} /\ toc[old] = NoFile
         num == IF Images = {} THEN 0 ELSE IF redo THEN old ELSE Following(old)
     IN /\ num <= MaxNum
        /\ job' = [job EXCEPT ![p] = [NoJob EXCEPT !.num = num, !.prev = Preceding(num)]]
        /\ Goto(p, IF redo THEN "purge" ELSE "copy")
  /\ UNCHANGED <<cam, automount, files, mount, link, rebuildFlag, reruns, faults, dropped>>

\* mkdir and cp --reflink; on a full disk the copy leaves an empty file or none
Copy(p) ==
  /\ pc[p] = "copy"
  /\ LET n == job[p].num IN
     /\ dirs' = dirs \cup {n}
     /\ \E copied \in {cam, Empty, NoFile} : image' = [image EXCEPT ![n] = copied]
     /\ mount' = [mount EXCEPT ![n] = IF image[n] # NoFile THEN NoFile ELSE @]
  /\ Goto(p, "list")
  /\ UNCHANGED <<cam, automount, toc, link, lock, job, rebuildFlag, reruns, faults, dropped>>

\* The script waits for autofs, the flock in hand; then find over the mounted
\* image writes snap.bin.toc_.  Without snap.bin, auto.sentryusb releases the
\* snapshot before the mount fails.
List(p) ==
  /\ pc[p] = "list"
  /\ automount
  /\ Settled(job[p].num)
  /\ LET n == job[p].num IN
     IF mount[n] = NoFile /\ image[n] = NoFile
     THEN /\ dirs' = dirs \ {n}
          /\ toc' = [toc EXCEPT ![n] = NoFile]
          /\ link' = Unlinked(LinksInto(n))
          /\ UNCHANGED <<job, mount>>
     ELSE /\ \E f \in Views(n) :
               /\ job' = [job EXCEPT ![p].list = IF n \in dirs THEN f ELSE Empty]
               /\ mount' = Mounted(n, f)
          /\ UNCHANGED <<dirs, toc, link>>
  /\ Goto(p, "compare")
  /\ UNCHANGED <<cam, automount, image, lock, rebuildFlag, reruns, faults, dropped>>

\* The new listing against the previous one.  Nothing new: the snapshot is
\* discarded.  Otherwise the links of clips deleted in the car go, and the
\* mounted image is read again for the links to make.
Compare(p) ==
  /\ pc[p] = "compare"
  /\ Settled(job[p].num)
  /\ LET n == job[p].num
         prev == job[p].prev
         gone == IF HasToc(prev)
                 THEN {l \in GoneLinks(toc[prev], job[p].list) : link[l] # NoNum} ELSE {}
     IN IF HasToc(prev) /\ ~HasNewLines(toc[prev], job[p].list)
        THEN Goto(p, "umount") /\ UNCHANGED <<job, mount, link, dropped>>
        ELSE /\ link' = Unlinked(gone)
             /\ dropped' = dropped \cup gone
             /\ \E f \in Views(n) :
                  /\ job' = [job EXCEPT ![p].todo = LinksFor(f)]
                  /\ mount' = Mounted(n, f)
             /\ Goto(p, "links")
  /\ UNCHANGED <<cam, automount, files, lock, rebuildFlag, reruns, faults>>

\* one link of make_links_for_snapshot
MakeLink(p) ==
  /\ pc[p] = "links"
  /\ \E l \in job[p].todo :
       /\ link' = Retarget(l, job[p].num)
       /\ dropped' = dropped \ {l}
       /\ job' = [job EXCEPT ![p].todo = @ \ {l}]
  /\ UNCHANGED <<cam, automount, files, mount, lock, pc, rebuildFlag, reruns, faults>>

\* The end of snapshot(): the rebuild if its flag is there, else the script ends.
AfterSnapshot(p, tocs) ==
  IF rebuildFlag
  THEN /\ Goto(p, "rebuild")
       /\ job' = [job EXCEPT ![p] = [NoJob EXCEPT !.queue = {n \in Num : tocs[n] # NoFile}]]
       /\ UNCHANGED lock
  ELSE Goto(p, "idle") /\ job' = [job EXCEPT ![p] = NoJob] /\ lock' = "free"

\* mv snap.bin.toc_ snap.bin.toc: the snapshot is complete
Commit(p) ==
  /\ pc[p] = "links" /\ job[p].todo = {}
  /\ LET n == job[p].num IN
     toc' = IF n \in dirs THEN [toc EXCEPT ![n] = job[p].list] ELSE toc
  /\ AfterSnapshot(p, toc')
  /\ UNCHANGED <<cam, automount, dirs, image, mount, link, rebuildFlag, reruns, faults, dropped>>

\* One snapshot of the rebuild, oldest first: skipped without an image and
\* when some link points into it, else all its links are made.  -e follows the
\* mnt link, so for an image that cannot be mounted ln -s finds mnt there and
\* the script, now under errexit, dies with the flag still set.
Rebuild(p) ==
  /\ pc[p] = "rebuild" /\ job[p].queue # {}
  /\ LET n == Oldest(job[p].queue)
         next == [job EXCEPT ![p].queue = @ \ {n}]
     IN \/ /\ image[n] = NoFile
           /\ job' = next
           /\ UNCHANGED <<mount, link, lock, pc, dropped>>
        \/ /\ image[n] # NoFile /\ Settled(n)
           /\ job' = next
           /\ mount' = [mount EXCEPT ![n] = IF @ = NoFile THEN image[n] ELSE @]
           /\ LET new == IF Linked(n) THEN {} ELSE LinksFor(mount'[n]) IN
              /\ link' = [l \in LinkNames |-> IF l \in new THEN n ELSE link[l]]
              /\ dropped' = dropped \ new
           /\ UNCHANGED <<lock, pc>>
        \/ /\ image[n] # NoFile /\ Settled(n) /\ mount[n] = NoFile
           /\ Goto(p, "idle") /\ job' = [job EXCEPT ![p] = NoJob] /\ lock' = "free"
           /\ UNCHANGED <<mount, link, dropped>>
  /\ UNCHANGED <<cam, automount, files, rebuildFlag, reruns, faults>>

RebuildDone(p) ==
  /\ pc[p] = "rebuild" /\ job[p].queue = {}
  /\ rebuildFlag' = FALSE
  /\ Goto(p, "idle") /\ job' = [job EXCEPT ![p] = NoJob] /\ lock' = "free"
  /\ UNCHANGED <<cam, automount, files, mount, link, reruns, faults, dropped>>

-----------------------------------------------------------------------------
(* manage_free_space.sh                                                    *)

FsmStart ==
  /\ pc["fsm"] = "idle" /\ Unlocked
  /\ lock' = "fsm"
  /\ Goto("fsm", "check")
  /\ UNCHANGED <<cam, automount, files, mount, link, job, rebuildFlag, reruns, faults, dropped>>

\* enough room, or fewer than two images
FsmStop ==
  /\ pc["fsm"] = "check"
  /\ lock' = "free"
  /\ Goto("fsm", "idle") /\ job' = [job EXCEPT !["fsm"] = NoJob]
  /\ UNCHANGED <<cam, automount, files, mount, link, rebuildFlag, reruns, faults, dropped>>

\* still low on space: the first directory in the order of names goes
FsmChoose ==
  /\ pc["fsm"] = "check"
  /\ SparesOne
  /\ job' = [job EXCEPT !["fsm"].num = Victim]
  /\ Goto("fsm", "umount")
  /\ UNCHANGED <<cam, automount, files, mount, link, lock, rebuildFlag, reruns, faults, dropped>>

-----------------------------------------------------------------------------
(* release_snapshot.sh, run by make_snapshot.sh, by manage_free_space.sh   *)
(* and by auto.sentryusb; rm -rf of an incomplete snapshot by              *)
(* make_snapshot.sh alone.                                                 *)

\* umount does nothing when the mount is busy or is not of this image
Umount(q) ==
  /\ pc[q] = "umount"
  /\ LET n == job[q].num IN
     \E m \in {mount[n]} \cup (IF image[n] # NoFile THEN {NoFile} ELSE {}) :
       mount' = [mount EXCEPT ![n] = m]
  /\ Goto(q, "rm")
  /\ UNCHANGED <<cam, automount, files, link, lock, job, rebuildFlag, reruns, faults, dropped>>

\* rm -rf has removed one of the two files: a fault may leave it at that
RmPart(q) ==
  /\ pc[q] \in {"purge", "rm"}
  /\ LET n == job[q].num IN
     \/ image' = [image EXCEPT ![n] = NoFile] /\ UNCHANGED toc
     \/ toc' = [toc EXCEPT ![n] = NoFile] /\ UNCHANGED image
  /\ UNCHANGED <<cam, automount, dirs, mount, link, lock, pc, job, rebuildFlag, reruns,
                 faults, dropped>>

\* Mutant: the file system is read-only and nobody looks at rm's result.
RmKeeps(q) ==
  /\ pc[q] \in {"purge", "rm"}
  /\ Goto(q, IF pc[q] = "purge" THEN "copy" ELSE "unlink")
  /\ UNCHANGED <<cam, automount, files, mount, link, lock, job, rebuildFlag, reruns, faults,
                 dropped>>

Rm(q) ==
  /\ pc[q] \in {"purge", "rm"}
  /\ LET n == job[q].num IN
     /\ dirs' = dirs \ {n}
     /\ image' = [image EXCEPT ![n] = NoFile]
     /\ toc' = [toc EXCEPT ![n] = NoFile]
  /\ Goto(q, IF pc[q] = "purge" THEN "copy" ELSE "unlink")
  /\ UNCHANGED <<cam, automount, mount, link, lock, job, rebuildFlag, reruns, faults, dropped>>

\* find -lname -delete, and back to the caller
Unlink(q) ==
  /\ pc[q] = "unlink"
  /\ link' = Unlinked(LinksInto(job[q].num))
  /\ CASE q = "fsm" ->
            Goto(q, "check") /\ job' = [job EXCEPT ![q] = NoJob] /\ UNCHANGED lock
       [] q = "autofs" ->
            Goto(q, "idle") /\ job' = [job EXCEPT ![q] = NoJob] /\ UNCHANGED lock
       [] OTHER -> AfterSnapshot(q, toc)
  /\ UNCHANGED <<cam, automount, files, mount, rebuildFlag, reruns, faults, dropped>>

-----------------------------------------------------------------------------
(* autofs, the car, the user and faults                                    *)

\* Somebody can look into snap-n: through the mnt link of a directory that is
\* there, or through a track mode link, which names /tmp/snapshots/snap-n.
Reachable(n) ==
  \/ n \in dirs /\ (toc[n] # NoFile \/ Linked(n))
  \/ \E l \in LinkNames : l[1] = "track" /\ link[l] = n

\* autofs has come up
AutofsUp ==
  /\ ~automount
  /\ automount' = TRUE
  /\ UNCHANGED <<cam, files, mount, link, lock, pc, job, rebuildFlag, reruns, faults, dropped>>

AutofsMount(n) ==
  /\ automount /\ Reachable(n) /\ Settled(n) /\ mount[n] = NoFile /\ image[n] # NoFile
  /\ mount' = [mount EXCEPT ![n] = image[n]]
  /\ UNCHANGED <<cam, automount, files, link, lock, pc, job, rebuildFlag, reruns, faults, dropped>>

\* snap.bin cannot be read: auto.sentryusb starts release_snapshot.sh, without the flock
AutofsRelease(n) ==
  /\ pc["autofs"] = "idle"
  /\ automount /\ Reachable(n) /\ mount[n] = NoFile /\ image[n] = NoFile
  /\ job' = [job EXCEPT !["autofs"].num = n]
  /\ Goto("autofs", "umount")
  /\ UNCHANGED <<cam, automount, files, mount, link, lock, rebuildFlag, reruns, faults, dropped>>

\* autofs unmounts what was not used for some minutes, so not between the two
\* readings of a new snapshot
AutofsExpire(n) ==
  /\ mount[n] # NoFile
  /\ \A p \in Takers : pc[p] = "compare" => job[p].num # n
  /\ mount' = [mount EXCEPT ![n] = NoFile]
  /\ UNCHANGED <<cam, automount, files, link, lock, pc, job, rebuildFlag, reruns, faults, dropped>>

\* the car records, lengthens or deletes a clip; archiving deletes clips too
CamChanges(c) ==
  /\ \E size \in (0 .. MaxSize) \ {cam[c]} : cam' = [cam EXCEPT ![c] = size]
  /\ UNCHANGED <<files, automount, mount, link, lock, pc, job, rebuildFlag, reruns, faults,
                 dropped>>

\* the user deletes a clip in the web UI
UserDeletes(l) ==
  /\ link[l] # NoNum
  /\ link' = Unlinked({l})
  /\ dropped' = dropped \cup {l}
  /\ UNCHANGED <<cam, automount, files, mount, lock, pc, job, rebuildFlag, reruns, faults>>

\* setup is run again on an installed system
SetupRerun ==
  /\ reruns < MaxReruns
  /\ reruns' = reruns + 1
  /\ rebuildFlag' = TRUE
  /\ UNCHANGED <<cam, automount, files, mount, link, lock, pc, job, faults, dropped>>

\* systemd restarts sentryusb-archive: its scripts are killed, mounts stay
ServiceRestart ==
  /\ faults < MaxFaults
  /\ faults' = faults + 1
  /\ LET killed == Actors \ {"autofs", "samba"} IN
     /\ pc' = [q \in Actors |-> IF q \in killed THEN "idle" ELSE pc[q]]
     /\ job' = [q \in Actors |-> IF q \in killed THEN NoJob ELSE job[q]]
     /\ lock' = IF lock \in killed THEN "free" ELSE lock
  /\ UNCHANGED <<cam, automount, files, mount, link, rebuildFlag, reruns, dropped>>

PowerLoss ==
  /\ faults < MaxFaults
  /\ faults' = faults + 1
  /\ pc' = [q \in Actors |-> "idle"]
  /\ job' = [q \in Actors |-> NoJob]
  /\ lock' = "free"
  /\ mount' = [n \in Num |-> NoFile]
  /\ automount' = FALSE
  /\ UNCHANGED <<cam, files, link, rebuildFlag, reruns, dropped>>

-----------------------------------------------------------------------------
Init ==
  /\ cam = Empty
  /\ dirs = {}
  /\ image = [n \in Num |-> NoFile]
  /\ toc = [n \in Num |-> NoFile]
  /\ automount = FALSE
  /\ mount = [n \in Num |-> NoFile]
  /\ link = [l \in LinkNames |-> NoNum]
  /\ lock = "free"
  /\ pc = [q \in Actors |-> "idle"]
  /\ job = [q \in Actors |-> NoJob]
  /\ rebuildFlag = FALSE
  /\ reruns = 0 /\ faults = 0
  /\ dropped = {}

MakeSnapshotStep(p) ==
  \/ Copy(p) \/ List(p) \/ Compare(p) \/ MakeLink(p) \/ Commit(p)
  \/ Rebuild(p) \/ RebuildDone(p)
MakeSnapshot(p) == Select(p) \/ MakeSnapshotStep(p)
ManageFreeSpace == FsmStart \/ FsmStop \/ FsmChoose
ReleaseStep(q) == Umount(q) \/ Rm(q) \/ Unlink(q)
Release(q) == ReleaseStep(q) \/ RmPart(q)
Autofs(n) == AutofsMount(n) \/ AutofsRelease(n) \/ AutofsExpire(n)

Next ==
  \/ \E p \in Takers : MakeSnapshot(p)
  \/ ManageFreeSpace
  \/ \E q \in Actors : Release(q)
  \/ \E n \in Num : Autofs(n)
  \/ \E c \in Clips : CamChanges(c)
  \/ \E l \in LinkNames : UserDeletes(l)
  \/ AutofsUp \/ SetupRerun \/ ServiceRestart \/ PowerLoss

Spec == Init /\ [][Next]_vars

\* a script that has the flock keeps running
Fairness ==
  /\ \A p \in Takers : WF_vars(MakeSnapshotStep(p))
  /\ \A q \in Actors : WF_vars(ReleaseStep(q))
  /\ WF_vars(FsmStop \/ FsmChoose)

FairSpec == Spec /\ Fairness

-----------------------------------------------------------------------------
(* Properties                                                              *)

\* The flock works: a script past it holds it, so make_snapshot.sh and
\* manage_free_space.sh never run at the same time, whoever started them.
LockExclusion == \A p \in Takers \cup {"fsm"} : pc[p] # "idle" <=> lock = p

\* A snapshot is never overwritten: its image stays as it was copied until it
\* is deleted, whatever numbers are used again after faults.
ImagesImmutable ==
  [][\A n \in Num : image[n] # NoFile => image'[n] \in {image[n], NoFile}]_vars

FsmRemoves == pc["fsm"] = "rm" /\ pc'["fsm"] = "unlink"

\* The free space manager removes the oldest snapshot directory, also when
\* auto.sentryusb removes another one between its choice and its rm.
OldestFirst == [][FsmRemoves => \A m \in dirs : job["fsm"].num <= m]_vars

\* The free space manager never removes the newest image.
KeepsNewest == [][FsmRemoves => \E m \in Images : job["fsm"].num < m]_vars

\* Without faults, discarding a new snapshot takes no link away: release_snapshot.sh
\* removes the links by the number, and no link of an older snapshot, released or
\* not, names the number that was given to the new one.
DiscardKeepsLinks ==
  [][\A p \in Takers : pc[p] = "unlink" /\ pc'[p] # "unlink" /\ faults' = 0 =>
       link' = link]_vars

\* Without faults, links move to newer snapshots only; the rebuild alone may move
\* one back.  (After a fault the numbers may start again at 0.)
OnlyRebuildMovesBack ==
  [][\A l \in LinkNames : faults = 0 /\ link'[l] \in 0 .. (link[l] - 1) =>
       \E p \in Takers : pc[p] = "rebuild"]_vars

\* Without faults and rebuilds, every clip of a complete snapshot is reachable:
\* its link points into that snapshot or a newer one, unless it was deleted.
\* Releasing an old snapshot never takes the link of a clip a newer one holds.
LinkedNewest ==
  \A n \in Num : Complete(n) =>
    \A l \in LinksFor(toc[n]) : l \in dropped \/ link[l] >= n

\* Without faults, a link leads to its clip whenever no script is at work.
LinksResolve ==
  Unlocked => \A l \in LinkNames : link[l] # NoNum =>
                image[link[l]] # NoFile /\ image[link[l]][l[2]] > 0

\* snap.bin.toc lists the image it stands beside (an empty listing is that of
\* an image that could not be mounted).
TocHonest == \A n \in Num : Complete(n) => toc[n] \in {image[n], Empty}

\* Once both listings are compared, no saved or sentry clip that was deleted in
\* the car keeps its link ("so those deleted clips won't be archived").
InCarDeletionsUnlinked ==
  [][\A p \in Takers :
       LET n == job[p].num
           prev == job[p].prev
       IN pc[p] = "compare" /\ pc'[p] \in {"links", "umount"} /\ HasToc(prev)
            /\ job[p].list = image[n] =>
          \A l \in GoneLinks(toc[prev], image[n]) : link'[l] = NoNum]_vars

\* The rebuild skips a snapshot that cannot be mounted: no script that started
\* the rebuild ends, faults aside, with the flag still there.
RebuildSkipsUnmountable ==
  [][\A p \in Takers : pc[p] = "rebuild" /\ pc'[p] = "idle" /\ faults' = faults =>
       ~rebuildFlag']_vars

\* Once autofs is up, whoever holds the flock gives it back: nobody waits for it for
\* ever.  make_snapshot.sh waits for autofs without a bound, and holds it meanwhile.
LockReleased == \A p \in Takers \cup {"fsm"} : automount /\ lock = p ~> ~automount \/ lock # p
=============================================================================
