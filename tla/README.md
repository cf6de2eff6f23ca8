# A TLA+ model of SentryUSB

SentryUSB turns a Raspberry Pi into the USB drive of a car. The car writes dash cam
clips to a disk image. The Pi takes snapshots of that image, archives the clips when it
is at home and makes room for new ones; a web server lets the user look at the clips
and control the rest, by a web interface that runs in the browser. This directory holds
TLA+ modules of the parts where processes, faults, shared files and answers out of order
make that hard to get right, configurations that check them with TLC, and proofs of the
main results with TLAPS.

## How to run

    tlc -workers 2 -config SnapshotsLinks.cfg MCSnapshots
    tlc -workers 2 -config Web.cfg MCWeb
    tlapm SnapshotsLinksProofs.tla
    tlapm WebProofs.tla

`tlapm` checks the proofs of the module it is given, so each of the eight `*Proofs`
modules is a call of its own. Each `.cfg` belongs to the `MC` module whose name it starts
with; `WizardSkip.cfg` belongs to `SetupForm`. `PROJECT.json` lists the runs with the
expected results, the source lines of each definition, a mutant of the code for every
property that holds, the hazards of the code and the theorems.

## Inventory

| Part | State | Operations | Hard about it | Correct means | Module |
|---|---|---|---|---|---|
| Snapshot store: `run/make_snapshot.sh`, `run/release_snapshot.sh` | `/backingfiles/snapshots/snap-n`, the links under `/mutable/TeslaCam` | take, compare, discard, link, rebuild, release | three starters, a manager that deletes, a power loss at any step, numbers used again | images never change, clips keep a link, a listing describes its image | `Snapshots` |
| Free space manager: `run/manage_free_space.sh` | none of its own | delete oldest snapshots | counts and chooses at different times | oldest goes first, newest stays | `Snapshots` |
| Snapshot automount: `run/auto.sentryusb` | autofs mounts | mount on access, expire, release incomplete snapshots | runs without the flock | does not destroy what the others use | `Snapshots` |
| USB gadget: `run/enable_gadget.sh`, `run/disable_gadget.sh` | configfs directory | set up, tear down | half-done set-ups | the car has its disk | `CamDisk` |
| archiveloop, main loop and mounts: `run/archiveloop` | the mount `/mnt/cam`, the stage of the loop | clean, snapshot, connect, archive, wait, check | restarts, failing scripts, a second program that does the same | the host and the car never use the image at once | `CamDisk` (in part) |
| Lock chime and drive toggle: `server/api/lock_chime.go`, `system.go` | library, staged sound, active name, file on the disk | activate, clear, random choice, toggle | goroutines that cycle the gadget beside archiveloop | the active sound gets to the disk, the gadget comes back | `CamDisk` (in part) |
| archiveloop, clip lists and overlay | lists of archived clips, overlay mount | choose, copy, clean up | snapshots change below the overlay | nothing is deleted before it is archived | planned: `Archiver` |
| Keep awake: `server/api/keepawake.go` | registry of owners, session, stop channel, watchers | start, stop, heartbeat, expire, hand over to work under way | goroutines left over from earlier sessions, expiry against extension | a session while somebody wants it, and it ends | `KeepAwake`, `KeepAwakeService` |
| Keep awake and away mode in the browser: `hooks/useKeepAwake.tsx`, `useAwayMode.tsx` | status shown, time of the last request, a note in local storage | poll, heartbeat, start, stop | polls cross requests | shows the state of the server in the end | `KeepAwakeClient`, `AwayClient` |
| Away mode: `server/api/awaymode.go` | session, flag file, watcher | enable, disable, expire, restore | as above, restarts, devices without a clock | the flag file exists exactly during a session, which ends | `AwayMode` |
| Drive jobs: `server/api/drives.go`, `drives/processor.go`, `pages/Drives.tsx` | running and importing flags, keep-awake want, what the buttons show, three polls | process, reprocess, import, follow | flags are looked at and set apart | one run at a time, buttons enabled in the end | `DriveJobs` |
| Migration banner: `hooks/useMigrationStatus.tsx`, `layout/MigrationBanner.tsx` | progress shown, request for keep-awake | poll, push | pushes lost or late | gone in the end | `Migration` |
| Drive map: `pages/Drives.tsx` | list, details, tags, slider | select, tag, filter, play | details of another drive come late | tags stay with their drive | `DrivesPage` |
| File browser page: `pages/Files.tsx` | folder, selection, uploads | switch, search, change, upload | timers and answers of earlier renders | rows are those of the upload | `FilesPage` |
| Upload dialog: `upload/MultiFileUploader.tsx` | the files and their states | add, remove, upload one or all | user edits while a loop runs | no file is sent twice at once | `Uploader` |
| Lock sound page: `pages/LockChime.tsx` | library, player, forms, random mode, community browser | play, upload, activate, save | one player, promises, servers that refuse | shows what is heard and what is stored | `ChimeLibrary`, `ChimeRandom`, `ChimeCommunity`, `PagedLibrary` |
| Community wraps: `pages/CommunityWraps.tsx`, `Community.tsx`, `wraps/GodotRenderer.tsx` | pages, dialogs, passcode, preview queue | browse, edit, delete, upload with preview | a renderer that answers late or never | own picture or none, an upload gets as far as sending, the list is that of the passcode in use | `Wraps`, `WrapPreview`, `PagedLibrary` |
| Pushed messages: `lib/ws.ts`, `server/ws/hub.go` | sockets, clients, queues, timers | connect, ping, register, drop, broadcast | slow and leaving clients, handlers of replaced sockets | no use of a closed channel, reconnects | `Push` |
| Connection banner: `hooks/useConnectionStatus.tsx`, `layout/ConnectionBanner.tsx` | failures counted, banner, its timer | poll, retry, dismiss | overlapping polls | outage shown, recovery shown | `Connection` |
| Start and login: `App.tsx`, `hooks/useAuth.tsx`, `Login.tsx` | face shown, session | poll the setup, check, log in and out | checks cross logins | login exactly without a session | `Session` |
| Setup wizard: `setup/SetupWizard.tsx` and steps, `server/api/setup.go` | form, step, warning, phase; markers of the setup | edit, import, restore, apply, follow | steps in any order, reboots, lost messages | complete and asked for; complete means done | `SetupForm`, `SetupRun` |
| Drive store: `server/drives/`, `server/api/drives.go` | SQLite database, job flags, synced copy | add, process, import, replace, migrate, sync | imports against processing, busy retries, partial writes | no route is lost or counted twice, the copy is never replaced by less | planned: `DriveStore` |
| Update, backup, notifications, terminal, health check: `server/api/` | files, remote services | | mostly calls of other programs | | not modelled |
| Drive grouping, blobs, export: `server/drives/grouper.go` ... | none | pure functions of GPS data | floating point | | not modelled |
| BLE daemon, FUSE view, setup scripts | | | proxy, byte rewriting, run once | | not modelled |
| The other pages: settings, viewer, dashboard, logs, terminal, notifications, support | requests that stand alone, a video player | | | | not modelled |

How they interact: archiveloop (one process, with the background loops `snapshotloop` and
`freespacemanager`) starts the scripts; the scripts meet in the snapshots directory and
order themselves with a flock; autofs runs `auto.sentryusb` whenever somebody follows a
link; samba starts `make_snapshot.sh` too. The web server runs each request in a
goroutine, calls the gadget scripts itself, and archiveloop calls it over HTTP before it
connects the drives. The gadget and the mount of the image are shared by archiveloop and
the web server with no common lock.

The web interface is one page at a time in a browser. A page reaches the server by HTTP
requests whose answers come in any order, and by one WebSocket on which the hub pushes
progress. An event handler goes on after each `await` with the values of the render it
was created in; that, and timers that outlive what started them, is what its modules are
about. The client of keep-awake assumes the service that the manager implements.

## Modules

* `Snapshots`: the snapshot store with all that touch it. `MCSnapshots` for TLC;
  `SnapshotsProofs`, and `SnapshotsLinksProofs` for links and listings.
* `CamDisk`: the image of the cam disk, between the gadget and the mount. `MCCamDisk`,
  `CamDiskProofs`.
* Nineteen modules of the web interface and the handlers behind it, with the two they
  share, composed in `Web`. `MCWeb` for TLC; `PagesProofs` (drive map, drive jobs,
  migration, uploads), `ServerProofs` (hub, keep-awake, away mode), `LibraryProofs` (lock
  sounds and wraps), `SetupProofs` (connection, session, clients, setup) and `WebProofs`,
  which joins them.

`Snapshots` and `CamDisk` are separate since a snapshot reads the image through a reflink
copy and neither mounts it at `/mnt/cam` nor touches the gadget. What joins them, the
deletion of clips that a snapshot should hold first, belongs to the planned module
`Archiver`.

### Snapshots

| Variable | Code |
|---|---|
| `cam` | the files on `cam_disk.bin`, a size for each clip |
| `dirs`, `image`, `toc` | the directories `snap-n`, `snap.bin` and `snap.bin.toc` in them |
| `mount` | the content autofs has mounted at `/tmp/snapshots/snap-n` |
| `link` | the links under `/mutable/TeslaCam`: the snapshot each points into |
| `automount` | autofs is active |
| `lock` | the flock on `/backingfiles/snapshots` |
| `pc`, `job` | stage and local variables of every running script |

`Select` to `AfterSnapshot` are the steps of `make_snapshot.sh`, in its order: choose the
number, purge an incomplete predecessor, copy, list, compare, link, rename the listing.
`Umount` to `Unlink` are `release_snapshot.sh`, called by `make_snapshot.sh`, by the free
space manager and by autofs. `FsmStart`, `FsmStop` and `FsmChoose` are
`manage_free_space.sh`; how much space is free is left open. A step of the model ends
where another process could see the difference. Faults are a restart of the archive
service, which kills every script it started but not samba's, and a power loss, which
also clears the mounts.

Abstracted: names of clips, dates and date patterns; a clip is its size, since that is what
the listing compares. fsck of the snapshot, the timestamp fix, the symbolic link `mnt` (an
alias of the mount) and colliding names of recent clips are left out. The rebuild of one
snapshot is one step. The loop that waits for autofs (`make_snapshot.sh:301-305`) is the
guard of `List` on `automount`, which is lost with the power and comes back by `AutofsUp`;
the flock is held meanwhile. A mount that fails gives an empty listing. The branch of
`make_snapshot.sh` at lines 265-269 is not reached in any state (that is `CopyFresh`,
proved). External behaviour that is assumed: autofs runs the program for one key at a time
(`Settled`), and `cp --reflink` that fails leaves no file or an empty one.

### CamDisk

| Variable | Code |
|---|---|
| `gadget` | the directory `sentryusb` in configfs: absent, there but not bound, bound |
| `mounted` | the image is mounted at `/mnt/cam` |
| `stuck` | history: since the power came on, a `disable_gadget.sh` has left the gadget bound, or a `umount` the image mounted |
| `pc`, `ret` | archiveloop: its stage, and which call of `clean_cam_mount` or `connect_usb_drives_to_host` it is in |
| `mu`, `web` | `camDiskMu`, and each goroutine of the server with its request and local variables |
| `staged`, `active`, `disk` | `/mutable/LockChime.wav`, `.active_name`, `LockChime.wav` on the image |

`Down`, `Work`, `Mount` and `Unmount` are the four things archiveloop does to the disk; the
procedures `CleanCamMount`, `ConnectToHost`, `Music` and `Check` are sequences of them. A
goroutine goes through `Request` (or `Toggle`), `Name`, `Lock`, `WebDown`, `WebMount`,
`Write`, `WebUnmount`, `Unlock`, `WebUp`; each is one system call or script.
`archive_clips` decides for reasons outside the model (the archive, the time of the last
cleaning) whether it cleans the disk, so `Archive` may do either.

Abstracted: the music, light show, boombox and wraps disks; what else is copied to the
image; the configfs entries one by one; the library of sounds, which is constant (a
deleted active sound is a cleared one); the staging of a random sound for archiveloop is
one step. A `disable_gadget.sh` that fails leaves the gadget as it was, half torn down, or
(`disable_gadget.sh:7-11, 20`) bound; when `umount` and `umount -l` both fail archiveloop
goes on with the image mounted. A lazy unmount that works counts as an unmount, although
the file system lives on while files are open.

### The web interface and its handlers

Each module is one page or hook, together with the handlers of the server that it talks
to, as far as their state matters to it. A request is a record with a stage: sent, served
(the server has done it and has written its answer), answered. An `await` ends a step. A
value that a handler took from its render is kept in the record of its request, so that
it can be stale when the answer comes.

| Module | State and code | Property in run `web` |
|---|---|---|
| `Uploader` | `entry`: the state of each file; `drop`: runs of `addFiles`; `single`, `all`: the calls of `uploadSingle` and `uploadAll` that wait (`MultiFileUploader.tsx`) | `OneUpload` |
| `FilesPage` | tab, path, search and its timer, listings under way, selection, uploads with the timer that clears their rows (`Files.tsx`) | `RowsOfUpload` |
| `DrivesPage` | `there`, `stored`: the drives and their tags at the server; `list`, `detail`: as shown; details and saves under way; slider (`Drives.tsx`). A drive is its start time; its number is its position among those there, counted anew for each request, and an import may move it | `DriveTags` (`TagsOwn`, `ListAgrees`) |
| `DriveJobs` | the flags and the want of `drives.go` and `processor.go`; requests with their stage; what the buttons show; polls | `OneRun`, `JobsShown` (`FlagsSettle`) |
| `Migration` | batches done, whether the backfill ended with an error, pushes and one poll under way, what the banner shows and asks for | `JobsShown` (`MigrationSettles`) |
| `ChimeLibrary` | the stored sounds and the active one, the list shown, the player with its promises, the form (`LockChime.tsx`, `lock_chime.go`) | `SoundsShown` (`PlayingHeard`, `SentOnce`) |
| `ChimeRandom` | settings at the server, which at first have no mode ("none" stands for ""), settings of the card, the disclaimer | `RandomMode` (`ShowsMode`, `AgreedFirst`) |
| `PagedLibrary` | filters, page, timer and fetches of a library shown page by page; used by the next two | |
| `ChimeCommunity` | that library, a player, downloads, changes by an administrator | `SettledPage` |
| `Wraps` | that library, the dialogs, the passcode, the validations and the requests under way; the passcode is part of the query | `OwnList` |
| `WrapPreview` | uploads, by the button of a file or the loop over all, each with its own listener and timers; the renderer as a queue of messages that do not name a file | `PreviewOwn`, `PreviewsEnd` |
| `Push` | each socket as the browser and as the kernel see it, timers; `hub`, `queue` and `over` (closed channels) of the server | `ChannelsOpen`, `Reconnects` |
| `Connection` | failures counted, up to two polls, the button's check, the banner with its timer | `OutageVisible`, `StatusSettles` |
| `Session` | the session at the server, which is on disk and expires after a day, the face shown, checks, login and logout under way, the setup | `ClientsSettle` (`AuthSettles`, `SetupLeadsOn`) |
| `KeepAwake` | `m.state`, the registry, `m.stopCh` as a number, closed channels, the place of each goroutine | `ServiceKept`, `SessionsEnd` |
| `KeepAwakeClient` | polls and calls, and which state is shown | `ClientsSettle` (`ShownSettles`) |
| `AwayMode` | session, flag file, stop channel, watchers, the process that may restart, calls of the access point | `FlagIsSession`, `SessionsEnd` |
| `AwayClient` | polls, calls, state shown, note in local storage | `ClientsSettle` (`NoteSettles`) |
| `SetupForm` | the form, the configuration it is compared with, the one the device has, step, warning, what is being sent | `FormApplied` (`AppliedComplete`, `UnaskedKeeps`); `SkipKeepsDrives` in `wizard_skip` |
| `SetupRun` | the server with the markers of the setup, the wizard's phase, polls and socket | `CompleteIsDone`, `WizardFollows` |

`KeepAwakeService` is an abstract specification: a session that is idle, pending or
active, and an owner on record exactly while it is not idle. `KeepAwake`, with its stop
channels and goroutines, implements it (`ServiceKept`, proved as `Refinement`), under the
mapping of `m.state` to the session and of "webui" in the registry to the owner.
`KeepAwakeClient` extends the abstract module, so the client is checked against the
service and the manager is shown to be one.

`Web` puts all nineteen parts under one specification: its constants and variables are
those of the parts, with the name of the part in front, and each part is an instance of
its module. `MCWeb` gives the constants their values and narrows the initial states of the
parts that do not act. One page is mounted at a time
and the parts share no variable, so `on` chooses the part that acts and the others keep
their initial states: the states of the parts add up instead of multiplying, and a
property of a part is stated for the behaviours in which it acts. What two parts really
share is modelled inside one of them (processing and its page in `DriveJobs`, hub and
socket in `Push`, service and client in the two keep-awake modules).

Abstracted: texts, icons, toasts, maps, charts and formats; names and sizes of files;
values of single settings (a field is filled or empty, a size is one of two); the
contents of listings (a listing is the query it answers). A request that fails may have
been done by the server or not. Actions of the user are free, as far as the control is on
the page and enabled.

## Runs

| Run | Shows |
|---|---|
| `snapshots_links` | Two starters of `make_snapshot.sh`, the manager, autofs, the car and the user in any order, no faults: the flock excludes, every clip of a complete snapshot keeps a link to that snapshot or a newer one unless it was deleted, links resolve whenever the flock is free, every listing describes its image, a new snapshot that is discarded takes no link of an older one with it. |
| `snapshots_faults` | One fault at any point: images never change, the oldest directory goes first and never the newest image. |
| `snapshots_live` | With a re-run of the setup: links move back only in the rebuild; under fairness the flock is given back, once autofs is up. |
| `snapshots_stale_mount` | Violation: a listing taken through the mount of a deleted image. |
| `snapshots_in_car` | Violation: clips deleted in the car keep their links. |
| `snapshots_rebuild` | Violation: a snapshot that cannot be mounted ends the script instead of being skipped. |
| `camdisk_alone` | archiveloop with two faults: the image is never mounted while the car has it, unless a `disable_gadget.sh` left the gadget bound or a `umount` the image mounted (`stuck`). |
| `camdisk_web` | archiveloop and two goroutines, no faults: one goroutine in the mount at a time, the gadget comes back, the active sound reaches the disk. |
| `camdisk_shared` | Violation: a change of the lock sound and archiveloop have the image in use twice. |
| `camdisk_chime` | Violation: a sound activated at the wrong moment stays off the disk until the next cycle. |
| `web` | The web interface and its handlers, part by part: 15 invariants and 8 temporal properties, listed above. Those with a history variable in them hold under the condition it stands for, see below. |
| `wizard_skip` | Violation: a user who skips the destructive changes still sends a changed drive size. |

### Bounds and why they are enough

* Snapshots are numbered 0 to 2: an oldest, one in the middle and a newest, so that a
  release in the middle, the reuse of a number and the comparison with a predecessor that
  has a predecessor all happen. Clips have the sizes 0 (absent) to 1 or 2; size 2 tells a
  changed clip from a new one. The runs use an event clip (two links), a recent or a track
  clip as their properties need.
* Two starters of `make_snapshot.sh` exercise the flock; a third adds no new conflict, and
  the theorem `LockSafe` covers any number.
* One fault in `snapshots_faults`, two in `camdisk_alone`: two give a failed script and a
  restart, or a restart in the work after a restart.
* Two goroutines, one change of the sound and one toggle in `camdisk_web`: one inside and
  one waiting. With a second change the run is the same in kind but takes much longer
  (the safety part was checked so). `OneAtATimeSafe` and `BackSafe` cover any number.
* One lock sound and "none" suffice: the code only compares the active one with the disk.
* `web` has two of what can cross (files, drives, requests, sockets, calls, watchers, polls
  where polls race each other) and one poll where only a request races it. Sequences of the
  user are 2 to 5 acts long (`MaxActs`): a change, a second one before the answer to the
  first, and a third that finds the page between the two. The wraps need four: two for a
  passcode (the prompt and the validation), one for a dialog and one for a change in it. Two
  uploads of wraps give a preview that hears the answers to the other. Three requests of
  requests for pages (`MaxFetches`) give an answer that is overtaken twice. Channels hold
  one message (`Cap`), so that a slow client is dropped. Away mode lasts two half minutes
  with one restart: the flag file is written before, between and after. The setup reboots
  twice: once in its course and once at the end, and two polls of the finalizing wizard
  overlap. The theorems cover any number of these for all fifteen invariants and for the
  refinement.
* `wizard_skip` has one drive image with two sizes.

### Fairness

`Snapshots!Fairness`: a script that has the flock goes on, for which the scheduler of the
kernel is enough, but for one place: `make_snapshot.sh` waits for autofs without a bound
while it holds the flock (lines 301-305). Nothing forces autofs up: `LockReleased` says that
the flock is given back once autofs is there. While it is down the lock stays taken, and
with it the snapshots and the management of the space stop. No script is forced to start.

`CamDisk!Fairness`: archiveloop goes on, since every command in it ends (the mount has a
timeout of its own); so do the goroutines (`shell.RunWithTimeout`). `Lock` is strongly
fair: a Go mutex hands itself over to a goroutine that waited for a millisecond. The two
waits of archiveloop end since the car comes home and leaves again; that is an assumption
about the user. Without it a gadget the user disconnected stays disconnected.

`Web!Fairness` is the fairness of each module, for the part that acts. Requests are
answered or fail (browsers time out), intervals go off again and again, timers go off,
goroutines run, tickers tick. It is weak fairness of single calls, polls and goroutines.
Not forced: what the user does, faults, and that the renderer of the previews answers.
For keep-awake, `WorkEnds` says that an archive or a drive job ends; for a setup, `Down`
and `Up` say that a reboot that was started happens and that the device comes back.

### What the violations show

* `snapshots_stale_mount`: after a restart of the service in the middle of a snapshot,
  the mount of the incomplete image outlives it. `make_snapshot.sh:242` removes the
  incomplete snapshot without unmounting it, the number is used again and the
  new image is listed through the old mount.
* `snapshots_in_car`: `make_snapshot.sh:311` looks only for lines that are new in the
  listing, so a snapshot with deletions alone counts as identical.
* `snapshots_rebuild`: the tests at `make_snapshot.sh:188-191` follow the link `mnt` before
  the check that should skip the snapshot, and the `ln` that follows fails.
* `camdisk_shared`: the server looks at the gadget once, while archiveloop has it
  released; archiveloop binds it before the server mounts the image, or before it unmounts
  it. The lock `camDiskMu` orders the goroutines only.
* `camdisk_chime`: archiveloop copies the old sound; the new one is activated, the server
  finds the image mounted and leaves the copy to archiveloop, which has done it. That the
  next cycle makes up for it is `ChimeArrives`.
* `wizard_skip`: the comment at `SetupWizard.tsx:460` says that skipping reverts the file
  system and all sizes; the code restores what the warning lists, and for the file system
  that is `USE_EXFAT` alone.

### What does not hold, beyond the listed violations

Properties are stated with the conditions under which they hold. Without them:

* A snapshot with new clips can be discarded as identical, without any fault of a script:
  when the new image cannot be mounted, or autofs still has the mount of an earlier image
  under its number, `find` lists nothing or the wrong clips (`make_snapshot.sh:309`), errexit
  is off since `snapshot()` runs as a condition, and the comparison finds nothing new.
  `DiscardKeepsLinks` says only that no link of an older snapshot goes with it; and that only
  without faults, since a number that is used again after a restart may still have links.
* While autofs is down the flock is held by whoever takes a snapshot (see Fairness).
* `LinkedNewest` fails when the power is lost while links are made; the incomplete
  snapshot is discarded and the next one links only what is new.
* `OnlyRebuildMovesBack` fails after a fault: `manage_free_space.sh:47-48` counts
  incomplete images as snapshots, deletes the only complete one, and the numbers start
  again at 0. During a rebuild links do move back to older snapshots
  (`make_snapshot.sh:195`).
* A clip deleted in the web interface gets its links back when it changes in a later
  snapshot.
* `GadgetBack` fails after a toggle: `toggleDrives` releases the gadget and archiveloop
  looks at it once per cycle only. It also fails when `enable_gadget.sh` fails half way,
  since the directory it leaves makes later runs exit with success.
* After a restart of the service, `fix_errors_in_images` runs before anything has
  released the gadget (`archiveloop:1278`), so fsck may repair the image the car writes
  to. `SharedIfStuck` speaks of the mount only.
* `NoSharedAccess` fails with one fault, with archiveloop alone: a `disable_gadget.sh` that
  exits before the unbind or cannot unbind is only logged (`archiveloop:561-566`), and the
  image is mounted; a `umount` that fails twice is logged too (`archiveloop:478-483`), and
  the gadget is bound. `stuck` records both. `umount` that fails once is followed by a lazy
  one (`archiveloop:470`), after which the file system lives on; that counts as unmounted.

In the web interface (each read in the code while it was modelled; the properties say
under which condition they hold, by a history variable):

* `mixed` (`TagsOwn`, `ListAgrees`): tags are saved at the server by the start time of the
  panel's drive and in the list by the number selected (`Drives.tsx:339-342`), which may be
  two drives: the panel still shows the drive selected before, or drives were imported
  and numbered anew. Then the row of another drive shows the tags, and the next change of
  that row stores them. An import that replaces or joins drives, so that some disappear, is
  not modelled.
* `crossed` (`ListAgrees`, `SettledPage`, `OwnList`): when answers come out of order the last
  to come is shown. `edited` (`OwnList`): a change by an administrator asks for the page of
  the render it was made in, so that the list of another page may be displayed.
* A validation of the passcode that is answered after the library refused that passcode puts
  it back, although the page has said that the administrator's mode was left; Enter starts a
  second validation while one is under way (`Community.tsx:154`). `Wraps` has both; `OwnList`
  says that the list follows whatever passcode is in use. The view of the lock sounds, which
  shares the passcode, is not opened in `Wraps`.
* `lost` (`ShowsMode`, `AgreedFirst`): a change of the random mode whose answer was lost
  is at the server only. The hour of the card is never sent, and the server forgets its
  own when the card saves.
* The settings the server answers with before anything was saved have no mode
  (`lock_chime.go:573-581`). The card sends that back when it first enables the random mode,
  `lock_chime.go:585` takes it, and the card calls it "Smart" (`LockChime.tsx:759`), while the
  server never changes the sound. `ShowsMode` and `AgreedFirst` hold of it all the same.
* `late` (`PreviewOwn`): a renderer that answers for a file that was given up gives the
  next one a wrong picture. `together`: while one wrap is uploaded the buttons of the others
  work (`MultiFileUploader.tsx:406-412`); each preview then hears every message, one
  capture ends both, and a wrap may be published with the picture of another.
  `PreviewsEnd` holds in both cases; it ends with the request that sends the wrap, which may
  fail or stay unanswered.
* `late` (`AppliedComplete`): a backup that is restored while the
  question about the drives is open is sent without a look at its steps.
* `clean` (`UnaskedKeeps`): after a restored backup or a setup that failed, the
  configuration the wizard compares with is not the one the device has.
* `failed` (`CompleteIsDone`): a setup that fails ends `rc.local` with exit code 0, so the
  server reports it as complete. `misled`: any failed poll counts as the reboot
  (`SetupWizard.tsx:308-311`), so one that is lost while the server is up before its last
  reboot makes the next answer show "Setup Complete!". A wizard that enters "finalizing"
  after the last reboot waits for ever, since it waits for the server to go down.
* A second request for processing that finds the processor busy releases the keep-awake
  want of the first. An import and a run of the processor can both be under way.
* A queued keep-awake session starts late when the work before it ends late, or never: an
  expiry computed for the session before closes the channel of the new one
  (`keepawake.go:360-363`), whose goroutine returns (line 295), and "webui" stays on record
  until the user stops it. `ActiveEnds` speaks of active sessions only. The calls of
  `awake_start` and `awake_stop` are not ordered.
* A client that the hub has dropped while its browser goes on pinging (`hub.go:63-66`) stays
  connected without messages; `Reconnects` speaks of sockets that close.
* `NotificationsStep` marks the address of ntfy as required; `notificationsError` does not
  look at it. `doApply` adds the unit to all sizes but that of the wraps.
* The path of the file browser can belong to another drive than the tab for the time of a
  listing.

## Proofs

TLAPS checks all of it, for every value of the constants that satisfies the assumption of
the module: `ConstantsAssumption` for `Snapshots` and `CamDisk` (bounds are naturals, the
names of the actors differ), and `WebAssumption` for `Web`, which is the conjunction of
the assumptions of the parts (bounds are naturals, a first tab is a tab, and what stands
for "no value" is no value: `None` is neither a drive nor a query). TLC evaluates them in
the runs.

Every invariant and every action property that a passing run checks has a theorem, and so
has the refinement. `NewestKept` says it for behaviours without faults only, see below.

| Property | Theorem | Module |
|---|---|---|
| `TypeOK`, `LockExclusion`, `ImagesImmutable`, `OldestFirst` | `TypeCorrect`, `LockSafe`, `ImagesSafe`, `OldestSafe` | `SnapshotsProofs` |
| `TocHonest`, `LinksResolve`, `LinkedNewest` | `ListingsHonest`, `LinksSafe`, `NewestLinked` | `SnapshotsLinksProofs` |
| `KeepsNewest`, `DiscardKeepsLinks`, `OnlyRebuildMovesBack` | `NewestKept`, `DiscardSafe`, `LinksMoveForward` | `SnapshotsLinksProofs` |
| `TypeOK`, `OneAtATime`, `SharedIfStuck`, `GadgetBack` | `TypeCorrect`, `OneAtATimeSafe`, `AloneSafe`, `BackSafe` | `CamDiskProofs` |
| `DriveTags`, `OneRun`, `OneUpload`, `RowsOfUpload` | `TagsStay`, `RunsAlone`, `NeverTwice`, `UploadsOwnRows` | `PagesProofs` |
| `ChannelsOpen`, `ServiceKept`, `FlagIsSession` | `HubSafe`, `Refinement`, `FlagKept` | `ServerProofs` |
| `SoundsShown`, `RandomMode`, `SettledPage`, `OwnList`, `PreviewOwn` | `SoundsAgree`, `ModeAgreed`, `PageSettles`, `ListOfPasscode`, `PicturesOwn` | `LibraryProofs` |
| `OutageVisible`, `FormApplied`, `CompleteIsDone` | `OutagesStay`, `AppliedSafe`, `CompleteAtEnd` | `SetupProofs` |
| `WebTypeOK` | `WebTypes` | `WebProofs` |

Hardly any of them is inductive. What follows says what each argument rests on.

### Snapshots

`SnapshotsProofs`: the numbers the scripts compute stay in range only because the oldest
and the newest of a set of directories exist and because every image lies in a directory
(`DirsCover`), so types and `DirsCover` are proved together. The inductive invariant is
`IInv`: types, `DirsCover`, `LockExclusion`, `CopyFresh` and `VictimOldest`.
`ImagesImmutable` needs that a copy finds no image under its number (`CopyFresh`), which
needs that only the holder of the flock chooses numbers and that `Select` takes the number
after the newest directory with an image. `OldestFirst` needs that directories added after
the choice have larger numbers than the victim (`VictimOldest`), again by the flock; autofs
takes directories away only.

`SnapshotsLinksProofs` is about links and listings. All of it rests on `CleanInv`: until
the first fault,

* nothing is purged, an image without a listing belongs to a script at work or is being
  removed, and a listing has an image unless it is being removed (`NoPurge`,
  `WholeImages`, `TocOfImage`);
* a mount shows its image, or that of a number that is not used again (`Retired`), or one
  that has nothing to list beyond the snapshot before it (`OldNews`), the case in which a
  new snapshot is discarded (`MountKnown`);
* each starter knows what it works on: its number is new and follows a complete snapshot,
  and what it has listed is its image (`TakersKnow`);
* a link leads to a clip of its image, or into the snapshot that is being released, and
  none leads to the number a script works on before that script makes links
  (`LinksHeld`, `NotLinked`);
* autofs releases only numbers that are not used again (`AutofsRetired`), and the free
  space manager removes the oldest directory, which is not that of the newest image, and
  the links to it after its image (`VictimKnown`).

`LinksSafe` and `ListingsHonest` follow, and `LinksMoveForward`: outside the rebuild, a link
is moved to the new snapshot only, which has the largest number; and `DiscardSafe`: the number
that is discarded is in `NotLinked`. `LinkedNewest` needs
`LinkedInv` as well: while a script links, the clips that are not linked yet are the ones
it is still going to link (`LinksComing`). TLC checked both invariants before they were
proved.

Conditions. `TocHonest` and `LinksResolve` are stated without a fault, `LinkedNewest` also
without a re-run of the setup: with them they do not hold (see above), and the runs that
check them have none; `DiscardKeepsLinks` and `OnlyRebuildMovesBack` name the condition
themselves. `KeepsNewest` is checked by TLC with one fault; it fails with two. `NewestKept`
states it for the behaviours without faults, with any bounds, so the case of exactly one
fault is model-checked only.

### Cam disk

`CamDiskProofs`: `OneAtATimeSafe` follows from `MutexHeld` (whoever is between `Lock` and
`Unlock` holds the mutex) and `OnlyToggleUnlocks` (a goroutine at `unlock` works for
`toggleDrives`, the only one that works on after it gave the mutex back). `AloneSafe`: `Web
= {}` implies `Spec => []SharedIfStuck`, with any number of failing scripts, restarts and
power losses; as long as nothing got `stuck`, the invariant `Alone` adds where the gadget is
released (`Released`) and that the image is not mounted at `enable`. `BackSafe`: the
invariant `BackInv` says that while archiveloop waits and the gadget is released, some
goroutine is going to set it up again.

### The web interface and its handlers

Each part has an invariant of its own, stated over its instance in `Web`. A lemma says that
the behaviours of `Web` are behaviours of the part (`UploaderSpec` and so on: the steps of
the other parts leave its variables alone); its invariant then holds in `Web`, and the
property of the run, which speaks of the behaviours in which the part acts, follows. The
theorems are thus about the very formulas of run `web`.

* Drive map. `TagInv` follows the tags on their way: as long as no tags were saved under a
  number that means another drive, what is in the list, in a load, in the panel, in details
  under way and in saves is among the tags the user asked for on that drive (`Own`).
  `ListInv`: as long as, moreover, no request was lost, none met another about the same drive
  and no load met a save, there is at most one save for a drive, the list has the tags of
  that save, and those of the server for every other drive in it (`InStep`).
* Drive jobs. While some request runs, the flag of the processor is set, and two that run
  are the same; the check of the handler plays no part in it. That a poll under way has a
  page that waits for it (`ForAPoll`) is needed for the types.
* Uploads. The ids that are left to the joint upload are pending (`IdsPending`), it has none
  at rest (`AtRest`), and a file that is being validated is not listed yet (`NotListed`) and
  in one drop only (`Apart`).
* File browser. `RowsOfUpload` is inductive with the types and `HasDir`.
* Hub. A client is in the hub only between its registration and its removal (`InHub`),
  and a handler about to register one brings a channel never closed (`Unregistered`).
* Keep-awake. `KInv` ("webui" is on record exactly while the state is not idle) is the
  invariant of the refinement (`RegistryKept`): initial states map to initial states, and
  every step of a request, a goroutine or the work around it to a step of the service or
  to none (`StepRefines`); only requests end the idle state (`OnlyRequestsBegin`).
* Away mode. Without the server there is no session, and no time left can be the value that
  stands for a missing file (`FlagInv`). The types need `MadeFor`: channels are made for
  requests and restarts, one each, and a server that is down has one to come.
* Lock sounds. A file that is converted or waits in the form was not sent (`Chosen`).
* Random mode. As long as no answer was lost, what the card shows and what it has sent would
  turn on nothing the user has not agreed to (`Agreed`, `Sends`), and what was stored and not
  answered is what was sent (`Answers`); until the settings are loaded the card has not
  changed any (`NotYet`).
* Community library. Without a timer the request that was sent last asks what the controls
  say and is under way or on display, unless an earlier one was answered after it
  (`LastWins`).
* Passcodes. The same for the wraps, whose query has the passcode in it: a refusal or a
  validation changes the query and so starts the timer of a request, unless a change asked
  for an earlier page (`WrapLastWins`).
* Previews. The messages of the renderer name no file. While nothing was given up early and
  one preview was under way at a time (`OneListens`), `Pipe` says that they are all about the
  upload that renders: the scene asked for and its words, then the timer of the texture, then
  the texture, the capture and one result, which is the last word; an upload that is not
  rendered yet has no timers (`Untouched`).
* Connection banner. The timer that hides it runs only while the state the effect has seen
  last is "connected" (`HideInv`).
* Form of the setup. The form has no step with an error while the question about the
  drives is open, unless a backup came (`AskedOfFit`); a clean form is compared with what
  the device has (`CleanIsDisk`).
* Setup that runs. Until its request is taken up nothing was polled or said (`Fresh`); while
  its goroutine has not removed the markers of an earlier setup the wizard waits (`Waits`);
  from then on the marker of the end stays once it is set (`Marked`, `EndIsTrue`), and a
  server that was seen down after the end, by the wizard or by a poll it has yet to read
  (`Noticed`), comes back after the last reboot (`DownIsLast`). All this until a setup fails or
  a poll misleads the wizard.
* Types. For ten parts they are part of the invariants above; for the other nine they are
  proved by themselves, and all are joined in `WebTypes`.

Only model-checked: liveness, since TLAPS does not prove liveness under fairness:
`LockReleased`, `GadgetReturns`, `ChimeArrives`, `JobsShown`, `PreviewsEnd`, `Reconnects`,
`StatusSettles`, `SessionsEnd`, `ClientsSettle` and `WizardFollows`; and `KeepsNewest` with
one fault. The violations are counterexamples by TLC.

## Plan

In this order:

1. `Archiver`: the lists of `archive_teslacam_clips`, the overlay, cleaning after the
   archive, tombstones of wraps; composed with `Snapshots` for "a snapshot before the
   deletion". An abstract specification of what is promised (no clip is deleted unless it
   is archived, expired or deleted by the user), implemented by the composition.
2. `DriveStore`: replace with batches and busy retries, import with its marker, backfill,
   sync guard. Theorem: the synced copy is never replaced by less.
3. The video player of `Viewer.tsx` (four videos kept at one time) and the cards of
   `Settings.tsx` that save by themselves.
4. Action properties of the web interface that need only the invariants proved here (an
   answer that comes late changes nothing of what was chosen since); fsck as a use of the
   image in `CamDisk`; the clock of the lock sound scheduler.

Hazards of the parts that are planned and not modelled, beside the one in `PROJECT.json`:
snapshotloop and the free space manager change the directory under the overlay while the
archive reads it (`archiveloop:992`); tombstones of deleted wraps are removed even when the
rsync that should have carried the deletions out failed (`archiveloop:154`); the hand-over
of `awake_stop` goes by the age of a status file (`awake_stop:40`); `replace.go:291` clears
the transaction before the error of Commit is known, and a busy error makes `withBusyRetry`
call it again without one; `backfill.go:103` writes back a batch it read before its
transaction; in smart mode a choice of the lock sound that was put off is retried within
minute 0 of the configured hour only (`lock_chime.go:749`).

Runs stay below about a million states and three minutes.
