----------------------------- MODULE SetupForm ------------------------------
(***************************************************************************)
(* The form of the setup wizard (web/src/components/setup/SetupWizard.tsx  *)
(* and its steps): what each step requires, how the user moves between     *)
(* them, a configuration that is imported or restored from a backup, and   *)
(* the question asked before drive images are made anew.                   *)
(* A field is either filled or not; of the sizes only equality matters.    *)
(***************************************************************************)
EXTENDS Naturals, FiniteSets

CONSTANTS
  Typed,       \* the fields the user types into
  Saved,       \* the fields the configuration has at the start
  Systems,     \* the archive systems and
  Methods,     \* the ways to keep the car awake that the user tries
  Images,      \* drives with an image of their own
  MaxSize,     \* sizes are 0 .. MaxSize
  None,
  MaxActs      \* bound on changes and attempts to apply

SetupFormAssumption ==
  /\ Systems \subseteq {"cifs", "rsync", "rclone", "nfs", "none"} /\ "cifs" \in Systems
  /\ Methods \subseteq {"ble", "teslafi", "tessie", "webhook", "none"}
  /\ MaxSize \in Nat /\ MaxActs \in Nat

VARIABLES
  form,        \* formData
  original,    \* originalDataRef: the drives as the wizard takes them to be, or None
  disk,        \* the drives of the device, or None
  step,        \* currentStep
  warning,     \* destructiveWarning: the changes asked about, {} if nothing is asked
  sending,     \* what doApply was called with, while its requests are under way, or None
  phase,       \* phase, as far as the form goes
  applied,     \* what was written to the configuration last, or None
  restoring,   \* a backup is being restored
  acts,
  clean,       \* no backup was restored and no setup has run since the wizard opened
  late         \* a backup came while the question was shown

vars == <<form, original, disk, step, warning, sending, phase, applied, restoring, acts, clean, late>>
move == <<original, disk, sending, phase, applied, clean, late>>

Steps == 0 .. 9
Drives == [exfat : BOOLEAN, size : [Images -> 0 .. MaxSize]]

Needs == [cifs |-> {"ARCHIVE_SERVER", "SHARE_NAME", "SHARE_USER", "SHARE_PASSWORD"},
          rsync |-> {"RSYNC_SERVER", "RSYNC_USER", "RSYNC_PATH"},
          rclone |-> {"RCLONE_DRIVE", "RCLONE_PATH"},
          nfs |-> {"ARCHIVE_SERVER", "SHARE_NAME"},
          none |-> {}]

Awake == [ble |-> {"TESLA_BLE_VIN"}, teslafi |-> {"TESLAFI_API_TOKEN"},
          tessie |-> {"TESSIE_API_TOKEN", "TESSIE_VIN"}, webhook |-> {"KEEP_AWAKE_WEBHOOK_URL"},
          none |-> {}]

Channel == [PUSHOVER_ENABLED |-> {"PUSHOVER_USER_KEY", "PUSHOVER_APP_KEY"},
            GOTIFY_ENABLED |-> {"GOTIFY_DOMAIN", "GOTIFY_APP_TOKEN"},
            DISCORD_ENABLED |-> {"DISCORD_WEBHOOK_URL"},
            TELEGRAM_ENABLED |-> {"TELEGRAM_CHAT_ID", "TELEGRAM_BOT_TOKEN"},
            IFTTT_ENABLED |-> {"IFTTT_EVENT_NAME", "IFTTT_KEY"},
            SLACK_ENABLED |-> {"SLACK_WEBHOOK_URL"},
            SIGNAL_ENABLED |-> {"SIGNAL_URL", "SIGNAL_FROM_NUM", "SIGNAL_TO_NUM"},
            MATRIX_ENABLED |-> {"MATRIX_SERVER_URL", "MATRIX_USERNAME", "MATRIX_PASSWORD", "MATRIX_ROOM"},
            SNS_ENABLED |-> {"AWS_REGION", "AWS_ACCESS_KEY_ID", "AWS_SECRET_ACCESS_KEY", "AWS_SNS_TOPIC_ARN"},
            WEBHOOK_ENABLED |-> {"WEBHOOK_URL"}]

-----------------------------------------------------------------------------
(* What the steps require                                                  *)

\* AP_PASS is filled when it has eight characters
NetworkBad(f) == "AP_SSID" \in f.filled /\ "AP_PASS" \notin f.filled

ArchiveBad(f) == ~(Needs[f.system] \subseteq f.filled)

\* the method chosen, or the first one there is a field for
Method(f) ==
  CASE f.method # None -> f.method
    [] "TESLA_BLE_VIN" \in f.filled -> "ble"
    [] "TESLAFI_API_TOKEN" \in f.filled -> "teslafi"
    [] "TESSIE_API_TOKEN" \in f.filled -> "tessie"
    [] "KEEP_AWAKE_WEBHOOK_URL" \in f.filled -> "webhook"
    [] OTHER -> "none"

KeepAwakeBad(f) ==
  Method(f) # "none" /\ ~(Awake[Method(f)] \cup {"SENTRY_CASE"} \subseteq f.filled)

NotificationsBad(f) == \E c \in DOMAIN Channel : c \in f.filled /\ ~(Channel[c] \subseteq f.filled)

SecurityBad(f) == "WEB_USERNAME" \in f.filled /\ "WEB_PASSWORD" \notin f.filled

Bad(f, i) ==
  \/ i = 2 /\ NetworkBad(f)
  \/ i = 4 /\ ArchiveBad(f)
  \/ i = 5 /\ KeepAwakeBad(f)
  \/ i = 6 /\ NotificationsBad(f)
  \/ i = 7 /\ SecurityBad(f)

BadSteps(f) == {i \in Steps : Bad(f, i)}
First(S) == CHOOSE i \in S : \A j \in S : i <= j

\* the step that has a field
StepOf(field) ==
  CASE field \in {"AP_SSID", "AP_PASS"} -> 2
    [] field \in UNION {Needs[s] : s \in DOMAIN Needs} -> 4
    [] field \in UNION {Awake[m] : m \in DOMAIN Awake} \cup {"SENTRY_CASE"} -> 5
    [] field \in DOMAIN Channel \cup UNION {Channel[c] : c \in DOMAIN Channel} -> 6
    [] OTHER -> 7

-----------------------------------------------------------------------------
(* Filling the form                                                        *)

FormShown == phase = "wizard" /\ warning = {}
Change(f) == acts < MaxActs /\ acts' = acts + 1 /\ form' = f /\ UNCHANGED <<step, warning, restoring, move>>

HandleChange(field) ==
  /\ FormShown /\ step = StepOf(field)
  /\ Change([form EXCEPT !.filled = IF field \in @ THEN @ \ {field} ELSE @ \cup {field}])

\* the checkbox of the access point names it, or clears its fields
ToggleAP ==
  /\ FormShown /\ step = 2
  /\ Change([form EXCEPT !.filled = IF "AP_SSID" \in @ THEN @ \ {"AP_SSID", "AP_PASS"} ELSE @ \cup {"AP_SSID"}])

SetSystem(s) == FormShown /\ step = 4 /\ form.system # s /\ Change([form EXCEPT !.system = s])

\* setMethod clears the fields of the other methods
SetMethod(m) ==
  /\ FormShown /\ step = 5 /\ form.method # m
  /\ Change([form EXCEPT !.method = m, !.filled = @ \ UNION {Awake[o] : o \in DOMAIN Awake \ {m}}])

SetDrive ==
  /\ FormShown /\ step = 3
  /\ \/ Change([form EXCEPT !.exfat = ~@])
     \/ \E i \in Images, s \in 0 .. MaxSize : s # form.size[i] /\ Change([form EXCEPT !.size[i] = s])

Merged(d, s) == [form EXCEPT !.exfat = d.exfat, !.size = d.size, !.system = s]

Compared(d) == original

\* handleFile: the values of a configuration file; the drives the wizard compares with
\* are kept
ImportFile(d, s) ==
  /\ FormShown /\ step = 0
  /\ acts < MaxActs /\ acts' = acts + 1
  /\ form' = Merged(d, s) /\ original' = Compared(d)
  /\ UNCHANGED <<disk, step, warning, sending, phase, applied, restoring, clean, late>>

RestoreBegins ==
  /\ FormShown /\ step = 0 /\ ~restoring
  /\ acts < MaxActs /\ acts' = acts + 1
  /\ restoring' = TRUE
  /\ UNCHANGED <<form, step, warning, move>>

\* handleRestore, handleBackupFileUpload: the values of the backup are taken for those
\* of the device, wherever in the wizard the user is by now
RestoreEnds(d, s) ==
  /\ restoring /\ restoring' = FALSE
  /\ \/ /\ form' = Merged(d, s) /\ original' = d
        /\ clean' = FALSE /\ late' = (late \/ warning # {})
     \/ UNCHANGED <<form, original, clean, late>>
  /\ UNCHANGED <<disk, step, warning, sending, phase, applied, acts>>

-----------------------------------------------------------------------------
(* Moving                                                                  *)

GoTo(i) ==
  /\ FormShown /\ i # step
  /\ LET before == {s \in BadSteps(form) : s < i}
     IN step' = IF i > step /\ before # {} THEN First(before) ELSE i
  /\ UNCHANGED <<form, warning, restoring, acts, move>>

NextStep ==
  /\ FormShown /\ step < 9 /\ ~Bad(form, step)
  /\ step' = step + 1
  /\ UNCHANGED <<form, warning, restoring, acts, move>>

Back ==
  /\ FormShown /\ step > 0 /\ step' = step - 1
  /\ UNCHANGED <<form, warning, restoring, acts, move>>

-----------------------------------------------------------------------------
(* Applying                                                                *)

\* detectDestructiveChanges: a new file system stands for all drives
Changes(f, orig) ==
  IF orig = None THEN {}
  ELSE IF f.exfat # orig.exfat THEN {"USE_EXFAT"}
  ELSE {i \in Images : f.size[i] # orig.size[i]}

DoApply(f, how) ==
  /\ sending' = [form |-> f, how |-> how, was |-> original, disk |-> disk, clean |-> clean]
  /\ warning' = {}
  /\ UNCHANGED <<form, original, disk, phase, applied, restoring, clean, late>>

\* Mutant: the user has seen the errors of the steps before.
LastOnly(f) == BadSteps(f) \cap {9}

Unfit(f) == BadSteps(f)

\* handleApply, from the last step and as a retry
HandleApply ==
  /\ sending = None /\ warning = {} /\ acts < MaxActs /\ acts' = acts + 1
  /\ phase = "error" \/ (phase = "wizard" /\ step = 9)
  /\ IF Unfit(form) # {}
     THEN step' = First(Unfit(form)) /\ UNCHANGED <<form, warning, restoring, move>>
     ELSE /\ UNCHANGED step
          /\ IF Changes(form, original) # {}
             THEN warning' = Changes(form, original) /\ UNCHANGED <<form, restoring, move>>
             ELSE DoApply(form, "plain")

CancelWarning ==
  /\ warning # {} /\ warning' = {}
  /\ UNCHANGED <<form, step, restoring, acts, move>>

HandleApplyAll == warning # {} /\ DoApply(form, "all") /\ UNCHANGED <<step, acts>>

\* what was asked about is taken back
Skipped(f, orig) ==
  IF "USE_EXFAT" \in warning THEN [f EXCEPT !.exfat = orig.exfat]
  ELSE [f EXCEPT !.size = [i \in Images |-> IF i \in warning THEN orig.size[i] ELSE @[i]]]

HandleSkipDestructive ==
  /\ warning # {} /\ original # None
  /\ DoApply(Skipped(form, original), "skip") /\ UNCHANGED <<step, acts>>

\* the configuration is stored and the setup started; either may fail
Sent ==
  /\ sending # None /\ sending' = None
  /\ \/ phase' = "wizard" /\ UNCHANGED applied
     \/ applied' = sending /\ phase' \in {"wizard", "running"}
  /\ UNCHANGED <<form, original, disk, step, warning, restoring, acts, clean, late>>

\* the setup makes the images anew or not, and fails; the user goes back to the last
\* step, or tries again
SetupFails ==
  /\ phase = "running" /\ phase' = "error"
  /\ disk' \in {disk, [exfat |-> applied.form.exfat, size |-> applied.form.size]}
  /\ clean' = FALSE
  /\ UNCHANGED <<form, original, step, warning, sending, applied, restoring, acts, late>>

BackToWizard ==
  /\ phase = "error" /\ warning = {} /\ sending = None
  /\ phase' = "wizard" /\ step' = 9
  /\ UNCHANGED <<form, original, disk, warning, sending, applied, restoring, acts, clean, late>>

-----------------------------------------------------------------------------
\* Opened from the settings the wizard begins with the configuration of the device,
\* which its drives were made after; on a new device with the defaults.
Init ==
  /\ disk \in Drives \cup {None} /\ original = disk
  /\ \E d \in Drives :
       /\ disk # None => d = disk
       /\ form = [filled |-> Saved, system |-> "cifs", method |-> None, exfat |-> d.exfat, size |-> d.size]
       /\ disk = None => d = [exfat |-> TRUE, size |-> [i \in Images |-> 0]]
  /\ step = 0 /\ warning = {} /\ sending = None /\ phase = "wizard" /\ applied = None
  /\ restoring = FALSE /\ acts = 0 /\ clean = TRUE /\ late = FALSE

Filling ==
  \/ \E f \in Typed : HandleChange(f)
  \/ ToggleAP \/ SetDrive
  \/ \E s \in Systems : SetSystem(s)
  \/ \E m \in Methods : SetMethod(m)
  \/ \E d \in Drives, s \in Systems : ImportFile(d, s) \/ RestoreEnds(d, s)
  \/ RestoreBegins

Next ==
  \/ Filling
  \/ (\E i \in Steps : GoTo(i)) \/ NextStep \/ Back
  \/ HandleApply \/ CancelWarning \/ HandleApplyAll \/ HandleSkipDestructive
  \/ Sent \/ SetupFails \/ BackToWizard

Spec == Init /\ [][Next]_vars

-----------------------------------------------------------------------------
(* Properties                                                              *)

Data == [filled : SUBSET (Typed \cup Saved \cup {"AP_SSID", "AP_PASS"}), system : Systems,
         method : Methods \cup {None}, exfat : BOOLEAN, size : [Images -> 0 .. MaxSize]]
Sending == [form : Data, how : {"plain", "all", "skip"}, was : Drives \cup {None},
            disk : Drives \cup {None}, clean : BOOLEAN]

TypeOK ==
  /\ form \in Data
  /\ original \in Drives \cup {None} /\ disk \in Drives \cup {None}
  /\ step \in Steps /\ warning \subseteq Images \cup {"USE_EXFAT"}
  /\ sending \in Sending \cup {None} /\ applied \in Sending \cup {None}
  /\ phase \in {"wizard", "running", "error"}
  /\ restoring \in BOOLEAN /\ acts \in 0 .. MaxActs /\ clean \in BOOLEAN /\ late \in BOOLEAN

\* Whatever way the user took through the steps, and whatever was imported or taken
\* back, the configuration that is written has every field its choices require, unless
\* a backup came while the question about the drives was shown.
AppliedComplete == applied # None /\ ~late => BadSteps(applied.form) = {}

\* The images of the device are not made anew unless the user was asked, in a wizard in
\* which neither a backup was restored nor a setup has run.
UnaskedKeeps ==
  applied # None /\ applied.how = "plain" /\ applied.clean /\ applied.disk # None =>
    applied.form.exfat = applied.disk.exfat /\ applied.form.size = applied.disk.size

\* "Revert filesystem type AND all size fields" (SetupWizard.tsx:460): the user who
\* chose to skip what affects the data has the drives left as they were.
SkipKeepsDrives ==
  applied # None /\ applied.how = "skip" =>
    applied.form.exfat = applied.was.exfat /\ applied.form.size = applied.was.size
=============================================================================
