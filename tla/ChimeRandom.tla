---------------------------- MODULE ChimeRandom -----------------------------
(***************************************************************************)
(* The random mode of the lock sounds: the card of the library page        *)
(* (web/src/pages/LockChime.tsx) and the settings the server keeps         *)
(* (server/api/lock_chime.go).  The card sends a part of the settings it   *)
(* shows; the server stores what it is sent and forgets the rest.          *)
(***************************************************************************)
EXTENDS Naturals

CONSTANTS
  Hours,     \* hours of the day
  MaxActs    \* bound on what the user does

ChimeRandomAssumption == {0, 3} \subseteq Hours /\ MaxActs \in Nat

VARIABLES
  stored,    \* the settings of the server
  hw,        \* has_rtc, has_ble
  cfg,       \* randomCfg, what the card shows
  loaded,    \* "loading", "known", "unknown"
  saving,    \* the save under way: its settings and its stage (savingRandom)
  modal,     \* pendingRandomCfg, whether the disclaimer is displayed
  expanded,  \* randomExpanded
  enough,    \* the list shows two sounds or more
  agreed,    \* modes the user has read the disclaimer for since they were off
  lost,      \* an answer of the server was lost
  acts

vars == <<stored, hw, cfg, loaded, saving, modal, expanded, enough, agreed, lost, acts>>

\* as long as nothing was saved the mode and the interval of the server are empty
Modes == {"none", "on_connect", "scheduled", "smart"}
Intervals == {"none", "hourly", "daily", "weekly"}
Timed(c) == c.mode \in {"scheduled", "smart"}
Settings ==
  {c \in [enabled : BOOLEAN, mode : Modes, interval : Intervals, hour : Hours] :
     Timed(c) => c.interval # "none"}
NoConfig == [enabled |-> FALSE, mode |-> "none", interval |-> "none", hour |-> 0]

\* what the card has before the settings of the server
Default == [enabled |-> FALSE, mode |-> "on_connect", interval |-> "daily", hour |-> 3]
Stages == {"none", "sent", "ok", "refused"}

TypeOK ==
  /\ stored \in Settings /\ cfg \in Settings
  /\ hw \in [rtc : BOOLEAN, ble : BOOLEAN]
  /\ loaded \in {"loading", "known", "unknown"}
  /\ saving \in [at : Stages, new : Settings]
  /\ modal \in [shown : BOOLEAN, asked : BOOLEAN, new : Settings]
  /\ expanded \in BOOLEAN /\ enough \in BOOLEAN /\ lost \in BOOLEAN
  /\ agreed \subseteq Modes
  /\ acts \in 0 .. MaxActs

Acts == acts < MaxActs /\ acts' = acts + 1
NoSave == [at |-> "none", new |-> Default]

\* the card, and its part for the settings
CardShown == loaded # "loading"
SettingsShown == CardShown /\ cfg.enabled /\ expanded /\ enough

\* fetchRandomConfig
Load ==
  /\ loaded = "loading"
  /\ \/ cfg' = stored /\ loaded' = "known"
     \/ loaded' = "unknown" /\ UNCHANGED cfg
  /\ UNCHANGED <<stored, hw, saving, modal, expanded, enough, agreed, lost, acts>>

\* handleSaveRandomConfig
Save(new) ==
  /\ saving' = [at |-> "sent", new |-> new]

\* the buttons are disabled during a save
Free == saving.at = "none"

AskFirst ==
  /\ modal' = [shown |-> TRUE, asked |-> TRUE, new |-> [cfg EXCEPT !.enabled = TRUE]]
  /\ UNCHANGED saving

\* the switch: on after the disclaimer, off at once
Toggle ==
  /\ Acts /\ CardShown /\ Free /\ enough /\ ~modal.shown
  /\ IF cfg.enabled
     THEN /\ expanded' = FALSE /\ Save([cfg EXCEPT !.enabled = FALSE])
          /\ UNCHANGED modal
     ELSE AskFirst /\ UNCHANGED expanded
  /\ UNCHANGED <<stored, hw, cfg, loaded, enough, agreed, lost>>

Expand ==
  /\ CardShown /\ cfg.enabled /\ ~modal.shown
  /\ expanded' = ~expanded
  /\ UNCHANGED <<stored, hw, cfg, loaded, saving, modal, enough, agreed, lost, acts>>

OnConnect ==
  /\ Acts /\ SettingsShown /\ Free /\ ~modal.shown
  /\ Save([cfg EXCEPT !.mode = "on_connect"])
  /\ UNCHANGED <<stored, hw, cfg, loaded, modal, expanded, enough, agreed, lost>>

\* an interval, where there must be one
OrDaily(i) == IF i = "none" THEN "daily" ELSE i

\* the buttons for the modes that need a clock, or a clock and a paired key
TimedMode(m) ==
  /\ Acts /\ SettingsShown /\ Free /\ ~modal.shown
  /\ loaded = "known" /\ hw.rtc /\ (m = "smart" => hw.ble) /\ cfg.mode # m
  /\ modal' = [shown |-> TRUE, asked |-> TRUE,
                new |-> [cfg EXCEPT !.mode = m, !.interval = OrDaily(cfg.interval)]]
  /\ UNCHANGED <<stored, hw, cfg, loaded, saving, expanded, enough, agreed, lost>>

\* the buttons of the schedule
ScheduleShown == SettingsShown /\ Timed(cfg) /\ (cfg.mode = "smart" \/ hw.rtc)

SetInterval ==
  /\ Acts /\ ScheduleShown /\ Free /\ ~modal.shown
  /\ \E i \in Intervals \ {"none"} : Save([cfg EXCEPT !.interval = i])
  /\ UNCHANGED <<stored, hw, cfg, loaded, modal, expanded, enough, agreed, lost>>

SetHour ==
  /\ Acts /\ ScheduleShown /\ cfg.interval \in {"daily", "weekly"} /\ Free /\ ~modal.shown
  /\ \E h \in Hours : Save([cfg EXCEPT !.hour = h])
  /\ UNCHANGED <<stored, hw, cfg, loaded, modal, expanded, enough, agreed, lost>>

\* "I Understand, Enable"
Confirm ==
  /\ Acts
  /\ modal.shown /\ modal.asked
  /\ Save(modal.new)
  /\ agreed' = agreed \cup {modal.new.mode}
  /\ modal' = [modal EXCEPT !.shown = FALSE, !.asked = FALSE]
  /\ UNCHANGED <<stored, hw, cfg, loaded, expanded, enough, lost>>

\* the button forgets the settings; a click beside the box only hides it
Dismiss ==
  /\ modal.shown
  /\ \E a \in {FALSE, modal.asked} : modal' = [modal EXCEPT !.shown = FALSE, !.asked = a]
  /\ UNCHANGED <<stored, hw, cfg, loaded, saving, expanded, enough, agreed, lost, acts>>

\* lockChimeSaveRandomConfig; a save without any mode is not refused
Refused(new) ==
  new.enabled /\ Timed(new) /\ (~hw.rtc \/ (new.mode = "smart" /\ ~hw.ble))

\* what is kept of a save: the hour is not among what the card sends
Kept(new) ==
  [new EXCEPT !.hour = 0, !.interval = IF Timed(new) THEN OrDaily(new.interval) ELSE @]

ServeSave ==
  /\ saving.at = "sent"
  /\ IF Refused(saving.new)
     THEN saving' = [saving EXCEPT !.at = "refused"] /\ UNCHANGED <<stored, agreed>>
     ELSE /\ stored' = Kept(saving.new)
          /\ agreed' = IF saving.new.enabled THEN agreed ELSE {}
          /\ saving' = [saving EXCEPT !.at = "ok"]
  /\ UNCHANGED <<hw, cfg, loaded, modal, expanded, enough, lost, acts>>

\* Mutant: what was chosen is shown, also when the server refused it.
MergesAny(ok) == saving.new

Merged(ok) == IF ok THEN saving.new ELSE cfg

Saved ==
  /\ saving.at \in {"ok", "refused"}
  /\ cfg' = Merged(saving.at = "ok")
  /\ saving' = NoSave
  /\ UNCHANGED <<stored, hw, loaded, modal, expanded, enough, agreed, lost, acts>>

SaveFails ==
  /\ saving.at # "none"
  /\ saving' = NoSave
  /\ lost' = (lost \/ saving.at = "ok")
  /\ UNCHANGED <<stored, hw, cfg, loaded, modal, expanded, enough, agreed, acts>>

\* sounds are added and deleted
SoundsChange ==
  /\ Acts
  /\ enough' = ~enough
  /\ UNCHANGED <<stored, hw, cfg, loaded, saving, modal, expanded, agreed, lost>>

Init ==
  /\ \/ stored = NoConfig /\ agreed = {}
     \/ /\ stored = [enabled |-> TRUE, mode |-> "scheduled", interval |-> "daily", hour |-> 0]
        /\ agreed = {"scheduled"}
  /\ cfg = Default /\ loaded = "loading"
  /\ hw \in [rtc : BOOLEAN, ble : BOOLEAN]
  /\ saving = NoSave /\ modal = [shown |-> FALSE, asked |-> FALSE, new |-> Default]
  /\ expanded = FALSE /\ enough = TRUE /\ lost = FALSE /\ acts = 0

Next ==
  \/ Load \/ Toggle \/ Expand \/ OnConnect \/ SetInterval \/ SetHour
  \/ \E m \in {"scheduled", "smart"} : TimedMode(m)
  \/ Confirm \/ Dismiss \/ ServeSave \/ Saved \/ SaveFails \/ SoundsChange

Spec == Init /\ [][Next]_vars

-----------------------------------------------------------------------------
(* Properties                                                              *)

\* As long as no answer was lost, the card shows whether the random mode is on, and
\* in which mode, as the server has it, except for the save under way.
ShowsMode ==
  ~lost /\ loaded = "known" /\ saving.at \notin {"ok"}
    => <<cfg.enabled, cfg.mode, cfg.interval>> = <<stored.enabled, stored.mode, stored.interval>>

\* The random mode is on, with an hour for its changes, only after the user has read what a
\* change can cost: "Enabling -- show disclaimer first" (LockChime.tsx:788), and once
\* more for each mode that may change the sound during a drive.
AgreedFirst ==
  ~lost => (stored.enabled => agreed # {} /\ (Timed(stored) => stored.mode \in agreed))
=============================================================================
