------------------------------- MODULE MCWeb --------------------------------
(***************************************************************************)
(* The instance of Web that TLC checks: Web.cfg gives the constants their  *)
(* values.                                                                 *)
(***************************************************************************)
EXTENDS Web

(* The drives of the file browser: one for music, which has a folder of its own     *)
(* name with a folder in it, and one for the lock sound                             *)
Base == [music |-> "music:", chime |-> "chime:"]
Entry == [music |-> "music:Music", chime |-> NoValue]
Within == [d \in {"music:", "music:Music", "music:Music/a", "chime:"} |->
             CASE d = "music:Music" -> "music:"
               [] d = "music:Music/a" -> "music:Music"
               [] OTHER -> d]

(* Where a part has several initial states, only the part that acts begins in all   *)
(* of them; the device of the wizard has its drives by one configuration, or none.  *)
Disk == [exfat |-> TRUE, size |-> [i \in {"CAM_SIZE"} |-> 1]]
MCInit ==
  /\ Init
  /\ on # "sounds" => sounds_active = NoValue
  /\ on # "drives" => drives_there = drives_Drives
  /\ on # "random" => random_hw = [rtc |-> FALSE, ble |-> FALSE] /\ ~random_stored.enabled
  /\ on # "away" => ~away_hasRTC
  /\ form_disk = NoValue \/ (on = "form" /\ form_disk = Disk)
  /\ on # "setup" => ~setup_finished

FairSpec == MCInit /\ [][Next]_vars /\ Fairness
=============================================================================
