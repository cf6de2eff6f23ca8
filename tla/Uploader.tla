------------------------------ MODULE Uploader ------------------------------
(***************************************************************************)
(* The uploader of the community pages, for wraps and lock sounds: the     *)
(* component MultiFileUploader (web/src/components/upload).  The user adds *)
(* files, which are validated one after another; each is uploaded by a     *)
(* button of its own or by "Upload All".  Validations and uploads are      *)
(* asynchronous: several calls of addFiles, of uploadSingle and one of     *)
(* uploadAll can wait for an answer at the same time.                      *)
(***************************************************************************)
EXTENDS Naturals, FiniteSets

CONSTANTS
  Items,       \* files the user may add
  Drops,       \* calls of addFiles that can be under way at once
  MaxFiles,    \* maxFiles
  NoItem       \* no file

UploaderAssumption ==
  /\ MaxFiles \in Nat
  /\ NoItem \notin Items

VARIABLES
  entry,       \* status of each file; "none" when it is not in the list
  ready,       \* the files whose form is complete (isEntryReady)
  drop,        \* each call of addFiles: the files to validate, those that passed
  expanded,    \* expandedId
  single,      \* the files uploadSingle waits for
  all          \* uploadAll: whether it runs, the ids left, the one it waits for

vars == <<entry, ready, drop, expanded, single, all>>

Statuses == {"none", "pending", "uploading", "done", "error"}
NoDrop == [on |-> FALSE, left |-> {}, valid |-> {}]
NoRun == [on |-> FALSE, ids |-> {}, current |-> NoItem]

TypeOK ==
  /\ entry \in [Items -> Statuses]
  /\ ready \in SUBSET Items
  /\ drop \in [Drops -> [on : BOOLEAN, left : SUBSET Items, valid : SUBSET Items]]
  /\ expanded \in Items \cup {NoItem}
  /\ single \in SUBSET Items
  /\ all \in [on : BOOLEAN, ids : SUBSET Items, current : Items \cup {NoItem}]

Is(status) == {f \in Items : entry[f] = status}
Listed == Items \ Is("none")
AllDone == Listed # {} /\ Listed \subseteq Is("done") \cup Is("error")
Dropped == UNION {drop[d].left \cup drop[d].valid : d \in Drops}

-----------------------------------------------------------------------------
(* Adding files                                                            *)

\* addFiles: as many as there is room for now.  The area to drop files on is
\* shown while the list is empty or neither complete nor uploaded as a whole.
AddFiles(d) ==
  /\ ~drop[d].on
  /\ Listed = {} \/ (~all.on /\ ~AllDone)
  /\ Cardinality(Listed) < MaxFiles
  /\ \E fs \in SUBSET (Items \ (Listed \cup Dropped)) \ {{}} :
       /\ Cardinality(fs) <= MaxFiles - Cardinality(Listed)
       /\ drop' = [drop EXCEPT ![d] = [on |-> TRUE, left |-> fs, valid |-> {}]]
  /\ UNCHANGED <<entry, ready, expanded, single, all>>

\* validateFile answers for one file
Validate(d) ==
  /\ \E f \in drop[d].left, ok \in BOOLEAN :
       drop' = [drop EXCEPT ![d].left = @ \ {f},
                            ![d].valid = IF ok THEN @ \cup {f} ELSE @]
  /\ UNCHANGED <<entry, ready, expanded, single, all>>

\* the files that passed are appended, and one is expanded if none was
Added(d) ==
  /\ drop[d].on /\ drop[d].left = {}
  /\ entry' = [f \in Items |-> IF f \in drop[d].valid THEN "pending" ELSE entry[f]]
  /\ expanded' \in (IF expanded = NoItem /\ drop[d].valid # {}
                    THEN drop[d].valid ELSE {expanded})
  /\ drop' = [drop EXCEPT ![d] = NoDrop]
  /\ UNCHANGED <<ready, single, all>>

-----------------------------------------------------------------------------
(* The list and the editor                                                 *)

\* Mutant: a file can be removed while it is uploaded.
RemovesAny(f) == entry[f] # "done"

\* The button to remove a file is not there during its upload, nor uploadAll.
CanRemove(f) == entry[f] \notin {"uploading", "done"} /\ ~all.on

RemoveFile(f) ==
  /\ f \in Listed /\ CanRemove(f)
  /\ entry' = [entry EXCEPT ![f] = "none"]
  /\ ready' = ready \ {f}
  /\ expanded' = IF expanded = f THEN NoItem ELSE expanded
  /\ UNCHANGED <<drop, single, all>>

\* a click on a picture opens or closes its form
Expand(f) ==
  /\ f \in Listed /\ entry[f] # "uploading"
  /\ expanded' = IF expanded = f THEN NoItem ELSE f
  /\ UNCHANGED <<entry, ready, drop, single, all>>

\* the form of the expanded file, there until the file is uploaded
UpdateEntry ==
  /\ expanded \in Listed /\ entry[expanded] # "done"
  /\ ready' \in {ready \cup {expanded}, ready \ {expanded}}
  /\ UNCHANGED <<entry, drop, expanded, single, all>>

ClearAll ==
  /\ AllDone
  /\ entry' = [f \in Items |-> "none"]
  /\ ready' = {} /\ expanded' = NoItem
  /\ UNCHANGED <<drop, single, all>>

-----------------------------------------------------------------------------
(* Uploading                                                               *)

\* Mutant: the button of a file stays there during uploadAll.
OffersAlways(f) == entry[f] \in {"pending", "error"} /\ f \in ready

\* The button in the editor, and the check at the start of uploadSingle.
CanUpload(f) == entry[f] \in {"pending", "error"} /\ f \in ready /\ ~all.on

UploadSingle(f) ==
  /\ expanded = f /\ CanUpload(f)
  /\ entry' = [entry EXCEPT ![f] = "uploading"]
  /\ single' = single \cup {f}
  /\ UNCHANGED <<ready, drop, expanded, all>>

\* "Upload All", offered for two files and more when all of them are ready
UploadAll ==
  /\ ~all.on /\ ~AllDone
  /\ Cardinality(Is("pending")) > 1 /\ Is("pending") \subseteq ready
  /\ all' = [on |-> TRUE, ids |-> Is("pending"), current |-> NoItem]
  /\ UNCHANGED <<entry, ready, drop, expanded, single>>

UploadNext ==
  /\ all.on /\ all.current = NoItem
  /\ \E f \in all.ids :
       IF f \in Listed
       THEN /\ all' = [all EXCEPT !.ids = @ \ {f}, !.current = f]
            /\ entry' = [entry EXCEPT ![f] = "uploading"]
            /\ expanded' = f
       ELSE all' = [all EXCEPT !.ids = @ \ {f}] /\ UNCHANGED <<entry, expanded>>
  /\ UNCHANGED <<ready, drop, single>>

\* the status after onUpload answered, or threw
Mark(f, ok) == entry' = [entry EXCEPT ![f] = IF ok THEN "done" ELSE "error"]

SingleAnswered(f) ==
  /\ f \in single
  /\ single' = single \ {f}
  /\ \E ok \in BOOLEAN :
       /\ Mark(f, ok)
       /\ IF ok
          THEN expanded' \in (IF Is("pending") \ {f} = {} THEN {NoItem}
                              ELSE Is("pending") \ {f})
          ELSE UNCHANGED expanded
  /\ UNCHANGED <<ready, drop, all>>

AllAnswered ==
  /\ all.current # NoItem
  /\ \E ok \in BOOLEAN : Mark(all.current, ok)
  /\ all' = [all EXCEPT !.current = NoItem]
  /\ UNCHANGED <<ready, drop, expanded, single>>

UploadEnds ==
  /\ all.on /\ all.ids = {} /\ all.current = NoItem
  /\ all' = NoRun /\ expanded' = NoItem
  /\ UNCHANGED <<entry, ready, drop, single>>

-----------------------------------------------------------------------------
Init ==
  /\ entry = [f \in Items |-> "none"] /\ ready = {}
  /\ drop = [d \in Drops |-> NoDrop]
  /\ expanded = NoItem /\ single = {} /\ all = NoRun

Adding == \E d \in Drops : AddFiles(d) \/ Validate(d) \/ Added(d)
Editing == UpdateEntry \/ ClearAll \/ (\E f \in Items : RemoveFile(f) \/ Expand(f))
Uploading ==
  \/ UploadAll \/ UploadNext \/ AllAnswered \/ UploadEnds
  \/ \E f \in Items : UploadSingle(f) \/ SingleAnswered(f)

Next == Adding \/ Editing \/ Uploading
Spec == Init /\ [][Next]_vars

-----------------------------------------------------------------------------
(* Properties                                                              *)

\* The calls that wait for the upload of a file.
Waits(f) == f \in single
Loops(f) == all.current = f

\* A file is shown as being uploaded exactly while one call of onUpload for it is
\* under way, and never two, however uploadSingle, uploadAll and the removal of
\* files interleave.
OneUpload ==
  \A f \in Items :
    /\ (entry[f] = "uploading") <=> (Waits(f) \/ Loops(f))
    /\ ~(Waits(f) /\ Loops(f))
=============================================================================
