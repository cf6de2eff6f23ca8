----------------------------- MODULE DriveJobs ------------------------------
(***************************************************************************)
(* Processing and importing of drive data: the handlers of the server      *)
(* (server/api/drives.go, server/drives/processor.go), which look at two   *)
(* flags when a request comes and set them some time later, and the drive  *)
(* map of the web interface (web/src/pages/Drives.tsx), which starts the   *)
(* jobs and follows them with three polls.                                 *)
(***************************************************************************)
EXTENDS Naturals, FiniteSets

CONSTANTS
  Requests,    \* numbers of the requests to process or to import, in all
  Polls,       \* requests for the status that can be under way at once
  MaxFails     \* bound on polls that get no answer

DriveJobsAssumption == Requests \subseteq Nat /\ MaxFails \in Nat

VARIABLES
  running,     \* the processor's flag
  importing,   \* dh.importing
  want,        \* "processor" is among those who want the car awake
  req,         \* each request: what it is for, who sent it, how far it is
  processing,  \* the page: processing
  shownImport, \* the page: importing
  following,   \* the page's polls for a job it started: of "process", of "import"
  poll,        \* requests for the status: for which poll, stage and answer
  fails

vars == <<running, importing, want, req, processing, shownImport, following, poll, fails>>
page == <<processing, shownImport, following, poll, fails>>

\* "process" stands for reprocessing, too: the two differ in what the run stores
Kinds == {"process", "post_archive", "import"}
Stages == {"none", "sent", "checked", "starting", "working", "running", "over"}
NoPoll == [for |-> "none", at |-> "none", running |-> FALSE, importing |-> FALSE]

TypeOK ==
  /\ running \in BOOLEAN /\ importing \in BOOLEAN /\ want \in BOOLEAN
  /\ req \in [Requests -> [kind : Kinds, mine : BOOLEAN, at : Stages]]
  /\ processing \in BOOLEAN /\ shownImport \in BOOLEAN
  /\ following \in [process : BOOLEAN, import : BOOLEAN]
  /\ poll \in [Polls -> [for : {"none", "status", "process", "import"},
                         at : {"none", "sent", "answered"},
                         running : BOOLEAN, importing : BOOLEAN]]
  /\ fails \in 0 .. MaxFails

\* requests are numbered in the order they are sent
Unsent(r) == req[r].at = "none" /\ \A q \in Requests : q < r => req[q].at # "none"

Moves(r, s) == req' = [req EXCEPT ![r].at = s]
IsProcess(r) == req[r].kind # "import"

-----------------------------------------------------------------------------
(* The page sends requests, and so do other browsers and the archive loop  *)

\* triggerProcess, from a menu that is closed during a job and an archive
TriggerProcess(r) ==
  /\ Unsent(r) /\ ~processing /\ ~shownImport
  /\ req' = [req EXCEPT ![r] = [kind |-> "process", mine |-> TRUE, at |-> "sent"]]
  /\ processing' = TRUE
  /\ UNCHANGED <<running, importing, want, shownImport, following, poll, fails>>

\* handleUpload
HandleUpload(r) ==
  /\ Unsent(r) /\ ~shownImport
  /\ req' = [req EXCEPT ![r] = [kind |-> "import", mine |-> TRUE, at |-> "sent"]]
  /\ shownImport' = TRUE
  /\ UNCHANGED <<running, importing, want, processing, following, poll, fails>>

Elsewhere(r) ==
  /\ Unsent(r)
  /\ \E k \in Kinds : req' = [req EXCEPT ![r] = [kind |-> k, mine |-> FALSE, at |-> "sent"]]
  /\ UNCHANGED <<running, importing, want, page>>

-----------------------------------------------------------------------------
(* The handlers                                                            *)

\* an answer to the page: an error takes the flag back, else a poll follows the job
Answers(r, ok) ==
  IF req[r].mine
  THEN IF IsProcess(r)
       THEN /\ processing' = ok /\ UNCHANGED shownImport
            /\ following' = [following EXCEPT !.process = @ \/ ok]
       ELSE /\ shownImport' = ok /\ UNCHANGED processing
            /\ following' = [following EXCEPT !.import = @ \/ ok]
  ELSE UNCHANGED <<processing, shownImport, following>>

\* or an archive is under way, which comes and goes
Busy(r, archiving) == running \/ importing \/ (req[r].kind = "process" /\ archiving)

\* processFiles, reprocessAll, uploadData: what they look at first; the body of an
\* upload is received after it
Check(r) ==
  /\ req[r].at = "sent"
  /\ \E archiving \in BOOLEAN :
       IF Busy(r, archiving) THEN Moves(r, "over") /\ Answers(r, FALSE)
       ELSE Moves(r, "checked") /\ UNCHANGED <<processing, shownImport, following>>
  /\ UNCHANGED <<running, importing, want, poll, fails>>

\* 202, which the page may miss, and a goroutine; or an error of the body, the clips
\* or the disk
Accept(r) ==
  /\ req[r].at = "checked"
  /\ \/ Moves(r, "over") /\ Answers(r, FALSE) /\ UNCHANGED <<importing, want>>
     \/ /\ Moves(r, "starting") /\ \E heard \in BOOLEAN : Answers(r, heard)
        /\ importing' = (importing \/ req[r].kind = "import")
        /\ UNCHANGED want
  /\ UNCHANGED <<running, poll, fails>>

\* registerKeepAwakeWant, unless the archive is over and the car may sleep
Register(r) == want' = (want \/ req[r].kind = "process")
Release(r) == want' = (want /\ req[r].kind = "post_archive")

\* Mutant: what the handler has seen of the flag is enough.
HandlerChecked == FALSE

\* the processor looks once more, under its lock
Taken == running

\* ProcessDirectory begins, or finds another run
Begin(r) ==
  /\ req[r].at = "starting"
  /\ Moves(r, "working")
  /\ IF IsProcess(r) THEN Register(r) ELSE UNCHANGED want
  /\ UNCHANGED <<running, importing, page>>

Work(r) ==
  /\ req[r].at = "working" /\ IsProcess(r)
  /\ IF Taken THEN Moves(r, "over") /\ Release(r) /\ UNCHANGED running
     ELSE Moves(r, "running") /\ running' = TRUE /\ UNCHANGED want
  /\ UNCHANGED <<importing, page>>

Finish(r) ==
  /\ IF IsProcess(r)
     THEN req[r].at = "running" /\ running' = FALSE /\ Release(r) /\ UNCHANGED importing
     ELSE req[r].at = "working" /\ importing' = FALSE /\ UNCHANGED <<running, want>>
  /\ Moves(r, "over")
  /\ UNCHANGED page

-----------------------------------------------------------------------------
(* The polls                                                               *)

\* checkArchive every five seconds; the polls of triggerProcess and handleUpload
\* every three, as long as they follow a job
Ask(p) ==
  /\ poll[p].at = "none"
  /\ \E f \in {"status"} \cup {k \in {"process", "import"} : following[k]} :
       poll' = [poll EXCEPT ![p] = [NoPoll EXCEPT !.for = f, !.at = "sent"]]
  /\ UNCHANGED <<running, importing, want, req, processing, shownImport, following, fails>>

\* processingStatus
Status(p) ==
  /\ poll[p].at = "sent"
  /\ poll' = [poll EXCEPT ![p].at = "answered", ![p].running = running, ![p].importing = importing]
  /\ UNCHANGED <<running, importing, want, req, processing, shownImport, following, fails>>

\* Mutant: what the page shows is not taken back by the status.
OnlyUp(shown, got) == shown \/ got

Follows(shown, got) == got

Told(p) ==
  /\ poll[p].at = "answered"
  /\ CASE poll[p].for = "status" ->
            /\ processing' = Follows(processing, poll[p].running)
            /\ shownImport' = Follows(shownImport, poll[p].importing)
            /\ UNCHANGED following
       [] poll[p].for = "process" ->
            /\ processing' = (processing /\ poll[p].running)
            /\ following' = [following EXCEPT !.process = @ /\ poll[p].running]
            /\ UNCHANGED shownImport
       [] poll[p].for = "import" ->
            /\ shownImport' = (shownImport /\ poll[p].importing)
            /\ following' = [following EXCEPT !.import = @ /\ poll[p].importing]
            /\ UNCHANGED processing
  /\ poll' = [poll EXCEPT ![p] = NoPoll]
  /\ UNCHANGED <<running, importing, want, req, fails>>

\* without an answer the poll of a processing job gives up
PollFails(p) ==
  /\ poll[p].at # "none" /\ fails < MaxFails
  /\ fails' = fails + 1
  /\ IF poll[p].for = "process"
     THEN processing' = FALSE /\ following' = [following EXCEPT !.process = FALSE]
     ELSE UNCHANGED <<processing, following>>
  /\ poll' = [poll EXCEPT ![p] = NoPoll]
  /\ UNCHANGED <<running, importing, want, req, shownImport>>

-----------------------------------------------------------------------------
Init ==
  /\ running = FALSE /\ importing = FALSE /\ want = FALSE
  /\ req = [r \in Requests |-> [kind |-> "process", mine |-> FALSE, at |-> "none"]]
  /\ processing = FALSE /\ shownImport = FALSE
  /\ following = [process |-> FALSE, import |-> FALSE]
  /\ poll = [p \in Polls |-> NoPoll] /\ fails = 0

Serving(r) == Check(r) \/ Accept(r) \/ Begin(r) \/ Work(r) \/ Finish(r)
Polling(p) == Ask(p) \/ Status(p) \/ Told(p)

Next ==
  \/ \E r \in Requests : TriggerProcess(r) \/ HandleUpload(r) \/ Elsewhere(r) \/ Serving(r)
  \/ \E p \in Polls : Polling(p) \/ PollFails(p)

Spec == Init /\ [][Next]_vars

\* Jobs end, and the status is asked for again and again.
FairSpec ==
  /\ Spec
  /\ \A r \in Requests : WF_vars(Serving(r))
  /\ \A p \in Polls : WF_vars(Ask(p) /\ poll'[p].for = "status") /\ WF_vars(Status(p) \/ Told(p))

-----------------------------------------------------------------------------
(* Properties                                                              *)

\* However many requests passed the check of their handler at the same time, one run
\* of the processor works on the clips.
OneRun == Cardinality({r \in Requests : req[r].at = "running"}) <= 1

\* In the end the page shows whether a job is under way, also one that was started
\* elsewhere, and however the answers to its polls were delayed or lost: the buttons
\* do not stay disabled.
FlagsSettle ==
  <>[]((\A r \in Requests : req[r].at \in {"none", "over"}) => ~processing /\ ~shownImport)
=============================================================================
