-------------------------------- MODULE Wraps -------------------------------
(***************************************************************************)
(* The community page (web/src/pages/Community.tsx) with the browser of    *)
(* the wraps (web/src/pages/CommunityWraps.tsx): five clicks on the        *)
(* heading ask for the passcode of an administrator, who may edit and      *)
(* delete wraps until the library server refuses the passcode.  The list   *)
(* is asked for with the passcode too: it is part of the query.  The view  *)
(* of the lock sounds, which shares the passcode, is not opened.           *)
(***************************************************************************)
EXTENDS PagedLibrary

CONSTANTS
  Controls,   \* search, model and sort order, taken together
  Passcodes,  \* what users may enter
  MaxActs     \* bound on what the user does

WrapsAssumption ==
  /\ MaxActs \in Nat
  /\ Filters = [controls : Controls, as : Passcodes \cup {None}]
  /\ None \notin Passcodes /\ AnyFilter.as = None

VARIABLES
  prompt,      \* showPasscodePrompt
  checks,      \* validations under way, numbered by the acts before them
  modal,       \* "none", "detail", "edit", "delete"
  saving,      \* the request of the dialog now open is under way
  jobs,        \* admin requests under way: kind, and query of their renders
  edited,      \* a change was followed by a request for an earlier page
  downloading, \* downloading
  acts

vars == <<lib, prompt, checks, modal, saving, jobs, edited, downloading, acts>>
admin == <<prompt, checks, jobs, edited>>

adminPasscode == query.filter.as

TypeOK ==
  /\ LibTypeOK
  /\ prompt \in BOOLEAN
  /\ checks \subseteq [n : 1 .. MaxActs, passcode : Passcodes]
  /\ modal \in {"none", "detail", "edit", "delete"} /\ saving \in BOOLEAN
  /\ jobs \subseteq [n : 1 .. MaxActs, op : {"edit", "delete"}, of : Query]
  /\ edited \in BOOLEAN /\ downloading \in BOOLEAN
  /\ acts \in 0 .. MaxActs

Acts == acts < MaxActs /\ acts' = acts + 1

-----------------------------------------------------------------------------
(* The library                                                             *)

\* search, model, sort: the page goes back to the first
SetFilter(c) ==
  /\ Acts /\ modal = "none" /\ c # query.filter.controls
  /\ Asks([filter |-> [controls |-> c, as |-> adminPasscode], page |-> 1])
  /\ UNCHANGED <<admin, modal, saving, downloading>>

\* the buttons below the grid
TurnPage ==
  /\ Acts /\ modal = "none"
  /\ GridShown /\ total > 1
  /\ \E p \in {query.page - 1, query.page + 1} :
       p \in 1 .. total /\ Asks([query EXCEPT !.page = p])
  /\ UNCHANGED <<admin, modal, saving, downloading>>

\* the effect that waits 300 milliseconds for the next key
FetchTimer == Timer /\ UNCHANGED <<admin, modal, saving, downloading, acts>>

\* fetchWraps
FetchWraps(f) ==
  /\ Answer(f) \/ Failure(f, shown)
  /\ UNCHANGED <<admin, modal, saving, downloading, acts>>

Retry ==
  /\ Acts /\ error /\ ~loading
  /\ Send(query) /\ UNCHANGED due
  /\ UNCHANGED <<admin, modal, saving, downloading>>

-----------------------------------------------------------------------------
(* One wrap                                                                *)

\* the grid of wraps
OpenDetail ==
  /\ Acts /\ GridShown /\ modal = "none"
  /\ modal' = "detail"
  /\ UNCHANGED <<lib, admin, saving, downloading>>

\* a click outside, Close or Cancel, also during a request of the dialog
CloseModal ==
  /\ modal # "none"
  /\ modal' = "none" /\ saving' = FALSE
  /\ UNCHANGED <<lib, admin, downloading, acts>>

HandleDownload ==
  /\ Acts /\ modal = "detail" /\ ~downloading
  /\ downloading' = TRUE
  /\ UNCHANGED <<lib, admin, modal, saving>>

\* The details shown now close after a success, whichever wrap they are of.
Downloaded ==
  /\ downloading
  /\ downloading' = FALSE /\ modal' \in {modal, IF modal = "detail" THEN "none" ELSE modal}
  /\ UNCHANGED <<lib, admin, saving, acts>>

\* the pencil and the bin, of a card and of the details
OpenAdmin(m) ==
  /\ Acts /\ adminPasscode # None
  /\ modal = "detail" \/ (modal = "none" /\ GridShown)
  /\ modal' = m /\ saving' = FALSE
  /\ UNCHANGED <<lib, admin, downloading>>

\* EditWrapModal, DeleteWrapModal: one request of a dialog at a time
Submit(m) ==
  /\ Acts /\ modal = m /\ ~saving
  /\ adminPasscode # None
  /\ jobs' = jobs \cup {[n |-> acts', op |-> m, of |-> query]}
  /\ saving' = TRUE
  /\ UNCHANGED <<lib, prompt, checks, edited, modal, downloading>>

\* Mutant: the effect that fetches the page does not follow the passcode.
SetsOnly(p) ==
  /\ query' = [query EXCEPT !.filter = [@ EXCEPT !.as = p]]
  /\ UNCHANGED <<due, sent, fetches, shown, total, loading, error, last, crossed>>

\* setAdminPasscode: fetchWraps, and with it the effect, depend on the passcode
SetAdminPasscode(p) ==
  IF p = adminPasscode THEN UNCHANGED lib
  ELSE Asks([query EXCEPT !.filter = [@ EXCEPT !.as = p]])

\* the dialog of j's kind closes, if it is open
Closes(j) ==
  /\ modal' = IF modal = j.op THEN "none" ELSE modal
  /\ saving' = (saving /\ modal # j.op)

\* handleEdit, handleDelete after a 401: onAdminExit, whichever passcode is in use now
Refusal(j) ==
  /\ j \in jobs
  /\ SetAdminPasscode(None)
  /\ Closes(j) /\ jobs' = jobs \ {j}
  /\ UNCHANGED <<prompt, checks, edited, downloading, acts>>

\* and after a success: the page as the handler's render had it is fetched again
Changed(j) ==
  /\ j \in jobs
  /\ modal' = (IF modal \in {j.op, "detail"} THEN "none" ELSE modal)
  /\ saving' = (saving /\ modal # j.op)
  /\ jobs' = jobs \ {j}
  /\ Send(j.of) /\ UNCHANGED due
  /\ edited' = (edited \/ j.of # query)
  /\ UNCHANGED <<prompt, checks, downloading, acts>>

AdminFails(j) ==
  /\ j \in jobs
  /\ jobs' = jobs \ {j} /\ saving' \in {saving, FALSE}
  /\ UNCHANGED <<lib, prompt, checks, edited, modal, downloading, acts>>

-----------------------------------------------------------------------------
(* The passcode                                                            *)

\* handleHeadingClick, five times; or the cross beside "Admin Mode"
HeadingClicks ==
  /\ Acts /\ modal = "none" /\ ~prompt
  /\ IF adminPasscode # None THEN SetAdminPasscode(None) /\ UNCHANGED prompt
     ELSE prompt' = TRUE /\ UNCHANGED lib
  /\ UNCHANGED <<checks, jobs, edited, modal, saving, downloading>>

\* handleValidate, by the Enter key also while another validation is under way
HandleValidate(p) ==
  /\ Acts /\ prompt
  /\ checks' = checks \cup {[n |-> acts', passcode |-> p]}
  /\ UNCHANGED <<lib, prompt, jobs, edited, modal, saving, downloading>>

LeavePrompt ==
  /\ prompt /\ prompt' = FALSE
  /\ UNCHANGED <<lib, checks, jobs, edited, modal, saving, downloading, acts>>

\* onSuccess, also of a dialog that was closed: the passcode is the one in use, and
\* the dialog open now closes.  Otherwise the dialog says what failed.
Validated(c) ==
  /\ c \in checks /\ checks' = checks \ {c}
  /\ \/ SetAdminPasscode(c.passcode) /\ prompt' = FALSE
     \/ UNCHANGED <<lib, prompt>>
  /\ UNCHANGED <<jobs, edited, modal, saving, downloading, acts>>

Init ==
  /\ LibInit
  /\ prompt = FALSE /\ checks = {} /\ modal = "none" /\ saving = FALSE
  /\ jobs = {} /\ edited = FALSE /\ downloading = FALSE /\ acts = 0

Next ==
  \/ \E c \in Controls : SetFilter(c)
  \/ TurnPage \/ FetchTimer \/ Retry \/ \E f \in fetches : FetchWraps(f)
  \/ OpenDetail \/ CloseModal \/ HandleDownload \/ Downloaded
  \/ \E m \in {"edit", "delete"} : OpenAdmin(m) \/ Submit(m)
  \/ \E j \in jobs : Refusal(j) \/ Changed(j) \/ AdminFails(j)
  \/ HeadingClicks \/ LeavePrompt
  \/ \E p \in Passcodes : HandleValidate(p)
  \/ \E c \in checks : Validated(c)

Spec == Init /\ [][Next]_vars

-----------------------------------------------------------------------------
(* Properties                                                              *)

\* When answers come in the order of their requests, and no change was followed by a
\* request for an earlier page, the page at rest shows the list of its controls as the
\* passcode in use gives it: to an administrator with what only administrators see, and
\* after the passcode was refused or left without, whatever validations, changes and
\* refusals were answered in between, in any order.
OwnList ==
  Quiet /\ ~crossed /\ ~edited => error \/ shown = query
=============================================================================
