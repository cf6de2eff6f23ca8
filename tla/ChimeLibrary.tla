---------------------------- MODULE ChimeLibrary ----------------------------
(***************************************************************************)
(* The library of lock sounds (web/src/pages/LockChime.tsx, MyLibraryTab): *)
(* the list, one player for all sounds, files that are checked and         *)
(* converted in the browser before they are uploaded, and requests that    *)
(* each end with a new listing.  Requests overlap, and each handler goes   *)
(* on with the values of the render it was created in.  The handlers of    *)
(* the server (server/api/lock_chime.go) take one step each here: the      *)
(* gadget and the cam disk behind them are in CamDisk.                     *)
(***************************************************************************)
EXTENDS Naturals, FiniteSets

CONSTANTS
  Names,     \* sounds
  Stored,    \* the sounds in the library at the start
  None,
  MaxActs,   \* bound on what the user does
  MaxJobs    \* bound on requests under way at once

ChimeLibraryAssumption ==
  Stored \subseteq Names /\ None \notin Names /\ MaxActs \in Nat /\ MaxJobs \in Nat

VARIABLES
  library,     \* the files of the library
  active,      \* the sound recorded as active, or None
  shown,       \* what the page shows: the list, the active sound, still loading
  jobs,        \* requests under way
  busy,        \* activating, deleting, clearing, uploading, randomizing
  confirming,  \* deleteConfirm
  playing,     \* playingName
  audio,       \* the player: its source, whether it sounds
  promises,    \* calls of play() whose promise is not settled
  converting,  \* files being checked and converted
  pending,     \* pendingFile, waiting for its name to be confirmed, or None
  uploads,     \* how often each file was sent
  acts

vars == <<library, active, shown, jobs, busy, confirming, playing, audio, promises,
          converting, pending, uploads, acts>>
player == <<playing, audio, promises>>
choice == <<converting, pending, uploads>>

NameOrNone == Names \cup {None}
List == [sounds : SUBSET Names, active : NameOrNone]
Job == [op : {"list", "activate", "clear", "delete", "upload", "randomize"},
        name : NameOrNone, was : NameOrNone,
        at : {"sent", "served", "listing", "listed"}, ok : BOOLEAN, got : List]

NoBusy == [activating |-> None, deleting |-> None,
           clearing |-> FALSE, uploading |-> FALSE, randomizing |-> FALSE]
Nothing == [sounds |-> {}, active |-> None]

TypeOK ==
  /\ library \subseteq Names /\ active \in NameOrNone
  /\ shown \in [list : List, loading : BOOLEAN]
  /\ jobs \subseteq Job
  /\ busy \in [activating : NameOrNone, deleting : NameOrNone,
               clearing : BOOLEAN, uploading : BOOLEAN, randomizing : BOOLEAN]
  /\ confirming \in NameOrNone /\ playing \in NameOrNone
  /\ audio \in [src : NameOrNone, on : BOOLEAN] /\ promises \subseteq Names
  /\ converting \subseteq Names /\ pending \in NameOrNone
  /\ uploads \in [Names -> 0 .. 2]
  /\ acts \in 0 .. MaxActs

Acts == acts < MaxActs /\ acts' = acts + 1

\* the rows of the list, with their buttons
Row(n) == ~shown.loading /\ n \in shown.list.sounds

-----------------------------------------------------------------------------
(* The player                                                              *)

\* togglePlay: there is one player; a new source, or a pause, rejects the promise of
\* a play() that has not begun yet
TogglePlay(n) ==
  /\ Acts /\ Row(n)
  /\ IF playing = n
     THEN playing' = None /\ audio' = [audio EXCEPT !.on = FALSE] /\ UNCHANGED promises
     ELSE playing' = n /\ audio' = [src |-> n, on |-> TRUE] /\ promises' = promises \cup {n}
  /\ UNCHANGED <<library, active, shown, jobs, busy, confirming, choice>>

PlayBegins ==
  /\ audio.on /\ audio.src \in promises
  /\ promises' = promises \ {audio.src}
  /\ UNCHANGED <<library, active, shown, jobs, busy, confirming, playing, audio, choice, acts>>

\* the promise of n is rejected, whatever is playing by now
PlayRejected(n) ==
  /\ n \in promises
  /\ promises' = promises \ {n} /\ playing' = None
  /\ audio' = IF audio.src = n THEN [audio EXCEPT !.on = FALSE] ELSE audio
  /\ UNCHANGED <<library, active, shown, jobs, busy, confirming, choice, acts>>

\* onended, onerror
PlayEnds ==
  /\ audio.on
  /\ audio' = [audio EXCEPT !.on = FALSE] /\ playing' = None
  /\ promises' = promises \ {audio.src}
  /\ UNCHANGED <<library, active, shown, jobs, busy, confirming, choice, acts>>

-----------------------------------------------------------------------------
(* Requests                                                                *)

Request(o, n) == [op |-> o, name |-> n, was |-> playing, at |-> "sent", ok |-> FALSE,
                  got |-> Nothing]

Asks(o, n) ==
  /\ Acts
  /\ Cardinality(jobs) < MaxJobs
  /\ jobs' = jobs \cup {Request(o, n)}

HandleActivate(n) ==
  /\ Row(n) /\ n # shown.list.active /\ busy.activating # n /\ busy.deleting # n
  /\ Asks("activate", n)
  /\ busy' = [busy EXCEPT !.activating = n]
  /\ UNCHANGED <<library, active, shown, confirming, player, choice>>

\* the banner of the active sound
HandleClear ==
  /\ shown.list.active # None /\ ~busy.clearing
  /\ Asks("clear", None)
  /\ busy' = [busy EXCEPT !.clearing = TRUE]
  /\ UNCHANGED <<library, active, shown, confirming, player, choice>>

ConfirmDelete(n) ==
  /\ Acts /\ Row(n) /\ busy.deleting # n
  /\ confirming' = n
  /\ UNCHANGED <<library, active, shown, jobs, busy, player, choice>>

HandleDelete(n) ==
  /\ Row(n) /\ confirming = n /\ busy.deleting # n
  /\ Asks("delete", n)
  /\ busy' = [busy EXCEPT !.deleting = n] /\ confirming' = None
  /\ UNCHANGED <<library, active, shown, player, choice>>

\* offered from two sounds on
HandleRandomizeNow ==
  /\ Cardinality(shown.list.sounds) >= 2 /\ ~busy.randomizing
  /\ Asks("randomize", None)
  /\ busy' = [busy EXCEPT !.randomizing = TRUE]
  /\ UNCHANGED <<library, active, shown, confirming, player, choice>>

Moved(j, k) == jobs' = (jobs \ {j}) \cup {k}

\* what the server does with j; an unknown sound is refused
Serve(j) ==
  /\ j \in jobs /\ j.at = "sent"
  /\ CASE j.op = "list" ->
            UNCHANGED <<library, active>> /\ Moved(j, [j EXCEPT !.at = "listing"])
       [] j.op = "activate" ->
            /\ active' = IF j.name \in library THEN j.name ELSE active
            /\ UNCHANGED library
            /\ Moved(j, [j EXCEPT !.at = "served", !.ok = (j.name \in library)])
       [] j.op = "clear" ->
            active' = None /\ UNCHANGED library /\ Moved(j, [j EXCEPT !.at = "served", !.ok = TRUE])
       [] j.op = "delete" ->
            /\ library' = library \ {j.name}
            /\ active' = IF j.name \in library /\ active = j.name THEN None ELSE active
            /\ Moved(j, [j EXCEPT !.at = "served", !.ok = (j.name \in library)])
       [] j.op = "upload" ->
            \E ok \in BOOLEAN :
              /\ library' = IF ok THEN library \cup {j.name} ELSE library
              /\ UNCHANGED active
              /\ Moved(j, [j EXCEPT !.at = "served", !.ok = ok])
       [] j.op = "randomize" ->
            /\ IF library = {} THEN UNCHANGED active ELSE active' \in library
            /\ UNCHANGED library
            /\ Moved(j, [j EXCEPT !.at = "served", !.ok = (library # {})])
  /\ UNCHANGED <<shown, busy, confirming, player, choice, acts>>

\* The flag of a kind of request goes down, whichever request of the kind has ended.
Freed(op) ==
  CASE op = "activate" -> [busy EXCEPT !.activating = None]
    [] op = "clear" -> [busy EXCEPT !.clearing = FALSE]
    [] op = "delete" -> [busy EXCEPT !.deleting = None]
    [] op = "upload" -> [busy EXCEPT !.uploading = FALSE]
    [] op = "randomize" -> [busy EXCEPT !.randomizing = FALSE]
    [] op = "list" -> busy

\* Mutant: the player is stopped, the row still says that it plays.
StopsPlayer == audio' = [audio EXCEPT !.on = FALSE] /\ UNCHANGED playing

StopPlaying == audio' = [audio EXCEPT !.on = FALSE] /\ playing' = None

\* The answer; a sound that played when its deletion was confirmed is stopped, or
\* whatever plays in its place.
Answered(j) ==
  /\ j \in jobs /\ j.at = "served"
  /\ IF j.ok
     THEN /\ Moved(j, [j EXCEPT !.at = "listing"])
          /\ IF j.op = "delete" /\ j.was = j.name THEN StopPlaying ELSE UNCHANGED <<playing, audio>>
          /\ UNCHANGED busy
     ELSE jobs' = jobs \ {j} /\ busy' = Freed(j.op) /\ UNCHANGED <<playing, audio>>
  /\ UNCHANGED <<library, active, shown, confirming, promises, choice, acts>>

Listing(j) ==
  /\ j \in jobs /\ j.at = "listing"
  /\ Moved(j, [j EXCEPT !.at = "listed", !.got = [sounds |-> library, active |-> active]])
  /\ UNCHANGED <<library, active, shown, busy, confirming, player, choice, acts>>

\* fetchSounds, and the end of the handler that waited for it
Listed(j) ==
  /\ j \in jobs /\ j.at = "listed"
  /\ shown' = [list |-> j.got, loading |-> FALSE]
  /\ jobs' = jobs \ {j} /\ busy' = Freed(j.op)
  /\ UNCHANGED <<library, active, confirming, player, choice, acts>>

\* No connection; the list stays as it was.
Fails(j) ==
  /\ j \in jobs
  /\ shown' = [shown EXCEPT !.loading = @ /\ j.op # "list"]
  /\ jobs' = jobs \ {j} /\ busy' = Freed(j.op)
  /\ UNCHANGED <<library, active, confirming, player, choice, acts>>

-----------------------------------------------------------------------------
(* Uploads                                                                 *)

\* A dropped file is taken even during an upload.
HandleFileSelected(n) ==
  /\ Acts /\ pending = None /\ n \notin converting
  /\ converting' = converting \cup {n}
  /\ UNCHANGED <<library, active, shown, jobs, busy, confirming, player, pending, uploads>>

\* decoded and short enough, converted to mono, resampled, encoded, small enough;
\* or refused on the way
Converted(n) ==
  /\ n \in converting
  /\ converting' = converting \ {n}
  /\ pending' \in {pending, n}
  /\ UNCHANGED <<library, active, shown, jobs, busy, confirming, player, uploads, acts>>

CancelPending ==
  /\ pending # None
  /\ pending' = None
  /\ UNCHANGED <<library, active, shown, jobs, busy, confirming, player, converting, uploads, acts>>

TakePending == pending' = None

\* handleUploadConfirm: by the button, which waits for an upload under way, or by
\* the Enter key, which does not
HandleUploadConfirm ==
  /\ pending # None
  /\ Asks("upload", pending)
  /\ uploads' = [uploads EXCEPT ![pending] = @ + 1]
  /\ busy' = [busy EXCEPT !.uploading = TRUE]
  /\ TakePending
  /\ UNCHANGED <<library, active, shown, confirming, player, converting>>

-----------------------------------------------------------------------------
Init ==
  /\ library = Stored /\ active \in Stored \cup {None}
  /\ shown = [list |-> Nothing, loading |-> TRUE]
  /\ playing = None /\ audio = [src |-> None, on |-> FALSE] /\ promises = {}
  /\ jobs = {Request("list", None)}
  /\ busy = NoBusy /\ confirming = None
  /\ converting = {} /\ pending = None /\ uploads = [n \in Names |-> 0]
  /\ acts = 0

Next ==
  \/ \E n \in Names :
       \/ TogglePlay(n) \/ PlayRejected(n) \/ HandleActivate(n) \/ ConfirmDelete(n)
       \/ HandleDelete(n) \/ Converted(n)
       \/ uploads[n] = 0 /\ HandleFileSelected(n)
  \/ PlayBegins \/ PlayEnds \/ HandleClear \/ HandleRandomizeNow
  \/ CancelPending \/ HandleUploadConfirm
  \/ \E j \in jobs : Serve(j) \/ Answered(j) \/ Listing(j) \/ Listed(j) \/ Fails(j)

Spec == Init /\ [][Next]_vars

-----------------------------------------------------------------------------
(* Properties                                                              *)

\* A row that offers to pause its sound is the row of the sound that is heard:
\* deleting a sound, or the end of another, leaves no row playing in silence.
PlayingHeard == playing # None => audio.on /\ audio.src = playing

\* A chosen file is sent at most once, however often the form is confirmed and
\* whatever else is converted meanwhile.
SentOnce == \A n \in Names : uploads[n] <= 1
=============================================================================
