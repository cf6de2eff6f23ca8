--------------------------- MODULE ChimeCommunity ---------------------------
(***************************************************************************)
(* The community's lock sounds (web/src/pages/LockChime.tsx, CommunityTab  *)
(* and CommunityBrowse): a paged library, one player for the previews,     *)
(* downloads to the library of the Pi, and changes by an administrator.    *)
(***************************************************************************)
EXTENDS PagedLibrary

CONSTANTS
  Codes,      \* sounds of the library
  MaxActs     \* bound on what the user does

ChimeCommunityAssumption == None \notin Codes /\ MaxActs \in Nat

VARIABLES
  tab,          \* subTab
  playing,      \* playingCode
  audio,        \* the player: its source, whether it sounds
  promises,     \* calls of play() whose promise is not settled
  downloading,  \* downloadingCode
  downloads,    \* downloads under way
  edits,        \* changes under way: the query of their renders
  edited,       \* a change has fetched the page of an earlier render
  acts

vars == <<lib, tab, playing, audio, promises, downloading, downloads, edits, edited, acts>>
player == <<playing, audio, promises>>
rest == <<tab, downloading, downloads, edits, edited>>

TypeOK ==
  /\ LibTypeOK
  /\ tab \in {"browse", "upload"}
  /\ playing \in Codes \cup {None} /\ promises \subseteq Codes
  /\ audio \in [src : Codes \cup {None}, on : BOOLEAN]
  /\ downloading \in Codes \cup {None} /\ downloads \subseteq Codes
  /\ edits \subseteq Query /\ edited \in BOOLEAN
  /\ acts \in 0 .. MaxActs

Acts == acts < MaxActs /\ acts' = acts + 1

FirstPage(f) == [filter |-> f, page |-> 1]

\* the fields above the grid
SetFilter(f) ==
  /\ Acts /\ tab = "browse" /\ f # query.filter
  /\ Asks(FirstPage(f))
  /\ UNCHANGED <<player, rest>>

\* the buttons below it
TurnPage ==
  /\ Acts /\ tab = "browse" /\ ~loading /\ total > 1
  /\ \E p \in {query.page - 1, query.page + 1} :
       p \in 1 .. total /\ Asks([query EXCEPT !.page = p])
  /\ UNCHANGED <<player, rest>>

FetchTimer == tab = "browse" /\ Timer /\ UNCHANGED <<player, rest, acts>>

\* fetchSounds; an error clears the list
FetchSounds(f) ==
  /\ Answer(f) \/ Failure(f, None)
  /\ UNCHANGED <<player, rest, acts>>

\* togglePreview
TogglePreview(c) ==
  /\ Acts /\ tab = "browse" /\ GridShown
  /\ IF playing = c
     THEN playing' = None /\ audio' = [audio EXCEPT !.on = FALSE] /\ UNCHANGED promises
     ELSE playing' = c /\ audio' = [src |-> c, on |-> TRUE] /\ promises' = promises \cup {c}
  /\ UNCHANGED <<lib, rest>>

\* the end, an error, or a promise that is rejected, be it of an earlier sound
PreviewEnds(c) ==
  /\ (audio = [src |-> c, on |-> TRUE]) \/ c \in promises
  /\ playing' = None /\ promises' = promises \ {c}
  /\ audio' = IF audio.src = c THEN [audio EXCEPT !.on = FALSE] ELSE audio
  /\ UNCHANGED <<lib, rest, acts>>

PreviewBegins(c) ==
  /\ c \in promises /\ audio = [src |-> c, on |-> TRUE]
  /\ promises' = promises \ {c}
  /\ UNCHANGED <<lib, playing, audio, rest, acts>>

\* handleDownload: the button of one sound waits
HandleDownload(c) ==
  /\ Acts /\ tab = "browse" /\ GridShown /\ downloading # c
  /\ downloading' = c /\ downloads' = downloads \cup {c}
  /\ UNCHANGED <<lib, player, tab, edits, edited>>

Downloaded(c) ==
  /\ c \in downloads
  /\ downloading' = None /\ downloads' = downloads \ {c}
  /\ UNCHANGED <<lib, player, tab, edits, edited, acts>>

\* handleAdminEdit, handleAdminDelete, from their dialogs
HandleAdmin ==
  /\ Acts /\ tab = "browse" /\ GridShown
  /\ edits' = edits \cup {query}
  /\ UNCHANGED <<lib, player, tab, downloading, downloads, edited>>

AdminDone(q) ==
  /\ q \in edits
  /\ edits' = edits \ {q}
  /\ \/ Send(q) /\ UNCHANGED due /\ edited' = (edited \/ q # query)
     \/ UNCHANGED <<lib, edited>>
  /\ UNCHANGED <<player, tab, downloading, downloads, acts>>

\* The other tab; what is left of the browser is the audio, and that is paused.
SwitchTab ==
  /\ Acts
  /\ IF tab = "browse"
     THEN tab' = "upload" /\ audio' = [audio EXCEPT !.on = FALSE]
     ELSE tab' = "browse" /\ UNCHANGED audio
  /\ query' = FirstPage(AnyFilter) /\ due' = query' /\ fetches' = {} /\ shown' = None
  /\ total' = 0 /\ loading' = TRUE /\ error' = FALSE /\ last' = 0 /\ crossed' = FALSE
  /\ playing' = None /\ promises' = {} /\ downloading' = None /\ downloads' = {}
  /\ edits' = {} /\ edited' = FALSE
  /\ UNCHANGED sent

Init ==
  /\ LibInit
  /\ tab = "browse" /\ playing = None /\ audio = [src |-> None, on |-> FALSE] /\ promises = {}
  /\ downloading = None /\ downloads = {} /\ edits = {} /\ edited = FALSE /\ acts = 0

Next ==
  \/ \E f \in Filters : SetFilter(f)
  \/ TurnPage \/ FetchTimer \/ \E f \in fetches : FetchSounds(f)
  \/ \E c \in Codes :
       \/ TogglePreview(c) \/ PreviewEnds(c) \/ PreviewBegins(c)
       \/ HandleDownload(c) \/ Downloaded(c)
  \/ HandleAdmin \/ (\E q \in edits : AdminDone(q)) \/ SwitchTab

Spec == Init /\ [][Next]_vars

-----------------------------------------------------------------------------
(* Properties                                                              *)

\* When answers come in the order of their requests, the page at rest shows what its
\* controls say, however the filters, the page and the timer were changed in between.
SettledPage ==
  tab = "browse" /\ Quiet /\ ~crossed /\ ~edited /\ ~error => shown = query
=============================================================================
