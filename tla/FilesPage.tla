------------------------------ MODULE FilesPage ------------------------------
(***************************************************************************)
(* The file browser of the web interface (web/src/pages/Files.tsx): tabs   *)
(* for the drives, one directory shown at a time, a search, a selection,   *)
(* uploads.  Every listing is a request of its own; answers come in any    *)
(* order, and each handler goes on after an await with the path and the    *)
(* drive of the render it was created in.                                  *)
(***************************************************************************)
EXTENDS Naturals, FiniteSets

CONSTANTS
  Tabs,         \* the drives that have a tab
  Dirs,         \* their directories
  First,        \* the tab shown at the start
  Base,         \* Base[t]: the directory a tab starts in
  Within,       \* Within[d]: the directory d lies in; d itself for a base
  Entry,        \* Entry[t]: the folder named like the drive in its base, or None
  None,
  MaxFetches,   \* bound on listings under way at once
  MaxMoves,     \* bound on what the user does
  UploadSlots   \* uploads the user may start in a session

FilesAssumption ==
  /\ First \in Tabs /\ Base \in [Tabs -> Dirs] /\ Within \in [Dirs -> Dirs]
  /\ None \notin Dirs /\ Entry \in [Tabs -> Dirs \cup {None}]
  /\ MaxFetches \in Nat /\ MaxMoves \in Nat

VARIABLES
  tab,        \* activeDrive
  root,       \* effectiveBase
  path,       \* currentPath
  search,     \* the search field is filled
  timer,      \* the listing a debounced search is going to ask for, or None
  work,       \* deletions and new folders under way: the listing each ends with
  fetches,    \* listings under way: directory, search, drive of the closure
  shown,      \* the directory whose listing is in files, or None
  loading,    \* loading
  selected,   \* selected: directories of the selected entries
  uploads,    \* each upload: its stage, the directory it goes to
  rows,       \* the upload whose rows are displayed, or None
  uploading,  \* uploading
  moves       \* how much the user has done

vars == <<tab, root, path, search, timer, work, fetches, shown, loading, selected,
          uploads, rows, uploading, moves>>
place == <<tab, root, path>>
transfer == <<uploads, rows, uploading>>

Fetch == [dir : Dirs, search : BOOLEAN, tab : Tabs]
Listing(d, q, t) == [dir |-> d, search |-> q, tab |-> t]
Job == [stage : {"none", "sending", "fading", "over"}, dir : Dirs \cup {None},
        tab : Tabs]

TypeOK ==
  /\ tab \in Tabs /\ root \in Dirs \cup {None} /\ path \in Dirs
  /\ search \in BOOLEAN /\ timer \in Fetch \cup {None}
  /\ fetches \in SUBSET Fetch /\ work \in SUBSET Fetch
  /\ shown \in Dirs \cup {None} /\ loading \in BOOLEAN
  /\ selected \in SUBSET Dirs
  /\ uploads \in [UploadSlots -> Job]
  /\ rows \in UploadSlots \cup {None} /\ uploading \in BOOLEAN
  /\ moves \in 0 .. MaxMoves

\* the user acts, a bounded number of times
Moves == moves < MaxMoves /\ moves' = moves + 1

-----------------------------------------------------------------------------
(* Listings                                                                *)

\* fetchFiles
FetchFiles(f) ==
  /\ fetches' = fetches \cup {f}
  /\ Cardinality(fetches') <= MaxFetches
  /\ loading' = TRUE
  /\ selected' = {}

\* The directory changes; the effect on currentPath fetches it.
Opens(d) ==
  /\ path' = d
  /\ IF d # path THEN FetchFiles(Listing(d, search, tab))
     ELSE UNCHANGED <<fetches, loading, selected>>

\* The table of entries, with the boxes to select them.
TableShown == shown # None /\ ~loading

\* navigate, goUp
Navigate(d) ==
  /\ Moves
  /\ \/ TableShown /\ Within[d] = shown /\ d # shown
     \/ d = Within[path] /\ path # (IF root # None THEN root ELSE Base[tab])
  /\ Opens(d)
  /\ UNCHANGED <<tab, root, search, timer, work, shown, transfer>>

\* switchDrive: the search is cleared in the same render
SwitchDrive(t) ==
  /\ Moves
  /\ tab' = t /\ root' = None /\ search' = FALSE /\ path' = Base[t]
  /\ IF Base[t] # path THEN FetchFiles(Listing(Base[t], FALSE, t))
     ELSE UNCHANGED <<fetches, loading, selected>>
  /\ UNCHANGED <<timer, work, shown, transfer>>

\* handleSearchChange: a timer that remembers the search, the directory and the
\* drive; nothing but another key stops it
HandleSearchChange ==
  /\ Moves
  /\ \E q \in BOOLEAN : search' = q /\ timer' = Listing(path, q, tab)
  /\ UNCHANGED <<place, work, fetches, shown, loading, selected, transfer>>

SearchTimer ==
  /\ timer # None
  /\ FetchFiles(timer)
  /\ timer' = None
  /\ UNCHANGED <<place, search, work, shown, transfer, moves>>

\* At the base of a drive that has a folder of its own name, a listing leads on
\* into that folder.
Enters(f) == f.dir = Base[f.tab] /\ ~f.search /\ Entry[f.tab] # None

FetchAnswered(f) ==
  /\ f \in fetches
  /\ IF Enters(f)
     THEN /\ root' = Entry[f.tab] /\ path' = Entry[f.tab]
          /\ IF path' # path
             THEN /\ fetches' = (fetches \ {f})
                       \cup {Listing(path', search, tab)}
                  /\ loading' = TRUE /\ selected' = {}
             ELSE fetches' = fetches \ {f} /\ UNCHANGED <<loading, selected>>
          /\ UNCHANGED shown
     ELSE /\ shown' = f.dir /\ loading' = FALSE
          /\ fetches' = fetches \ {f}
          /\ UNCHANGED <<root, path, selected>>
  /\ UNCHANGED <<tab, search, timer, work, transfer, moves>>

\* "Failed to load directory", "Unable to connect"
FetchFails(f) ==
  /\ f \in fetches
  /\ fetches' = fetches \ {f}
  /\ shown' = None /\ loading' = FALSE
  /\ UNCHANGED <<place, search, timer, work, selected, transfer, moves>>

-----------------------------------------------------------------------------
(* The selection and what is done with it                                  *)

Select ==
  /\ Moves
  /\ TableShown
  /\ selected' \in {selected \cup {shown}, selected \ {shown}}
  /\ UNCHANGED <<place, search, timer, work, fetches, shown, loading, transfer>>

\* the bar with the buttons for the selected entries
ClearSelection ==
  /\ selected # {}
  /\ selected' = {}
  /\ UNCHANGED <<place, search, timer, work, fetches, shown, loading, transfer, moves>>

\* handleDelete, with something selected, and handleNewFolder: requests, and then
\* a listing of the directory they were started in, without the search
Change ==
  /\ Moves
  /\ work' = work \cup {Listing(path, FALSE, tab)}
  /\ UNCHANGED <<place, search, timer, fetches, shown, loading, selected, transfer>>

Changed(f) ==
  /\ f \in work
  /\ work' = work \ {f}
  /\ FetchFiles(f)
  /\ UNCHANGED <<place, search, timer, shown, transfer, moves>>

-----------------------------------------------------------------------------
(* Uploads                                                                 *)

\* Mutant: the button is enabled during an upload.
UploadAlways == TRUE

CanUpload == ~uploading

\* to the directory and the drive of the render the handler was created in
HandleUpload(u) ==
  /\ Moves
  /\ CanUpload /\ uploads[u].stage = "none"
  /\ uploads' = [uploads EXCEPT ![u] = [stage |-> "sending", dir |-> path, tab |-> tab]]
  /\ rows' = u /\ uploading' = TRUE
  /\ UNCHANGED <<place, search, timer, work, fetches, shown, loading, selected>>

\* all files were sent or failed; the listing is refreshed, the rows stay for a while
UploadsSettled(u) ==
  /\ uploads[u].stage = "sending"
  /\ uploads' = [uploads EXCEPT ![u].stage = "fading"]
  /\ FetchFiles(Listing(uploads[u].dir, FALSE, uploads[u].tab))
  /\ UNCHANGED <<place, search, timer, work, shown, rows, uploading, moves>>

\* two seconds later
RowsCleared(u) ==
  /\ uploads[u].stage = "fading"
  /\ uploads' = [uploads EXCEPT ![u].stage = "over"]
  /\ rows' = None /\ uploading' = FALSE
  /\ UNCHANGED <<place, search, timer, work, fetches, shown, loading, selected, moves>>

-----------------------------------------------------------------------------
\* loadConfig has chosen the tabs, and the first directory is being listed.
Init ==
  /\ tab = First /\ root = None /\ path = Base[First]
  /\ search = FALSE /\ timer = None /\ work = {}
  /\ fetches = {Listing(Base[First], FALSE, First)}
  /\ shown = None /\ loading = TRUE /\ selected = {}
  /\ uploads = [u \in UploadSlots |-> [stage |-> "none", dir |-> None, tab |-> First]]
  /\ rows = None /\ uploading = FALSE
  /\ moves = 0

Next ==
  \/ \E t \in Tabs : SwitchDrive(t)
  \/ \E d \in Dirs : Navigate(d)
  \/ HandleSearchChange \/ SearchTimer \/ Select \/ ClearSelection \/ Change
  \/ \E f \in Fetch : FetchAnswered(f) \/ FetchFails(f) \/ Changed(f)
  \/ \E u \in UploadSlots : HandleUpload(u) \/ UploadsSettled(u) \/ RowsCleared(u)

Spec == Init /\ [][Next]_vars

-----------------------------------------------------------------------------
(* Properties                                                              *)

\* The rows on the page are those of the upload under way: the timer of an earlier
\* upload never clears them.
RowsOfUpload ==
  \A u \in UploadSlots : uploads[u].stage \in {"sending", "fading"} => rows = u /\ uploading
=============================================================================
