--------------------------- MODULE LibraryProofs ---------------------------
(*****************************************************************************)
(* Proofs about the lock sounds and the wraps, of the car and of the community.*)
(*****************************************************************************)
EXTENDS Web, SequenceTheorems, TLAPS

-----------------------------------------------------------------------------
(*****************************************************************************)
(* The library of lock sounds (ChimeLibrary)                                 *)
(*****************************************************************************)

(* A file that is converted, or waits for its name, was not sent yet, and does not do   *)
(* both at once.                                                                        *)
Chosen ==
  /\ \A n \in sounds_converting : sounds_uploads[n] = 0
  /\ sounds_pending # NoValue => sounds_uploads[sounds_pending] = 0
       /\ sounds_pending \notin sounds_converting
Named == \A j \in sounds_jobs : j.op = "upload" => j.name \in sounds_Names
SoundsInv == L!TypeOK /\ Named /\ L!PlayingHeard /\ Chosen /\ L!SentOnce

LEMMA SoundsRequestTypes ==
  ASSUME L!ChimeLibraryAssumption, L!TypeOK,
         NEW o \in {"list", "activate", "clear", "delete", "upload", "randomize"},
           NEW n \in L!NameOrNone
  PROVE  L!Request(o, n) \in L!Job
<1>1. L!Nothing \in L!List
  BY DEF L!Nothing, L!List, L!NameOrNone
<1> QED BY <1>1 DEF L!Request, L!Job, L!TypeOK

LEMMA SoundsInit == L!ChimeLibraryAssumption /\ L!Init => SoundsInv
<1> SUFFICES ASSUME L!ChimeLibraryAssumption, L!Init PROVE SoundsInv
  OBVIOUS
<1>1. L!Nothing \in L!List /\ NoValue \in L!NameOrNone /\ 0 \in 0 .. sounds_MaxActs
  BY DEF L!Nothing, L!List, L!NameOrNone, L!ChimeLibraryAssumption
<1>2. L!Request("list", NoValue) \in L!Job
  BY <1>1 DEF L!Init, L!Request, L!Job
<1>3. L!TypeOK
  <2>1. sounds_library \subseteq sounds_Names /\ sounds_active \in L!NameOrNone
        /\ sounds_shown \in [list : L!List, loading : BOOLEAN]
    BY <1>1 DEF L!Init, L!ChimeLibraryAssumption, L!NameOrNone
  <2>2. sounds_jobs \subseteq L!Job /\ sounds_uploads \in [sounds_Names -> 0 .. 2]
    BY <1>2 DEF L!Init
  <2>3. sounds_busy \in [activating : L!NameOrNone, deleting : L!NameOrNone,
                         clearing : BOOLEAN, uploading : BOOLEAN, randomizing : BOOLEAN]
    BY <1>1 DEF L!Init, L!NoBusy
  <2> QED BY <1>1, <2>1, <2>2, <2>3 DEF L!Init, L!TypeOK
<1>4. Named /\ L!PlayingHeard /\ Chosen /\ L!SentOnce
  BY DEF L!Init, Named, L!Request, L!PlayingHeard, Chosen, L!SentOnce
<1> QED BY <1>3, <1>4 DEF SoundsInv

LEMMA SoundsActsTypes ==
  ASSUME L!ChimeLibraryAssumption, L!TypeOK, L!Acts
  PROVE  sounds_acts' \in 0 .. sounds_MaxActs
  BY DEF L!ChimeLibraryAssumption, L!TypeOK, L!Acts

LEMMA SoundsAsksTypes ==
  ASSUME L!ChimeLibraryAssumption, L!TypeOK,
         NEW o \in {"list", "activate", "clear", "delete", "upload", "randomize"},
           NEW n \in L!NameOrNone,
         L!Asks(o, n), Named, o = "upload" => n \in sounds_Names
  PROVE  sounds_jobs' \subseteq L!Job /\ sounds_acts' \in 0 .. sounds_MaxActs /\ Named'
<1>1. L!Request(o, n).op = o /\ L!Request(o, n).name = n
  BY DEF L!Request
<1> QED BY <1>1, SoundsRequestTypes, SoundsActsTypes DEF L!Asks, L!TypeOK, Named

\* Whatever stops the player takes back the row that plays, be it a promise rejected late.
LEMMA PlayerKeeps ==
  ASSUME L!ChimeLibraryAssumption, SoundsInv,
         L!PlayBegins \/ L!PlayEnds \/ \E n \in sounds_Names : L!TogglePlay(n)
           \/ L!PlayRejected(n)
  PROVE  SoundsInv'
<1> USE DEF SoundsInv, L!choice
<1>1. UNCHANGED <<sounds_library, sounds_active, sounds_shown, sounds_jobs, sounds_busy,
                  sounds_confirming, sounds_converting, sounds_pending, sounds_uploads>>
  BY DEF L!PlayBegins, L!PlayEnds, L!TogglePlay, L!PlayRejected
<1>2. Chosen' /\ L!SentOnce' /\ Named'
  BY <1>1 DEF Chosen, L!SentOnce, Named
<1>3. CASE L!PlayBegins
  BY <1>2, <1>3 DEF L!PlayBegins, L!TypeOK, L!PlayingHeard
<1>4. CASE L!PlayEnds
  BY <1>2, <1>4 DEF L!PlayEnds, L!TypeOK, L!PlayingHeard, L!NameOrNone
<1>5. ASSUME NEW n \in sounds_Names, L!PlayRejected(n) PROVE SoundsInv'
  BY <1>2, <1>5, ZenonT(60) DEF L!PlayRejected, L!TypeOK, L!PlayingHeard, L!NameOrNone
<1>6. ASSUME NEW n \in sounds_Names, L!TogglePlay(n) PROVE SoundsInv'
  <2>1. sounds_acts' \in 0 .. sounds_MaxActs
    BY <1>6, SoundsActsTypes DEF L!TogglePlay
  <2>2. CASE sounds_playing = n
    BY <1>2, <1>6, <2>1, <2>2, ZenonT(60)
       DEF L!TogglePlay, L!TypeOK, L!PlayingHeard, L!NameOrNone
  <2>3. CASE sounds_playing # n
    <3>1. sounds_playing' = n /\ sounds_audio' = [src |-> n, on |-> TRUE]
          /\ sounds_promises' = sounds_promises \cup {n}
      BY <1>6, <2>3 DEF L!TogglePlay
    <3>2. sounds_audio' \in [src : L!NameOrNone, on : BOOLEAN]
          /\ sounds_playing' \in L!NameOrNone /\ sounds_promises' \subseteq sounds_Names
      BY <3>1 DEF L!NameOrNone, L!TypeOK
    <3>3. L!PlayingHeard'
      BY <3>1 DEF L!PlayingHeard
    <3> QED BY <1>1, <1>2, <2>1, <3>2, <3>3 DEF L!TypeOK
  <2> QED BY <2>2, <2>3
<1> QED BY <1>3, <1>4, <1>5, <1>6

\* Steps that leave the player and the files of the form alone keep what is said of them.
LEMMA SoundsOthersRest ==
  ASSUME L!PlayingHeard, Chosen, L!SentOnce,
         UNCHANGED <<sounds_playing, sounds_audio, sounds_converting, sounds_pending,
                     sounds_uploads>>
  PROVE  L!PlayingHeard' /\ Chosen' /\ L!SentOnce'
  BY DEF L!PlayingHeard, Chosen, L!SentOnce

\* The buttons send requests and leave the player and the uploads alone.
LEMMA SoundsButtonsKeep ==
  ASSUME L!ChimeLibraryAssumption, SoundsInv,
         \/ L!HandleClear \/ L!HandleRandomizeNow
         \/ \E n \in sounds_Names : L!HandleActivate(n) \/ L!ConfirmDelete(n) \/ L!HandleDelete(n)
  PROVE  SoundsInv'
<1> USE DEF SoundsInv
<1>1. UNCHANGED <<sounds_library, sounds_active, sounds_shown, L!player, L!choice>>
  BY DEF L!HandleClear, L!HandleRandomizeNow, L!HandleActivate, L!ConfirmDelete, L!HandleDelete
<1>2. L!PlayingHeard' /\ Chosen' /\ L!SentOnce'
  BY <1>1, SoundsOthersRest DEF L!player, L!choice
<1>3. NoValue \in L!NameOrNone /\ sounds_Names \subseteq L!NameOrNone
  BY DEF L!NameOrNone
<1>4. CASE L!HandleClear
  <2>1. sounds_jobs' \subseteq L!Job /\ sounds_acts' \in 0 .. sounds_MaxActs /\ Named'
    BY <1>3, <1>4, SoundsAsksTypes DEF L!HandleClear
  <2> QED BY <1>1, <1>2, <1>4, <2>1 DEF L!HandleClear, L!TypeOK, L!player, L!choice
<1>5. CASE L!HandleRandomizeNow
  <2>1. sounds_jobs' \subseteq L!Job /\ sounds_acts' \in 0 .. sounds_MaxActs /\ Named'
    BY <1>3, <1>5, SoundsAsksTypes DEF L!HandleRandomizeNow
  <2> QED BY <1>1, <1>2, <1>5, <2>1 DEF L!HandleRandomizeNow, L!TypeOK, L!player, L!choice
<1>6. ASSUME NEW n \in sounds_Names, L!HandleActivate(n) \/ L!HandleDelete(n) PROVE SoundsInv'
  <2>1. sounds_jobs' \subseteq L!Job /\ sounds_acts' \in 0 .. sounds_MaxActs /\ Named'
    BY <1>3, <1>6, SoundsAsksTypes DEF L!HandleActivate, L!HandleDelete
  <2> QED BY <1>1, <1>2, <1>3, <1>6, <2>1 DEF L!HandleActivate, L!HandleDelete, L!TypeOK,
         L!player, L!choice
<1>7. ASSUME NEW n \in sounds_Names, L!ConfirmDelete(n) PROVE SoundsInv'
  BY <1>1, <1>2, <1>3, <1>7, SoundsActsTypes DEF L!ConfirmDelete, L!TypeOK, Named, L!player,
     L!choice
<1> QED BY <1>4, <1>5, <1>6, <1>7

LEMMA FreedTypes ==
  ASSUME L!TypeOK, NEW j \in sounds_jobs
  PROVE  L!Freed(j.op) \in [activating : L!NameOrNone, deleting : L!NameOrNone,
                            clearing : BOOLEAN, uploading : BOOLEAN, randomizing : BOOLEAN]
<1>1. j.op \in {"list", "activate", "clear", "delete", "upload", "randomize"}
      /\ NoValue \in L!NameOrNone
  BY DEF L!TypeOK, L!Job, L!NameOrNone
<1> QED BY <1>1 DEF L!Freed, L!TypeOK

\* The server changes its library and its active sound.
LEMMA ServeKeeps ==
  ASSUME L!ChimeLibraryAssumption, SoundsInv, NEW j \in sounds_jobs, L!Serve(j)
  PROVE  SoundsInv'
<1> USE DEF SoundsInv
<1>1. UNCHANGED <<sounds_shown, sounds_busy, sounds_confirming, L!player, L!choice, sounds_acts>>
  BY DEF L!Serve
<1>2. L!PlayingHeard' /\ Chosen' /\ L!SentOnce'
  BY <1>1, SoundsOthersRest DEF L!player, L!choice
<1>3. j \in L!Job /\ NoValue \in L!NameOrNone
  BY DEF L!TypeOK, L!NameOrNone
<1>4. ASSUME NEW ok \in BOOLEAN PROVE [j EXCEPT !.at = "served", !.ok = ok] \in L!Job
  BY <1>3 DEF L!Job
<1>5. [j EXCEPT !.at = "listing"] \in L!Job
  BY <1>3 DEF L!Job
<1>6. j.op = "upload" => j.name \in sounds_Names
  BY DEF Named
<1>7. j.op \in {"list", "activate", "clear", "delete", "upload", "randomize"}
  BY <1>3 DEF L!Job
<1>8. \/ sounds_jobs' = (sounds_jobs \ {j}) \cup {[j EXCEPT !.at = "listing"]}
      \/ \E ok \in BOOLEAN : sounds_jobs' = (sounds_jobs \ {j}) \cup {[j EXCEPT !.at = "served", !.ok = ok]}
  <2>1. (j.name \in sounds_library) \in BOOLEAN /\ (sounds_library # {}) \in BOOLEAN
        /\ TRUE \in BOOLEAN
    OBVIOUS
  <2>2. CASE j.op = "list"
    BY <2>2 DEF L!Serve, L!Moved
  <2>3. CASE j.op \in {"activate", "delete"}
    <3>1. sounds_jobs' = (sounds_jobs \ {j}) \cup {[j EXCEPT !.at = "served",
                                                    !.ok = (j.name \in sounds_library)]}
      BY <2>3 DEF L!Serve, L!Moved
    <3> QED BY <2>1, <3>1, Zenon
  <2>4. CASE j.op = "clear"
    BY <2>1, <2>4 DEF L!Serve, L!Moved
  <2>5. CASE j.op = "upload"
    BY <2>5 DEF L!Serve, L!Moved
  <2>6. CASE j.op = "randomize"
    <3>1. sounds_jobs' = (sounds_jobs \ {j}) \cup {[j EXCEPT !.at = "served",
                                                    !.ok = (sounds_library # {})]}
      BY <2>6 DEF L!Serve, L!Moved
    <3> QED BY <2>1, <3>1, Zenon
  <2> QED BY <1>7, <2>2, <2>3, <2>4, <2>5, <2>6
<1>9. sounds_jobs' \subseteq L!Job /\ Named'
  <2>1. PICK k \in L!Job : sounds_jobs' = (sounds_jobs \ {j}) \cup {k} /\ k.op = j.op
        /\ k.name = j.name
    <3>1. CASE sounds_jobs' = (sounds_jobs \ {j}) \cup {[j EXCEPT !.at = "listing"]}
      BY <1>3, <1>5, <3>1 DEF L!Job
    <3>2. ASSUME NEW ok \in BOOLEAN,
                 sounds_jobs' = (sounds_jobs \ {j}) \cup {[j EXCEPT !.at = "served", !.ok = ok]}
          PROVE  \E k \in L!Job : sounds_jobs' = (sounds_jobs \ {j}) \cup {k} /\ k.op = j.op
                 /\ k.name = j.name
      BY <1>3, <1>4, <3>2 DEF L!Job
    <3> QED BY <1>8, <3>1, <3>2
  <2> QED BY <1>6, <2>1 DEF L!TypeOK, Named
<1>10. sounds_library' \subseteq sounds_Names /\ sounds_active' \in L!NameOrNone
  <2>1. CASE j.op \in {"list", "activate", "clear", "delete"}
    <3>1. sounds_library' \subseteq sounds_library
          /\ (sounds_active' \in {NoValue, sounds_active} \/ sounds_active' \in sounds_library)
      BY <2>1 DEF L!Serve
    <3> QED BY <1>3, <3>1 DEF L!TypeOK, L!NameOrNone
  <2>2. CASE j.op = "upload"
    BY <1>6, <2>2 DEF L!Serve, L!TypeOK
  <2>3. CASE j.op = "randomize"
    BY <2>3 DEF L!Serve, L!TypeOK, L!NameOrNone
  <2> QED BY <1>7, <2>1, <2>2, <2>3
<1> QED BY <1>1, <1>2, <1>9, <1>10 DEF L!TypeOK, L!player, L!choice

\* Answers change the list; that of a deletion may stop the player together with its row.
LEMMA SoundsAnswerKeeps ==
  ASSUME L!ChimeLibraryAssumption, SoundsInv, NEW j \in sounds_jobs,
         L!Answered(j) \/ L!Listing(j) \/ L!Listed(j) \/ L!Fails(j)
  PROVE  SoundsInv'
<1> USE DEF SoundsInv
<1>1. UNCHANGED <<sounds_library, sounds_active, sounds_confirming, sounds_promises, L!choice,
                  sounds_acts>>
  BY DEF L!Answered, L!Listing, L!Listed, L!Fails, L!player
<1>2. L!Freed(j.op) \in [activating : L!NameOrNone, deleting : L!NameOrNone,
                         clearing : BOOLEAN, uploading : BOOLEAN, randomizing : BOOLEAN]
  BY FreedTypes
<1>3. j \in L!Job /\ NoValue \in L!NameOrNone
  BY DEF L!TypeOK, L!NameOrNone
<1>4. [sounds |-> sounds_library, active |-> sounds_active] \in L!List
  BY DEF L!TypeOK, L!List
<1>5. [j EXCEPT !.at = "listing"] \in L!Job
      /\ [j EXCEPT !.at = "listed", !.got = [sounds |-> sounds_library,
                                             active |-> sounds_active]] \in L!Job
  BY <1>3, <1>4 DEF L!Job
<1>6. j.got \in L!List /\ (j.op = "upload" => j.name \in sounds_Names)
  BY <1>3 DEF L!Job, Named
<1>7. Chosen' /\ L!SentOnce'
  BY <1>1 DEF L!choice, Chosen, L!SentOnce
<1>8. CASE L!Answered(j)
  <2>1. sounds_jobs' \subseteq L!Job /\ Named'
    <3>1. sounds_jobs' \subseteq sounds_jobs \cup {[j EXCEPT !.at = "listing"]}
      BY <1>8 DEF L!Answered, L!Moved
    <3>2. [j EXCEPT !.at = "listing"].op = j.op /\ [j EXCEPT !.at = "listing"].name = j.name
      BY <1>3 DEF L!Job
    <3> QED BY <1>5, <1>6, <3>1, <3>2 DEF L!TypeOK, Named
  <2>2. L!PlayingHeard' /\ sounds_playing' \in L!NameOrNone
        /\ sounds_audio' \in [src : L!NameOrNone, on : BOOLEAN]
    <3>1. CASE UNCHANGED <<sounds_playing, sounds_audio>>
      BY <3>1 DEF L!PlayingHeard, L!TypeOK
    <3>2. CASE L!StopPlaying
      BY <1>3, <3>2 DEF L!StopPlaying, L!PlayingHeard, L!TypeOK
    <3> QED BY <1>8, <3>1, <3>2 DEF L!Answered
  <2>3. sounds_shown' = sounds_shown /\ (sounds_busy' = sounds_busy
                                         \/ sounds_busy' = L!Freed(j.op))
    BY <1>8 DEF L!Answered
  <2> QED BY <1>1, <1>2, <1>7, <2>1, <2>2, <2>3 DEF L!TypeOK, L!choice
<1>9. CASE L!Listing(j)
  <2>1. sounds_jobs' = (sounds_jobs \ {j}) \cup {[j EXCEPT !.at = "listed",
                                                  !.got = [sounds |-> sounds_library,
                                                           active |-> sounds_active]]}
    BY <1>9 DEF L!Listing, L!Moved
  <2>2. sounds_jobs' \subseteq L!Job /\ Named'
    <3>1. [j EXCEPT !.at = "listed", !.got = [sounds |-> sounds_library,
                                              active |-> sounds_active]].op = j.op
          /\ [j EXCEPT !.at = "listed", !.got = [sounds |-> sounds_library,
                                                 active |-> sounds_active]].name = j.name
      BY <1>3 DEF L!Job
    <3> QED BY <1>5, <1>6, <2>1, <3>1 DEF L!TypeOK, Named
  <2>3. UNCHANGED <<sounds_shown, sounds_busy, sounds_playing, sounds_audio>>
    BY <1>9 DEF L!Listing, L!player
  <2> QED BY <1>1, <1>7, <2>2, <2>3 DEF L!TypeOK, L!PlayingHeard, L!choice
<1>10. CASE L!Listed(j) \/ L!Fails(j)
  <2>1. sounds_jobs' \subseteq sounds_jobs /\ sounds_busy' = L!Freed(j.op)
        /\ UNCHANGED <<sounds_playing, sounds_audio>>
    BY <1>10 DEF L!Listed, L!Fails, L!player
  <2>2. sounds_shown' \in [list : L!List, loading : BOOLEAN]
    <3>1. CASE L!Listed(j)
      BY <1>6, <3>1 DEF L!Listed
    <3>2. CASE L!Fails(j)
      BY <3>2 DEF L!Fails, L!TypeOK
    <3> QED BY <1>10, <3>1, <3>2
  <2> QED BY <1>1, <1>2, <1>7, <2>1, <2>2 DEF L!TypeOK, Named, L!PlayingHeard, L!choice
<1> QED BY <1>8, <1>9, <1>10

\* What is converted or waits in the form was not sent yet; sending empties the form.
LEMMA UploadsKeep ==
  ASSUME L!ChimeLibraryAssumption, SoundsInv,
         \/ L!CancelPending \/ L!HandleUploadConfirm
         \/ \E n \in sounds_Names : L!Converted(n)
              \/ (sounds_uploads[n] = 0 /\ L!HandleFileSelected(n))
  PROVE  SoundsInv'
<1> USE DEF SoundsInv
<1>1. UNCHANGED <<sounds_library, sounds_active, sounds_shown, sounds_confirming, L!player>>
  BY DEF L!CancelPending, L!HandleUploadConfirm, L!Converted, L!HandleFileSelected
<1>2. L!PlayingHeard'
  BY <1>1 DEF L!PlayingHeard, L!player
<1>3. NoValue \in L!NameOrNone /\ sounds_Names \subseteq L!NameOrNone
  BY DEF L!NameOrNone
<1>4. CASE L!CancelPending
  BY <1>1, <1>2, <1>3, <1>4 DEF L!CancelPending, L!TypeOK, Named, Chosen, L!SentOnce, L!player
<1>5. CASE L!HandleUploadConfirm
  <2>1. sounds_pending \in sounds_Names /\ sounds_uploads[sounds_pending] = 0
        /\ sounds_pending \notin sounds_converting
    BY <1>5 DEF L!HandleUploadConfirm, L!TypeOK, L!NameOrNone, Chosen
  <2>2. sounds_jobs' \subseteq L!Job /\ sounds_acts' \in 0 .. sounds_MaxActs /\ Named'
    BY <1>3, <1>5, <2>1, SoundsAsksTypes DEF L!HandleUploadConfirm
  <2>3. sounds_uploads' = [sounds_uploads EXCEPT ![sounds_pending] = 1]
        /\ sounds_pending' = NoValue /\ UNCHANGED sounds_converting
    BY <1>5, <2>1 DEF L!HandleUploadConfirm, L!TakePending
  <2>4. sounds_uploads' \in [sounds_Names -> 0 .. 2] /\ Chosen' /\ L!SentOnce'
    BY <2>1, <2>3 DEF L!TypeOK, Chosen, L!SentOnce
  <2>5. sounds_busy' = [sounds_busy EXCEPT !.uploading = TRUE]
    BY <1>5 DEF L!HandleUploadConfirm
  <2> QED BY <1>1, <1>2, <1>3, <2>2, <2>3, <2>4, <2>5 DEF L!TypeOK, L!player
<1>6. ASSUME NEW n \in sounds_Names, L!Converted(n) PROVE SoundsInv'
  <2>1. Chosen'
    BY <1>6 DEF L!Converted, Chosen, L!TypeOK
  <2>2. sounds_converting' \subseteq sounds_Names /\ sounds_pending' \in L!NameOrNone
    BY <1>3, <1>6 DEF L!Converted, L!TypeOK
  <2> QED BY <1>1, <1>2, <1>6, <2>1, <2>2 DEF L!Converted, L!TypeOK, Named, L!SentOnce, L!player
<1>7. ASSUME NEW n \in sounds_Names, sounds_uploads[n] = 0, L!HandleFileSelected(n)
             PROVE SoundsInv'
  <2>1. Chosen' /\ sounds_converting' \subseteq sounds_Names
        /\ sounds_acts' \in 0 .. sounds_MaxActs
    BY <1>7, SoundsActsTypes DEF L!HandleFileSelected, Chosen, L!TypeOK
  <2> QED BY <1>1, <1>2, <1>7, <2>1 DEF L!HandleFileSelected, L!TypeOK, Named, L!SentOnce,
         L!player
<1> QED BY <1>4, <1>5, <1>6, <1>7

LEMMA SoundsNext == L!ChimeLibraryAssumption /\ SoundsInv /\ [L!Next]_(L!vars) => SoundsInv'
<1> SUFFICES ASSUME L!ChimeLibraryAssumption, SoundsInv, [L!Next]_(L!vars) PROVE SoundsInv'
  OBVIOUS
<1>1. CASE L!Next
  BY <1>1, PlayerKeeps, SoundsButtonsKeep, ServeKeeps, SoundsAnswerKeeps, UploadsKeep DEF L!Next
<1>2. CASE UNCHANGED L!vars
  BY <1>2 DEF L!vars, L!player, L!choice, SoundsInv, L!TypeOK, Named, L!PlayingHeard, Chosen,
     L!SentOnce
<1> QED BY <1>1, <1>2

\* The part keeps to its own specification.
LEMMA SoundsSpec == Spec => L!Spec
<1>1. Init => L!Init
  BY DEF Init
<1>2. [Next]_vars => [L!Next]_(L!vars)
  BY DEF Next, vars, Alone, soundsVars, L!vars
<1> QED BY <1>1, <1>2, PTL DEF Spec, L!Spec

\* The row that offers a pause is that of the sound the page plays, and a chosen file is sent
\* at most once, however play promises, conversions and answers interleave (LockChime.tsx).
THEOREM SoundsAgree == Spec => []SoundsShown
<1>1. L!ChimeLibraryAssumption
  BY WebAssumption DEF WebAssumption
<1>2. SoundsInv => SoundsShown
  BY DEF SoundsInv, SoundsShown
<1> QED BY <1>1, <1>2, SoundsInit, SoundsNext, SoundsSpec, PTL DEF L!Spec

\* The types of the part
LEMMA SoundsKeepsTypes == Spec => []L!TypeOK
<1>1. L!ChimeLibraryAssumption
  BY WebAssumption DEF WebAssumption
<1>2. SoundsInv => L!TypeOK
  BY DEF SoundsInv
<1> QED BY <1>1, <1>2, SoundsInit, SoundsNext, SoundsSpec, PTL DEF L!Spec

-----------------------------------------------------------------------------
(*****************************************************************************)
(* The random mode (ChimeRandom)                                             *)
(*****************************************************************************)

(* Between the disclaimer and the store: the card shows what the server has, unless an  *)
(* answer is on its way, and neither what it shows nor what it has sent would turn on   *)
(* what the user has not agreed to.                                                     *)
Same(a, b) == <<a.enabled, a.mode, a.interval>> = <<b.enabled, b.mode, b.interval>>
Agreed(c) == c.enabled => random_agreed # {} /\ (R!Timed(c) => c.mode \in random_agreed)
Answers == random_saving.at = "ok" => Same(random_saving.new, random_stored)
  /\ Agreed(random_saving.new)
Sends == random_saving.at = "sent" => Agreed(random_saving.new)
OnlyFree == random_modal.shown \/ random_loaded = "loading" => random_saving.at = "none"
NotYet == random_loaded = "loading" => random_cfg = R!Default /\ ~random_modal.shown
RandomInv ==
  /\ R!TypeOK /\ OnlyFree /\ NotYet
  /\ ~random_lost => Agreed(random_stored) /\ (random_saving.at # "ok" => Agreed(random_cfg))
       /\ Answers /\ Sends
  /\ R!ShowsMode

\* The settings there are at first, at the server and on the card
Earlier == [enabled |-> TRUE, mode |-> "scheduled", interval |-> "daily", hour |-> 0]

LEMMA FirstSettings ==
  ASSUME R!ChimeRandomAssumption
  PROVE  R!Default \in R!Settings /\ R!NoConfig \in R!Settings /\ Earlier \in R!Settings
  BY DEF R!ChimeRandomAssumption, R!Default, R!NoConfig, Earlier, R!Settings, R!Timed, R!Modes, R!Intervals

LEMMA RandomInit == R!ChimeRandomAssumption /\ R!Init => RandomInv
<1> SUFFICES ASSUME R!ChimeRandomAssumption, R!Init PROVE RandomInv
  OBVIOUS
<1>1. 0 \in 0 .. random_MaxActs
  BY DEF R!ChimeRandomAssumption
<1>2. \/ random_stored = R!NoConfig /\ random_agreed = {}
      \/ random_stored = Earlier /\ random_agreed = {"scheduled"}
  BY DEF R!Init, Earlier
<1>3. R!TypeOK
  BY <1>1, <1>2, FirstSettings DEF R!Init, R!TypeOK, R!NoSave, R!Stages, R!Modes
<1>4. OnlyFree /\ NotYet /\ R!ShowsMode /\ Answers /\ Sends
  BY DEF R!Init, OnlyFree, NotYet, R!ShowsMode, Answers, Sends, R!NoSave
<1>5. Agreed(random_stored) /\ Agreed(random_cfg)
  BY <1>2 DEF R!Init, Agreed, R!NoConfig, R!Default, Earlier
<1> QED BY <1>3, <1>4, <1>5 DEF RandomInv

LEMMA RandomActsTypes ==
  ASSUME R!ChimeRandomAssumption, R!TypeOK, R!Acts
  PROVE  random_acts' \in 0 .. random_MaxActs
  BY DEF R!ChimeRandomAssumption, R!TypeOK, R!Acts

\* What the buttons of the card may send: settings of a mode that was agreed to.
LEMMA SaveKeeps ==
  ASSUME R!ChimeRandomAssumption, RandomInv, NEW new \in R!Settings, R!Save(new), R!Acts,
         R!SettingsShown \/ R!CardShown,
         ~random_modal.shown, random_saving.at = "none", ~random_lost => Agreed(new),
         UNCHANGED <<random_stored, random_hw, random_cfg, random_loaded, random_modal,
                     random_enough, random_agreed, random_lost>>, random_expanded' \in BOOLEAN
  PROVE  RandomInv'
<1> USE DEF RandomInv
<1>1. random_saving' = [at |-> "sent", new |-> new]
  BY DEF R!Save
<1>2. R!TypeOK'
  BY <1>1, RandomActsTypes DEF R!TypeOK, R!Stages
<1>3. random_loaded # "loading"
  BY DEF R!SettingsShown, R!CardShown
<1>4. OnlyFree' /\ NotYet' /\ R!ShowsMode'
  BY <1>1, <1>3 DEF OnlyFree, NotYet, R!ShowsMode
<1>5. ~random_lost' => (Agreed(random_stored)
                        /\ (random_saving.at # "ok" => Agreed(random_cfg)) /\ Answers /\ Sends)'
  BY <1>1 DEF Agreed, Answers, Sends
<1> QED BY <1>2, <1>4, <1>5

\* These choices keep a mode that was agreed to, or take the one that needs no clock.
LEMMA RandomButtonsKeep ==
  ASSUME R!ChimeRandomAssumption, RandomInv, R!OnConnect \/ R!SetInterval \/ R!SetHour
  PROVE  RandomInv'
<1> USE DEF RandomInv
<1>1. random_cfg \in R!Settings /\ random_saving.at = "none"
      /\ (~random_lost => Agreed(random_cfg)) /\ random_expanded' \in BOOLEAN
  BY DEF R!TypeOK, R!OnConnect, R!SetInterval, R!SetHour, R!Free
<1>2. CASE R!OnConnect
  <2>1. [random_cfg EXCEPT !.mode = "on_connect"] \in R!Settings
        /\ (~random_lost => Agreed([random_cfg EXCEPT !.mode = "on_connect"]))
    BY <1>1 DEF R!Settings, R!Timed, R!Modes, Agreed
  <2> QED BY <1>1, <1>2, <2>1, SaveKeeps DEF R!OnConnect
<1>3. CASE R!SetInterval
  <2>1. PICK i \in R!Intervals \ {"none"} : R!Save([random_cfg EXCEPT !.interval = i])
    BY <1>3 DEF R!SetInterval
  <2>2. [random_cfg EXCEPT !.interval = i] \in R!Settings
        /\ (~random_lost => Agreed([random_cfg EXCEPT !.interval = i]))
    BY <1>1 DEF R!Settings, R!Timed, R!Modes, Agreed
  <2> QED BY <1>1, <1>3, <2>1, <2>2, SaveKeeps DEF R!SetInterval, R!ScheduleShown
<1>4. CASE R!SetHour
  <2>1. PICK h \in random_Hours : R!Save([random_cfg EXCEPT !.hour = h])
    BY <1>4 DEF R!SetHour
  <2>2. [random_cfg EXCEPT !.hour = h] \in R!Settings
        /\ (~random_lost => Agreed([random_cfg EXCEPT !.hour = h]))
    BY <1>1 DEF R!Settings, R!Timed, R!Modes, Agreed
  <2> QED BY <1>1, <1>4, <2>1, <2>2, SaveKeeps DEF R!SetHour, R!ScheduleShown
<1> QED BY <1>2, <1>3, <1>4

\* The disclaimer comes up while nothing is saved.
LEMMA ModalKeeps ==
  ASSUME R!ChimeRandomAssumption, RandomInv, NEW new \in R!Settings, R!Acts, R!CardShown,
         random_saving.at = "none",
         random_modal' = [shown |-> TRUE, asked |-> TRUE, new |-> new],
         UNCHANGED <<random_stored, random_hw, random_cfg, random_loaded, random_saving,
                     random_expanded, random_enough, random_agreed, random_lost>>
  PROVE  RandomInv'
  BY RandomActsTypes DEF RandomInv, R!TypeOK, OnlyFree, NotYet, R!CardShown, Agreed, Answers,
     Sends, R!ShowsMode

\* Switching on, and a timed mode, show the disclaimer first; switching off is saved.
LEMMA SwitchKeeps ==
  ASSUME R!ChimeRandomAssumption, RandomInv, R!Toggle
         \/ \E m \in {"scheduled", "smart"} : R!TimedMode(m)
  PROVE  RandomInv'
<1> USE DEF RandomInv
<1>1. random_cfg \in R!Settings
  BY DEF R!TypeOK
<1>2. CASE R!Toggle /\ random_cfg.enabled
  <2>1. [random_cfg EXCEPT !.enabled = FALSE] \in R!Settings
        /\ Agreed([random_cfg EXCEPT !.enabled = FALSE])
    BY <1>1 DEF R!Settings, R!Timed, Agreed
  <2> QED BY <1>2, <2>1, SaveKeeps DEF R!Toggle, R!Free
<1>3. CASE R!Toggle /\ ~random_cfg.enabled
  <2>1. [random_cfg EXCEPT !.enabled = TRUE] \in R!Settings
    BY <1>1 DEF R!Settings, R!Timed
  <2> QED BY <1>3, <2>1, ModalKeeps DEF R!Toggle, R!AskFirst, R!Free
<1>4. ASSUME NEW m \in {"scheduled", "smart"}, R!TimedMode(m) PROVE RandomInv'
  <2>1. [random_cfg EXCEPT !.mode = m, !.interval = R!OrDaily(random_cfg.interval)] \in R!Settings
    BY <1>1 DEF R!Settings, R!Timed, R!Modes, R!Intervals, R!OrDaily
  <2> QED BY <1>4, <2>1, ModalKeeps DEF R!TimedMode, R!SettingsShown, R!Free
<1> QED BY <1>2, <1>3, <1>4

\* Confirming the disclaimer agrees to the mode it was shown for.
LEMMA ConfirmKeeps ==
  ASSUME R!ChimeRandomAssumption, RandomInv, R!Confirm
  PROVE  RandomInv'
<1> USE DEF RandomInv
<1>1. random_saving.at = "none" /\ random_loaded # "loading"
  BY DEF R!Confirm, OnlyFree, NotYet
<1>2. random_saving' = [at |-> "sent", new |-> random_modal.new]
      /\ random_modal' = [random_modal EXCEPT !.shown = FALSE, !.asked = FALSE]
      /\ random_agreed' = random_agreed \cup {random_modal.new.mode}
           /\ random_modal.new \in R!Settings /\ random_modal.new.mode \in R!Modes
  BY DEF R!Confirm, R!Save, R!TypeOK, R!Settings
<1>3. R!TypeOK'
  BY <1>2, RandomActsTypes DEF R!Confirm, R!TypeOK, R!Stages
<1>4. OnlyFree' /\ NotYet' /\ R!ShowsMode'
  BY <1>1, <1>2 DEF R!Confirm, OnlyFree, NotYet, R!ShowsMode, R!TypeOK
<1>5. ~random_lost' => (Agreed(random_stored)
                        /\ (random_saving.at # "ok" => Agreed(random_cfg)) /\ Answers /\ Sends)'
  BY <1>1, <1>2 DEF R!Confirm, Agreed, Answers, Sends
<1> QED BY <1>3, <1>4, <1>5

\* What is stored was agreed to when it was sent.
LEMMA ServerKeeps ==
  ASSUME R!ChimeRandomAssumption, RandomInv, R!ServeSave
  PROVE  RandomInv'
<1> USE DEF RandomInv
<1>1. random_saving.at = "sent" /\ random_saving.new \in R!Settings /\ ~random_modal.shown
      /\ random_loaded # "loading"
  BY DEF R!ServeSave, R!TypeOK, OnlyFree
<1>2. CASE R!Refused(random_saving.new)
  BY <1>1, <1>2 DEF R!ServeSave, R!TypeOK, R!Stages, OnlyFree, NotYet, Agreed, Answers, Sends,
     R!ShowsMode
<1>3. CASE ~R!Refused(random_saving.new)
  <2>1. random_stored' = R!Kept(random_saving.new)
        /\ random_saving' = [random_saving EXCEPT !.at = "ok"]
        /\ random_agreed' = (IF random_saving.new.enabled THEN random_agreed ELSE {})
        /\ UNCHANGED <<random_hw, random_cfg, random_loaded, random_modal, random_expanded,
                       random_enough, random_lost, random_acts>>
    BY <1>3 DEF R!ServeSave
  <2>2. R!TypeOK'
    <3>1. R!Kept(random_saving.new) \in R!Settings
      BY <1>1 DEF R!Kept, R!OrDaily, R!Settings, R!Timed, R!Intervals, R!ChimeRandomAssumption
    <3> QED BY <1>1, <2>1, <3>1 DEF R!TypeOK, R!Stages
  <2>3. random_saving'.at = "ok" /\ random_saving'.new = random_saving.new
    BY <2>1 DEF R!TypeOK
  <2>4. OnlyFree' /\ NotYet' /\ R!ShowsMode'
    BY <1>1, <2>1, <2>3 DEF OnlyFree, NotYet, R!ShowsMode
  <2>5. ~random_lost' => (Agreed(random_stored) /\ Answers /\ Sends)'
    <3>1. Same(random_saving'.new, random_stored')
      BY <1>1, <2>1, <2>3 DEF Same, R!Settings, R!Timed, R!Kept, R!OrDaily
    <3>2. ~random_lost => Agreed(random_saving.new)
      BY <1>1 DEF Sends
    <3>3. ~random_lost => Agreed(random_saving.new)' /\ Agreed(random_stored)'
      BY <1>1, <2>1, <2>3, <3>1, <3>2 DEF Agreed, Same, R!Timed
    <3> QED BY <2>1, <2>3, <3>1, <3>3 DEF Answers, Sends
  <2> QED BY <2>2, <2>3, <2>4, <2>5
<1> QED BY <1>2, <1>3

\* The card takes over what was stored; a refusal leaves it as it was.
LEMMA RandomAnswerKeeps ==
  ASSUME R!ChimeRandomAssumption, RandomInv, R!Saved \/ R!SaveFails
  PROVE  RandomInv'
<1> USE DEF RandomInv
<1>1. random_saving' = R!NoSave /\ R!NoSave \in [at : R!Stages, new : R!Settings]
      /\ R!NoSave.at = "none"
  BY FirstSettings DEF R!Saved, R!SaveFails, R!NoSave, R!Stages
<1>2. ~random_modal.shown /\ random_loaded # "loading"
  BY DEF OnlyFree, R!Saved, R!SaveFails
<1>3. CASE R!Saved /\ random_saving.at = "ok"
  <2>1. random_cfg' = random_saving.new /\ UNCHANGED <<random_stored, random_hw, random_loaded,
                                                       random_modal, random_expanded,
                                                         random_enough, random_agreed,
                                                           random_lost, random_acts>>
    BY <1>3 DEF R!Saved, R!Merged
  <2>2. R!TypeOK'
    BY <1>1, <2>1 DEF R!TypeOK
  <2>3. OnlyFree' /\ NotYet'
    BY <1>1, <1>2, <2>1 DEF OnlyFree, NotYet
  <2>4. ~random_lost => Same(random_cfg', random_stored') /\ Agreed(random_cfg)'
        /\ Agreed(random_stored)'
    BY <1>3, <2>1 DEF Answers, Agreed, Same
  <2> QED BY <1>1, <2>1, <2>2, <2>3, <2>4 DEF R!ShowsMode, Same, Answers, Sends
<1>4. CASE (R!Saved /\ random_saving.at # "ok") \/ R!SaveFails
  <2>1. UNCHANGED <<random_cfg, random_stored, random_hw, random_loaded, random_modal,
                    random_expanded, random_enough, random_agreed, random_acts>>
        /\ ((random_lost' = random_lost /\ random_saving.at # "ok") \/ random_lost')
             /\ random_lost' \in BOOLEAN
    BY <1>4 DEF R!Saved, R!SaveFails, R!Merged, R!TypeOK
  <2>2. R!TypeOK'
    BY <1>1, <2>1 DEF R!TypeOK
  <2>3. OnlyFree' /\ NotYet'
    BY <1>1, <1>2, <2>1 DEF OnlyFree, NotYet
  <2>4. ~random_lost' => Agreed(random_cfg)' /\ Agreed(random_stored)' /\ R!ShowsMode'
    BY <2>1 DEF Agreed, R!ShowsMode
  <2> QED BY <1>1, <2>2, <2>3, <2>4 DEF R!ShowsMode, Answers, Sends
<1> QED BY <1>3, <1>4

\* The card loads what is stored; the rest changes no settings.
LEMMA RestKeeps ==
  ASSUME R!ChimeRandomAssumption, RandomInv, R!Load \/ R!Expand \/ R!Dismiss \/ R!SoundsChange
  PROVE  RandomInv'
<1> USE DEF RandomInv
<1>1. CASE R!Load
  <2>1. R!TypeOK'
    BY <1>1 DEF R!Load, R!TypeOK
  <2>2. OnlyFree' /\ NotYet' /\ random_saving.at = "none"
    BY <1>1 DEF R!Load, OnlyFree, NotYet
  <2>3. R!ShowsMode' /\ (~random_lost => Agreed(random_cfg)' /\ Agreed(random_stored)'
                         /\ Answers' /\ Sends')
    BY <1>1, <2>2 DEF R!Load, R!ShowsMode, Agreed, Answers, Sends, NotYet, R!Default
  <2> QED BY <1>1, <2>1, <2>2, <2>3 DEF R!Load
<1>2. CASE R!Expand \/ R!SoundsChange
  <2>1. /\ random_expanded' \in BOOLEAN /\ random_enough' \in BOOLEAN
             /\ random_acts' \in 0 .. random_MaxActs
        /\ UNCHANGED <<random_stored, random_hw, random_cfg, random_loaded, random_saving,
                       random_modal, random_agreed, random_lost>>
    BY <1>2, RandomActsTypes DEF R!Expand, R!SoundsChange, R!TypeOK
  <2>2. R!TypeOK'
    BY <2>1 DEF R!TypeOK
  <2> QED
    BY <2>1, <2>2 DEF OnlyFree, NotYet, Agreed, Answers, Sends, R!ShowsMode
<1>3. CASE R!Dismiss
  <2>1. random_modal' \in [shown : {FALSE}, asked : BOOLEAN, new : R!Settings]
    BY <1>3 DEF R!Dismiss, R!TypeOK
  <2> QED BY <1>3, <2>1 DEF R!Dismiss, R!TypeOK, OnlyFree, NotYet, Agreed, Answers, Sends,
         R!ShowsMode
<1> QED BY <1>1, <1>2, <1>3

LEMMA RandomNext == R!ChimeRandomAssumption /\ RandomInv /\ [R!Next]_(R!vars) => RandomInv'
<1> SUFFICES ASSUME R!ChimeRandomAssumption, RandomInv, [R!Next]_(R!vars) PROVE RandomInv'
  OBVIOUS
<1>1. CASE R!Next
  BY <1>1, RandomButtonsKeep, SwitchKeeps, ConfirmKeeps, ServerKeeps, RandomAnswerKeeps,
     RestKeeps DEF R!Next
<1>2. CASE UNCHANGED R!vars
  BY <1>2 DEF R!vars, RandomInv, R!TypeOK, OnlyFree, NotYet, Agreed, Answers, Sends, R!ShowsMode
<1> QED BY <1>1, <1>2

\* What the run checks follows.
LEMMA RandomAgreed == RandomInv => R!ShowsMode /\ R!AgreedFirst
  BY DEF RandomInv, R!AgreedFirst, Agreed

\* The part keeps to its own specification.
LEMMA RandomSpec == Spec => R!Spec
<1>1. Init => R!Init
  BY DEF Init
<1>2. [Next]_vars => [R!Next]_(R!vars)
  BY DEF Next, vars, Alone, randomVars, R!vars
<1> QED BY <1>1, <1>2, PTL DEF Spec, R!Spec

\* As long as no request was lost, the card of the random mode shows the mode the server is
\* in, and the server is in a mode only after its disclaimer was agreed to, however the answers
\* of the configuration and the saves interleave with the buttons (LockChime.tsx).
THEOREM ModeAgreed == Spec => []RandomMode
<1>1. R!ChimeRandomAssumption
  BY WebAssumption DEF WebAssumption
<1>2. RandomInv => RandomMode
  BY RandomAgreed DEF RandomMode
<1> QED BY <1>1, <1>2, RandomInit, RandomNext, RandomSpec, PTL DEF R!Spec

\* The types of the part
LEMMA RandomKeepsTypes == Spec => []R!TypeOK
<1>1. R!ChimeRandomAssumption
  BY WebAssumption DEF WebAssumption
<1>2. RandomInv => R!TypeOK
  BY DEF RandomInv
<1> QED BY <1>1, <1>2, RandomInit, RandomNext, RandomSpec, PTL DEF R!Spec

-----------------------------------------------------------------------------
(*****************************************************************************)
(* The community lock sounds (ChimeCommunity, PagedLibrary)                  *)
(*****************************************************************************)

LEMMA CommunityLibTypeInit == Y!PagedLibraryAssumption /\ Y!LibInit => Y!LibTypeOK
<1> SUFFICES ASSUME Y!PagedLibraryAssumption, Y!LibInit PROVE Y!LibTypeOK
  OBVIOUS
<1>1. 0 \in 0 .. community_MaxFetches /\ 0 \in 0 .. community_Pages /\ 1 \in 1 .. community_Pages
  BY DEF Y!PagedLibraryAssumption
<1>2. community_query \in Y!Query /\ community_due = community_query
  BY <1>1 DEF Y!PagedLibraryAssumption, Y!LibInit, Y!Query
<1> QED BY <1>1, <1>2 DEF Y!LibInit, Y!LibTypeOK

LEMMA CommunitySendTypes ==
  ASSUME Y!PagedLibraryAssumption, Y!LibTypeOK, NEW q \in Y!Query, Y!Send(q),
         community_due' \in Y!Query \cup {NoValue}
  PROVE  Y!LibTypeOK'
<1>1. community_sent \in 0 .. community_MaxFetches /\ community_sent < community_MaxFetches
      /\ community_MaxFetches \in Nat
  BY DEF Y!PagedLibraryAssumption, Y!LibTypeOK, Y!Send
<1>2. community_sent + 1 \in 1 .. community_MaxFetches
      /\ community_sent' \in 0 .. community_MaxFetches
  BY <1>1 DEF Y!Send
<1>3. community_fetches' \subseteq [n : 1 .. community_MaxFetches, of : Y!Query]
  BY <1>2 DEF Y!LibTypeOK, Y!Send
<1> QED BY <1>2, <1>3 DEF Y!LibTypeOK, Y!Send

LEMMA CommunityTimerTypes ==
  ASSUME Y!PagedLibraryAssumption, Y!LibTypeOK, Y!Timer
  PROVE  Y!LibTypeOK'
<1>1. community_due \in Y!Query /\ Y!Send(community_due) /\ community_due' = NoValue
  BY DEF Y!LibTypeOK, Y!Timer
<1> QED BY <1>1, CommunitySendTypes

LEMMA CommunityAsksTypes ==
  ASSUME Y!LibTypeOK, NEW q \in Y!Query, Y!Asks(q)
  PROVE  Y!LibTypeOK'
  BY DEF Y!LibTypeOK, Y!Asks, Y!Restarts

LEMMA CommunityDisplaysTypes ==
  ASSUME Y!LibTypeOK, NEW f \in community_fetches, NEW s \in Y!Query \cup {NoValue},
         NEW t \in 0 .. community_Pages,
         Y!Displays(f, s, t), UNCHANGED <<community_query, community_due, community_sent>>,
           community_error' \in BOOLEAN
  PROVE  Y!LibTypeOK'
<1>1. f \in [n : 1 .. community_MaxFetches, of : Y!Query]
  BY DEF Y!LibTypeOK
<1>2. community_last' \in 0 .. community_MaxFetches
  BY <1>1 DEF Y!Displays
<1>3. community_crossed' \in BOOLEAN
  BY DEF Y!Displays
<1> QED BY <1>2, <1>3 DEF Y!LibTypeOK, Y!Displays

LEMMA CommunityAnswerTypes ==
  ASSUME Y!LibTypeOK, NEW f \in community_fetches, Y!Answer(f)
         \/ \E s \in Y!Query \cup {NoValue} : Y!Failure(f, s)
  PROVE  Y!LibTypeOK'
<1>1. CASE Y!Answer(f)
  <2>1. f.of \in Y!Query
    BY DEF Y!LibTypeOK
  <2>2. PICK t \in 0 .. community_Pages : Y!Displays(f, f.of, t)
    BY <1>1 DEF Y!Answer
  <2> QED BY <1>1, <2>1, <2>2, CommunityDisplaysTypes DEF Y!Answer, Y!LibTypeOK
<1>2. ASSUME NEW s \in Y!Query \cup {NoValue}, Y!Failure(f, s) PROVE Y!LibTypeOK'
  <2>1. community_total \in 0 .. community_Pages
    BY DEF Y!LibTypeOK
  <2> QED BY <1>2, <2>1, CommunityDisplaysTypes DEF Y!Failure
<1> QED BY <1>1, <1>2

(* A timer is about to send what the controls say.  Without one, the request sent last  *)
(* asks what they say, and is either under way or on display, unless an answer to an    *)
(* earlier one has come after it.                                                       *)
DueIsQuery == community_due \in {NoValue, community_query}
SentBefore == \A f \in community_fetches : f.n <= community_sent
LastAsked == \A f \in community_fetches : f.n = community_sent => f.of = community_query
LastShown == community_crossed \/ (community_last = community_sent
                                   /\ (community_error \/ community_shown = community_query))
LastWins == community_due = NoValue /\ ~community_edited
  => LastAsked /\ (LastShown \/ \E f \in community_fetches : f.n = community_sent)
PageInv == Y!TypeOK /\ DueIsQuery /\ SentBefore /\ LastWins

LEMMA PageInit == Y!ChimeCommunityAssumption /\ Y!PagedLibraryAssumption /\ Y!Init => PageInv
<1> SUFFICES ASSUME Y!ChimeCommunityAssumption, Y!PagedLibraryAssumption, Y!Init PROVE PageInv
  OBVIOUS
<1>1. 0 \in 0 .. community_MaxActs /\ Y!LibTypeOK
  BY CommunityLibTypeInit DEF Y!Init, Y!ChimeCommunityAssumption
<1>2. Y!TypeOK
  BY <1>1 DEF Y!Init, Y!TypeOK
<1>3. community_due = community_query /\ community_query # NoValue /\ community_fetches = {}
  BY <1>1 DEF Y!Init, Y!LibInit, Y!LibTypeOK, Y!PagedLibraryAssumption, Y!Query
<1> QED BY <1>2, <1>3 DEF PageInv, DueIsQuery, SentBefore, LastWins

LEMMA CommunityActsTypes ==
  ASSUME Y!ChimeCommunityAssumption, Y!TypeOK, Y!Acts
  PROVE  community_acts' \in 0 .. community_MaxActs
  BY DEF Y!ChimeCommunityAssumption, Y!TypeOK, Y!Acts

\* What the controls say changes: a timer starts over.
LEMMA AsksKeeps ==
  ASSUME Y!ChimeCommunityAssumption, Y!PagedLibraryAssumption, PageInv, NEW q \in Y!Query,
         Y!Asks(q), Y!Acts,
         UNCHANGED <<Y!player, Y!rest>>
  PROVE  PageInv'
<1> USE DEF PageInv
<1>1. Y!LibTypeOK' /\ community_acts' \in 0 .. community_MaxActs
  BY CommunityAsksTypes, CommunityActsTypes DEF Y!TypeOK
<1>2. Y!TypeOK'
  BY <1>1 DEF Y!TypeOK, Y!player, Y!rest
<1>3. community_due' = community_query' /\ community_due' # NoValue
      /\ UNCHANGED <<community_sent, community_fetches>>
  BY DEF Y!Asks, Y!Restarts, Y!Query, Y!PagedLibraryAssumption
<1> QED BY <1>2, <1>3 DEF DueIsQuery, SentBefore, LastWins

\* A request is sent: of what the controls say, or after a change on an earlier page.
LEMMA SendKeeps ==
  ASSUME Y!PagedLibraryAssumption, PageInv, NEW q \in Y!Query, Y!Send(q),
         community_due' \in {NoValue, community_due},
         community_edited' \/ q = community_query, community_edited => community_edited'
  PROVE  (DueIsQuery /\ SentBefore /\ LastWins)'
<1> USE DEF PageInv
<1>1. community_sent \in Nat /\ community_sent' = community_sent + 1
      /\ community_fetches' = community_fetches \cup {[n |-> community_sent + 1, of |-> q]}
      /\ community_query' = community_query
  BY DEF Y!Send, Y!TypeOK, Y!LibTypeOK
<1>2. \A f \in community_fetches : f.n \in Nat /\ f.n <= community_sent
  BY DEF Y!TypeOK, Y!LibTypeOK, SentBefore
<1>3. DueIsQuery'
  BY <1>1 DEF DueIsQuery
<1>4. SentBefore'
  BY <1>1, <1>2 DEF SentBefore
<1>5. LastWins'
  <2>1. ~community_edited' => LastAsked'
    BY <1>1, <1>2 DEF LastAsked
  <2>2. [n |-> community_sent + 1, of |-> q] \in community_fetches'
        /\ [n |-> community_sent + 1, of |-> q].n = community_sent'
    BY <1>1
  <2> QED BY <2>1, <2>2 DEF LastWins
<1> QED BY <1>3, <1>4, <1>5

\* The answer shown last is that of the request sent last, unless one was overtaken.
LEMMA CommunityAnswerKeeps ==
  ASSUME Y!ChimeCommunityAssumption, Y!PagedLibraryAssumption, PageInv,
         NEW f \in community_fetches, Y!FetchSounds(f)
  PROVE  PageInv'
<1> USE DEF PageInv
<1>1. Y!LibTypeOK'
  BY CommunityAnswerTypes DEF Y!FetchSounds, Y!TypeOK
<1>2. Y!TypeOK'
  BY <1>1 DEF Y!FetchSounds, Y!TypeOK, Y!player, Y!rest
<1>3. community_fetches' = community_fetches \ {f} /\ community_last' = f.n
      /\ community_crossed' = (community_crossed \/ f.n < community_last)
      /\ UNCHANGED <<community_query, community_due, community_sent, community_edited>>
  BY DEF Y!FetchSounds, Y!Answer, Y!Failure, Y!Displays, Y!rest
<1>4. (community_shown' = f.of /\ community_error' = community_error) \/ community_error'
  BY DEF Y!FetchSounds, Y!Answer, Y!Failure, Y!Displays
<1>5. DueIsQuery' /\ SentBefore'
  BY <1>3 DEF DueIsQuery, SentBefore
<1>6. LastWins'
  <2> SUFFICES ASSUME community_due = NoValue, ~community_edited PROVE LastAsked'
                      /\ (LastShown \/ \E g \in community_fetches : g.n = community_sent)'
    BY <1>3 DEF LastWins
  <2>1. LastAsked /\ (LastShown \/ \E g \in community_fetches : g.n = community_sent)
    BY DEF LastWins
  <2>2. LastAsked'
    BY <1>3, <2>1 DEF LastAsked
  <2>3. CASE f.n = community_sent
    <3>1. f.of = community_query
      BY <2>1, <2>3 DEF LastAsked
    <3> QED BY <1>3, <1>4, <2>2, <2>3, <3>1 DEF LastShown
  <2>4. CASE f.n # community_sent
    <3>1. f.n < community_sent
      BY <2>4 DEF SentBefore, Y!TypeOK, Y!LibTypeOK
    <3>2. CASE LastShown
      BY <1>3, <2>2, <3>1, <3>2 DEF LastShown
    <3>3. ASSUME NEW g \in community_fetches, g.n = community_sent
                 PROVE g \in community_fetches' /\ community_sent' = community_sent
      BY <1>3, <2>4, <3>3
    <3> QED BY <2>1, <2>2, <3>2, <3>3
  <2> QED BY <2>3, <2>4
<1> QED BY <1>2, <1>5, <1>6

\* Steps of the player, the downloads and the dialogs.
LEMMA CommunityOthersRest ==
  ASSUME PageInv, UNCHANGED Y!lib, UNCHANGED community_edited
  PROVE  Y!LibTypeOK' /\ (DueIsQuery /\ SentBefore /\ LastWins)'
  BY DEF Y!lib, PageInv, Y!TypeOK, Y!LibTypeOK, DueIsQuery, SentBefore, LastWins, LastAsked,
     LastShown

\* Playing and downloading sounds leave the query and the answers alone.
LEMMA CodesKeep ==
  ASSUME Y!ChimeCommunityAssumption, Y!PagedLibraryAssumption, PageInv, NEW c \in community_Codes,
         Y!TogglePreview(c) \/ Y!PreviewEnds(c) \/ Y!PreviewBegins(c) \/ Y!HandleDownload(c)
           \/ Y!Downloaded(c)
  PROVE  PageInv'
<1>1. UNCHANGED Y!lib /\ UNCHANGED community_edited
  BY DEF Y!TogglePreview, Y!PreviewEnds, Y!PreviewBegins, Y!HandleDownload, Y!Downloaded, Y!rest
<1>2. Y!LibTypeOK' /\ (DueIsQuery /\ SentBefore /\ LastWins)'
  BY <1>1, CommunityOthersRest
<1>3. Y!TypeOK
  BY DEF PageInv
<1>4. community_acts' \in 0 .. community_MaxActs
  BY <1>3, CommunityActsTypes DEF Y!TogglePreview, Y!PreviewEnds, Y!PreviewBegins,
     Y!HandleDownload, Y!Downloaded, Y!TypeOK
<1>5. community_edits' = community_edits /\ community_tab' = community_tab
  BY DEF Y!TogglePreview, Y!PreviewEnds, Y!PreviewBegins, Y!HandleDownload, Y!Downloaded, Y!rest
<1>6. community_playing' \in community_Codes \cup {NoValue}
      /\ community_promises' \subseteq community_Codes
  BY <1>3 DEF Y!TogglePreview, Y!PreviewEnds, Y!PreviewBegins, Y!HandleDownload, Y!Downloaded,
     Y!player, Y!TypeOK
<1>7. community_audio' \in [src : community_Codes \cup {NoValue}, on : BOOLEAN]
  <2>1. CASE Y!TogglePreview(c)
    <3>1. community_audio \in [src : community_Codes \cup {NoValue}, on : BOOLEAN]
      BY <1>3 DEF Y!TypeOK
    <3>2. CASE community_playing = c
      BY <2>1, <3>1, <3>2 DEF Y!TogglePreview
    <3>3. CASE community_playing # c
      <4>1. community_audio' = [src |-> c, on |-> TRUE]
        BY <2>1, <3>3 DEF Y!TogglePreview
      <4> QED BY <4>1
    <3> QED BY <3>2, <3>3
  <2>2. CASE Y!PreviewEnds(c)
    BY <1>3, <2>2 DEF Y!PreviewEnds, Y!TypeOK
  <2>3. CASE Y!PreviewBegins(c) \/ Y!HandleDownload(c) \/ Y!Downloaded(c)
    BY <1>3, <2>3 DEF Y!PreviewBegins, Y!HandleDownload, Y!Downloaded, Y!player, Y!TypeOK
  <2> QED BY <2>1, <2>2, <2>3
<1>8. community_downloading' \in community_Codes \cup {NoValue}
      /\ community_downloads' \subseteq community_Codes
  BY <1>3 DEF Y!TogglePreview, Y!PreviewEnds, Y!PreviewBegins, Y!HandleDownload, Y!Downloaded,
     Y!rest, Y!TypeOK
<1> QED BY <1>1, <1>2, <1>3, <1>4, <1>5, <1>6, <1>7, <1>8 DEF PageInv, Y!TypeOK

\* A change by an administrator fetches the page again, with the query of its render.
LEMMA CommunityAdminKeeps ==
  ASSUME Y!ChimeCommunityAssumption, Y!PagedLibraryAssumption, PageInv,
         Y!HandleAdmin \/ \E q \in community_edits : Y!AdminDone(q)
  PROVE  PageInv'
<1> USE DEF PageInv
<1>1. CASE Y!HandleAdmin
  <2>1. UNCHANGED Y!lib /\ UNCHANGED community_edited /\ community_query \in Y!Query
    BY <1>1 DEF Y!HandleAdmin, Y!TypeOK, Y!LibTypeOK
  <2>2. Y!LibTypeOK' /\ (DueIsQuery /\ SentBefore /\ LastWins)'
    BY <2>1, CommunityOthersRest
  <2> QED BY <1>1, <2>1, <2>2, CommunityActsTypes DEF Y!HandleAdmin, Y!TypeOK, Y!player
<1>2. ASSUME NEW q \in community_edits, Y!AdminDone(q) PROVE PageInv'
  <2>1. q \in Y!Query
    BY DEF Y!TypeOK
  <2>2. CASE UNCHANGED <<Y!lib, community_edited>>
    <3>1. Y!LibTypeOK' /\ (DueIsQuery /\ SentBefore /\ LastWins)'
      BY <2>2, CommunityOthersRest
    <3> QED BY <1>2, <2>2, <3>1 DEF Y!AdminDone, Y!TypeOK, Y!player
  <2>3. CASE Y!Send(q) /\ UNCHANGED community_due
             /\ community_edited' = (community_edited \/ q # community_query)
    <3>1. Y!LibTypeOK'
      BY <2>1, <2>3, CommunitySendTypes DEF Y!TypeOK, Y!LibTypeOK
    <3>2. (DueIsQuery /\ SentBefore /\ LastWins)'
      BY <2>1, <2>3, SendKeeps
    <3> QED BY <1>2, <2>3, <3>1, <3>2 DEF Y!AdminDone, Y!TypeOK, Y!player
  <2> QED BY <1>2, <2>2, <2>3 DEF Y!AdminDone
<1> QED BY <1>1, <1>2

\* Another tab and back: the page starts anew and asks for its first page.
LEMMA TabKeeps ==
  ASSUME Y!ChimeCommunityAssumption, Y!PagedLibraryAssumption, PageInv, Y!SwitchTab
  PROVE  PageInv'
<1> USE DEF PageInv
<1>1. Y!FirstPage(community_AnyFilter) \in Y!Query /\ Y!FirstPage(community_AnyFilter) # NoValue
  BY DEF Y!FirstPage, Y!Query, Y!PagedLibraryAssumption
<1>2. 0 \in 0 .. community_Pages /\ 0 \in 0 .. community_MaxFetches
  BY DEF Y!PagedLibraryAssumption
<1>3. Y!LibTypeOK'
  BY <1>1, <1>2 DEF Y!SwitchTab, Y!TypeOK, Y!LibTypeOK
<1>4. community_acts' \in 0 .. community_MaxActs
      /\ community_audio' \in [src : community_Codes \cup {NoValue}, on : BOOLEAN]
  BY CommunityActsTypes DEF Y!SwitchTab, Y!TypeOK
<1>5. Y!TypeOK'
  BY <1>3, <1>4 DEF Y!SwitchTab, Y!TypeOK
<1> QED BY <1>1, <1>5 DEF Y!SwitchTab, DueIsQuery, SentBefore, LastWins

LEMMA PageNext == Y!ChimeCommunityAssumption /\ Y!PagedLibraryAssumption /\ PageInv
  /\ [Y!Next]_(Y!vars) => PageInv'
<1> SUFFICES ASSUME Y!ChimeCommunityAssumption, Y!PagedLibraryAssumption, PageInv,
                    [Y!Next]_(Y!vars) PROVE PageInv'
  OBVIOUS
<1> USE DEF PageInv
<1>1. Y!LibTypeOK /\ community_query \in Y!Query
  BY DEF Y!TypeOK, Y!LibTypeOK
<1>2. ASSUME NEW f \in community_Filters, Y!SetFilter(f) PROVE PageInv'
  <2>1. Y!FirstPage(f) \in Y!Query
    BY DEF Y!FirstPage, Y!Query, Y!PagedLibraryAssumption
  <2> QED BY <1>2, <2>1, AsksKeeps DEF Y!SetFilter
<1>3. CASE Y!TurnPage
  <2>1. PICK p \in {community_query.page - 1,
                    community_query.page + 1} : p \in 1 .. community_total
                      /\ Y!Asks([community_query EXCEPT !.page = p])
    BY <1>3 DEF Y!TurnPage
  <2>2. community_total \in 0 .. community_Pages /\ community_Pages \in Nat
    BY <1>1 DEF Y!LibTypeOK, Y!PagedLibraryAssumption
  <2>3. [community_query EXCEPT !.page = p] \in Y!Query
    BY <1>1, <2>1, <2>2 DEF Y!Query
  <2> QED BY <1>3, <2>1, <2>3, AsksKeeps DEF Y!TurnPage
<1>4. CASE Y!FetchTimer
  <2>1. Y!LibTypeOK' /\ community_due \in Y!Query /\ Y!Send(community_due)
        /\ community_due' = NoValue /\ community_due = community_query
    BY <1>1, <1>4, CommunityTimerTypes DEF Y!FetchTimer, Y!Timer, Y!LibTypeOK, DueIsQuery
  <2>2. (DueIsQuery /\ SentBefore /\ LastWins)'
    BY <1>4, <2>1, SendKeeps DEF Y!FetchTimer, Y!rest
  <2> QED BY <1>4, <2>1, <2>2 DEF Y!FetchTimer, Y!TypeOK, Y!player, Y!rest
<1>5. CASE UNCHANGED Y!vars
  <2>1. Y!LibTypeOK' /\ (DueIsQuery /\ SentBefore /\ LastWins)'
    BY <1>5, CommunityOthersRest DEF Y!vars
  <2> QED BY <1>5, <2>1 DEF Y!vars, Y!TypeOK
<1> QED BY <1>2, <1>3, <1>4, <1>5, CommunityAnswerKeeps, CodesKeep, CommunityAdminKeeps,
       TabKeeps DEF Y!Next

\* What the run checks follows.
LEMMA PageSettled == PageInv => Y!SettledPage
  BY DEF PageInv, LastWins, LastShown, Y!SettledPage, Y!Quiet

\* The part keeps to its own specification.
LEMMA CommunitySpec == Spec => Y!Spec
<1>1. Init => Y!Init
  BY DEF Init
<1>2. [Next]_vars => [Y!Next]_(Y!vars)
  BY DEF Next, vars, Alone, communityVars, Y!vars, Y!lib
<1> QED BY <1>1, <1>2, PTL DEF Spec, Y!Spec

\* When nothing is due or on its way, no request of an older filter answered after a newer one
\* and none failed, the page shows the list that its filter and its page number ask for
\* (LockChime.tsx).
THEOREM PageSettles == Spec => []SettledPage
<1>1. Y!ChimeCommunityAssumption /\ Y!PagedLibraryAssumption
  BY WebAssumption DEF WebAssumption
<1>2. PageInv => SettledPage
  BY PageSettled DEF SettledPage
<1> QED BY <1>1, <1>2, PageInit, PageNext, CommunitySpec, PTL DEF Y!Spec

\* The types of the part
LEMMA CommunityKeepsTypes == Spec => []Y!TypeOK
<1>1. Y!ChimeCommunityAssumption /\ Y!PagedLibraryAssumption
  BY WebAssumption DEF WebAssumption
<1>2. PageInv => Y!TypeOK
  BY DEF PageInv
<1> QED BY <1>1, <1>2, PageInit, PageNext, CommunitySpec, PTL DEF Y!Spec

-----------------------------------------------------------------------------
(*****************************************************************************)
(* The community wraps (Wraps, PagedLibrary)                                 *)
(*****************************************************************************)

LEMMA WrapsLibTypeInit == W!PagedLibraryAssumption /\ W!LibInit => W!LibTypeOK
<1> SUFFICES ASSUME W!PagedLibraryAssumption, W!LibInit PROVE W!LibTypeOK
  OBVIOUS
<1>1. 0 \in 0 .. wraps_MaxFetches /\ 0 \in 0 .. wraps_Pages /\ 1 \in 1 .. wraps_Pages
  BY DEF W!PagedLibraryAssumption
<1>2. wraps_query \in W!Query /\ wraps_due = wraps_query
  BY <1>1 DEF W!PagedLibraryAssumption, W!LibInit, W!Query
<1> QED BY <1>1, <1>2 DEF W!LibInit, W!LibTypeOK

LEMMA WrapsSendTypes ==
  ASSUME W!PagedLibraryAssumption, W!LibTypeOK, NEW q \in W!Query, W!Send(q),
         wraps_due' \in W!Query \cup {NoValue}
  PROVE  W!LibTypeOK'
<1>1. wraps_sent \in 0 .. wraps_MaxFetches /\ wraps_sent < wraps_MaxFetches
      /\ wraps_MaxFetches \in Nat
  BY DEF W!PagedLibraryAssumption, W!LibTypeOK, W!Send
<1>2. wraps_sent + 1 \in 1 .. wraps_MaxFetches /\ wraps_sent' \in 0 .. wraps_MaxFetches
  BY <1>1 DEF W!Send
<1>3. wraps_fetches' \subseteq [n : 1 .. wraps_MaxFetches, of : W!Query]
  BY <1>2 DEF W!LibTypeOK, W!Send
<1> QED BY <1>2, <1>3 DEF W!LibTypeOK, W!Send

LEMMA WrapsTimerTypes ==
  ASSUME W!PagedLibraryAssumption, W!LibTypeOK, W!Timer
  PROVE  W!LibTypeOK'
<1>1. wraps_due \in W!Query /\ W!Send(wraps_due) /\ wraps_due' = NoValue
  BY DEF W!LibTypeOK, W!Timer
<1> QED BY <1>1, WrapsSendTypes

LEMMA WrapsAsksTypes ==
  ASSUME W!LibTypeOK, NEW q \in W!Query, W!Asks(q)
  PROVE  W!LibTypeOK'
  BY DEF W!LibTypeOK, W!Asks, W!Restarts

LEMMA WrapsDisplaysTypes ==
  ASSUME W!LibTypeOK, NEW f \in wraps_fetches, NEW s \in W!Query \cup {NoValue},
         NEW t \in 0 .. wraps_Pages,
         W!Displays(f, s, t), UNCHANGED <<wraps_query, wraps_due, wraps_sent>>,
           wraps_error' \in BOOLEAN
  PROVE  W!LibTypeOK'
<1>1. f \in [n : 1 .. wraps_MaxFetches, of : W!Query]
  BY DEF W!LibTypeOK
<1>2. wraps_last' \in 0 .. wraps_MaxFetches
  BY <1>1 DEF W!Displays
<1>3. wraps_crossed' \in BOOLEAN
  BY DEF W!Displays
<1> QED BY <1>2, <1>3 DEF W!LibTypeOK, W!Displays

LEMMA WrapsAnswerTypes ==
  ASSUME W!LibTypeOK, NEW f \in wraps_fetches, W!Answer(f)
         \/ \E s \in W!Query \cup {NoValue} : W!Failure(f, s)
  PROVE  W!LibTypeOK'
<1>1. CASE W!Answer(f)
  <2>1. f.of \in W!Query
    BY DEF W!LibTypeOK
  <2>2. PICK t \in 0 .. wraps_Pages : W!Displays(f, f.of, t)
    BY <1>1 DEF W!Answer
  <2> QED BY <1>1, <2>1, <2>2, WrapsDisplaysTypes DEF W!Answer, W!LibTypeOK
<1>2. ASSUME NEW s \in W!Query \cup {NoValue}, W!Failure(f, s) PROVE W!LibTypeOK'
  <2>1. wraps_total \in 0 .. wraps_Pages
    BY DEF W!LibTypeOK
  <2> QED BY <1>2, <2>1, WrapsDisplaysTypes DEF W!Failure
<1> QED BY <1>1, <1>2

(* A timer is about to send what the controls and the passcode say.  Without one, the   *)
(* request sent last asks what they say, and is either under way or on display, unless  *)
(* an answer to an earlier one has come after it.                                       *)
WrapDueIsQuery == wraps_due \in {NoValue, wraps_query}
WrapSentBefore == \A f \in wraps_fetches : f.n <= wraps_sent
WrapLastAsked == \A f \in wraps_fetches : f.n = wraps_sent => f.of = wraps_query
WrapLastShown == wraps_crossed \/ (wraps_last = wraps_sent
                                   /\ (wraps_error \/ wraps_shown = wraps_query))
WrapLastWins == wraps_due = NoValue /\ ~wraps_edited
  => WrapLastAsked /\ (WrapLastShown \/ \E f \in wraps_fetches : f.n = wraps_sent)
WrapOrder == WrapDueIsQuery /\ WrapSentBefore /\ WrapLastWins
WrapInv == W!TypeOK /\ WrapOrder

LEMMA WrapInit == W!WrapsAssumption /\ W!PagedLibraryAssumption /\ W!Init => WrapInv
<1> SUFFICES ASSUME W!WrapsAssumption, W!PagedLibraryAssumption, W!Init PROVE WrapInv
  OBVIOUS
<1>1. 0 \in 0 .. wraps_MaxActs /\ W!LibTypeOK
  BY WrapsLibTypeInit DEF W!Init, W!WrapsAssumption
<1>2. W!TypeOK
  BY <1>1 DEF W!Init, W!TypeOK
<1>3. wraps_due = wraps_query /\ wraps_query # NoValue /\ wraps_fetches = {}
  BY <1>1 DEF W!Init, W!LibInit, W!LibTypeOK, W!PagedLibraryAssumption, W!Query
<1> QED BY <1>2, <1>3 DEF WrapInv, WrapOrder, WrapDueIsQuery, WrapSentBefore, WrapLastWins

LEMMA WrapsActsTypes ==
  ASSUME W!WrapsAssumption, W!TypeOK, W!Acts
  PROVE  wraps_acts' \in 0 .. wraps_MaxActs /\ wraps_acts' \in 1 .. wraps_MaxActs
  BY DEF W!WrapsAssumption, W!TypeOK, W!Acts

\* What the controls or the passcode say changes: a timer starts over.
LEMMA WrapAsksKeeps ==
  ASSUME W!PagedLibraryAssumption, W!LibTypeOK, WrapOrder, NEW q \in W!Query, W!Asks(q)
  PROVE  W!LibTypeOK' /\ WrapOrder'
<1>1. W!LibTypeOK'
  BY WrapsAsksTypes
<1>2. wraps_due' = wraps_query' /\ wraps_due' # NoValue
      /\ UNCHANGED <<wraps_sent, wraps_fetches>>
  BY DEF W!Asks, W!Restarts, W!Query, W!PagedLibraryAssumption
<1> QED BY <1>1, <1>2 DEF WrapOrder, WrapDueIsQuery, WrapSentBefore, WrapLastWins

\* A request is sent: of what the controls say, or after a change on an earlier page.
LEMMA WrapSendKeeps ==
  ASSUME W!PagedLibraryAssumption, W!LibTypeOK, WrapOrder, NEW q \in W!Query, W!Send(q),
         wraps_due' \in {NoValue, wraps_due},
         wraps_edited' \/ q = wraps_query, wraps_edited => wraps_edited'
  PROVE  W!LibTypeOK' /\ WrapOrder'
<1> USE DEF WrapOrder
<1>1. wraps_sent \in Nat /\ wraps_sent' = wraps_sent + 1
      /\ wraps_fetches' = wraps_fetches \cup {[n |-> wraps_sent + 1, of |-> q]}
      /\ wraps_query' = wraps_query
  BY DEF W!Send, W!LibTypeOK
<1>2. \A f \in wraps_fetches : f.n \in Nat /\ f.n <= wraps_sent
  BY DEF W!LibTypeOK, WrapSentBefore
<1>3. W!LibTypeOK' /\ WrapDueIsQuery'
  BY <1>1, WrapsSendTypes DEF WrapDueIsQuery, W!LibTypeOK
<1>4. WrapSentBefore'
  BY <1>1, <1>2 DEF WrapSentBefore
<1>5. WrapLastWins'
  <2>1. ~wraps_edited' => WrapLastAsked'
    BY <1>1, <1>2 DEF WrapLastAsked
  <2>2. [n |-> wraps_sent + 1, of |-> q] \in wraps_fetches'
        /\ [n |-> wraps_sent + 1, of |-> q].n = wraps_sent'
    BY <1>1
  <2> QED BY <2>1, <2>2 DEF WrapLastWins
<1> QED BY <1>3, <1>4, <1>5

\* The answer shown last is that of the request sent last, unless one was overtaken.
LEMMA WrapAnswerKeeps ==
  ASSUME W!LibTypeOK, WrapOrder, NEW f \in wraps_fetches, W!FetchWraps(f)
  PROVE  W!LibTypeOK' /\ WrapOrder'
<1> USE DEF WrapOrder
<1>1. W!LibTypeOK'
  <2>1. wraps_shown \in W!Query \cup {NoValue}
    BY DEF W!LibTypeOK
  <2> QED BY <2>1, WrapsAnswerTypes DEF W!FetchWraps
<1>2. wraps_fetches' = wraps_fetches \ {f} /\ wraps_last' = f.n
      /\ wraps_crossed' = (wraps_crossed \/ f.n < wraps_last)
      /\ UNCHANGED <<wraps_query, wraps_due, wraps_sent, wraps_edited>>
  BY DEF W!FetchWraps, W!Answer, W!Failure, W!Displays, W!admin
<1>3. (wraps_shown' = f.of /\ wraps_error' = wraps_error) \/ wraps_error'
  BY DEF W!FetchWraps, W!Answer, W!Failure, W!Displays
<1>4. WrapDueIsQuery' /\ WrapSentBefore'
  BY <1>2 DEF WrapDueIsQuery, WrapSentBefore
<1>5. WrapLastWins'
  <2> SUFFICES ASSUME wraps_due = NoValue, ~wraps_edited PROVE WrapLastAsked'
                      /\ (WrapLastShown \/ \E g \in wraps_fetches : g.n = wraps_sent)'
    BY <1>2 DEF WrapLastWins
  <2>1. WrapLastAsked /\ (WrapLastShown \/ \E g \in wraps_fetches : g.n = wraps_sent)
    BY DEF WrapLastWins
  <2>2. WrapLastAsked'
    BY <1>2, <2>1 DEF WrapLastAsked
  <2>3. CASE f.n = wraps_sent
    <3>1. f.of = wraps_query
      BY <2>1, <2>3 DEF WrapLastAsked
    <3> QED BY <1>2, <1>3, <2>2, <2>3, <3>1 DEF WrapLastShown
  <2>4. CASE f.n # wraps_sent
    <3>1. f.n < wraps_sent
      BY <2>4 DEF WrapSentBefore, W!LibTypeOK
    <3>2. CASE WrapLastShown
      BY <1>2, <2>2, <3>1, <3>2 DEF WrapLastShown
    <3>3. ASSUME NEW g \in wraps_fetches, g.n = wraps_sent
                 PROVE g \in wraps_fetches' /\ wraps_sent' = wraps_sent
      BY <1>2, <2>4, <3>3
    <3> QED BY <2>1, <2>2, <3>2, <3>3
  <2> QED BY <2>3, <2>4
<1> QED BY <1>1, <1>4, <1>5

\* Steps of the dialogs.
LEMMA WrapOthersRest ==
  ASSUME W!LibTypeOK, WrapOrder, UNCHANGED W!lib, UNCHANGED wraps_edited
  PROVE  W!LibTypeOK' /\ WrapOrder'
  BY DEF W!lib, W!LibTypeOK, WrapOrder, WrapDueIsQuery, WrapSentBefore, WrapLastWins,
     WrapLastAsked, WrapLastShown

\* Entering and leaving the passcode.
LEMMA PasscodeKeeps ==
  ASSUME W!PagedLibraryAssumption, W!LibTypeOK, WrapOrder, UNCHANGED wraps_edited,
         NEW p \in wraps_Passcodes \cup {NoValue}, W!SetAdminPasscode(p)
  PROVE  W!LibTypeOK' /\ WrapOrder'
<1> DEFINE q == [wraps_query EXCEPT !.filter = [@ EXCEPT !.as = p]]
<1>1. wraps_query \in W!Query
  BY DEF W!LibTypeOK
<1>2. q \in W!Query
  <2>1. wraps_query.filter \in [controls : wraps_Controls, as : wraps_Passcodes \cup {NoValue}]
    BY <1>1 DEF W!Query
  <2>2. [wraps_query.filter EXCEPT !.as = p]
          \in [controls : wraps_Controls, as : wraps_Passcodes \cup {NoValue}]
    BY <2>1
  <2> QED BY <1>1, <2>2 DEF W!Query
<1>3. UNCHANGED W!lib \/ W!Asks(q)
  BY DEF W!SetAdminPasscode
<1> HIDE DEF q
<1> QED BY <1>2, <1>3, WrapOthersRest, WrapAsksKeeps

\* Filters and pages.
LEMMA WrapLibraryKeeps ==
  ASSUME W!WrapsAssumption, W!PagedLibraryAssumption, WrapInv,
         \/ W!TurnPage \/ W!FetchTimer \/ W!Retry
         \/ \E c \in wraps_Controls : W!SetFilter(c)
         \/ \E f \in wraps_fetches : W!FetchWraps(f)
  PROVE  WrapInv'
<1>1. W!TypeOK /\ W!LibTypeOK /\ wraps_query \in W!Query /\ WrapOrder
  BY DEF WrapInv, W!TypeOK, W!LibTypeOK
<1>2. /\ wraps_acts' = wraps_acts \/ W!Acts
      /\ UNCHANGED <<wraps_prompt, wraps_checks, wraps_jobs, wraps_edited, wraps_modal,
                     wraps_saving, wraps_downloading>>
  BY DEF W!TurnPage, W!FetchTimer, W!Retry, W!SetFilter, W!FetchWraps, W!admin
<1>3. W!LibTypeOK' /\ WrapOrder'
  <2>1. ASSUME NEW c \in wraps_Controls, W!SetFilter(c) PROVE W!LibTypeOK' /\ WrapOrder'
    <3> DEFINE q == [filter |-> [controls |-> c, as |-> W!adminPasscode], page |-> 1]
    <3>1. W!adminPasscode \in wraps_Passcodes \cup {NoValue} /\ 1 \in 1 .. wraps_Pages
      BY <1>1 DEF W!adminPasscode, W!Query, W!PagedLibraryAssumption
    <3>2. q \in W!Query
      BY <3>1 DEF W!Query
    <3>3. W!Asks(q)
      BY <2>1 DEF W!SetFilter
    <3> HIDE DEF q
    <3> QED BY <1>1, <3>2, <3>3, WrapAsksKeeps
  <2>2. CASE W!TurnPage
    <3>1. PICK p \in {wraps_query.page - 1, wraps_query.page + 1} : p \in 1 .. wraps_total
                 /\ W!Asks([wraps_query EXCEPT !.page = p])
      BY <2>2 DEF W!TurnPage
    <3>2. p \in 1 .. wraps_Pages
      BY <1>1, <3>1 DEF W!PagedLibraryAssumption, W!LibTypeOK
    <3>3. [wraps_query EXCEPT !.page = p] \in W!Query
      BY <1>1, <3>2 DEF W!Query
    <3> QED BY <1>1, <3>1, <3>3, WrapAsksKeeps
  <2>3. CASE W!FetchTimer
    <3>1. wraps_due \in W!Query /\ W!Send(wraps_due) /\ wraps_due' = NoValue
          /\ wraps_due = wraps_query
      BY <1>1, <2>3 DEF W!FetchTimer, W!Timer, W!LibTypeOK, WrapOrder, WrapDueIsQuery
    <3> QED BY <1>1, <1>2, <3>1, WrapSendKeeps
  <2>4. CASE W!Retry
    <3>1. W!Send(wraps_query) /\ wraps_due' = wraps_due
      BY <2>4 DEF W!Retry
    <3> QED BY <1>1, <1>2, <3>1, WrapSendKeeps
  <2>5. ASSUME NEW f \in wraps_fetches, W!FetchWraps(f) PROVE W!LibTypeOK' /\ WrapOrder'
    BY <1>1, <2>5, WrapAnswerKeeps
  <2> QED BY <2>1, <2>2, <2>3, <2>4, <2>5
<1> QED BY <1>1, <1>2, <1>3, WrapsActsTypes DEF WrapInv, W!TypeOK

\* Dialogs and downloads.
LEMMA DialogsKeep ==
  ASSUME W!WrapsAssumption, WrapInv,
         \/ W!OpenDetail \/ W!CloseModal \/ W!HandleDownload \/ W!Downloaded
         \/ \E m \in {"edit", "delete"} : W!OpenAdmin(m)
  PROVE  WrapInv'
<1>1. W!TypeOK /\ W!LibTypeOK /\ WrapOrder
  BY DEF WrapInv, W!TypeOK
<1>2. UNCHANGED W!lib /\ UNCHANGED W!admin
  BY DEF W!OpenDetail, W!CloseModal, W!HandleDownload, W!Downloaded, W!OpenAdmin
<1>3. W!LibTypeOK' /\ WrapOrder'
  BY <1>1, <1>2, WrapOthersRest DEF W!admin
<1>4. wraps_acts' \in 0 .. wraps_MaxActs
  BY <1>1, WrapsActsTypes DEF W!OpenDetail, W!CloseModal, W!HandleDownload, W!Downloaded,
     W!OpenAdmin, W!TypeOK
<1>5. /\ wraps_modal' \in {"none", "detail", "edit", "delete"} /\ wraps_saving' \in BOOLEAN
      /\ wraps_downloading' \in BOOLEAN
  BY <1>1 DEF W!OpenDetail, W!CloseModal, W!HandleDownload, W!Downloaded, W!OpenAdmin, W!TypeOK
<1> QED BY <1>1, <1>2, <1>3, <1>4, <1>5 DEF WrapInv, W!TypeOK, W!admin

\* Changes with the passcode, and what their answers do.
LEMMA WrapsAdminKeeps ==
  ASSUME W!WrapsAssumption, W!PagedLibraryAssumption, WrapInv,
         \/ \E m \in {"edit", "delete"} : W!Submit(m)
         \/ \E j \in wraps_jobs : W!Refusal(j) \/ W!Changed(j) \/ W!AdminFails(j)
  PROVE  WrapInv'
<1> DEFINE JobType == [n : 1 .. wraps_MaxActs, op : {"edit", "delete"}, of : W!Query]
<1>1. /\ W!TypeOK /\ W!LibTypeOK /\ WrapOrder /\ wraps_jobs \subseteq JobType
      /\ wraps_query \in W!Query
      /\ wraps_saving \in BOOLEAN /\ wraps_modal \in {"none", "detail", "edit", "delete"}
  BY DEF WrapInv, W!TypeOK, W!LibTypeOK
<1>2. ASSUME NEW m \in {"edit", "delete"}, W!Submit(m) PROVE WrapInv'
  <2>1. wraps_acts' \in 0 .. wraps_MaxActs /\ wraps_acts' \in 1 .. wraps_MaxActs
    BY <1>1, <1>2, WrapsActsTypes DEF W!Submit
  <2>2. [n |-> wraps_acts', op |-> m, of |-> wraps_query] \in JobType
    BY <1>1, <2>1
  <2>3. wraps_jobs' \subseteq JobType
    BY <1>1, <1>2, <2>2 DEF W!Submit
  <2>4. W!LibTypeOK' /\ WrapOrder'
    BY <1>1, <1>2, WrapOthersRest DEF W!Submit
  <2> QED BY <1>1, <1>2, <2>1, <2>3, <2>4 DEF W!Submit, WrapInv, W!TypeOK
<1>3. ASSUME NEW j \in wraps_jobs, W!Refusal(j) PROVE WrapInv'
  <2>1. W!LibTypeOK' /\ WrapOrder'
    BY <1>1, <1>3, PasscodeKeeps DEF W!Refusal
  <2>2. wraps_modal' \in {"none", "detail", "edit", "delete"} /\ wraps_saving' \in BOOLEAN
    BY <1>1, <1>3 DEF W!Refusal, W!Closes
  <2>3. wraps_jobs' \subseteq JobType
    BY <1>1, <1>3 DEF W!Refusal
  <2> QED BY <1>1, <1>3, <2>1, <2>2, <2>3 DEF W!Refusal, WrapInv, W!TypeOK
<1>4. ASSUME NEW j \in wraps_jobs, W!Changed(j) PROVE WrapInv'
  <2>1. j.of \in W!Query /\ wraps_due' = wraps_due /\ W!Send(j.of)
        /\ wraps_edited' = (wraps_edited \/ j.of # wraps_query)
    BY <1>1, <1>4 DEF W!Changed
  <2>2. W!LibTypeOK' /\ WrapOrder'
    BY <1>1, <2>1, WrapSendKeeps
  <2>3. /\ wraps_modal' \in {"none", "detail", "edit", "delete"} /\ wraps_saving' \in BOOLEAN
        /\ wraps_edited' \in BOOLEAN
    BY <1>1, <1>4 DEF W!Changed
  <2>4. wraps_jobs' \subseteq JobType
    BY <1>1, <1>4 DEF W!Changed
  <2> QED BY <1>1, <1>4, <2>2, <2>3, <2>4 DEF W!Changed, WrapInv, W!TypeOK
<1>5. ASSUME NEW j \in wraps_jobs, W!AdminFails(j) PROVE WrapInv'
  <2>1. W!LibTypeOK' /\ WrapOrder'
    BY <1>1, <1>5, WrapOthersRest DEF W!AdminFails
  <2>2. wraps_jobs' \subseteq JobType /\ wraps_saving' \in BOOLEAN
    BY <1>1, <1>5 DEF W!AdminFails
  <2> QED BY <1>1, <1>5, <2>1, <2>2 DEF W!AdminFails, WrapInv, W!TypeOK
<1> QED BY <1>2, <1>3, <1>4, <1>5

\* The dialog of the passcode, and validations answered after it was closed.
LEMMA PromptKeeps ==
  ASSUME W!WrapsAssumption, W!PagedLibraryAssumption, WrapInv,
         \/ W!HeadingClicks \/ W!LeavePrompt
         \/ \E p \in wraps_Passcodes : W!HandleValidate(p)
         \/ \E c \in wraps_checks : W!Validated(c)
  PROVE  WrapInv'
<1> DEFINE CheckType == [n : 1 .. wraps_MaxActs, passcode : wraps_Passcodes]
<1>1. W!TypeOK /\ W!LibTypeOK /\ WrapOrder /\ wraps_checks \subseteq CheckType
      /\ wraps_prompt \in BOOLEAN
  BY DEF WrapInv, W!TypeOK
<1>2. UNCHANGED <<wraps_jobs, wraps_edited, wraps_modal, wraps_saving, wraps_downloading>>
  BY DEF W!HeadingClicks, W!HandleValidate, W!LeavePrompt, W!Validated
<1>3. CASE W!HeadingClicks
  <2>1. wraps_checks' = wraps_checks /\ wraps_prompt' \in BOOLEAN
        /\ (W!SetAdminPasscode(NoValue) \/ UNCHANGED W!lib)
    BY <1>1, <1>3 DEF W!HeadingClicks
  <2>2. W!LibTypeOK' /\ WrapOrder'
    BY <1>1, <1>2, <2>1, PasscodeKeeps, WrapOthersRest
  <2>3. wraps_acts' \in 0 .. wraps_MaxActs
    BY <1>1, <1>3, WrapsActsTypes DEF W!HeadingClicks
  <2> QED BY <1>1, <1>2, <2>1, <2>2, <2>3 DEF WrapInv, W!TypeOK
<1>4. CASE W!LeavePrompt
  <2>1. W!LibTypeOK' /\ WrapOrder'
    BY <1>1, <1>2, <1>4, WrapOthersRest DEF W!LeavePrompt
  <2> QED BY <1>1, <1>2, <1>4, <2>1 DEF WrapInv, W!TypeOK, W!LeavePrompt
<1>5. ASSUME NEW p \in wraps_Passcodes, W!HandleValidate(p) PROVE WrapInv'
  <2>1. wraps_acts' \in 0 .. wraps_MaxActs /\ wraps_acts' \in 1 .. wraps_MaxActs
    BY <1>1, <1>5, WrapsActsTypes DEF W!HandleValidate
  <2>2. [n |-> wraps_acts', passcode |-> p] \in CheckType
    BY <2>1
  <2>3. wraps_checks' \subseteq CheckType /\ wraps_prompt' = wraps_prompt
    BY <1>1, <1>5, <2>2 DEF W!HandleValidate
  <2>4. W!LibTypeOK' /\ WrapOrder'
    BY <1>1, <1>2, <1>5, WrapOthersRest DEF W!HandleValidate
  <2> QED BY <1>1, <1>2, <2>1, <2>3, <2>4 DEF WrapInv, W!TypeOK
<1>6. ASSUME NEW c \in wraps_checks, W!Validated(c) PROVE WrapInv'
  <2>1. wraps_checks' \subseteq CheckType /\ wraps_prompt' \in BOOLEAN
        /\ c.passcode \in wraps_Passcodes /\ wraps_acts' = wraps_acts
        /\ (W!SetAdminPasscode(c.passcode) \/ UNCHANGED W!lib)
    BY <1>1, <1>6 DEF W!Validated
  <2>2. W!LibTypeOK' /\ WrapOrder'
    BY <1>1, <1>2, <2>1, PasscodeKeeps, WrapOthersRest
  <2> QED BY <1>1, <1>2, <2>1, <2>2 DEF WrapInv, W!TypeOK
<1> QED BY <1>3, <1>4, <1>5, <1>6

LEMMA WrapNext ==
  W!WrapsAssumption /\ W!PagedLibraryAssumption /\ WrapInv /\ [W!Next]_(W!vars) => WrapInv'
<1>1. WrapInv /\ UNCHANGED W!vars => WrapInv'
  BY WrapOthersRest DEF WrapInv, W!TypeOK, W!vars
<1> QED BY <1>1, WrapLibraryKeeps, DialogsKeep, WrapsAdminKeeps, PromptKeeps DEF W!Next

\* What the run checks follows.
LEMMA WrapSettled == WrapInv => W!OwnList
  BY DEF WrapInv, WrapOrder, WrapLastWins, WrapLastShown, W!OwnList, W!Quiet

\* The part keeps to its own specification.
LEMMA WrapsSpec == Spec => W!Spec
<1>1. Init => W!Init
  BY DEF Init
<1>2. [Next]_vars => [W!Next]_(W!vars)
  BY DEF Next, vars, Alone, wrapsVars, W!vars, W!lib
<1> QED BY <1>1, <1>2, PTL DEF Spec, W!Spec

\* When nothing is due or on its way, no answer came after one to a later request, and no
\* change was followed by a request for an earlier page, the page shows an error or the list
\* that its controls and the passcode in use ask for, whatever validations and refusals were
\* answered in between (Community.tsx, CommunityWraps.tsx).
THEOREM ListOfPasscode == Spec => []OwnList
<1>1. W!WrapsAssumption /\ W!PagedLibraryAssumption
  BY WebAssumption DEF WebAssumption
<1>2. WrapInv => OwnList
  BY WrapSettled DEF OwnList
<1> QED BY <1>1, <1>2, WrapInit, WrapNext, WrapsSpec, PTL DEF W!Spec

\* The types of the part
LEMMA WrapsKeepsTypes == Spec => []W!TypeOK
<1>1. W!WrapsAssumption /\ W!PagedLibraryAssumption
  BY WebAssumption DEF WebAssumption
<1>2. WrapInv => W!TypeOK
  BY DEF WrapInv
<1> QED BY <1>1, <1>2, WrapInit, WrapNext, WrapsSpec, PTL DEF W!Spec

-----------------------------------------------------------------------------
(*****************************************************************************)
(* The previews of wraps (WrapPreview)                                       *)
(*****************************************************************************)

(* While nothing was given up early and one preview is under way at a time, the         *)
(* renderer is about one upload: nothing is on its way before its scene is asked for,   *)
(* and nothing but words of its scene until its result, which is the last thing to come.*)
Word(m) == m.what = "loaded"
Words == \A i \in 1 .. Len(preview_told) : Word(preview_told[i])
NoTimer(w) == \A t \in preview_timers : t.what # w

\* the result, or the error, is the last word
LastWord(f) ==
  /\ \A i \in 1 .. Len(preview_told) : i < Len(preview_told) => Word(preview_told[i])
  /\ \A i \in 1 .. Len(preview_told) : preview_told[i].what = "result"
       => preview_told[i].scene = f /\ preview_told[i].texture = f

Idle == preview_asked = <<>> /\ preview_told = <<>> /\ NoTimer("texture") /\ NoTimer("capture")

Loading(f) ==
  /\ preview_phase[f] = "loading_scene" /\ NoTimer("texture") /\ NoTimer("capture")
  /\ \/ preview_asked = <<V!Msg("load", f, 0)>> /\ preview_told = <<>>
     \/ preview_asked = <<>> /\ preview_scene = f /\ Words

Applying(f) ==
  /\ preview_phase[f] = "applying_texture" /\ NoTimer("capture")
  /\ \A t \in preview_timers : t.what = "texture" => t.file = f
  /\ preview_asked = <<>> /\ preview_scene = f /\ Words

Capturing(f) ==
  /\ preview_phase[f] = "capturing" /\ NoTimer("texture") /\ preview_scene = f
  /\ \A t \in preview_timers : t.what = "capture" => t.file = f
  /\ \/ Words /\ (preview_asked = <<V!Msg("texture", 0, f)>>
                  \/ (preview_asked = <<>> /\ preview_texture = f))
     \/ /\ NoTimer("capture")
        /\ \/ Words /\ preview_asked = <<V!Msg("texture", 0, f), V!Msg("capture", 0, 0)>>
           \/ Words /\ preview_asked = <<V!Msg("capture", 0, 0)>> /\ preview_texture = f
           \/ preview_asked = <<>> /\ LastWord(f)

Renders(u) == Loading(u) \/ Applying(u) \/ Capturing(u)
Pipe ==
  \/ Idle /\ \A u \in V!Upload : preview_stage[u] # "rendering"
  \/ \E u \in V!Upload : preview_stage[u] = "rendering" /\ Renders(u)

OneListens == \A u, v \in V!Upload : u \in V!Listeners /\ v \in V!Listeners => u = v

\* an upload that is not rendered yet has not begun, and has no timer
Untouched == \A u \in V!Upload : preview_stage[u] \in {"no", "wait", "reading"} =>
               preview_phase[u] = "loading_scene" /\ \A t \in preview_timers : t.file # u

InTurn == OneListens /\ Untouched /\ Pipe /\ V!PreviewOwn
PreviewInv == V!TypeOK /\ (~preview_late /\ ~preview_together => InTurn)

LEMMA PreviewInit == V!WrapPreviewAssumption /\ V!Init => PreviewInv
<1> SUFFICES ASSUME V!WrapPreviewAssumption, V!Init PROVE PreviewInv
  OBVIOUS
<1>1. preview_Uploads \in Nat /\ 0 \in V!Whose
  BY DEF V!WrapPreviewAssumption, V!Whose
<1>2. V!TypeOK
  <2>1. preview_phase \in [V!Upload -> {"loading_scene", "applying_texture", "capturing"}]
        /\ preview_preview \in [V!Upload -> V!Picture]
        /\ preview_stage \in [V!Upload -> {"no", "wait", "reading", "rendering", "sent"}]
    BY <1>1 DEF V!Init, V!Picture, V!NoPicture
  <2>2. preview_asked \in Seq(V!Message) /\ preview_told \in Seq(V!Message) /\ preview_timers = {}
    BY DEF V!Init
  <2> QED BY <1>1, <2>1, <2>2 DEF V!Init, V!TypeOK
<1>3. InTurn
  BY DEF V!Init, InTurn, OneListens, V!Listeners, Untouched, Pipe, Idle, NoTimer, V!PreviewOwn,
     V!NoPicture
<1> QED BY <1>2, <1>3 DEF PreviewInv

\* What is sent is a message.
LEMMA MsgType ==
  ASSUME NEW w \in {"load", "texture", "capture", "loaded", "result", "error"},
         NEW s \in V!Whose, NEW t \in V!Whose
  PROVE  V!Msg(w, s, t) \in V!Message
  BY DEF V!Msg, V!Message

LEMMA PreviewTypes ==
  ASSUME V!WrapPreviewAssumption, V!TypeOK, V!Next
  PROVE  V!TypeOK'
<1> USE DEF V!TypeOK
<1>1. preview_Uploads \in Nat /\ 0 \in V!Whose /\ V!Upload \subseteq V!Whose
  BY DEF V!WrapPreviewAssumption, V!Whose, V!Upload
<1>2. ASSUME NEW us, NEW p \in V!Picture, V!Ends(us, p)
      PROVE  /\ preview_stage' \in [V!Upload -> {"no", "wait", "reading", "rendering", "sent"}]
             /\ preview_preview' \in [V!Upload -> V!Picture]
  BY <1>2 DEF V!Ends
<1>0. V!NoPicture \in V!Picture
  BY <1>1 DEF V!NoPicture, V!Picture
<1>3. CASE V!GodotReady
  BY <1>3 DEF V!GodotReady, V!renderer
<1>4. ASSUME NEW u \in V!Upload, V!WaitForGodotReady(u) \/ V!Start(u) PROVE V!TypeOK'
  <2>1. preview_stage' \in [V!Upload -> {"no", "wait", "reading", "rendering", "sent"}]
        /\ preview_preview' \in [V!Upload -> V!Picture] /\ preview_together' \in BOOLEAN
    BY <1>0, <1>2, <1>4 DEF V!WaitForGodotReady, V!Start
  <2> QED BY <1>4, <2>1 DEF V!WaitForGodotReady, V!Start, V!renderer
<1>5. ASSUME NEW u \in V!Upload, V!ReaderLoaded(u) PROVE V!TypeOK'
  <2>1. V!Msg("load", u, 0) \in V!Message
    BY <1>1, MsgType
  <2>2. preview_asked' \in Seq(V!Message)
    BY <1>5, <2>1 DEF V!ReaderLoaded
  <2>3. V!Timer("scene", u) \in [what : {"scene", "texture", "capture"}, file : V!Upload]
    BY DEF V!Timer
  <2> QED BY <1>5, <2>2, <2>3 DEF V!ReaderLoaded
<1>6. ASSUME NEW f \in V!Upload, V!SceneTimer(f) PROVE V!TypeOK'
  <2>1. V!Timer("texture", f) \in [what : {"scene", "texture", "capture"}, file : V!Upload]
    BY DEF V!Timer
  <2> QED BY <1>6, <2>1 DEF V!SceneTimer, V!renderer
<1>7. ASSUME NEW f \in V!Upload, V!TextureTimer(f) PROVE V!TypeOK'
  <2>1. V!Msg("texture", 0, f) \in V!Message
    BY <1>1, MsgType
  <2>2. preview_asked' \in Seq(V!Message)
    BY <1>7, <2>1 DEF V!TextureTimer
  <2>3. V!Timer("capture", f) \in [what : {"scene", "texture", "capture"}, file : V!Upload]
    BY DEF V!Timer
  <2> QED BY <1>7, <2>2, <2>3 DEF V!TextureTimer
<1>8. ASSUME NEW f \in V!Upload, V!CaptureTimer(f) PROVE V!TypeOK'
  <2>1. V!Msg("capture", 0, 0) \in V!Message
    BY <1>1, MsgType
  <2>2. preview_asked' \in Seq(V!Message)
    BY <1>8, <2>1 DEF V!CaptureTimer
  <2> QED BY <1>8, <2>2 DEF V!CaptureTimer
<1>9. CASE V!Godot
  <2>1. Head(preview_asked) \in V!Message /\ preview_asked' \in Seq(V!Message)
    BY <1>9 DEF V!Godot
  <2>2. Head(preview_asked).scene \in V!Whose /\ Head(preview_asked).texture \in V!Whose
    BY <2>1 DEF V!Message
  <2>3. V!Msg("loaded", Head(preview_asked).scene, 0) \in V!Message
        /\ V!Msg("result", preview_scene, preview_texture) \in V!Message
        /\ V!Msg("error", 0, 0) \in V!Message
    BY <1>1, <2>2, MsgType
  <2>4. \A n \in 1 .. 2 :
          preview_told \o [k \in 1 .. n |-> V!Msg("loaded", Head(preview_asked).scene,
                                                  0)] \in Seq(V!Message)
    <3> TAKE n \in 1 .. 2
    <3>1. [k \in 1 .. n |-> V!Msg("loaded", Head(preview_asked).scene, 0)] \in Seq(V!Message)
      BY <2>3
    <3> QED BY <3>1
  <2>5. preview_told' \in Seq(V!Message)
    <3>1. Append(preview_told, V!Msg("result", preview_scene, preview_texture)) \in Seq(V!Message)
          /\ Append(preview_told, V!Msg("error", 0, 0)) \in Seq(V!Message)
      BY <2>3
    <3> QED BY <1>9, <2>4, <3>1 DEF V!Godot
  <2>6. preview_scene' \in V!Whose /\ preview_texture' \in V!Whose
    BY <1>9, <2>2 DEF V!Godot
  <2> QED BY <1>9, <2>1, <2>5, <2>6 DEF V!Godot
<1>10. CASE V!Handler
  <2>1. Head(preview_told) \in V!Message /\ preview_told' \in Seq(V!Message)
    BY <1>10 DEF V!Handler
  <2>2. [scene |-> Head(preview_told).scene,
         texture |-> Head(preview_told).texture] \in V!Picture
    BY <2>1 DEF V!Message, V!Picture
  <2>3. /\ preview_stage' \in [V!Upload -> {"no", "wait", "reading", "rendering", "sent"}]
        /\ preview_preview' \in [V!Upload -> V!Picture]
    <3>1. CASE UNCHANGED <<preview_stage, preview_preview>>
      BY <3>1
    <3>2. CASE \/ V!Ends(V!Listeners, [scene |-> Head(preview_told).scene,
                                       texture |-> Head(preview_told).texture])
               \/ V!Ends(V!Listeners, V!NoPicture)
      BY <1>0, <1>2, <2>2, <3>2
    <3> QED BY <1>10, <3>1, <3>2 DEF V!Handler
  <2>4. preview_phase' \in [V!Upload -> {"loading_scene", "applying_texture", "capturing"}]
    BY <1>10 DEF V!Handler
  <2>5. preview_timers' \subseteq [what : {"scene", "texture", "capture"}, file : V!Upload]
    <3>1. \A u \in V!Upload :
            V!Timer("texture", u) \in [what : {"scene", "texture", "capture"}, file : V!Upload]
      BY DEF V!Timer
    <3> QED BY <1>10, <3>1 DEF V!Handler, V!Listeners
  <2> QED BY <1>10, <2>1, <2>3, <2>4, <2>5 DEF V!Handler
<1>11. ASSUME NEW u \in V!Upload, V!AbortTimer(u) PROVE V!TypeOK'
  <2>1. /\ preview_stage' \in [V!Upload -> {"no", "wait", "reading", "rendering", "sent"}]
        /\ preview_preview' \in [V!Upload -> V!Picture]
    BY <1>0, <1>2, <1>11 DEF V!AbortTimer
  <2>2. preview_late' \in BOOLEAN
    BY <1>11 DEF V!AbortTimer
  <2> QED BY <1>11, <2>1, <2>2 DEF V!AbortTimer, V!renderer
<1> QED BY <1>3, <1>4, <1>5, <1>6, <1>7, <1>8, <1>9, <1>10, <1>11 DEF V!Next, V!Page, V!Timeouts

\* What is heard of the renderer, one word at a time.
LEMMA WordsTail ==
  ASSUME preview_told \in Seq(V!Message), preview_told # <<>>,
         preview_told' = Tail(preview_told), Words
  PROVE  Words' /\ Word(Head(preview_told))
<1>1. Len(preview_told) > 0 /\ Len(preview_told') = Len(preview_told) - 1
      /\ Len(preview_told) \in Nat
  OBVIOUS
<1>2. \A i \in 1 .. Len(preview_told') : preview_told'[i] = preview_told[i + 1]
      /\ i + 1 \in 1 .. Len(preview_told)
  BY <1>1
<1> QED BY <1>1, <1>2 DEF Words, Word

\* A message is taken from the queue of what the renderer said.
LEMMA LastTail ==
  ASSUME preview_told \in Seq(V!Message), preview_told # <<>>,
         preview_told' = Tail(preview_told), NEW f \in V!Upload, LastWord(f)
  PROVE  /\ LastWord(f)'
         /\ ~Word(Head(preview_told)) => preview_told' = <<>>
         /\ Head(preview_told).what = "result"
              => Head(preview_told).scene = f /\ Head(preview_told).texture = f
<1>1. Len(preview_told) > 0 /\ Len(preview_told') = Len(preview_told) - 1
      /\ Len(preview_told) \in Nat /\ Head(preview_told) = preview_told[1]
  OBVIOUS
<1>2. \A i \in 1 .. Len(preview_told') : preview_told'[i] = preview_told[i + 1]
      /\ i + 1 \in 1 .. Len(preview_told)
  BY <1>1
<1>3. LastWord(f)'
  BY <1>1, <1>2 DEF LastWord, Word
<1>4. ASSUME ~Word(Head(preview_told)) PROVE preview_told' = <<>>
  <2>1. Len(preview_told) = 1
    BY <1>1, <1>4 DEF LastWord
  <2> QED BY <2>1
<1> QED BY <1>1, <1>3, <1>4 DEF LastWord

\* The renderer says that a file was loaded, once or twice.
LEMMA WordsGrow ==
  ASSUME preview_told \in Seq(V!Message), Words, NEW s, NEW n \in 1 .. 2,
         V!Msg("loaded", s, 0) \in V!Message,
         preview_told' = preview_told \o [k \in 1 .. n |-> V!Msg("loaded", s, 0)]
  PROVE  Words'
<1>1. [k \in 1 .. n |-> V!Msg("loaded", s, 0)] \in Seq(V!Message)
      /\ Len([k \in 1 .. n |-> V!Msg("loaded", s, 0)]) = n
  OBVIOUS
<1>2. Len(preview_told') = Len(preview_told) + n /\ Len(preview_told) \in Nat
  BY <1>1
<1>3. \A i \in 1 .. Len(preview_told) : preview_told'[i] = preview_told[i]
  BY <1>1
<1>4. \A i \in Len(preview_told) + 1 .. Len(preview_told) + n : preview_told'[i] = V!Msg("loaded", s, 0)
  BY <1>1
<1>5. \A i \in 1 .. Len(preview_told') : i \in 1 .. Len(preview_told)
      \/ i \in Len(preview_told) + 1 .. Len(preview_told) + n
  BY <1>2
<1> QED BY <1>3, <1>4, <1>5 DEF Words, Word, V!Msg

\* the renderer answers a capture at most once, and that is the end
LEMMA WordsEnd ==
  ASSUME preview_told \in Seq(V!Message), Words, NEW f \in V!Upload,
         \/ preview_told' = preview_told
         \/ preview_told' = Append(preview_told, V!Msg("result", f, f))
         \/ preview_told' = Append(preview_told, V!Msg("error", 0, 0))
  PROVE  LastWord(f)'
<1>1. CASE preview_told' = preview_told
  BY <1>1 DEF Words, LastWord, Word
<1>2. ASSUME NEW m, m \in {V!Msg("result", f, f), V!Msg("error", 0, 0)},
             preview_told' = Append(preview_told, m)
      PROVE  LastWord(f)'
  <2>1. Len(preview_told') = Len(preview_told) + 1 /\ Len(preview_told) \in Nat
        /\ preview_told'[Len(preview_told) + 1] = m
    BY <1>2
  <2>2. \A i \in 1 .. Len(preview_told) : preview_told'[i] = preview_told[i]
    BY <1>2
  <2>3. \A i \in 1 .. Len(preview_told') : i < Len(preview_told') => i \in 1 .. Len(preview_told)
    BY <2>1
  <2>4. \A i \in 1 .. Len(preview_told') : i = Len(preview_told') \/ i \in 1 .. Len(preview_told)
    BY <2>1
  <2>5. m.what # "loaded" /\ (m.what = "result" => m.scene = f /\ m.texture = f)
    BY <1>2 DEF V!Msg
  <2> QED BY <2>1, <2>2, <2>3, <2>4, <2>5 DEF Words, LastWord, Word
<1> QED BY <1>1, <1>2

\* A preview ends: the upload was not sent before, and no other one is disturbed.
LEMMA EndKeeps ==
  ASSUME V!TypeOK, OneListens, Untouched, V!PreviewOwn, ~preview_late, ~preview_together,
         NEW u \in V!Upload, NEW p \in [scene : {0, u}, texture : {0, u}],
         V!Ends({u}, p), UNCHANGED <<preview_phase, preview_timers>>
  PROVE  /\ OneListens' /\ Untouched' /\ V!PreviewOwn'
         /\ preview_stage'[u] = "sent"
         /\ \A v \in V!Upload : v # u => preview_stage'[v] = preview_stage[v]
<1>1. preview_stage'[u] = "sent" /\ \A v \in V!Upload : v # u => preview_stage'[v] = preview_stage[v]
  BY DEF V!Ends
<1>2. OneListens'
  BY <1>1 DEF OneListens, V!Listeners
<1>3. Untouched'
  BY <1>1 DEF Untouched
<1>4. V!PreviewOwn'
  BY DEF V!Ends, V!PreviewOwn
<1> QED BY <1>1, <1>2, <1>3, <1>4

\* A step that leaves the renderer, the phases and the timers alone.
LEMMA RendererRests ==
  ASSUME UNCHANGED <<V!renderer, preview_phase, preview_timers>>
  PROVE  (Idle => Idle') /\ \A u \in V!Upload : Renders(u) => Renders(u)'
<1>1. UNCHANGED <<preview_asked, preview_told, preview_scene, preview_texture, preview_phase,
                  preview_timers>>
  BY DEF V!renderer
<1>2. Idle => Idle'
  BY <1>1 DEF Idle, NoTimer
<1>3. ASSUME NEW u \in V!Upload, Renders(u) PROVE Renders(u)'
  BY <1>1, <1>3 DEF Renders, Loading, Applying, Capturing, NoTimer, Words, Word, LastWord
<1> QED BY <1>2, <1>3

\* Waiting for the renderer, reading a file and giving it up.
LEMMA PageKeeps ==
  ASSUME V!WrapPreviewAssumption, V!TypeOK, InTurn, ~preview_late, ~preview_together,
         ~preview_late', ~preview_together',
         \/ V!GodotReady
         \/ \E u \in V!Upload : V!Start(u) \/ V!WaitForGodotReady(u) \/ V!ReaderLoaded(u)
              \/ V!AbortTimer(u)
  PROVE  InTurn'
<1> USE DEF InTurn
<1>1. CASE V!GodotReady
  <2>1. UNCHANGED <<V!renderer, preview_phase, preview_timers, preview_stage, preview_preview>>
    BY <1>1 DEF V!GodotReady
  <2>2. Pipe'
    BY <2>1, RendererRests DEF Pipe
  <2> QED BY <2>1, <2>2 DEF OneListens, V!Listeners, Untouched, V!PreviewOwn
<1>2. ASSUME NEW u \in V!Upload, V!Start(u) PROVE InTurn'
  <2>1. UNCHANGED <<V!renderer, preview_phase, preview_timers, preview_preview>>
        /\ preview_stage[u] = "no" /\ preview_stage'[u] = "wait"
        /\ \A v \in V!Upload : v # u => preview_stage'[v] = preview_stage[v]
    BY <1>2 DEF V!Start, V!TypeOK
  <2>2. Pipe'
    BY <2>1, RendererRests DEF Pipe
  <2>3. OneListens'
    BY <2>1 DEF OneListens, V!Listeners
  <2>4. Untouched'
    BY <2>1 DEF Untouched
  <2> QED BY <2>1, <2>2, <2>3, <2>4 DEF V!PreviewOwn
<1>3. ASSUME NEW u \in V!Upload, V!WaitForGodotReady(u) PROVE InTurn'
  <2>1. UNCHANGED <<V!renderer, preview_phase, preview_timers>> /\ preview_stage[u] = "wait"
    BY <1>3 DEF V!WaitForGodotReady
  <2>2. CASE V!Listeners = {} /\ preview_stage' = [preview_stage EXCEPT ![u] = "reading"]
             /\ UNCHANGED preview_preview
    <3>1. \A v \in V!Upload : preview_stage[v] # "rendering"
      BY <2>2 DEF V!Listeners
    <3>2. preview_stage'[u] = "reading"
          /\ \A v \in V!Upload : v # u => preview_stage'[v] = preview_stage[v]
      BY <2>2 DEF V!TypeOK
    <3>3. Pipe'
      BY <2>1, <3>1, <3>2, RendererRests DEF Pipe
    <3>4. OneListens'
      BY <2>2, <3>2 DEF OneListens, V!Listeners
    <3>5. Untouched'
      BY <2>1, <3>2 DEF Untouched
    <3> QED BY <2>2, <3>3, <3>4, <3>5 DEF V!PreviewOwn
  <2>3. CASE V!Ends({u}, V!NoPicture)
    <3>1. V!NoPicture \in [scene : {0, u}, texture : {0, u}]
      BY DEF V!NoPicture
    <3>2. /\ OneListens' /\ Untouched' /\ V!PreviewOwn' /\ preview_stage'[u] = "sent"
          /\ \A v \in V!Upload : v # u => preview_stage'[v] = preview_stage[v]
      BY <2>1, <2>3, <3>1, EndKeeps
    <3>3. Pipe'
      BY <2>1, <3>2, RendererRests DEF Pipe
    <3> QED BY <3>2, <3>3
  <2> QED BY <1>3, <2>2, <2>3 DEF V!WaitForGodotReady
<1>4. ASSUME NEW u \in V!Upload, V!ReaderLoaded(u) PROVE InTurn'
  <2>1. preview_stage[u] = "reading" /\ preview_stage'[u] = "rendering"
        /\ \A v \in V!Upload : v # u => preview_stage'[v] = preview_stage[v]
    BY <1>4 DEF V!ReaderLoaded, V!TypeOK
  <2>2. \A v \in V!Upload : preview_stage[v] # "rendering"
    BY <2>1 DEF OneListens, V!Listeners
  <2>3. Idle
    BY <2>2 DEF Pipe
  <2>4. preview_asked' = <<V!Msg("load", u, 0)>> /\ preview_told' = <<>>
    BY <1>4, <2>3 DEF V!ReaderLoaded, Idle
  <2>5. NoTimer("texture")' /\ NoTimer("capture")'
    BY <1>4, <2>3 DEF V!ReaderLoaded, Idle, NoTimer, V!Timer
  <2>6. preview_phase'[u] = "loading_scene"
    BY <1>4, <2>1 DEF V!ReaderLoaded, Untouched
  <2>7. Pipe'
    BY <2>1, <2>4, <2>5, <2>6 DEF Pipe, Renders, Loading
  <2>8. Untouched'
    BY <1>4, <2>1 DEF V!ReaderLoaded, Untouched, V!Timer
  <2>9. OneListens'
    BY <2>1 DEF OneListens, V!Listeners
  <2> QED BY <1>4, <2>7, <2>8, <2>9 DEF V!ReaderLoaded, V!PreviewOwn
<1>5. ASSUME NEW u \in V!Upload, V!AbortTimer(u) PROVE InTurn'
  <2>1. /\ ~V!Owed /\ u \in V!Listeners /\ V!Ends({u}, V!NoPicture)
        /\ UNCHANGED <<V!renderer, preview_phase, preview_timers>>
    BY <1>5 DEF V!AbortTimer
  <2>2. V!NoPicture \in [scene : {0, u}, texture : {0, u}]
    BY DEF V!NoPicture
  <2>3. /\ OneListens' /\ Untouched' /\ V!PreviewOwn' /\ preview_stage'[u] = "sent"
        /\ \A v \in V!Upload : v # u => preview_stage'[v] = preview_stage[v]
    BY <2>1, <2>2, EndKeeps
  <2>4. Idle
    BY <2>1 DEF V!Owed, Idle, NoTimer, V!TypeOK
  <2>5. \A v \in V!Upload : preview_stage'[v] # "rendering"
    BY <2>1, <2>3 DEF OneListens, V!Listeners
  <2>6. Pipe'
    BY <2>1, <2>4, <2>5, RendererRests DEF Pipe
  <2> QED BY <2>3, <2>6
<1> QED BY <1>1, <1>2, <1>3, <1>4, <1>5

\* A queue of one message and another.
LEMMA OneMore ==
  ASSUME NEW a \in V!Message, NEW b \in V!Message
  PROVE  Append(<<a>>, b) = <<a, b>>
<1> DEFINE s == Append(<<a>>, b)
<1>1. s \in Seq(V!Message) /\ Len(s) = 2 /\ s[1] = a /\ s[2] = b
  OBVIOUS
<1>2. <<a, b>> \in Seq(V!Message) /\ Len(<<a, b>>) = 2
  OBVIOUS
<1>3. \A i \in 1 .. 2 : s[i] = <<a, b>>[i]
  BY <1>1
<1> HIDE DEF s
<1>4. s = <<a, b>>
  BY <1>1, <1>2, <1>3, SeqEqual
<1> QED BY <1>4 DEF s

\* Timers: that of the scene only fires late, the others ask the renderer for one thing more.
LEMMA TimersKeep ==
  ASSUME V!WrapPreviewAssumption, V!TypeOK, InTurn, ~preview_late, ~preview_together,
         ~preview_late', NEW f \in V!Upload,
         V!SceneTimer(f) \/ V!TextureTimer(f) \/ V!CaptureTimer(f)
  PROVE  InTurn'
<1> USE DEF InTurn
<1>0. UNCHANGED <<preview_stage, preview_preview, preview_together>> /\ OneListens' /\ V!PreviewOwn'
  BY DEF V!SceneTimer, V!TextureTimer, V!CaptureTimer, OneListens, V!Listeners, V!PreviewOwn
<1>1. CASE V!SceneTimer(f)
  <2>1. preview_timers' \subseteq preview_timers /\ UNCHANGED preview_phase
    BY <1>1 DEF V!SceneTimer
  <2>2. Untouched'
    BY <1>1, <2>1 DEF V!SceneTimer, Untouched
  <2>3. Idle => Idle'
    BY <1>1, <2>1 DEF V!SceneTimer, V!renderer, Idle, NoTimer
  <2>4. ASSUME NEW u \in V!Upload, Renders(u) PROVE Renders(u)'
    BY <1>1, <2>1, <2>4 DEF V!SceneTimer, V!renderer, Renders, Loading, Applying, Capturing,
       NoTimer, Words, Word, LastWord
  <2>5. Pipe'
    BY <1>0, <2>3, <2>4 DEF Pipe
  <2> QED BY <1>0, <2>2, <2>5
<1>2. CASE V!TextureTimer(f)
  <2>1. V!Timer("texture", f) \in preview_timers
    BY <1>2 DEF V!TextureTimer
  <2>2. preview_stage[f] = "rendering" /\ Applying(f)
    BY <2>1 DEF Pipe, Renders, Idle, Loading, Applying, Capturing, NoTimer, V!Timer
  <2>3. preview_asked' = <<V!Msg("texture", 0, f)>> /\ preview_told' = preview_told
    BY <1>2, <2>2 DEF V!TextureTimer, Applying
  <2>4. \A t \in preview_timers' : t.what # "texture" /\ (t.what = "capture" => t.file = f)
    <3>1. \A t \in preview_timers : t.what = "texture" => t = V!Timer("texture", f)
      BY <2>2 DEF Applying, V!TypeOK, V!Timer
    <3> QED BY <1>2, <2>2, <3>1 DEF V!TextureTimer, Applying, NoTimer, V!Timer
  <2>5. preview_phase'[f] = "capturing" /\ preview_scene' = f /\ Words'
    BY <1>2, <2>2 DEF V!TextureTimer, Applying, V!TypeOK, Words, Word
  <2>6. Pipe'
    BY <1>0, <1>2, <2>2, <2>3, <2>4, <2>5 DEF V!TextureTimer, Pipe, Renders, Capturing, NoTimer
  <2>7. Untouched'
    BY <1>0, <1>2, <2>2 DEF V!TextureTimer, Untouched, V!Timer, V!TypeOK
  <2> QED BY <1>0, <2>6, <2>7
<1>3. CASE V!CaptureTimer(f)
  <2>1. V!Timer("capture", f) \in preview_timers
    BY <1>3 DEF V!CaptureTimer
  <2>2. preview_stage[f] = "rendering" /\ Capturing(f) /\ ~NoTimer("capture")
    BY <2>1 DEF Pipe, Renders, Idle, Loading, Applying, Capturing, NoTimer, V!Timer
  <2>3. /\ Words /\ (preview_asked = <<V!Msg("texture", 0, f)>>
                     \/ (preview_asked = <<>> /\ preview_texture = f))
        /\ NoTimer("texture") /\ preview_phase[f] = "capturing" /\ preview_scene = f
    BY <2>2 DEF Capturing
  <2>4. \/ preview_asked' = <<V!Msg("texture", 0, f), V!Msg("capture", 0, 0)>>
        \/ preview_asked' = <<V!Msg("capture", 0, 0)>> /\ preview_texture' = f
    <3>1. preview_asked' = Append(preview_asked, V!Msg("capture", 0, 0))
          /\ preview_texture' = preview_texture
      BY <1>3 DEF V!CaptureTimer
    <3>2. CASE preview_asked = <<V!Msg("texture", 0, f)>>
      <4>1. V!Msg("texture", 0, f) \in V!Message /\ V!Msg("capture", 0, 0) \in V!Message
        BY MsgType DEF V!Upload, V!Whose, V!WrapPreviewAssumption
      <4> QED BY <3>1, <3>2, <4>1, OneMore
    <3>3. CASE preview_asked = <<>> /\ preview_texture = f
      BY <3>1, <3>3
    <3> QED BY <2>3, <3>2, <3>3
  <2>5. NoTimer("capture")' /\ NoTimer("texture")'
    <3>1. \A t \in preview_timers : t.what = "capture" => t = V!Timer("capture", f)
      BY <2>2 DEF Capturing, V!TypeOK, V!Timer
    <3> QED BY <1>3, <2>3, <3>1 DEF V!CaptureTimer, NoTimer
  <2>6. Words'
    BY <1>3, <2>3 DEF V!CaptureTimer, Words, Word
  <2>7. Pipe'
    BY <1>0, <1>3, <2>2, <2>3, <2>4, <2>5, <2>6
       DEF V!CaptureTimer, Pipe, Renders, Capturing, NoTimer
  <2>8. Untouched'
    BY <1>0, <1>3 DEF V!CaptureTimer, Untouched
  <2> QED BY <1>0, <2>7, <2>8
<1> QED BY <1>1, <1>2, <1>3

\* The renderer does the first thing it was asked, with what it has loaded.
LEMMA GodotKeeps ==
  ASSUME V!WrapPreviewAssumption, V!TypeOK, InTurn, V!Godot
  PROVE  InTurn'
<1> USE DEF InTurn
<1>1. UNCHANGED <<preview_stage, preview_phase, preview_timers, preview_preview, preview_late,
                  preview_together>> /\ preview_asked # <<>>
  BY DEF V!Godot
<1>2. OneListens' /\ Untouched' /\ V!PreviewOwn'
  BY <1>1 DEF OneListens, V!Listeners, Untouched, V!PreviewOwn
<1>3. PICK u \in V!Upload : preview_stage[u] = "rendering" /\ Renders(u)
  BY <1>1 DEF Pipe, Idle
<1>4. preview_Uploads \in Nat /\ u \in V!Whose /\ 0 \in V!Whose /\ ~Applying(u)
  BY <1>1 DEF V!Upload, V!Whose, V!WrapPreviewAssumption, Applying
<1>7. Renders(u)' => InTurn'
  BY <1>1, <1>2, <1>3 DEF Pipe
<1>5. CASE Loading(u)
  <2>1. preview_asked = <<V!Msg("load", u, 0)>> /\ preview_told = <<>> /\ Words
    BY <1>1, <1>5 DEF Loading, Words
  <2>2. Head(preview_asked).what = "load" /\ Head(preview_asked).scene = u
        /\ preview_asked' = <<>>
    BY <2>1 DEF V!Msg, V!Godot
  <2>3. PICK n \in 1 .. 2 : preview_told' = preview_told \o [k \in 1 .. n |-> V!Msg("loaded",
        u, 0)]
    BY <2>2 DEF V!Godot
  <2>4. Words' /\ preview_scene' = u
    BY <1>4, <2>1, <2>2, <2>3, WordsGrow, MsgType DEF V!TypeOK, V!Godot
  <2> QED BY <1>1, <1>5, <1>7, <2>2, <2>4 DEF Renders, Loading, NoTimer
<1>6. CASE Capturing(u)
  <2>1. preview_phase[u] = "capturing" /\ NoTimer("texture")
        /\ preview_scene = u /\ Words
    BY <1>1, <1>6 DEF Capturing
  <2>2. CASE preview_asked = <<V!Msg("texture", 0, u)>>
             \/ preview_asked = <<V!Msg("texture", 0, u), V!Msg("capture", 0, 0)>>
    <3>1. Head(preview_asked).what = "texture" /\ Head(preview_asked).texture = u
      BY <2>2 DEF V!Msg
    <3>2. preview_texture' = u /\ preview_scene' = preview_scene
          /\ preview_told' = preview_told
      BY <3>1 DEF V!Godot
    <3>3. preview_asked' = Tail(preview_asked)
      BY DEF V!Godot
    <3>4. preview_asked' = <<>> \/ (preview_asked' = <<V!Msg("capture", 0, 0)>>
                                    /\ NoTimer("capture"))
      <4>1. CASE preview_asked = <<V!Msg("texture", 0, u)>>
        BY <4>1, <3>3
      <4>2. CASE preview_asked = <<V!Msg("texture", 0, u), V!Msg("capture", 0, 0)>>
        <5>1. NoTimer("capture")
          BY <1>6, <4>2 DEF Capturing
        <5> QED BY <4>2, <3>3, <5>1
      <4> QED BY <2>2, <4>1, <4>2
    <3>5. Words' /\ \A t \in preview_timers : t.what = "capture" => t.file = u
      BY <1>6, <2>1, <3>2 DEF Words, Word, Capturing
    <3> QED BY <1>1, <1>7, <2>1, <3>2, <3>4, <3>5 DEF Renders, Capturing, NoTimer
  <2>3. CASE preview_asked = <<V!Msg("capture", 0, 0)>> /\ preview_texture = u
             /\ NoTimer("capture")
    <3>1. Head(preview_asked).what = "capture"
      BY <2>3 DEF V!Msg
    <3>2. \/ preview_told' = preview_told
          \/ preview_told' = Append(preview_told, V!Msg("result", u, u))
          \/ preview_told' = Append(preview_told, V!Msg("error", 0, 0))
      BY <2>1, <2>3, <3>1 DEF V!Godot
    <3>3. LastWord(u)'
      BY <2>1, <3>2, WordsEnd DEF V!TypeOK
    <3>4. preview_asked' = <<>> /\ preview_scene' = preview_scene
      BY <2>3, <3>1 DEF V!Godot
    <3> QED BY <1>1, <1>6, <1>7, <2>1, <2>3, <3>3, <3>4
           DEF Renders, Capturing, NoTimer, LastWord, Word
  <2>4. \/ preview_asked = <<V!Msg("texture", 0, u)>>
             \/ preview_asked = <<V!Msg("texture", 0, u), V!Msg("capture", 0, 0)>>
        \/ preview_asked = <<V!Msg("capture", 0, 0)>> /\ preview_texture = u
             /\ NoTimer("capture")
    BY <1>1, <1>6 DEF Capturing
  <2> QED BY <2>2, <2>3, <2>4
<1> QED BY <1>3, <1>4, <1>5, <1>6 DEF Renders

\* The next message is of the one upload that listens, as long as nothing is late.
LEMMA HandlerKeeps ==
  ASSUME V!WrapPreviewAssumption, V!TypeOK, InTurn, ~preview_late, ~preview_together, V!Handler
  PROVE  InTurn'
<1> USE DEF InTurn
<1>1. preview_told # <<>> /\ preview_told' = Tail(preview_told)
      /\ UNCHANGED <<preview_asked, preview_scene, preview_texture, preview_late,
                     preview_together>>
  BY DEF V!Handler
<1>2. PICK u \in V!Upload : preview_stage[u] = "rendering" /\ Renders(u)
  BY <1>1 DEF Pipe, Idle
<1>3. preview_told \in Seq(V!Message)
  BY DEF V!TypeOK
<1>4. V!Listeners = {u}
  <2>1. u \in V!Listeners
    BY <1>2 DEF V!Listeners
  <2> QED BY <2>1 DEF OneListens, V!Listeners
<1>5. CASE Word(Head(preview_told))
  <2>1. /\ UNCHANGED <<preview_stage, preview_preview>>
        /\ preview_phase' = [v \in V!Upload |-> IF v = u /\ preview_phase[u] = "loading_scene"
                                                 THEN "applying_texture" ELSE preview_phase[v]]
        /\ preview_timers' = IF preview_phase[u] = "loading_scene"
                             THEN preview_timers \cup {V!Timer("texture", u)}
                             ELSE preview_timers
    <3> DEFINE first == {v \in V!Listeners : V!FirstWord(v)}
    <3>1. /\ UNCHANGED <<preview_stage, preview_preview>>
          /\ preview_phase' = [v \in V!Upload |-> IF v \in first THEN "applying_texture"
                                                   ELSE preview_phase[v]]
          /\ preview_timers' = preview_timers \cup {V!Timer("texture", v) :
                                 v \in {w \in first : preview_stage[w] = "rendering"}}
      BY <1>5 DEF V!Handler, Word
    <3>2. first = IF preview_phase[u] = "loading_scene" THEN {u} ELSE {}
      BY <1>4 DEF V!FirstWord
    <3>3. {w \in first : preview_stage[w] = "rendering"} = first
      BY <1>2, <3>2
    <3>4. {V!Timer("texture", v) : v \in first}
            = IF preview_phase[u] = "loading_scene" THEN {V!Timer("texture", u)} ELSE {}
      BY <3>2
    <3> HIDE DEF first
    <3> QED BY <3>1, <3>2, <3>3, <3>4
  <2>2. OneListens' /\ V!PreviewOwn'
    BY <1>1, <2>1 DEF OneListens, V!Listeners, V!PreviewOwn
  <2>3. Untouched'
    <3> SUFFICES ASSUME NEW v \in V!Upload, preview_stage[v] \in {"no", "wait", "reading"}
                 PROVE  preview_phase'[v] = "loading_scene"
                        /\ \A t \in preview_timers' : t.file # v
      BY <2>1 DEF Untouched
    <3>1. v # u /\ preview_phase[v] = "loading_scene" /\ \A t \in preview_timers : t.file # v
      BY <1>2 DEF Untouched
    <3> QED BY <2>1, <3>1 DEF V!Timer
  <2>4. CASE Loading(u)
    <3>1. preview_asked = <<>> /\ preview_scene = u /\ Words'
      BY <1>1, <1>3, <2>4, WordsTail DEF Loading
    <3>2. preview_phase'[u] = "applying_texture"
          /\ preview_timers' = preview_timers \cup {V!Timer("texture", u)}
      BY <2>1, <2>4 DEF Loading
    <3>3. Applying(u)'
      BY <1>1, <2>4, <3>1, <3>2 DEF Loading, Applying, NoTimer, V!Timer
    <3> QED BY <1>2, <2>1, <2>2, <2>3, <3>3 DEF Pipe, Renders
  <2>5. CASE Applying(u) \/ Capturing(u)
    <3>1. UNCHANGED <<preview_phase, preview_timers>>
      BY <2>1, <2>5 DEF Applying, Capturing, V!TypeOK
    <3>2. Words => Words'
      BY <1>1, <1>3, WordsTail
    <3>3. LastWord(u) => LastWord(u)'
      BY <1>1, <1>3, LastTail
    <3>4. Renders(u)'
      <4>1. CASE Applying(u)
        BY <1>1, <3>1, <3>2, <4>1 DEF Renders, Applying, NoTimer
      <4>2. CASE Capturing(u)
        BY <1>1, <3>1, <3>2, <3>3, <4>2 DEF Renders, Capturing, NoTimer
      <4> QED BY <2>5, <4>1, <4>2
    <3> QED BY <1>2, <2>1, <2>2, <2>3, <3>4 DEF Pipe
  <2> QED BY <1>2, <2>4, <2>5 DEF Renders
<1>6. CASE ~Word(Head(preview_told))
  <2>1. ~Words
    BY <1>1, <1>3, <1>6, WordsTail
  <2>2. Capturing(u) /\ preview_asked = <<>> /\ LastWord(u)
        /\ NoTimer("texture") /\ NoTimer("capture")
    BY <1>1, <1>2, <2>1 DEF Renders, Loading, Applying, Capturing, Words
  <2>3. preview_told' = <<>> /\ (Head(preview_told).what = "result"
                                 => Head(preview_told).scene = u
                                   /\ Head(preview_told).texture = u)
    BY <1>1, <1>3, <1>6, <2>2, LastTail
  <2>4. UNCHANGED <<preview_phase, preview_timers>>
        /\ \/ Head(preview_told).what = "result"
              /\ V!Ends({u}, [scene |-> Head(preview_told).scene,
                              texture |-> Head(preview_told).texture])
           \/ V!Ends({u}, V!NoPicture)
    BY <1>4, <1>6 DEF V!Handler, Word
  <2>5. PICK p \in [scene : {0, u}, texture : {0, u}] : V!Ends({u}, p)
    BY <2>3, <2>4 DEF V!NoPicture
  <2>6. Idle'
    BY <1>1, <2>2, <2>3, <2>4 DEF Idle, NoTimer
  <2>7. /\ OneListens' /\ Untouched' /\ V!PreviewOwn' /\ preview_stage'[u] = "sent"
        /\ \A v \in V!Upload : v # u => preview_stage'[v] = preview_stage[v]
    BY <2>4, <2>5, EndKeeps
  <2>8. \A v \in V!Upload : preview_stage'[v] # "rendering"
    BY <1>4, <2>7 DEF V!Listeners
  <2> QED BY <2>6, <2>7, <2>8 DEF Pipe
<1> QED BY <1>5, <1>6

LEMMA PreviewNext == V!WrapPreviewAssumption /\ PreviewInv /\ [V!Next]_(V!vars) => PreviewInv'
<1> SUFFICES ASSUME V!WrapPreviewAssumption, PreviewInv, [V!Next]_(V!vars) PROVE PreviewInv'
  OBVIOUS
<1>1. CASE V!Next
  <2>1. V!TypeOK'
    BY <1>1, PreviewTypes DEF PreviewInv
  <2>2. ASSUME ~preview_late', ~preview_together' PROVE ~preview_late /\ ~preview_together
    <3>1. CASE V!GodotReady \/ V!Godot \/ V!Handler
      BY <2>2, <3>1 DEF V!GodotReady, V!Godot, V!Handler
    <3>2. ASSUME NEW u \in V!Upload, V!Start(u) \/ V!WaitForGodotReady(u) \/ V!ReaderLoaded(u)
                   \/ V!AbortTimer(u)
          PROVE  ~preview_late /\ ~preview_together
      <4>1. preview_late \in BOOLEAN /\ preview_together \in BOOLEAN
        BY DEF PreviewInv, V!TypeOK
      <4>2. CASE V!Start(u) \/ V!ReaderLoaded(u)
        BY <2>2, <4>2 DEF V!Start, V!ReaderLoaded
      <4>3. CASE V!WaitForGodotReady(u)
        BY <2>2, <4>1, <4>3 DEF V!WaitForGodotReady
      <4>4. CASE V!AbortTimer(u)
        BY <2>2, <4>1, <4>4 DEF V!AbortTimer
      <4> QED BY <3>2, <4>2, <4>3, <4>4
    <3>3. ASSUME NEW f \in V!Upload, V!SceneTimer(f) \/ V!TextureTimer(f) \/ V!CaptureTimer(f)
          PROVE  ~preview_late /\ ~preview_together
      BY <2>2, <3>3 DEF V!SceneTimer, V!TextureTimer, V!CaptureTimer
    <3> QED BY <1>1, <3>1, <3>2, <3>3 DEF V!Next, V!Page, V!Timeouts
  <2>3. ~preview_late' /\ ~preview_together' => InTurn'
    BY <1>1, <2>2, PageKeeps, TimersKeep, GodotKeeps, HandlerKeeps
       DEF V!Next, V!Page, V!Timeouts, PreviewInv
  <2> QED BY <2>1, <2>3 DEF PreviewInv
<1>2. CASE UNCHANGED V!vars
  <2>1. InTurn => InTurn'
    BY <1>2, RendererRests DEF V!vars, V!renderer, InTurn, OneListens, V!Listeners, Untouched,
       Pipe, V!PreviewOwn
  <2> QED BY <1>2, <2>1 DEF V!vars, PreviewInv, V!TypeOK
<1> QED BY <1>1, <1>2

\* The part keeps to its own specification.
LEMMA PreviewSpec == Spec => V!Spec
<1>1. Init => V!Init
  BY DEF Init
<1>2. [Next]_vars => [V!Next]_(V!vars)
  BY DEF Next, vars, Alone, previewVars, V!vars
<1> QED BY <1>1, <1>2, PTL DEF Spec, V!Spec

\* As long as one preview is under way at a time, and nothing is given up while the renderer
\* still owes an answer, a wrap is sent with the picture of its own scene and texture or with
\* none, although its listener hears every message of the renderer (CommunityWraps.tsx).
THEOREM PicturesOwn == Spec => []PreviewOwn
<1>1. V!WrapPreviewAssumption
  BY WebAssumption DEF WebAssumption
<1>2. PreviewInv => PreviewOwn
  BY DEF PreviewInv, InTurn, PreviewOwn, V!PreviewOwn
<1> QED BY <1>1, <1>2, PreviewInit, PreviewNext, PreviewSpec, PTL DEF V!Spec

\* The types of the part
LEMMA PreviewKeepsTypes == Spec => []V!TypeOK
<1>1. V!WrapPreviewAssumption
  BY WebAssumption DEF WebAssumption
<1>2. PreviewInv => V!TypeOK
  BY DEF PreviewInv
<1> QED BY <1>1, <1>2, PreviewInit, PreviewNext, PreviewSpec, PTL DEF V!Spec
=============================================================================
