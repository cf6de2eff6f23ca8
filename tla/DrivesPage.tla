----------------------------- MODULE DrivesPage -----------------------------
(***************************************************************************)
(* The drive map of the web interface (web/src/pages/Drives.tsx): a list   *)
(* of drives with their tags, the panel of the drive that is selected,     *)
(* which is filled when its answer comes, and the playback of a route.     *)
(* A drive is its start time, by which the server keeps its tags.  The     *)
(* number the page knows it by is its position among the drives that are   *)
(* there, counted anew for each request: a drive that is imported before   *)
(* others moves their numbers.  Tags are saved by both: the list and the   *)
(* panel are changed by the number, the server by the start time.          *)
(***************************************************************************)
EXTENDS Naturals, FiniteSets

CONSTANTS
  Drives, Tags,
  None, Sent,  \* no value, and a request that was not read yet
  Points,      \* points of the route of every drive
  MaxActs      \* bound on what the user does

DrivesPageAssumption ==
  /\ Drives \subseteq Nat /\ IsFiniteSet(Drives) /\ None \notin Nat \cup {Sent}
  /\ Points \in Nat \ {0} /\ MaxActs \in Nat

VARIABLES
  there,       \* server: the drives it has
  stored,      \* server: the tags of each start time
  asked,       \* the tags the user has added to a drive that was shown to him
  list,        \* drives: tags of each drive that was read, or None before they are
  load,        \* loadDrives under way: None, Sent or the tags it has read
  selectedId,  \* a number, or None
  detail,      \* selectedDrive: the drive and its tags, or None
  details,     \* requests for a drive, by number: None, Sent or the drive read
  saves,       \* requests to store tags that are under way
  sliderIdx,
  playing,     \* the drive a timer plays, or None
  acts,
  crossed, mixed, lost

user == <<acts, selectedId>>
marks == <<crossed, mixed, lost>>
slider == <<sliderIdx, playing>>
vars == <<there, stored, asked, list, load, detail, details, saves, slider, user, marks>>

Tagging == [Drives -> SUBSET Tags]

\* tags of the drives of a part
Listing == UNION {[part -> SUBSET Tags] : part \in SUBSET Drives}

Detail == [start : Drives, tags : SUBSET Tags]

Numbers == 0 .. Cardinality(Drives)

\* the number of a drive among those of a part: they are grouped in the order of time
Number(d, part) == Cardinality({e \in part : e < d})

TypeOK ==
  /\ there \subseteq Drives /\ stored \in Tagging /\ asked \in Tagging
  /\ list \in Listing \cup {None} /\ load \in Listing \cup {None, Sent}
  /\ selectedId \in Numbers \cup {None} /\ detail \in Detail \cup {None}
  /\ details \in [Numbers -> Detail \cup {None, Sent}]
  /\ saves \subseteq [drive : Drives, tags : SUBSET Tags]
  /\ sliderIdx \in 0 .. Points - 1 /\ playing \in Drives \cup {None}
  /\ acts \in 0 .. MaxActs
  /\ crossed \in BOOLEAN /\ mixed \in BOOLEAN /\ lost \in BOOLEAN

Act == acts < MaxActs /\ acts' = acts + 1

-----------------------------------------------------------------------------
(* The list: loaded at the start, and again after a job                    *)

\* drives are added by an import or by the processing of new clips
Import(d) ==
  /\ d \notin there /\ there' = there \cup {d}
  /\ UNCHANGED <<stored, asked, list, load, detail, details, saves, slider, user, marks>>

LoadDrives ==
  /\ load = None /\ Act
  /\ load' = Sent /\ crossed' = (crossed \/ saves # {})
  /\ UNCHANGED <<there, stored, asked, list, selectedId, detail, details, saves, slider, mixed, lost>>

LoadRead ==
  /\ load = Sent /\ load' = [d \in there |-> stored[d]]
  /\ UNCHANGED <<there, stored, asked, list, detail, details, saves, slider, user, marks>>

LoadEnds ==
  /\ load # None
  /\ \/ load # Sent /\ list' = load
     \/ UNCHANGED list
  /\ load' = None
  /\ UNCHANGED <<there, stored, asked, detail, details, saves, slider, user, marks>>

\* the rows; the lines on the map are taken to be read with them
Rows == IF list = None THEN {} ELSE DOMAIN list

RowNumber(d) == Number(d, DOMAIN list)

-----------------------------------------------------------------------------
(* One drive                                                               *)

\* selectDrive, and the effect that stops the playback when the number changes; a
\* request for the same number that is still under way is not told from the new one
SelectDrive(d) ==
  LET i == RowNumber(d)
  IN /\ d \in Rows /\ Act /\ details[i] = None
     /\ selectedId' = i /\ sliderIdx' = 0
     /\ playing' = IF selectedId = i THEN playing ELSE None
     /\ details' = [details EXCEPT ![i] = Sent]
     /\ UNCHANGED <<there, stored, asked, list, load, detail, saves, marks>>

\* singleDrive at the server: the drive that has the number by now
DetailRead(i) ==
  /\ details[i] = Sent
  /\ \E d \in there : Number(d, there) = i
        /\ details' = [details EXCEPT ![i] = [start |-> d, tags |-> stored[d]]]
  /\ UNCHANGED <<there, stored, asked, list, load, detail, saves, slider, user, marks>>

\* the answer is shown whatever is selected by now; an error is ignored
DetailComes(i) ==
  /\ details[i] # None
  /\ \/ details[i] # Sent /\ detail' = details[i]
     \/ UNCHANGED detail
  /\ details' = [details EXCEPT ![i] = None]
  /\ UNCHANGED <<there, stored, asked, list, load, saves, slider, user, marks>>

GoBack ==
  /\ selectedId # None /\ Act
  /\ selectedId' = None /\ detail' = None /\ playing' = None
  /\ UNCHANGED <<there, stored, asked, list, load, details, saves, sliderIdx, marks>>

PanelShown == detail # None

-----------------------------------------------------------------------------
(* Tags                                                                    *)

InList(id, tags) == [d \in DOMAIN list |-> IF RowNumber(d) = id THEN tags ELSE list[d]]

\* the number means the drive that starts then, in the list and in the panel
Means(id, start) ==
  /\ id # None
  /\ \A d \in Rows : RowNumber(d) = id <=> d = start
  /\ PanelShown /\ selectedId = id => detail.start = start

\* saveTags: the list and the panel at once, by number; then the request, which is
\* refused when it has no number (a panel that is filled after the user went back)
SaveTags(id, start, tags) ==
  /\ list' = IF list = None THEN list ELSE InList(id, tags)
  /\ detail' = IF PanelShown /\ selectedId = id THEN [detail EXCEPT !.tags = tags] ELSE detail
  /\ saves' = IF id = None THEN saves ELSE saves \cup {[drive |-> start, tags |-> tags]}
  /\ crossed' = (crossed \/ load # None \/ \E s \in saves : s.drive = start)
  /\ mixed' = (mixed \/ ~Means(id, start))
  /\ UNCHANGED <<there, stored, load, selectedId, details, slider, lost>>

Asks(d, t) == asked' = [asked EXCEPT ![d] = @ \cup {t}]

\* Mutant: a row begins with the tags of the panel.
PanelTags(d) == IF PanelShown THEN detail.tags ELSE list[d]

RowTags(d) == list[d]

\* addTagToDrive and removeTagFromDrive in a row of the list
RowAdd(d, t) ==
  /\ d \in Rows /\ Act /\ t \notin RowTags(d)
  /\ SaveTags(RowNumber(d), d, RowTags(d) \cup {t}) /\ Asks(d, t)

RowRemove(d, t) ==
  /\ d \in Rows /\ Act /\ t \in RowTags(d)
  /\ SaveTags(RowNumber(d), d, RowTags(d) \ {t}) /\ UNCHANGED asked

\* and in the panel
PanelAdd(t) ==
  /\ PanelShown /\ Act /\ t \notin detail.tags
  /\ SaveTags(selectedId, detail.start, detail.tags \cup {t}) /\ Asks(detail.start, t)

PanelRemove(t) ==
  /\ PanelShown /\ Act /\ t \in detail.tags
  /\ SaveTags(selectedId, detail.start, detail.tags \ {t}) /\ UNCHANGED asked

\* SetDriveTags at the server, by the start time; an error is ignored by the page
Stored(s) ==
  /\ saves' = saves \ {s}
  /\ \/ stored' = [stored EXCEPT ![s.drive] = s.tags] /\ UNCHANGED lost
     \/ lost' = TRUE /\ UNCHANGED stored
  /\ UNCHANGED <<there, asked, list, load, detail, details, slider, user, crossed, mixed>>

-----------------------------------------------------------------------------
(* Playback                                                                *)

HandleSlider(i) ==
  /\ PanelShown /\ Act /\ sliderIdx' = i /\ playing' = None
  /\ UNCHANGED <<there, stored, asked, list, load, selectedId, detail, details, saves, marks>>

\* toggleSliderPlay: the timer keeps the drive that was shown when it was started
TogglePlay ==
  /\ PanelShown /\ Act
  /\ playing' = IF playing = None THEN detail.start ELSE None
  /\ sliderIdx' = IF playing = None /\ sliderIdx >= Points - 1 THEN 0 ELSE sliderIdx
  /\ UNCHANGED <<there, stored, asked, list, load, selectedId, detail, details, saves, marks>>

\* Mutant: the last point is not the end.
PastLast(next) == next > Points

AtEnd(next) == next >= Points

Tick ==
  /\ playing # None
  /\ IF AtEnd(sliderIdx + 1) THEN playing' = None /\ sliderIdx' = Points - 1
     ELSE sliderIdx' = sliderIdx + 1 /\ UNCHANGED playing
  /\ UNCHANGED <<there, stored, asked, list, load, detail, details, saves, user, marks>>

-----------------------------------------------------------------------------
Init ==
  /\ there \in SUBSET Drives \ {{}}
  /\ stored = [d \in Drives |-> {}] /\ asked = stored
  /\ list = None /\ load = Sent
  /\ selectedId = None /\ detail = None /\ details = [i \in Numbers |-> None]
  /\ saves = {} /\ sliderIdx = 0 /\ playing = None /\ acts = 0
  /\ crossed = FALSE /\ mixed = FALSE /\ lost = FALSE

Answers(i) == DetailRead(i) \/ DetailComes(i)

Next ==
  \/ LoadDrives \/ LoadRead \/ LoadEnds \/ GoBack \/ TogglePlay \/ Tick
  \/ \E i \in 0 .. Points - 1 : HandleSlider(i)
  \/ \E d \in Drives : Import(d) \/ SelectDrive(d)
  \/ \E i \in Numbers : Answers(i)
  \/ \E d \in Drives, t \in Tags : RowAdd(d, t) \/ RowRemove(d, t)
  \/ \E t \in Tags : PanelAdd(t) \/ PanelRemove(t)
  \/ \E s \in saves : Stored(s)

Spec == Init /\ [][Next]_vars

-----------------------------------------------------------------------------
(* Properties                                                              *)

\* A drive has no tag at the server but those the user gave to that drive, as long as
\* no tags were saved under a number that means another drive: in a list that is older
\* or newer than the panel (an import moves the numbers), in a panel that is filled by
\* a late answer, or after the user went back.
TagsOwn == ~mixed => \A d \in Drives : stored[d] \subseteq asked[d]

\* Once all requests are answered, the list says of the drives it has what the server
\* does, as far as none of them failed and none was under way together with another
\* about the same drive: the list is never asked for again after tags were saved.
ListAgrees ==
  ~mixed /\ ~crossed /\ ~lost /\ saves = {} /\ list # None
    => \A d \in DOMAIN list : list[d] = stored[d]
=============================================================================
