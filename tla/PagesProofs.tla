---------------------------- MODULE PagesProofs ----------------------------
(*****************************************************************************)
(* Proofs about the drive map, the processing of drives and its migration,   *)
(* the upload dialog and the file browser.                                   *)
(*****************************************************************************)
EXTENDS Web, FiniteSetTheorems, TLAPS

-----------------------------------------------------------------------------
(*****************************************************************************)
(* The drive map (DrivesPage)                                                *)
(*****************************************************************************)

-----------------------------------------------------------------------------
(* The invariant.  Wherever tags are on their way, from the server to the list or to   *)
(* the panel, or from there to the server, they are tags the user gave to the drive    *)
(* they go with.                                                                       *)
SaveMsg == [drive : drives_Drives, tags : SUBSET drives_Tags]

\* The types of what carries tags.
DataOK ==
  /\ drives_there \subseteq drives_Drives
  /\ drives_stored \in D!Tagging /\ drives_asked \in D!Tagging
  /\ drives_list \in D!Listing \cup {NoValue}
  /\ drives_load \in D!Listing \cup {NoValue, Unread}
  /\ drives_selectedId \in D!Numbers \cup {NoValue}
  /\ drives_detail \in D!Detail \cup {NoValue}
  /\ drives_details \in [D!Numbers -> D!Detail \cup {NoValue, Unread}]
  /\ drives_saves \subseteq SaveMsg
  /\ drives_mixed \in BOOLEAN

OwnStored == \A d \in drives_Drives : drives_stored[d] \subseteq drives_asked[d]
OwnRows == drives_list # NoValue
  => \A d \in DOMAIN drives_list : drives_list[d] \subseteq drives_asked[d]
OwnLoad == drives_load \notin {NoValue, Unread}
  => \A d \in DOMAIN drives_load : drives_load[d] \subseteq drives_asked[d]
OwnPanel == drives_detail # NoValue
  => drives_detail.tags \subseteq drives_asked[drives_detail.start]
OwnDetails == \A i \in D!Numbers : drives_details[i] \notin {NoValue, Unread}
  => drives_details[i].tags \subseteq drives_asked[drives_details[i].start]
OwnSaves == \A s \in drives_saves : s.tags \subseteq drives_asked[s.drive]
Own == OwnStored /\ OwnRows /\ OwnLoad /\ OwnPanel /\ OwnDetails /\ OwnSaves

TagInv == DataOK /\ (~drives_mixed => Own)

-----------------------------------------------------------------------------
(* Lists and numbers                                                       *)

\* A list gives tags to the drives of a part.
LEMMA ListingIs ==
  ASSUME NEW l \in D!Listing
  PROVE  DOMAIN l \subseteq drives_Drives /\ l \in [DOMAIN l -> SUBSET drives_Tags]
<1>1. PICK part \in SUBSET drives_Drives : l \in [part -> SUBSET drives_Tags]
  BY DEF D!Listing
<1> QED BY <1>1

LEMMA IsListing ==
  ASSUME NEW part \in SUBSET drives_Drives, NEW l \in [part -> SUBSET drives_Tags]
  PROVE  l \in D!Listing
  BY DEF D!Listing

\* A position among some of the drives is a number.
LEMMA NumberTypes ==
  ASSUME D!DrivesPageAssumption, NEW part \in SUBSET drives_Drives, NEW d
  PROVE  D!Number(d, part) \in D!Numbers
<1> DEFINE before == {e \in part : e < d}
<1>1. IsFiniteSet(drives_Drives)
  BY DEF D!DrivesPageAssumption, IsFiniteSet, D!IsFiniteSet
<1>2. before \subseteq drives_Drives
  OBVIOUS
<1> HIDE DEF before
<1>3. IsFiniteSet(before) /\ Cardinality(before) <= Cardinality(drives_Drives)
  BY <1>1, <1>2, FS_Subset
<1>4. Cardinality(before) \in Nat /\ Cardinality(drives_Drives) \in Nat
  BY <1>1, <1>3, FS_CardinalityType
<1>5. Cardinality(before) \in 0 .. Cardinality(drives_Drives)
  BY <1>3, <1>4
<1> QED BY <1>5 DEF D!Numbers, D!Number, before, D!Cardinality, Cardinality

LEMMA RowTypes ==
  ASSUME D!DrivesPageAssumption, DataOK, NEW d \in D!Rows
  PROVE  /\ drives_list # NoValue /\ d \in DOMAIN drives_list /\ d \in drives_Drives
         /\ drives_list[d] \in SUBSET drives_Tags /\ D!RowNumber(d) \in D!Numbers
<1>1. drives_list # NoValue /\ d \in DOMAIN drives_list /\ drives_list \in D!Listing
  BY DEF D!Rows, DataOK
<1>2. DOMAIN drives_list \subseteq drives_Drives
      /\ drives_list \in [DOMAIN drives_list -> SUBSET drives_Tags]
  BY <1>1, ListingIs
<1> QED BY <1>1, <1>2, NumberTypes DEF D!RowNumber

-----------------------------------------------------------------------------
(* Saving tags                                                             *)

\* The rows whose number is meant change and keep to the types.
LEMMA RowsChange ==
  ASSUME DataOK, drives_list # NoValue, NEW id, NEW tags \in SUBSET drives_Tags
  PROVE  D!InList(id, tags) \in D!Listing /\ DOMAIN D!InList(id, tags) = DOMAIN drives_list
<1>1. DOMAIN drives_list \subseteq drives_Drives
      /\ drives_list \in [DOMAIN drives_list -> SUBSET drives_Tags]
  BY ListingIs DEF DataOK
<1>2. D!InList(id, tags) \in [DOMAIN drives_list -> SUBSET drives_Tags]
  BY <1>1 DEF D!InList
<1> QED BY <1>1, <1>2, IsListing

LEMMA SaveTypes ==
  ASSUME DataOK, NEW id \in D!Numbers \cup {NoValue}, NEW start \in drives_Drives,
         NEW tags \in SUBSET drives_Tags,
         D!SaveTags(id, start, tags), drives_asked' \in D!Tagging
  PROVE  DataOK'
<1>1. drives_list' \in D!Listing \cup {NoValue}
  BY RowsChange DEF DataOK, D!SaveTags
<1>2. drives_detail' \in D!Detail \cup {NoValue}
  BY DEF DataOK, D!SaveTags, D!PanelShown, D!Detail
<1>3. drives_mixed' \in BOOLEAN
  <2>1. drives_mixed' = (drives_mixed \/ ~D!Means(id, start))
    BY DEF D!SaveTags
  <2> HIDE DEF D!Means
  <2> QED BY <2>1 DEF DataOK
<1>4. drives_saves' \subseteq SaveMsg
  BY DEF DataOK, D!SaveTags, SaveMsg
<1>5. UNCHANGED <<drives_there, drives_stored, drives_load, drives_selectedId, drives_details>>
  BY DEF D!SaveTags
<1> QED BY <1>1, <1>2, <1>3, <1>4, <1>5 DEF DataOK

\* Tags that belong to the drive start, saved under a number that means it.
LEMMA SaveOwn ==
  ASSUME DataOK, Own, NEW id \in D!Numbers \cup {NoValue}, NEW start \in drives_Drives,
         NEW tags \in SUBSET drives_Tags, D!SaveTags(id, start, tags), ~drives_mixed',
         drives_asked' \in D!Tagging, tags \subseteq drives_asked'[start],
         \A d \in drives_Drives : drives_asked[d] \subseteq drives_asked'[d]
  PROVE  Own'
<1>1. D!Means(id, start)
  BY DEF D!SaveTags
<1>2. OwnStored'
  BY DEF DataOK, Own, OwnStored, D!SaveTags
<1>3. OwnLoad'
  <2>1. drives_load' = drives_load
    BY DEF D!SaveTags
  <2> SUFFICES ASSUME drives_load \notin {NoValue, Unread}, NEW d \in DOMAIN drives_load
               PROVE  drives_load[d] \subseteq drives_asked'[d]
    BY <2>1 DEF OwnLoad
  <2>2. d \in drives_Drives
    BY ListingIs DEF DataOK
  <2> QED BY <2>2 DEF Own, OwnLoad
<1>4. OwnDetails'
  <2>1. drives_details' = drives_details
    BY DEF D!SaveTags
  <2> SUFFICES ASSUME NEW i \in D!Numbers, drives_details[i] \notin {NoValue, Unread}
               PROVE  drives_details[i].tags \subseteq drives_asked'[drives_details[i].start]
    BY <2>1 DEF OwnDetails
  <2>2. drives_details[i] \in D!Detail
    BY DEF DataOK
  <2>3. drives_details[i].start \in drives_Drives
    BY <2>2 DEF D!Detail
  <2> QED BY <2>3 DEF Own, OwnDetails
<1>5. OwnRows'
  <2> SUFFICES ASSUME drives_list' # NoValue, NEW d \in DOMAIN drives_list'
               PROVE  drives_list'[d] \subseteq drives_asked'[d]
    BY DEF OwnRows
  <2>1. drives_list # NoValue /\ drives_list' = D!InList(id, tags)
    BY DEF D!SaveTags
  <2>2. d \in DOMAIN drives_list /\ d \in drives_Drives
    BY <2>1, RowsChange, ListingIs DEF DataOK
  <2>3. CASE D!RowNumber(d) = id
    <3>1. d = start
      BY <1>1, <2>1, <2>2, <2>3 DEF D!Means, D!Rows
    <3> QED BY <2>1, <2>2, <2>3, <3>1 DEF D!InList
  <2>4. CASE D!RowNumber(d) # id
    <3>1. drives_list'[d] = drives_list[d]
      BY <2>1, <2>2, <2>4 DEF D!InList
    <3> QED BY <2>1, <2>2, <3>1 DEF Own, OwnRows
  <2> QED BY <2>3, <2>4
<1>6. OwnPanel'
  <2>1. CASE drives_detail = NoValue
    BY <2>1 DEF OwnPanel, D!SaveTags, D!PanelShown
  <2>2. CASE drives_detail # NoValue
    <3>1. drives_detail \in D!Detail /\ drives_detail.start \in drives_Drives
          /\ drives_detail.tags \subseteq drives_asked'[drives_detail.start]
      BY <2>2 DEF DataOK, Own, OwnPanel, D!Detail
    <3>2. CASE drives_selectedId = id
      <4>1. drives_detail.start = start /\ drives_detail' = [drives_detail EXCEPT !.tags = tags]
        BY <1>1, <2>2, <3>2 DEF D!Means, D!SaveTags, D!PanelShown
      <4> QED BY <3>1, <4>1 DEF OwnPanel, D!Detail
    <3>3. CASE drives_selectedId # id
      BY <3>1, <3>3 DEF OwnPanel, D!SaveTags
    <3> QED BY <3>2, <3>3
  <2> QED BY <2>1, <2>2
<1>7. OwnSaves'
  <2>1. drives_saves' \subseteq drives_saves \cup {[drive |-> start, tags |-> tags]}
    BY DEF D!SaveTags
  <2>2. \A s \in drives_saves : s.drive \in drives_Drives
        /\ s.tags \subseteq drives_asked'[s.drive]
    BY DEF DataOK, SaveMsg, Own, OwnSaves
  <2> QED BY <2>1, <2>2 DEF OwnSaves
<1> QED BY <1>2, <1>3, <1>4, <1>5, <1>6, <1>7 DEF Own

\* A tag that is asked for joins those of its drive.
LEMMA AsksMore ==
  ASSUME DataOK, NEW d \in drives_Drives, NEW t \in drives_Tags,
         D!Asks(d, t) \/ UNCHANGED drives_asked
  PROVE  /\ drives_asked' \in D!Tagging
         /\ \A e \in drives_Drives : drives_asked[e] \subseteq drives_asked'[e]
         /\ D!Asks(d, t) => drives_asked'[d] = drives_asked[d] \cup {t}
  BY DEF DataOK, D!Asks, D!Tagging

\* A row saves its own tags and one that the user gave it.
LEMMA RowKeeps ==
  ASSUME D!DrivesPageAssumption, TagInv, NEW d \in drives_Drives, NEW t \in drives_Tags,
         D!RowAdd(d, t) \/ D!RowRemove(d, t)
  PROVE  TagInv'
<1>1. d \in DOMAIN drives_list /\ drives_list[d] \in SUBSET drives_Tags
      /\ drives_list # NoValue /\ D!RowNumber(d) \in D!Numbers
  BY RowTypes DEF TagInv, D!RowAdd, D!RowRemove
<1>2. D!Asks(d, t) \/ UNCHANGED drives_asked
  BY DEF D!RowAdd, D!RowRemove
<1>3. PICK tags \in SUBSET drives_Tags : D!SaveTags(D!RowNumber(d), d, tags)
      /\ (OwnRows => tags \subseteq drives_asked'[d])
  <2>1. CASE D!RowAdd(d, t)
    <3>1. D!Asks(d, t) /\ D!SaveTags(D!RowNumber(d), d, drives_list[d] \cup {t})
      BY <2>1 DEF D!RowAdd, D!RowTags
    <3>2. OwnRows => drives_list[d] \cup {t} \subseteq drives_asked'[d]
      BY <1>1, <3>1, AsksMore DEF TagInv, OwnRows
    <3> QED BY <1>1, <3>1, <3>2
  <2>2. CASE D!RowRemove(d, t)
    <3>1. drives_asked' = drives_asked /\ D!SaveTags(D!RowNumber(d), d, drives_list[d] \ {t})
      BY <2>2 DEF D!RowRemove, D!RowTags
    <3>2. OwnRows => drives_list[d] \ {t} \subseteq drives_asked'[d]
      BY <1>1, <3>1 DEF OwnRows
    <3> QED BY <1>1, <3>1, <3>2
  <2> QED BY <2>1, <2>2
<1>4. DataOK'
  BY <1>1, <1>2, <1>3, AsksMore, SaveTypes DEF TagInv
<1>5. ASSUME ~drives_mixed' PROVE Own'
  <2>1. ~drives_mixed
    BY <1>3, <1>5 DEF D!SaveTags
  <2> QED BY <1>1, <1>2, <1>3, <1>5, <2>1, AsksMore, SaveOwn DEF TagInv, Own
<1> QED BY <1>4, <1>5 DEF TagInv

\* The panel saves the tags it shows.
LEMMA PanelKeeps ==
  ASSUME TagInv, NEW t \in drives_Tags, D!PanelAdd(t) \/ D!PanelRemove(t)
  PROVE  TagInv'
<1>1. drives_detail \in D!Detail /\ drives_detail # NoValue
      /\ drives_selectedId \in D!Numbers \cup {NoValue}
  BY DEF TagInv, DataOK, D!PanelAdd, D!PanelRemove, D!PanelShown
<1> DEFINE start == drives_detail.start
<1>2. start \in drives_Drives /\ drives_detail.tags \in SUBSET drives_Tags
  BY <1>1 DEF D!Detail
<1>3. D!Asks(start, t) \/ UNCHANGED drives_asked
  BY DEF D!PanelAdd, D!PanelRemove
<1>4. PICK tags \in SUBSET drives_Tags : D!SaveTags(drives_selectedId, start, tags)
      /\ (OwnPanel => tags \subseteq drives_asked'[start])
  <2>1. CASE D!PanelAdd(t)
    <3>1. D!Asks(start, t) /\ D!SaveTags(drives_selectedId, start, drives_detail.tags \cup {t})
      BY <2>1 DEF D!PanelAdd
    <3>2. OwnPanel => drives_detail.tags \cup {t} \subseteq drives_asked'[start]
      BY <1>1, <1>2, <3>1, AsksMore DEF TagInv, OwnPanel
    <3> QED BY <1>2, <3>1, <3>2
  <2>2. CASE D!PanelRemove(t)
    <3>1. drives_asked' = drives_asked
          /\ D!SaveTags(drives_selectedId, start, drives_detail.tags \ {t})
      BY <2>2 DEF D!PanelRemove
    <3>2. OwnPanel => drives_detail.tags \ {t} \subseteq drives_asked'[start]
      BY <1>1, <3>1 DEF OwnPanel
    <3> QED BY <1>2, <3>1, <3>2
  <2> QED BY <2>1, <2>2
<1> HIDE DEF start
<1>5. DataOK'
  BY <1>1, <1>2, <1>3, <1>4, AsksMore, SaveTypes DEF TagInv
<1>6. ASSUME ~drives_mixed' PROVE Own'
  <2>1. ~drives_mixed
    BY <1>4, <1>6 DEF D!SaveTags
  <2> QED BY <1>1, <1>2, <1>3, <1>4, <1>6, <2>1, AsksMore, SaveOwn DEF TagInv, Own
<1> QED BY <1>5, <1>6 DEF TagInv

-----------------------------------------------------------------------------
(* Every step                                                              *)

LEMMA TagInvInit == D!Init => TagInv
<1> SUFFICES ASSUME D!Init PROVE TagInv
  OBVIOUS
<1>1. DataOK
  BY DEF D!Init, DataOK, D!Tagging
<1>2. Own
  BY DEF D!Init, Own, OwnStored, OwnRows, OwnLoad, OwnPanel, OwnDetails, OwnSaves
<1> QED BY <1>1, <1>2 DEF TagInv

\* A step that touches nothing that carries tags but what it clears.
LEMMA TagsRest ==
  ASSUME TagInv, UNCHANGED <<drives_stored, drives_asked, drives_list, drives_details,
                             drives_saves, drives_mixed>>,
         drives_there' \subseteq drives_Drives,
         drives_selectedId' \in D!Numbers \cup {NoValue},
         drives_detail' \in {drives_detail, NoValue},
         drives_load' \in {drives_load, NoValue, Unread}
  PROVE  TagInv'
<1>1. DataOK'
  BY DEF TagInv, DataOK
<1>2. Own => Own'
  BY DEF Own, OwnStored, OwnRows, OwnLoad, OwnPanel, OwnDetails, OwnSaves
<1> QED BY <1>1, <1>2 DEF TagInv

\* What is read for the list are the tags of the drives that are there.
LEMMA ReadIs ==
  ASSUME DataOK, D!LoadRead
  PROVE  /\ drives_load' \in D!Listing
         /\ \A d \in DOMAIN drives_load' : d \in drives_Drives /\ drives_load'[d] = drives_stored[d]
<1>1. drives_load' = [d \in drives_there |-> drives_stored[d]]
      /\ drives_there \subseteq drives_Drives /\ drives_stored \in D!Tagging
  BY DEF D!LoadRead, DataOK
<1>2. drives_load' \in [drives_there -> SUBSET drives_Tags]
  BY <1>1 DEF D!Tagging
<1>3. drives_load' \in D!Listing
  BY <1>1, <1>2, IsListing
<1> QED BY <1>1, <1>3

\* A request for a drive goes on: it is sent, reads a drive that is there, or ends.
LEMMA DetailSteps ==
  ASSUME D!DrivesPageAssumption, DataOK,
         (\E d \in drives_Drives : D!SelectDrive(d)) \/ (\E i \in D!Numbers : D!Answers(i))
  PROVE  /\ UNCHANGED <<drives_there, drives_stored, drives_asked, drives_list, drives_load,
                        drives_saves, drives_mixed, drives_crossed, drives_lost>>
         /\ drives_selectedId' \in D!Numbers \cup {NoValue}
         /\ \/ drives_detail' = drives_detail
            \/ \E i \in D!Numbers : drives_details[i] \notin {NoValue, Unread}
                                    /\ drives_detail' = drives_details[i]
         /\ \E i \in D!Numbers, x \in D!Detail \cup {NoValue, Unread} :
              /\ drives_details' = [drives_details EXCEPT ![i] = x]
              /\ x \notin {NoValue, Unread} => x.tags = drives_stored[x.start]
<1> USE DEF D!user, D!marks, D!slider
<1>1. ASSUME NEW d \in drives_Drives, D!SelectDrive(d)
      PROVE  /\ UNCHANGED <<drives_there, drives_stored, drives_asked, drives_list, drives_load,
                            drives_detail, drives_saves, drives_mixed, drives_crossed, drives_lost>>
             /\ drives_selectedId' \in D!Numbers
             /\ \E i \in D!Numbers : drives_details' = [drives_details EXCEPT ![i] = Unread]
  <2>1. d \in D!Rows
    BY <1>1 DEF D!SelectDrive
  <2>2. D!RowNumber(d) \in D!Numbers
    BY <2>1, RowTypes
  <2> QED BY <1>1, <2>2 DEF D!SelectDrive
<1>2. ASSUME NEW i \in D!Numbers, D!DetailRead(i)
      PROVE  /\ UNCHANGED <<drives_there, drives_stored, drives_asked, drives_list, drives_load,
                            drives_detail, drives_saves, drives_mixed, drives_crossed, drives_lost,
                            drives_selectedId>>
             /\ \E x \in D!Detail : /\ drives_details' = [drives_details EXCEPT ![i] = x]
                                    /\ x.tags = drives_stored[x.start]
  <2>1. PICK d \in drives_there :
          drives_details' = [drives_details EXCEPT ![i] = [start |-> d, tags |-> drives_stored[d]]]
    BY <1>2 DEF D!DetailRead
  <2>2. [start |-> d, tags |-> drives_stored[d]] \in D!Detail
    BY DEF DataOK, D!Tagging, D!Detail
  <2> QED BY <1>2, <2>1, <2>2 DEF D!DetailRead
<1>3. ASSUME NEW i \in D!Numbers, D!DetailComes(i)
      PROVE  /\ UNCHANGED <<drives_there, drives_stored, drives_asked, drives_list, drives_load,
                            drives_saves, drives_mixed, drives_crossed, drives_lost,
                            drives_selectedId>>
             /\ \/ drives_detail' = drives_detail
                \/ drives_details[i] \notin {NoValue, Unread} /\ drives_detail' = drives_details[i]
             /\ drives_details' = [drives_details EXCEPT ![i] = NoValue]
  BY <1>3 DEF D!DetailComes
<1>4. drives_selectedId \in D!Numbers \cup {NoValue}
  BY DEF DataOK
<1> QED BY <1>1, <1>2, <1>3, <1>4 DEF D!Answers

LEMMA TagInvNext == D!DrivesPageAssumption /\ TagInv /\ [D!Next]_(D!vars) => TagInv'
<1> SUFFICES ASSUME D!DrivesPageAssumption, TagInv, [D!Next]_(D!vars) PROVE TagInv'
  OBVIOUS
<1> USE DEF D!user, D!marks, D!slider
<1>1. drives_selectedId \in D!Numbers \cup {NoValue} /\ drives_there \subseteq drives_Drives
  BY DEF TagInv, DataOK
<1>2. CASE D!LoadDrives \/ D!GoBack \/ D!TogglePlay \/ D!Tick \/ UNCHANGED D!vars
  BY <1>1, <1>2, TagsRest DEF D!LoadDrives, D!GoBack, D!TogglePlay, D!Tick, D!vars
<1>3. ASSUME NEW i \in 0 .. drives_Points - 1, D!HandleSlider(i) PROVE TagInv'
  BY <1>1, <1>3, TagsRest DEF D!HandleSlider
<1>4. ASSUME NEW d \in drives_Drives, D!Import(d) PROVE TagInv'
  BY <1>1, <1>4, TagsRest DEF D!Import
<1>5. CASE D!LoadRead
  <2>1. UNCHANGED <<drives_there, drives_stored, drives_asked, drives_list, drives_selectedId,
                    drives_detail, drives_details, drives_saves, drives_mixed>>
    BY <1>5 DEF D!LoadRead
  <2>2. DataOK'
    BY <1>5, <2>1, ReadIs DEF TagInv, DataOK
  <2>3. Own => OwnLoad'
    BY <1>5, <2>1, ReadIs DEF TagInv, Own, OwnStored, OwnLoad
  <2>4. Own => Own'
    BY <2>1, <2>3 DEF Own, OwnStored, OwnRows, OwnPanel, OwnDetails, OwnSaves
  <2> QED BY <2>1, <2>2, <2>4 DEF TagInv
<1>6. CASE D!LoadEnds
  <2>1. /\ drives_load # NoValue /\ drives_load' = NoValue
        /\ (drives_load # Unread /\ drives_list' = drives_load) \/ drives_list' = drives_list
        /\ UNCHANGED <<drives_there, drives_stored, drives_asked, drives_selectedId,
                       drives_detail, drives_details, drives_saves, drives_mixed>>
    BY <1>6 DEF D!LoadEnds
  <2>2. DataOK'
    BY <2>1 DEF TagInv, DataOK
  <2>3. Own => Own'
    BY <2>1 DEF Own, OwnStored, OwnRows, OwnLoad, OwnPanel, OwnDetails, OwnSaves
  <2> QED BY <2>1, <2>2, <2>3 DEF TagInv
<1>7. CASE (\E d \in drives_Drives : D!SelectDrive(d)) \/ (\E i \in D!Numbers : D!Answers(i))
  <2>1. UNCHANGED <<drives_there, drives_stored, drives_asked, drives_list, drives_load,
                    drives_saves, drives_mixed>>
        /\ drives_selectedId' \in D!Numbers \cup {NoValue}
    BY <1>7, DetailSteps DEF TagInv
  <2>2. drives_detail' = drives_detail
        \/ \E i \in D!Numbers : drives_details[i] \notin {NoValue, Unread}
                                /\ drives_detail' = drives_details[i]
    BY <1>7, DetailSteps DEF TagInv
  <2>3. PICK i \in D!Numbers, x \in D!Detail \cup {NoValue, Unread} :
          /\ drives_details' = [drives_details EXCEPT ![i] = x]
          /\ x \notin {NoValue, Unread} => x.tags = drives_stored[x.start]
    BY <1>7, DetailSteps DEF TagInv
  <2>4. drives_details \in [D!Numbers -> D!Detail \cup {NoValue, Unread}]
    BY DEF TagInv, DataOK
  <2>5. DataOK'
    <3>1. drives_details' \in [D!Numbers -> D!Detail \cup {NoValue, Unread}]
      BY <2>3, <2>4
    <3>2. drives_detail' \in D!Detail \cup {NoValue}
      BY <2>2, <2>4 DEF TagInv, DataOK
    <3> QED BY <2>1, <3>1, <3>2 DEF TagInv, DataOK
  <2>6. Own => OwnDetails'
    <3> SUFFICES ASSUME Own, NEW j \in D!Numbers, drives_details'[j] \notin {NoValue, Unread}
                 PROVE  drives_details'[j].tags \subseteq drives_asked[drives_details'[j].start]
      BY <2>1 DEF OwnDetails
    <3>1. CASE j = i
      <4>1. drives_details'[j] = x /\ x \in D!Detail /\ x.tags = drives_stored[x.start]
        BY <2>3, <2>4, <3>1
      <4>2. x.start \in drives_Drives
        BY <4>1 DEF D!Detail
      <4> QED BY <4>1, <4>2 DEF Own, OwnStored
    <3>2. CASE j # i
      BY <2>3, <2>4, <3>2 DEF Own, OwnDetails
    <3> QED BY <3>1, <3>2
  <2>7. Own => OwnPanel'
    BY <2>1, <2>2 DEF Own, OwnPanel, OwnDetails
  <2>8. Own => Own'
    BY <2>1, <2>6, <2>7 DEF Own, OwnStored, OwnRows, OwnLoad, OwnSaves
  <2> QED BY <2>1, <2>5, <2>8 DEF TagInv
<1>8. ASSUME NEW s \in drives_saves, D!Stored(s) PROVE TagInv'
  <2>1. /\ drives_saves' = drives_saves \ {s}
        /\ drives_stored' = [drives_stored EXCEPT ![s.drive] = s.tags]
             \/ drives_stored' = drives_stored
        /\ UNCHANGED <<drives_there, drives_asked, drives_list, drives_load, drives_selectedId,
                       drives_detail, drives_details, drives_mixed>>
    BY <1>8 DEF D!Stored
  <2>2. s \in SaveMsg /\ drives_stored \in D!Tagging
    BY DEF TagInv, DataOK
  <2>3. DataOK'
    BY <2>1, <2>2 DEF TagInv, DataOK, SaveMsg, D!Tagging
  <2>4. Own => OwnStored' /\ OwnSaves'
    BY <2>1, <2>2 DEF Own, OwnStored, OwnSaves, SaveMsg, D!Tagging
  <2>5. Own => Own'
    BY <2>1, <2>4 DEF Own, OwnRows, OwnLoad, OwnPanel, OwnDetails
  <2> QED BY <2>1, <2>3, <2>5 DEF TagInv
<1> QED
  BY <1>2, <1>3, <1>4, <1>5, <1>6, <1>7, <1>8, RowKeeps, PanelKeeps DEF D!Next

-----------------------------------------------------------------------------
(* The list and the server.  While no request was lost, none met another one about     *)
(* the same drive and no load met a save, what the list has for a drive is what is on  *)
(* its way to the server, or what the server has.                                      *)
QuietSaves == ~drives_mixed /\ ~drives_crossed /\ ~drives_lost
OneSave == \A r, s \in drives_saves : r.drive = s.drive => r = s
LoadAlone == drives_load # NoValue => drives_saves = {}
LoadFresh == drives_load \notin {NoValue, Unread}
  => \A d \in DOMAIN drives_load : drives_load[d] = drives_stored[d]
ListSaved == drives_list # NoValue => \A s \in drives_saves :
  s.drive \in DOMAIN drives_list => drives_list[s.drive] = s.tags
ListStored == drives_list # NoValue => \A d \in DOMAIN drives_list :
  (\A s \in drives_saves : s.drive # d) => drives_list[d] = drives_stored[d]
InStep == OneSave /\ LoadAlone /\ LoadFresh /\ ListSaved /\ ListStored
ListInv == DataOK /\ (QuietSaves => InStep)

LEMMA ListInvInit == D!Init => ListInv
<1> SUFFICES ASSUME D!Init PROVE ListInv
  OBVIOUS
<1>1. DataOK
  BY DEF D!Init, DataOK, D!Tagging
<1>2. InStep
  BY DEF D!Init, InStep, OneSave, LoadAlone, LoadFresh, ListSaved, ListStored
<1> QED BY <1>1, <1>2 DEF ListInv

\* A save that meets neither another one for its drive nor a load.
LEMMA SaveInStep ==
  ASSUME DataOK, InStep, NEW id \in D!Numbers \cup {NoValue},
         NEW start \in drives_Drives, NEW tags \in SUBSET drives_Tags,
         D!SaveTags(id, start, tags), ~drives_crossed', ~drives_mixed'
  PROVE  InStep'
<1>1. drives_load = NoValue /\ drives_load' = NoValue /\ \A s \in drives_saves : s.drive # start
  BY DEF D!SaveTags
<1>2. D!Means(id, start) /\ id # NoValue
  BY DEF D!SaveTags, D!Means
<1>3. drives_saves' = drives_saves \cup {[drive |-> start, tags |-> tags]}
      /\ drives_stored' = drives_stored
  BY <1>2 DEF D!SaveTags
<1>4. OneSave' /\ LoadAlone' /\ LoadFresh'
  BY <1>1, <1>3 DEF InStep, OneSave, LoadAlone, LoadFresh
<1>5. CASE drives_list = NoValue
  <2>1. drives_list' = NoValue
    BY <1>5 DEF D!SaveTags
  <2> QED BY <1>4, <2>1 DEF InStep, ListSaved, ListStored
<1>6. CASE drives_list # NoValue
  <2>1. drives_list' = D!InList(id, tags) /\ DOMAIN drives_list' = DOMAIN drives_list
    BY <1>6, RowsChange DEF D!SaveTags
  <2>2. ASSUME NEW d \in DOMAIN drives_list
        PROVE  drives_list'[d] = IF d = start THEN tags ELSE drives_list[d]
    <3>1. D!RowNumber(d) = id <=> d = start
      BY <1>2, <1>6 DEF D!Means, D!Rows
    <3> QED BY <2>1, <3>1 DEF D!InList
  <2>3. ListSaved'
    BY <1>1, <1>3, <1>6, <2>1, <2>2 DEF InStep, ListSaved
  <2>4. ASSUME NEW d \in DOMAIN drives_list, \A s \in drives_saves' : s.drive # d
               PROVE drives_list'[d] = drives_stored'[d]
    <3>1. d # start
      <4> DEFINE new == [drive |-> start, tags |-> tags]
      <4>1. new \in drives_saves' /\ new.drive = start
        BY <1>3
      <4> HIDE DEF new
      <4> QED BY <2>4, <4>1
    <3>2. \A s \in drives_saves : s.drive # d
      BY <1>3, <2>4
    <3> QED BY <1>3, <1>6, <2>2, <3>1, <3>2 DEF InStep, ListStored
  <2>5. ListStored'
    BY <2>1, <2>4 DEF ListStored
  <2> QED BY <1>4, <2>3, <2>5 DEF InStep
<1> QED BY <1>5, <1>6

\* A save changes the row at once and the server when it is served.
LEMMA TagsInStep ==
  ASSUME D!DrivesPageAssumption, ListInv,
         \/ \E d \in drives_Drives, t \in drives_Tags : D!RowAdd(d, t) \/ D!RowRemove(d, t)
         \/ \E t \in drives_Tags : D!PanelAdd(t) \/ D!PanelRemove(t)
  PROVE  ListInv'
<1>1. PICK id \in D!Numbers \cup {NoValue}, start \in drives_Drives,
           tags \in SUBSET drives_Tags, t \in drives_Tags :
             D!SaveTags(id, start, tags) /\ (D!Asks(start, t) \/ UNCHANGED drives_asked)
  <2>1. ASSUME NEW d \in drives_Drives, NEW t \in drives_Tags,
               D!RowAdd(d, t) \/ D!RowRemove(d, t)
        PROVE  \E id \in D!Numbers, tags \in SUBSET drives_Tags :
                 D!SaveTags(id, d, tags) /\ (D!Asks(d, t) \/ UNCHANGED drives_asked)
    <3>1. D!RowNumber(d) \in D!Numbers /\ drives_list[d] \in SUBSET drives_Tags
      BY <2>1, RowTypes DEF ListInv, D!RowAdd, D!RowRemove
    <3> QED BY <2>1, <3>1 DEF D!RowAdd, D!RowRemove, D!RowTags
  <2>2. ASSUME NEW t \in drives_Tags, D!PanelAdd(t) \/ D!PanelRemove(t)
        PROVE  \E start \in drives_Drives, tags \in SUBSET drives_Tags :
                 /\ D!SaveTags(drives_selectedId, start, tags)
                 /\ D!Asks(start, t) \/ UNCHANGED drives_asked
    <3>1. drives_detail \in D!Detail
      BY <2>2 DEF ListInv, DataOK, D!PanelAdd, D!PanelRemove, D!PanelShown
    <3>2. drives_detail.start \in drives_Drives /\ drives_detail.tags \in SUBSET drives_Tags
      BY <3>1 DEF D!Detail
    <3> QED BY <2>2, <3>2 DEF D!PanelAdd, D!PanelRemove
  <2>3. drives_selectedId \in D!Numbers \cup {NoValue}
    BY DEF ListInv, DataOK
  <2> QED BY <2>1, <2>2, <2>3
<1>2. DataOK'
  BY <1>1, AsksMore, SaveTypes DEF ListInv
<1>3. QuietSaves' => QuietSaves /\ ~drives_crossed' /\ ~drives_mixed'
  BY <1>1 DEF QuietSaves, D!SaveTags
<1> QED BY <1>1, <1>2, <1>3, SaveInStep DEF ListInv

\* What the requests for a drive bring does not reach the list.
LEMMA DetailsApart ==
  ASSUME ListInv, UNCHANGED <<drives_stored, drives_asked, drives_list, drives_load,
                              drives_saves, drives_mixed, drives_crossed, drives_lost>>,
         drives_there' \subseteq drives_Drives,
         drives_selectedId' \in D!Numbers \cup {NoValue},
         drives_detail' \in D!Detail \cup {NoValue},
         drives_details' \in [D!Numbers -> D!Detail \cup {NoValue, Unread}]
  PROVE  ListInv'
<1>1. DataOK'
  BY DEF ListInv, DataOK
<1>2. InStep => InStep'
  BY DEF InStep, OneSave, LoadAlone, LoadFresh, ListSaved, ListStored
<1> QED BY <1>1, <1>2 DEF ListInv, QuietSaves

LEMMA ListInvNext == D!DrivesPageAssumption /\ ListInv /\ [D!Next]_(D!vars) => ListInv'
<1> SUFFICES ASSUME D!DrivesPageAssumption, ListInv, [D!Next]_(D!vars) PROVE ListInv'
  OBVIOUS
<1> USE DEF D!user, D!marks, D!slider
<1>1. /\ drives_there \subseteq drives_Drives /\ drives_selectedId \in D!Numbers \cup {NoValue}
      /\ drives_detail \in D!Detail \cup {NoValue}
      /\ drives_details \in [D!Numbers -> D!Detail \cup {NoValue, Unread}]
      /\ drives_stored \in D!Tagging
  BY DEF ListInv, DataOK
<1>2. CASE D!GoBack \/ D!TogglePlay \/ D!Tick \/ UNCHANGED D!vars
  BY <1>1, <1>2, DetailsApart DEF D!GoBack, D!TogglePlay, D!Tick, D!vars
<1>3. ASSUME NEW i \in 0 .. drives_Points - 1, D!HandleSlider(i) PROVE ListInv'
  BY <1>1, <1>3, DetailsApart DEF D!HandleSlider
<1>4. ASSUME NEW d \in drives_Drives, D!Import(d) PROVE ListInv'
  BY <1>1, <1>4, DetailsApart DEF D!Import
<1>5. CASE (\E d \in drives_Drives : D!SelectDrive(d)) \/ (\E i \in D!Numbers : D!Answers(i))
  <2>1. /\ UNCHANGED <<drives_there, drives_stored, drives_asked, drives_list, drives_load,
                       drives_saves, drives_mixed, drives_crossed, drives_lost>>
        /\ drives_selectedId' \in D!Numbers \cup {NoValue}
    BY <1>5, DetailSteps DEF ListInv
  <2>2. drives_detail' \in D!Detail \cup {NoValue}
    BY <1>1, <1>5, DetailSteps DEF ListInv
  <2>3. drives_details' \in [D!Numbers -> D!Detail \cup {NoValue, Unread}]
    BY <1>1, <1>5, DetailSteps DEF ListInv
  <2> QED BY <1>1, <2>1, <2>2, <2>3, DetailsApart
<1>6. CASE D!LoadDrives \/ D!LoadRead
  <2>1. /\ \/ drives_load' = Unread /\ drives_crossed' = (drives_crossed \/ drives_saves # {})
           \/ /\ drives_load = Unread /\ drives_crossed' = drives_crossed
              /\ drives_load' \in D!Listing
              /\ \A d \in DOMAIN drives_load' : drives_load'[d] = drives_stored[d]
        /\ UNCHANGED <<drives_there, drives_stored, drives_asked, drives_list, drives_selectedId,
                       drives_detail, drives_details, drives_saves, drives_mixed, drives_lost>>
    BY <1>6, ReadIs DEF ListInv, D!LoadDrives, D!LoadRead
  <2>2. DataOK'
    BY <1>1, <2>1 DEF ListInv, DataOK
  <2>3. QuietSaves' => QuietSaves /\ LoadAlone' /\ LoadFresh'
    BY <2>1 DEF ListInv, InStep, LoadAlone, LoadFresh, QuietSaves, D!DrivesPageAssumption
  <2>4. InStep => OneSave' /\ ListSaved' /\ ListStored'
    BY <2>1 DEF InStep, OneSave, ListSaved, ListStored
  <2> QED BY <2>2, <2>3, <2>4 DEF ListInv, InStep
<1>7. CASE D!LoadEnds
  <2>1. /\ drives_load # NoValue /\ drives_load' = NoValue
        /\ (drives_load # Unread /\ drives_list' = drives_load) \/ drives_list' = drives_list
        /\ UNCHANGED <<drives_there, drives_stored, drives_asked, drives_selectedId,
                       drives_detail, drives_details, drives_saves, drives_mixed, drives_crossed,
                       drives_lost>>
    BY <1>7 DEF D!LoadEnds
  <2>2. DataOK'
    BY <2>1 DEF ListInv, DataOK
  <2>3. InStep => InStep'
    BY <2>1 DEF InStep, OneSave, LoadAlone, LoadFresh, ListSaved, ListStored
  <2> QED BY <2>1, <2>2, <2>3 DEF ListInv, QuietSaves
<1>8. ASSUME NEW s \in drives_saves, D!Stored(s) PROVE ListInv'
  <2>1. /\ drives_saves' = drives_saves \ {s}
        /\ drives_stored' = [drives_stored EXCEPT ![s.drive] = s.tags]
             \/ drives_stored' = drives_stored
        /\ UNCHANGED <<drives_there, drives_asked, drives_list, drives_load, drives_selectedId,
                       drives_detail, drives_details, drives_mixed, drives_crossed>>
    BY <1>8 DEF D!Stored
  <2>2. s \in SaveMsg
    BY DEF ListInv, DataOK
  <2>3. DataOK'
    BY <1>1, <2>1, <2>2 DEF ListInv, DataOK, SaveMsg, D!Tagging
  <2>4. QuietSaves' => QuietSaves /\ drives_stored' = [drives_stored EXCEPT ![s.drive] = s.tags]
    BY <1>8 DEF D!Stored, QuietSaves
  <2>5. ASSUME QuietSaves', InStep PROVE InStep'
    <3>1. OneSave' /\ ListSaved'
      BY <2>1, <2>5 DEF InStep, OneSave, ListSaved
    <3>2. drives_load' = NoValue
      BY <2>1, <2>5 DEF InStep, LoadAlone
    <3>3. ASSUME drives_list # NoValue, NEW d \in DOMAIN drives_list,
                 \A r \in drives_saves' : r.drive # d
          PROVE  drives_list[d] = drives_stored'[d]
      <4>1. d \in drives_Drives
        BY <3>3, ListingIs DEF ListInv, DataOK
      <4>2. CASE d = s.drive
        BY <1>1, <2>2, <2>4, <2>5, <3>3, <4>1, <4>2
           DEF InStep, ListSaved, SaveMsg, D!Tagging
      <4>3. CASE d # s.drive
        <5>1. \A r \in drives_saves : r.drive # d
          BY <2>1, <3>3, <4>3
        <5> QED BY <1>1, <2>4, <2>5, <3>3, <4>1, <4>3, <5>1 DEF InStep, ListStored, D!Tagging
      <4> QED BY <4>2, <4>3
    <3>4. ListStored'
      BY <2>1, <3>3 DEF ListStored
    <3> QED BY <3>1, <3>2, <3>4 DEF InStep, LoadAlone, LoadFresh
  <2> QED BY <2>3, <2>4, <2>5 DEF ListInv
<1> QED BY <1>2, <1>3, <1>4, <1>5, <1>6, <1>7, <1>8, TagsInStep DEF D!Next

\* What the run checks follows.
LEMMA InStepAgrees == ListInv => D!ListAgrees
  BY DEF ListInv, InStep, ListStored, D!ListAgrees, QuietSaves

-----------------------------------------------------------------------------
(* The types: those of what carries tags, and the rest.                                *)
RestOK ==
  /\ drives_sliderIdx \in 0 .. drives_Points - 1
       /\ drives_playing \in drives_Drives \cup {NoValue}
  /\ drives_acts \in 0 .. drives_MaxActs
  /\ drives_crossed \in BOOLEAN /\ drives_mixed \in BOOLEAN /\ drives_lost \in BOOLEAN

LEMMA RestInit == D!DrivesPageAssumption /\ D!Init => RestOK
<1> SUFFICES ASSUME D!DrivesPageAssumption, D!Init PROVE RestOK
  OBVIOUS
<1>1. 0 \in 0 .. drives_Points - 1 /\ 0 \in 0 .. drives_MaxActs
  BY DEF D!DrivesPageAssumption
<1> QED BY <1>1 DEF D!Init, RestOK

LEMMA ActTypes ==
  ASSUME D!DrivesPageAssumption, RestOK, D!Act
  PROVE  drives_acts' \in 0 .. drives_MaxActs
  BY DEF D!DrivesPageAssumption, RestOK, D!Act

\* Saving tags marks what it crosses.
LEMMA SaveMarks ==
  ASSUME D!DrivesPageAssumption, RestOK, D!Act, NEW id, NEW start, NEW tags,
         D!SaveTags(id, start, tags)
  PROVE  RestOK'
<1>1. drives_crossed' \in BOOLEAN /\ drives_mixed' \in BOOLEAN
      /\ UNCHANGED <<D!slider, drives_lost>>
  BY Zenon DEF D!SaveTags
<1> QED BY <1>1, ActTypes DEF RestOK, D!slider

\* The player keeps to the points of the route.
LEMMA PlayerTypes ==
  ASSUME D!DrivesPageAssumption, DataOK, RestOK,
         D!TogglePlay \/ D!Tick \/ \E i \in 0 .. drives_Points - 1 : D!HandleSlider(i)
  PROVE  RestOK'
<1> USE DEF D!marks, D!user
<1>1. drives_Points \in Nat /\ drives_Points > 0 /\ 0 \in 0 .. drives_Points - 1
      /\ drives_Points - 1 \in 0 .. drives_Points - 1
  BY DEF D!DrivesPageAssumption
<1>2. CASE D!TogglePlay
  <2>1. D!PanelShown => drives_detail.start \in drives_Drives
    BY DEF DataOK, D!Detail, D!PanelShown
  <2>2. drives_playing' \in drives_Drives \cup {NoValue}
        /\ drives_sliderIdx' \in 0 .. drives_Points - 1
    BY <1>1, <1>2, <2>1 DEF D!TogglePlay, RestOK
  <2> QED BY <1>2, <2>2, ActTypes DEF D!TogglePlay, RestOK
<1>3. CASE D!Tick
  <2>1. drives_playing' \in drives_Drives \cup {NoValue}
        /\ drives_sliderIdx' \in 0 .. drives_Points - 1
    BY <1>1, <1>3 DEF D!Tick, D!AtEnd, RestOK
  <2> QED BY <1>3, <2>1 DEF D!Tick, RestOK
<1>4. ASSUME NEW i \in 0 .. drives_Points - 1, D!HandleSlider(i) PROVE RestOK'
  BY <1>4, ActTypes DEF D!HandleSlider, RestOK
<1> QED BY <1>2, <1>3, <1>4

LEMMA RestNext == D!DrivesPageAssumption /\ DataOK /\ RestOK /\ [D!Next]_(D!vars) => RestOK'
<1> SUFFICES ASSUME D!DrivesPageAssumption, DataOK, RestOK, [D!Next]_(D!vars) PROVE RestOK'
  OBVIOUS
<1> USE DEF D!marks, D!slider, D!user
<1>1. 0 \in 0 .. drives_Points - 1
  BY DEF D!DrivesPageAssumption
<1>2. CASE D!LoadDrives
  BY <1>2, ActTypes DEF D!LoadDrives, RestOK
<1>3. CASE D!LoadRead \/ D!LoadEnds
  BY <1>3 DEF D!LoadRead, D!LoadEnds, RestOK
<1>4. CASE D!GoBack
  BY <1>4, ActTypes DEF D!GoBack, RestOK
<1>5. ASSUME NEW d \in drives_Drives, D!SelectDrive(d) PROVE RestOK'
  BY <1>1, <1>5, ActTypes DEF D!SelectDrive, RestOK
<1>6. ASSUME NEW i \in D!Numbers, D!Answers(i) PROVE RestOK'
  BY <1>6 DEF D!Answers, D!DetailRead, D!DetailComes, RestOK
<1>7. ASSUME NEW d \in drives_Drives, NEW t \in drives_Tags, D!RowAdd(d, t)
             \/ D!RowRemove(d, t) PROVE RestOK'
  BY <1>7, SaveMarks DEF D!RowAdd, D!RowRemove
<1>8. ASSUME NEW t \in drives_Tags, D!PanelAdd(t) \/ D!PanelRemove(t) PROVE RestOK'
  BY <1>8, SaveMarks DEF D!PanelAdd, D!PanelRemove
<1>9. ASSUME NEW s \in drives_saves, D!Stored(s) PROVE RestOK'
  BY <1>9 DEF D!Stored, RestOK
<1>10. CASE UNCHANGED D!vars
  BY <1>10 DEF D!vars, RestOK
<1>11. ASSUME NEW d \in drives_Drives, D!Import(d) PROVE RestOK'
  BY <1>11 DEF D!Import, RestOK
<1> QED
  BY <1>2, <1>3, <1>4, <1>5, <1>6, <1>7, <1>8, <1>9, <1>10, <1>11, PlayerTypes DEF D!Next

\* The two halves are the types of the module.
LEMMA DrivesTyped == DataOK /\ RestOK => D!TypeOK
  BY DEF DataOK, RestOK, D!TypeOK, SaveMsg

\* The part keeps to its own specification.
LEMMA DrivesSpec == Spec => D!Spec
<1>1. Init => D!Init
  BY DEF Init
<1>2. [Next]_vars => [D!Next]_(D!vars)
  BY DEF Next, vars, Alone, drivesVars, D!vars, D!user, D!marks, D!slider
<1> QED BY <1>1, <1>2, PTL DEF Spec, D!Spec

\* A drive has no tag at the server but those the user gave to it, as long as no tags
\* were saved under a number that means another drive in the list or in the panel; and
\* while moreover no request was lost or met another one about the same drive, the list
\* says what the server has.  Answers that come late, rows edited next to an open panel,
\* drives imported before others and requests that fail do no other harm (saveTags,
\* selectDrive and loadDrives, Drives.tsx; setDriveTags, drives.go).
THEOREM TagsStay == Spec => []DriveTags
<1>1. D!DrivesPageAssumption
  BY WebAssumption DEF WebAssumption
<1>2. TagInv => D!TagsOwn
  BY DEF TagInv, Own, OwnStored, D!TagsOwn
<1>3. D!TagsOwn /\ D!ListAgrees => DriveTags
  BY DEF DriveTags
<1> QED
  BY <1>1, <1>2, <1>3, TagInvInit, TagInvNext, ListInvInit, ListInvNext, InStepAgrees, DrivesSpec,
     PTL DEF D!Spec

\* The types of the part
LEMMA DrivesKeepsTypes == Spec => []D!TypeOK
<1>1. D!DrivesPageAssumption
  BY WebAssumption DEF WebAssumption
<1>2. TagInv => DataOK
  BY DEF TagInv
<1> QED
  BY <1>1, <1>2, TagInvInit, TagInvNext, RestInit, RestNext, DrivesTyped, DrivesSpec, PTL
     DEF D!Spec

-----------------------------------------------------------------------------
(*****************************************************************************)
(* The processing of drives (DriveJobs)                                      *)
(*****************************************************************************)

Request == [kind : J!Kinds, mine : BOOLEAN, at : J!Stages]

\* The requests the processor works on: its flag is set for one of them.
AtWork == {r \in jobs_Requests : jobs_req[r].at = "running"}
FlagHeld == \A r \in AtWork : jobs_running
WorksAlone == \A r, q \in AtWork : r = q
JobInv == jobs_req \in [jobs_Requests -> Request] /\ FlagHeld /\ WorksAlone

LEMMA JobInit == J!Init => JobInv
  BY DEF J!Init, JobInv, Request, J!Kinds, J!Stages, AtWork, FlagHeld, WorksAlone

\* A request goes on to a stage outside the processor, and the flag stays.
LEMMA MovesKeeps ==
  ASSUME JobInv, NEW r \in jobs_Requests, NEW s \in J!Stages \ {"running"}, J!Moves(r, s),
         jobs_running' = jobs_running
  PROVE  JobInv'
<1>1. jobs_req' \in [jobs_Requests -> Request]
  BY DEF JobInv, J!Moves, Request
<1>2. AtWork' \subseteq AtWork
  BY DEF JobInv, J!Moves, AtWork, Request
<1> QED BY <1>1, <1>2 DEF JobInv, FlagHeld, WorksAlone

\* A new request is on its way.
LEMMA SentKeeps ==
  ASSUME JobInv, NEW r \in jobs_Requests, NEW k \in J!Kinds, NEW m \in BOOLEAN,
         jobs_running' = jobs_running,
         jobs_req' = [jobs_req EXCEPT ![r] = [kind |-> k, mine |-> m, at |-> "sent"]]
  PROVE  JobInv'
<1>1. jobs_req' \in [jobs_Requests -> Request]
  BY DEF JobInv, Request, J!Stages
<1>2. AtWork' \subseteq AtWork
  BY DEF JobInv, AtWork, Request
<1> QED BY <1>1, <1>2 DEF JobInv, FlagHeld, WorksAlone

LEMMA JobNext == JobInv /\ [J!Next]_(J!vars) => JobInv'
<1> SUFFICES ASSUME JobInv, [J!Next]_(J!vars) PROVE JobInv'
  OBVIOUS
<1>1. ASSUME NEW r \in jobs_Requests, J!TriggerProcess(r) \/ J!HandleUpload(r)
             \/ J!Elsewhere(r) PROVE JobInv'
  BY <1>1, SentKeeps DEF J!TriggerProcess, J!HandleUpload, J!Elsewhere, J!Kinds, J!page
<1>2. ASSUME NEW r \in jobs_Requests, J!Check(r) PROVE JobInv'
  BY <1>2, MovesKeeps DEF J!Check, J!Stages
<1>3. ASSUME NEW r \in jobs_Requests, J!Accept(r) PROVE JobInv'
  BY <1>3, MovesKeeps DEF J!Accept, J!Stages
<1>4. ASSUME NEW r \in jobs_Requests, J!Begin(r) PROVE JobInv'
  BY <1>4, MovesKeeps DEF J!Begin, J!Stages
<1>5. ASSUME NEW r \in jobs_Requests, J!Work(r) PROVE JobInv'
  <2>1. CASE jobs_running
    BY <1>5, <2>1, MovesKeeps DEF J!Work, J!Taken, J!Stages
  <2>2. CASE ~jobs_running
    <3>1. J!Moves(r, "running") /\ jobs_running' = TRUE
      BY <1>5, <2>2 DEF J!Work, J!Taken
    <3>2. AtWork = {}
      BY <2>2 DEF JobInv, FlagHeld
    <3>3. jobs_req' \in [jobs_Requests -> Request]
      BY <3>1 DEF JobInv, J!Moves, Request, J!Stages
    <3>4. AtWork' \subseteq {r}
      BY <3>1, <3>2 DEF JobInv, J!Moves, AtWork, Request
    <3> QED BY <3>1, <3>3, <3>4 DEF JobInv, FlagHeld, WorksAlone
  <2> QED BY <2>1, <2>2
<1>6. ASSUME NEW r \in jobs_Requests, J!Finish(r) PROVE JobInv'
  <2>1. CASE J!IsProcess(r)
    <3>1. r \in AtWork /\ J!Moves(r, "over")
      BY <1>6, <2>1 DEF J!Finish, AtWork
    <3>2. jobs_req' \in [jobs_Requests -> Request]
      BY <3>1 DEF JobInv, J!Moves, Request, J!Stages
    <3>3. AtWork' = {}
      BY <3>1 DEF JobInv, J!Moves, AtWork, WorksAlone, Request
    <3> QED BY <3>2, <3>3 DEF JobInv, FlagHeld, WorksAlone
  <2>2. CASE ~J!IsProcess(r)
    BY <1>6, <2>2, MovesKeeps DEF J!Finish, J!Stages
  <2> QED BY <2>1, <2>2
<1>7. ASSUME NEW p \in jobs_Polls, J!Polling(p) \/ J!PollFails(p) PROVE JobInv'
  <2>1. UNCHANGED <<jobs_req, jobs_running>>
    BY <1>7 DEF J!Polling, J!Ask, J!Status, J!Told, J!PollFails
  <2> QED BY <2>1 DEF JobInv, AtWork, FlagHeld, WorksAlone
<1>8. CASE UNCHANGED J!vars
  BY <1>8 DEF J!vars, JobInv, AtWork, FlagHeld, WorksAlone
<1> QED BY <1>1, <1>2, <1>3, <1>4, <1>5, <1>6, <1>7, <1>8 DEF J!Next, J!Serving

-----------------------------------------------------------------------------
(* The types                                                               *)

Flags == [process : BOOLEAN, import : BOOLEAN]
JobsPollType == [for : {"none", "status", "process", "import"}, at : {"none", "sent", "answered"},
                 running : BOOLEAN, importing : BOOLEAN]

\* A request for the status that is under way belongs to one of the polls, which is what
\* its answer is handled by.
ForAPoll == \A p \in jobs_Polls : jobs_poll[p].at # "none" => jobs_poll[p].for # "none"
JobTyped == J!TypeOK /\ ForAPoll

LEMMA JobTypesInit == J!DriveJobsAssumption /\ J!Init => JobTyped
<1> SUFFICES ASSUME J!DriveJobsAssumption, J!Init PROVE JobTyped
  OBVIOUS
<1>1. 0 \in 0 .. jobs_MaxFails /\ jobs_poll \in [jobs_Polls -> JobsPollType]
      /\ jobs_following \in Flags
  BY DEF J!DriveJobsAssumption, J!Init, J!NoPoll, JobsPollType, Flags
<1>2. J!TypeOK
  BY <1>1 DEF J!Init, J!TypeOK, J!Kinds, J!Stages, JobsPollType, Flags
<1>3. ForAPoll
  BY DEF J!Init, ForAPoll, J!NoPoll
<1> QED BY <1>2, <1>3 DEF JobTyped

\* An answer changes the flags of the page only.
LEMMA AnswersTypes ==
  ASSUME J!TypeOK, NEW r \in jobs_Requests, NEW ok \in BOOLEAN, J!Answers(r, ok)
  PROVE  jobs_processing' \in BOOLEAN /\ jobs_shownImport' \in BOOLEAN
         /\ jobs_following' \in Flags
<1>1. jobs_following \in Flags /\ jobs_processing \in BOOLEAN /\ jobs_shownImport \in BOOLEAN
  BY DEF J!TypeOK, Flags
<1>2. \A b \in BOOLEAN : [jobs_following EXCEPT !.process = b] \in Flags
      /\ [jobs_following EXCEPT !.import = b] \in Flags
  BY <1>1 DEF Flags
<1>3. jobs_following.process \in BOOLEAN /\ jobs_following.import \in BOOLEAN
  BY <1>1 DEF Flags
<1>4. jobs_following' \in {jobs_following, [jobs_following EXCEPT !.process = @ \/ ok],
                       [jobs_following EXCEPT !.import = @ \/ ok]}
  BY DEF J!Answers
<1>5. jobs_processing' \in {jobs_processing, ok} /\ jobs_shownImport' \in {jobs_shownImport, ok}
  BY DEF J!Answers
<1>6. (jobs_following.process \/ ok) \in BOOLEAN /\ (jobs_following.import \/ ok) \in BOOLEAN
  OBVIOUS
<1> QED BY <1>1, <1>2, <1>4, <1>5, <1>6

LEMMA JobsMovesTypes ==
  ASSUME J!TypeOK, NEW r \in jobs_Requests, NEW s \in J!Stages, J!Moves(r, s)
  PROVE  jobs_req' \in [jobs_Requests -> Request]
  BY DEF J!TypeOK, J!Moves, Request

LEMMA SentTypes ==
  ASSUME J!TypeOK, NEW r \in jobs_Requests, J!TriggerProcess(r) \/ J!HandleUpload(r)
         \/ J!Elsewhere(r)
  PROVE  J!TypeOK'
<1>1. \E k \in J!Kinds, m \in BOOLEAN : jobs_req' = [jobs_req EXCEPT ![r] = [kind |-> k,
      mine |-> m, at |-> "sent"]]
  BY DEF J!TriggerProcess, J!HandleUpload, J!Elsewhere, J!Kinds
<1>2. jobs_req' \in [jobs_Requests -> Request]
  BY <1>1 DEF J!TypeOK, Request, J!Stages
<1>3. jobs_processing' \in BOOLEAN /\ jobs_shownImport' \in BOOLEAN
      /\ UNCHANGED <<jobs_running, jobs_importing, jobs_want, jobs_following, jobs_poll,
                     jobs_fails>>
  BY DEF J!TriggerProcess, J!HandleUpload, J!Elsewhere, J!page, J!TypeOK
<1> QED BY <1>2, <1>3 DEF J!TypeOK, Request

LEMMA ServingTypes ==
  ASSUME J!TypeOK, NEW r \in jobs_Requests, J!Serving(r)
  PROVE  J!TypeOK'
<1>1. CASE J!Check(r)
  <2>1. (\E s \in J!Stages : J!Moves(r, s)) /\ UNCHANGED <<jobs_running, jobs_importing,
                                                           jobs_want, jobs_poll, jobs_fails>>
        /\ (J!Answers(r, FALSE) \/ UNCHANGED <<jobs_processing, jobs_shownImport,
                                               jobs_following>>)
    BY <1>1 DEF J!Check, J!Stages
  <2>2. jobs_processing' \in BOOLEAN /\ jobs_shownImport' \in BOOLEAN /\ jobs_following' \in Flags
    BY <2>1, AnswersTypes DEF J!TypeOK, Flags
  <2> QED BY <2>1, <2>2, JobsMovesTypes DEF J!TypeOK, Flags, Request
<1>2. CASE J!Accept(r)
  <2>1. (\E s \in J!Stages : J!Moves(r, s)) /\ (\E ok \in BOOLEAN : J!Answers(r, ok))
        /\ UNCHANGED <<jobs_running, jobs_want, jobs_poll, jobs_fails>>
    BY <1>2 DEF J!Accept, J!Stages
  <2>2. jobs_importing' \in BOOLEAN
    BY <1>2 DEF J!Accept, J!TypeOK
  <2>3. jobs_processing' \in BOOLEAN /\ jobs_shownImport' \in BOOLEAN /\ jobs_following' \in Flags
    BY <2>1, AnswersTypes
  <2> QED BY <2>1, <2>2, <2>3, JobsMovesTypes DEF J!TypeOK, Flags, Request
<1>3. CASE J!Begin(r) \/ J!Work(r) \/ J!Finish(r)
  <2>1. (\E s \in J!Stages : J!Moves(r, s)) /\ UNCHANGED J!page
    BY <1>3 DEF J!Begin, J!Work, J!Finish, J!Stages
  <2>2. jobs_want' \in BOOLEAN
    BY <1>3 DEF J!Begin, J!Work, J!Finish, J!Register, J!Release, J!TypeOK
  <2>3. jobs_running' \in BOOLEAN /\ jobs_importing' \in BOOLEAN
    BY <1>3 DEF J!Begin, J!Work, J!Finish, J!TypeOK
  <2> QED BY <2>1, <2>2, <2>3, JobsMovesTypes DEF J!TypeOK, J!page, Request
<1> QED BY <1>1, <1>2, <1>3 DEF J!Serving

LEMMA StatusTypes ==
  ASSUME NEW h \in [jobs_Polls -> JobsPollType], NEW p \in jobs_Polls, NEW b \in BOOLEAN
  PROVE  /\ [h EXCEPT ![p].at = "answered"] \in [jobs_Polls -> JobsPollType]
         /\ [h EXCEPT ![p].running = b] \in [jobs_Polls -> JobsPollType]
         /\ [h EXCEPT ![p].importing = b] \in [jobs_Polls -> JobsPollType]
  BY DEF JobsPollType

LEMMA JobsPollingTypes ==
  ASSUME J!DriveJobsAssumption, JobTyped, NEW p \in jobs_Polls, J!Polling(p) \/ J!PollFails(p)
  PROVE  JobTyped'
<1> USE DEF JobTyped
<1>1. J!NoPoll \in JobsPollType /\ jobs_poll \in [jobs_Polls -> JobsPollType]
      /\ jobs_following \in Flags
  BY DEF J!NoPoll, JobsPollType, J!TypeOK, Flags
<1>2. CASE J!Ask(p)
  <2>1. PICK f \in {"status", "process", "import"} :
          jobs_poll' = [jobs_poll EXCEPT ![p] = [J!NoPoll EXCEPT !.for = f, !.at = "sent"]]
    BY <1>2 DEF J!Ask
  <2>2. jobs_poll' \in [jobs_Polls -> JobsPollType] /\ ForAPoll'
    BY <1>1, <2>1 DEF JobsPollType, ForAPoll
  <2> QED BY <1>2, <2>2 DEF J!Ask, J!TypeOK, JobsPollType
<1>3. CASE J!Status(p)
  <2>1. PICK a \in BOOLEAN, b \in BOOLEAN :
          jobs_poll' = [jobs_poll EXCEPT ![p].at = "answered", ![p].running = a,
                        ![p].importing = b]
    BY <1>3, Zenon DEF J!Status, J!TypeOK
  <2>2. jobs_poll' \in [jobs_Polls -> JobsPollType]
    <3>1. [jobs_poll EXCEPT ![p].at = "answered"] \in [jobs_Polls -> JobsPollType]
      BY <1>1, StatusTypes
    <3>2. [jobs_poll EXCEPT ![p].at = "answered",
           ![p].running = a] \in [jobs_Polls -> JobsPollType]
      BY <3>1, StatusTypes
    <3>3. [jobs_poll EXCEPT ![p].at = "answered", ![p].running = a,
           ![p].importing = b] \in [jobs_Polls -> JobsPollType]
      BY <3>2, StatusTypes
    <3> QED BY <2>1, <3>3
  <2>3. \A q \in jobs_Polls : jobs_poll'[q].for = jobs_poll[q].for
        /\ (jobs_poll'[q].at = "none" <=> jobs_poll[q].at = "none")
    BY <1>1, <1>3, <2>1 DEF J!Status, JobsPollType
  <2> QED BY <1>3, <2>2, <2>3 DEF J!Status, J!TypeOK, JobsPollType, ForAPoll
<1>4. CASE J!Told(p)
  <2>1. jobs_poll[p] \in JobsPollType /\ jobs_poll[p].for \in {"none", "status", "process",
        "import"}
    BY <1>1 DEF JobsPollType
  <2>2. jobs_poll[p].running \in BOOLEAN /\ jobs_poll[p].importing \in BOOLEAN
        /\ jobs_processing \in BOOLEAN
        /\ jobs_shownImport \in BOOLEAN
    BY <2>1 DEF JobsPollType, J!TypeOK
  <2>3. \A b \in BOOLEAN : [jobs_following EXCEPT !.process = b] \in Flags
        /\ [jobs_following EXCEPT !.import = b] \in Flags
    BY <1>1 DEF Flags
  <2>4. (jobs_following.process /\ jobs_poll[p].running) \in BOOLEAN
        /\ (jobs_following.import /\ jobs_poll[p].importing) \in BOOLEAN
    OBVIOUS
  <2>5. ASSUME jobs_poll[p].for = "status" PROVE J!TypeOK'
    BY <1>1, <1>4, <2>2, <2>5 DEF J!Told, J!Follows, J!TypeOK, Flags, JobsPollType
  <2>6. ASSUME jobs_poll[p].for = "process" PROVE J!TypeOK'
    BY <1>1, <1>4, <2>2, <2>3, <2>4, <2>6 DEF J!Told, J!TypeOK, Flags, JobsPollType
  <2>7. ASSUME jobs_poll[p].for = "import" PROVE J!TypeOK'
    BY <1>1, <1>4, <2>2, <2>3, <2>4, <2>7 DEF J!Told, J!TypeOK, Flags, JobsPollType
  <2>8. CASE jobs_poll[p].for = "none"
    BY <1>4, <2>8 DEF J!Told, ForAPoll
  <2>9. ForAPoll'
    BY <1>1, <1>4 DEF J!Told, ForAPoll, J!NoPoll
  <2> QED BY <2>1, <2>5, <2>6, <2>7, <2>8, <2>9
<1>5. CASE J!PollFails(p)
  <2>1. jobs_poll' \in [jobs_Polls -> JobsPollType] /\ ForAPoll'
    BY <1>1, <1>5 DEF J!PollFails, ForAPoll, J!NoPoll
  <2>2. jobs_fails' \in 0 .. jobs_MaxFails
    BY <1>5 DEF J!PollFails, J!TypeOK, J!DriveJobsAssumption
  <2>3. jobs_processing' \in BOOLEAN /\ jobs_following' \in Flags
    BY <1>1, <1>5 DEF J!PollFails, J!TypeOK, Flags
  <2> QED BY <1>5, <2>1, <2>2, <2>3 DEF J!PollFails, J!TypeOK, JobsPollType, Flags
<1> QED BY <1>2, <1>3, <1>4, <1>5 DEF J!Polling

LEMMA JobTypesNext == J!DriveJobsAssumption /\ JobTyped /\ [J!Next]_(J!vars) => JobTyped'
<1> SUFFICES ASSUME J!DriveJobsAssumption, JobTyped, [J!Next]_(J!vars) PROVE JobTyped'
  OBVIOUS
<1> USE DEF JobTyped
<1>1. ASSUME NEW r \in jobs_Requests,
             J!TriggerProcess(r) \/ J!HandleUpload(r) \/ J!Elsewhere(r) \/ J!Serving(r)
      PROVE  JobTyped'
  <2>1. UNCHANGED jobs_poll
    BY <1>1 DEF J!TriggerProcess, J!HandleUpload, J!Elsewhere, J!Serving, J!Check, J!Accept,
       J!Begin, J!Work,
                J!Finish, J!page
  <2> QED BY <1>1, <2>1, SentTypes, ServingTypes DEF ForAPoll
<1>2. CASE UNCHANGED J!vars
  BY <1>2 DEF J!vars, J!TypeOK, ForAPoll
<1> QED BY <1>1, <1>2, JobsPollingTypes DEF J!Next

\* The part keeps to its own specification.
LEMMA JobsSpec == Spec => J!Spec
<1>1. Init => J!Init
  BY DEF Init
<1>2. [Next]_vars => [J!Next]_(J!vars)
  BY DEF Next, vars, Alone, jobsVars, J!vars
<1> QED BY <1>1, <1>2, PTL DEF Spec, J!Spec

\* However many requests passed the check of their handlers before one of them began, the
\* processor works on one of them and turns the others away (ProcessDirectory looks at its
\* flag once more, under its lock).
THEOREM RunsAlone == Spec => []OneRun
<1>1. ASSUME JobInv PROVE OneRun
  <2>1. \A X : J!Cardinality(X) = Cardinality(X)
    BY DEF J!Cardinality, Cardinality
  <2>2. Cardinality(AtWork) <= 1
    <3>1. CASE AtWork = {}
      BY <3>1, FS_EmptySet
    <3>2. CASE AtWork # {}
      <4>1. PICK r \in AtWork : TRUE
        BY <3>2
      <4>2. AtWork = {r}
        BY <1>1, <4>1 DEF JobInv, WorksAlone
      <4>3. Cardinality({r}) = 1
        BY FS_Singleton
      <4> QED BY <4>2, <4>3
    <3> QED BY <3>1, <3>2
  <2> QED BY <2>1, <2>2 DEF OneRun, J!OneRun, AtWork
<1> QED BY <1>1, JobInit, JobNext, JobsSpec, PTL DEF J!Spec

\* The types of the part
LEMMA JobsKeepsTypes == Spec => []J!TypeOK
<1>1. J!DriveJobsAssumption
  BY WebAssumption DEF WebAssumption
<1>2. JobTyped => J!TypeOK
  BY DEF JobTyped
<1> QED BY <1>1, <1>2, JobTypesInit, JobTypesNext, JobsSpec, PTL DEF J!Spec

-----------------------------------------------------------------------------
(*****************************************************************************)
(* The migration banner (Migration)                                          *)
(*****************************************************************************)

LEMMA MigrationInit == M!MigrationAssumption /\ M!Init => M!TypeOK
<1> SUFFICES ASSUME M!MigrationAssumption, M!Init PROVE M!TypeOK
  OBVIOUS
<1>1. 0 \in 0 .. migration_Total /\ 0 \in 0 .. migration_MaxFails /\ <<>> \in Seq(M!Progress)
      /\ 0 <= migration_MaxPushed
  BY DEF M!MigrationAssumption
<1> QED BY <1>1 DEF M!Init, M!TypeOK, M!Progress

\* What is pushed stays within its bound.
LEMMA PushTypes ==
  ASSUME M!MigrationAssumption, M!TypeOK, NEW p \in M!Progress, M!Push(p)
  PROVE  migration_pushed' \in Seq(M!Progress) /\ Len(migration_pushed') <= migration_MaxPushed
<1>1. migration_pushed \in Seq(M!Progress) /\ Len(migration_pushed) <= migration_MaxPushed
      /\ migration_MaxPushed \in Nat
  BY DEF M!TypeOK, M!MigrationAssumption
<1> QED BY <1>1 DEF M!Push

LEMMA MigrationNext == M!MigrationAssumption /\ M!TypeOK /\ [M!Next]_(M!vars) => M!TypeOK'
<1> SUFFICES ASSUME M!MigrationAssumption, M!TypeOK, [M!Next]_(M!vars) PROVE M!TypeOK'
  OBVIOUS
<1>1. CASE M!Commit
  <2>1. migration_done + 1 \in 0 .. migration_Total
    BY <1>1 DEF M!Commit, M!TypeOK, M!MigrationAssumption
  <2>2. [active |-> TRUE, done |-> migration_done + 1] \in M!Progress
    BY <2>1 DEF M!Progress
  <2> QED BY <1>1, <2>1, <2>2, PushTypes DEF M!Commit, M!TypeOK
<1>2. CASE M!Finish
  BY <1>2 DEF M!Finish, M!TypeOK
<1>3. CASE M!SendPoll \/ M!PollAnswered \/ M!PollFails
  BY <1>3 DEF M!SendPoll, M!PollAnswered, M!PollFails, M!Takes, M!TypeOK, M!MigrationAssumption
<1>4. CASE M!ServePoll
  <2>1. [active |-> migration_active, done |-> migration_done] \in M!Progress
    BY DEF M!TypeOK, M!Progress
  <2> QED BY <1>4, <2>1 DEF M!ServePoll, M!TypeOK
<1>5. CASE M!Pushed
  <2>1. migration_pushed \in Seq(M!Progress) /\ migration_pushed # <<>>
        /\ Len(migration_pushed) <= migration_MaxPushed /\ migration_MaxPushed \in Nat
    BY <1>5 DEF M!Pushed, M!TypeOK, M!MigrationAssumption
  <2>2. Head(migration_pushed) \in M!Progress /\ Tail(migration_pushed) \in Seq(M!Progress)
        /\ Len(Tail(migration_pushed)) <= migration_MaxPushed
    BY <2>1
  <2> QED BY <1>5, <2>2 DEF M!Pushed, M!TypeOK
<1>6. CASE M!Ask
  BY <1>6 DEF M!Ask, M!TypeOK, M!Progress
<1>7. CASE M!FinishMigrationBroadcast
  <2>1. [active |-> FALSE, done |-> migration_done] \in M!Progress
    BY DEF M!TypeOK, M!Progress
  <2> QED BY <1>7, <2>1, PushTypes DEF M!FinishMigrationBroadcast, M!TypeOK
<1>8. CASE UNCHANGED M!vars
  BY <1>8 DEF M!vars, M!TypeOK
<1> QED BY <1>1, <1>2, <1>3, <1>4, <1>5, <1>6, <1>7, <1>8 DEF M!Next, M!Going

\* The part keeps to its own specification.
LEMMA MigrationSpec == Spec => M!Spec
<1>1. Init => M!Init
  BY DEF Init
<1>2. [Next]_vars => [M!Next]_(M!vars)
  BY DEF Next, vars, Alone, migrationVars, M!vars
<1> QED BY <1>1, <1>2, PTL DEF Spec, M!Spec

\* The types of the part
LEMMA MigrationKeepsTypes == Spec => []M!TypeOK
<1>1. M!MigrationAssumption
  BY WebAssumption DEF WebAssumption
<1> QED BY <1>1, MigrationInit, MigrationNext, MigrationSpec, PTL DEF M!Spec

-----------------------------------------------------------------------------
(*****************************************************************************)
(* The upload dialog (Uploader)                                              *)
(*****************************************************************************)

DropType == [on : BOOLEAN, left : SUBSET uploader_Items, valid : SUBSET uploader_Items]
RunType == [on : BOOLEAN, ids : SUBSET uploader_Items, current : uploader_Items \cup {NoValue}]

-----------------------------------------------------------------------------
(* Type correctness                                                        *)

LEMMA AddingTypes ==
  ASSUME U!TypeOK, NEW d \in uploader_Drops, U!AddFiles(d) \/ U!Validate(d) \/ U!Added(d)
  PROVE  U!TypeOK'
<1> USE DEF U!TypeOK
<1>1. CASE U!AddFiles(d)
  BY <1>1 DEF U!AddFiles
<1>2. CASE U!Validate(d)
  <2>1. PICK f \in uploader_drop[d].left, ok \in BOOLEAN :
          uploader_drop' = [uploader_drop EXCEPT ![d].left = @ \ {f},
                                                 ![d].valid = IF ok THEN @ \cup {f} ELSE @]
    BY <1>2 DEF U!Validate
  <2>2. uploader_drop[d] \in DropType /\ f \in uploader_Items
    BY DEF DropType
  <2>3. uploader_drop' \in [uploader_Drops -> DropType]
    BY <2>1, <2>2 DEF DropType
  <2> QED BY <1>2, <2>3 DEF U!Validate, DropType
<1>3. CASE U!Added(d)
  <2>1. uploader_entry' \in [uploader_Items -> U!Statuses]
    BY <1>3 DEF U!Added, U!Statuses
  <2>2. U!NoDrop \in DropType /\ uploader_drop[d] \in DropType
    BY DEF U!NoDrop, DropType
  <2>3. uploader_drop' \in [uploader_Drops -> DropType]
    BY <1>3, <2>2 DEF U!Added, DropType
  <2>4. uploader_expanded' \in uploader_Items \cup {NoValue}
    BY <1>3, <2>2 DEF U!Added, DropType
  <2> QED BY <1>3, <2>1, <2>3, <2>4 DEF U!Added, DropType
<1> QED BY <1>1, <1>2, <1>3

LEMMA EditingTypes ==
  ASSUME U!TypeOK, U!Editing
  PROVE  U!TypeOK'
<1> USE DEF U!TypeOK
<1>1. CASE U!UpdateEntry
  BY <1>1 DEF U!UpdateEntry, U!Listed
<1>2. CASE U!ClearAll
  BY <1>2 DEF U!ClearAll, U!Statuses
<1>3. ASSUME NEW f \in uploader_Items, U!RemoveFile(f) \/ U!Expand(f) PROVE U!TypeOK'
  BY <1>3 DEF U!RemoveFile, U!Expand, U!Statuses
<1> QED BY <1>1, <1>2, <1>3 DEF U!Editing

LEMMA MarkTypes ==
  ASSUME U!TypeOK, NEW f \in uploader_Items, NEW ok \in BOOLEAN, U!Mark(f, ok)
  PROVE  uploader_entry' \in [uploader_Items -> U!Statuses]
  BY DEF U!TypeOK, U!Mark, U!Statuses

LEMMA UploadingTypes ==
  ASSUME U!TypeOK, U!Uploading
  PROVE  U!TypeOK'
<1> USE DEF U!TypeOK
<1>1. CASE U!UploadAll
  BY <1>1 DEF U!UploadAll, U!Is
<1>2. CASE U!UploadNext
  <2>1. PICK f \in uploader_all.ids : \/ /\ uploader_all' = [uploader_all EXCEPT !.ids = @ \ {f}, !.current = f]
                                         /\ uploader_entry' = [uploader_entry EXCEPT ![f] = "uploading"]
                                         /\ uploader_expanded' = f
                                      \/ /\ uploader_all' = [uploader_all EXCEPT !.ids = @ \ {f}]
                                         /\ UNCHANGED <<uploader_entry, uploader_expanded>>
    BY <1>2 DEF U!UploadNext
  <2>2. f \in uploader_Items /\ uploader_all \in RunType
    BY DEF RunType
  <2>3. uploader_entry' \in [uploader_Items -> U!Statuses]
        /\ uploader_expanded' \in uploader_Items \cup {NoValue}
    BY <2>1, <2>2 DEF U!Statuses
  <2>4. [uploader_all EXCEPT !.ids = @ \ {f}, !.current = f] \in RunType
    BY <2>2 DEF RunType
  <2>5. [uploader_all EXCEPT !.ids = @ \ {f}] \in RunType
    BY <2>2 DEF RunType
  <2>6. uploader_all' \in RunType
    BY <2>1, <2>4, <2>5
  <2> QED BY <1>2, <2>3, <2>6 DEF U!UploadNext, RunType
<1>3. CASE U!AllAnswered
  <2>1. uploader_all.current \in uploader_Items
    BY <1>3 DEF U!AllAnswered
  <2> QED BY <1>3, <2>1, MarkTypes DEF U!AllAnswered
<1>4. CASE U!UploadEnds
  BY <1>4 DEF U!UploadEnds, U!NoRun
<1>5. ASSUME NEW f \in uploader_Items, U!UploadSingle(f) PROVE U!TypeOK'
  BY <1>5 DEF U!UploadSingle, U!Statuses
<1>6. ASSUME NEW f \in uploader_Items, U!SingleAnswered(f) PROVE U!TypeOK'
  <2>1. uploader_entry' \in [uploader_Items -> U!Statuses]
    BY <1>6, MarkTypes DEF U!SingleAnswered
  <2>2. uploader_expanded' \in uploader_Items \cup {NoValue}
    BY <1>6 DEF U!SingleAnswered, U!Is
  <2> QED BY <1>6, <2>1, <2>2 DEF U!SingleAnswered
<1> QED BY <1>1, <1>2, <1>3, <1>4, <1>5, <1>6 DEF U!Uploading

\* At the start no file was chosen.
LEMMA TypeInit == U!Init => U!TypeOK
  BY DEF U!Init, U!TypeOK, U!Statuses, U!NoDrop, U!NoRun

-----------------------------------------------------------------------------
(* One upload at a time.  What keeps uploadAll away from the files of uploadSingle:  *)
(* the ids it took are pending for as long as it runs, and nothing but its own loop  *)
(* changes them.  What is still being validated is not in the list, and in one call  *)
(* of addFiles only.                                                                 *)
Taken(d) == uploader_drop[d].left \cup uploader_drop[d].valid
NotListed == \A d \in uploader_Drops : \A f \in Taken(d) : uploader_entry[f] = "none"
Apart == \A d, e \in uploader_Drops : d # e => Taken(d) \cap Taken(e) = {}
IdsPending == \A f \in uploader_all.ids : uploader_entry[f] = "pending"
AtRest == ~uploader_all.on => uploader_all.ids = {} /\ uploader_all.current = NoValue
UInv == U!TypeOK /\ NotListed /\ Apart /\ IdsPending /\ AtRest /\ U!OneUpload

LEMMA UInvInit == U!UploaderAssumption /\ U!Init => UInv
  BY TypeInit DEF U!UploaderAssumption, U!Init, UInv, NotListed, Apart, Taken, IdsPending, AtRest,
                  U!OneUpload, U!Waits, U!Loops, U!NoDrop, U!NoRun

\* What happens to the drops, seen as sets of files.
LEMMA DropsKeep ==
  ASSUME UInv, NEW d \in uploader_Drops, U!AddFiles(d) \/ U!Validate(d) \/ U!Added(d)
  PROVE  (NotListed /\ Apart)'
<1> USE DEF UInv, U!TypeOK, NotListed, Apart, Taken
<1>1. CASE U!AddFiles(d)
  <2>1. PICK fs \in SUBSET (uploader_Items \ (U!Listed \cup U!Dropped)) \ {{}} :
          uploader_drop' = [uploader_drop EXCEPT ![d] = [on |-> TRUE, left |-> fs, valid |-> {}]]
    BY <1>1 DEF U!AddFiles
  <2>2. \A e \in uploader_Drops : Taken(e)' = IF e = d THEN fs ELSE Taken(e)
    BY <2>1
  <2>3. \A f \in fs : uploader_entry[f] = "none" /\ \A e \in uploader_Drops : f \notin Taken(e)
    BY DEF U!Listed, U!Is, U!Dropped
  <2> QED BY <1>1, <2>2, <2>3 DEF U!AddFiles
<1>2. CASE U!Validate(d)
  <2>1. PICK f \in uploader_drop[d].left, ok \in BOOLEAN :
          uploader_drop' = [uploader_drop EXCEPT ![d].left = @ \ {f},
                                                 ![d].valid = IF ok THEN @ \cup {f} ELSE @]
    BY <1>2 DEF U!Validate
  <2>2. \A e \in uploader_Drops : Taken(e)' \subseteq Taken(e)
    BY <2>1
  <2> QED BY <1>2, <2>2 DEF U!Validate
<1>3. CASE U!Added(d)
  <2>1. \A e \in uploader_Drops : Taken(e)' = IF e = d THEN {} ELSE Taken(e)
    BY <1>3 DEF U!Added, U!NoDrop
  <2>2. \A e \in uploader_Drops : e # d => \A f \in Taken(e) : f \in uploader_Items
        /\ uploader_entry'[f] = uploader_entry[f]
    BY <1>3 DEF U!Added
  <2> QED BY <2>1, <2>2
<1> QED BY <1>1, <1>2, <1>3

\* addFiles lists the files it has validated, which are in no other call and in no list.
LEMMA AddingKeeps ==
  ASSUME UInv, NEW d \in uploader_Drops, U!AddFiles(d) \/ U!Validate(d) \/ U!Added(d)
  PROVE  UInv'
<1>1. U!TypeOK'
  BY AddingTypes DEF UInv
<1>2. (IdsPending /\ AtRest /\ U!OneUpload)'
  <2> USE DEF UInv, U!TypeOK, IdsPending, AtRest, U!OneUpload, U!Waits, U!Loops
  <2>1. CASE U!AddFiles(d) \/ U!Validate(d)
    BY <2>1 DEF U!AddFiles, U!Validate
  <2>2. CASE U!Added(d)
    <3>1. \A f \in uploader_Items : \/ uploader_entry'[f] = uploader_entry[f]
                                    \/ uploader_entry[f] = "none"
                                         /\ uploader_entry'[f] = "pending"
      BY <2>2 DEF U!Added, NotListed, Taken
    <3> QED BY <2>2, <3>1 DEF U!Added
  <2> QED BY <2>1, <2>2
<1> QED BY <1>1, <1>2, DropsKeep DEF UInv

\* A step that leaves the drops alone and puts no file into the list.
LEMMA NoneListed ==
  ASSUME UInv, UNCHANGED uploader_drop, \A f \in uploader_Items : uploader_entry[f] = "none"
         => uploader_entry'[f] = "none"
  PROVE  (NotListed /\ Apart)'
  BY DEF UInv, U!TypeOK, NotListed, Apart, Taken

\* What the user removes is not being uploaded.
LEMMA EditingKeeps ==
  ASSUME UInv, U!Editing
  PROVE  UInv'
<1>1. U!TypeOK'
  BY EditingTypes DEF UInv
<1> USE DEF UInv, U!TypeOK, IdsPending, AtRest, U!OneUpload, U!Waits, U!Loops
<1>2. CASE U!UpdateEntry
  BY <1>1, <1>2, NoneListed DEF U!UpdateEntry
<1>3. CASE U!ClearAll
  <2>1. \A f \in uploader_Items : uploader_entry[f] \in {"none", "done", "error"}
    BY <1>3 DEF U!ClearAll, U!AllDone, U!Listed, U!Is
  <2>2. uploader_all.ids = {} /\ uploader_single = {}
        /\ uploader_all.current \notin uploader_Items
    BY <2>1
  <2> QED BY <1>1, <1>3, <2>2, NoneListed DEF U!ClearAll
<1>4. ASSUME NEW f \in uploader_Items, U!RemoveFile(f) PROVE UInv'
  <2>1. uploader_all.ids = {} /\ uploader_entry[f] # "uploading"
    BY <1>4 DEF U!RemoveFile, U!CanRemove
  <2> QED BY <1>1, <1>4, <2>1, NoneListed DEF U!RemoveFile
<1>5. ASSUME NEW f \in uploader_Items, U!Expand(f) PROVE UInv'
  BY <1>1, <1>5, NoneListed DEF U!Expand
<1> QED BY <1>2, <1>3, <1>4, <1>5 DEF U!Editing

\* Each call marks a file that nothing is sent for, and its answer takes the mark away.
LEMMA UploadingKeeps ==
  ASSUME U!UploaderAssumption, UInv, U!Uploading
  PROVE  UInv'
<1>1. U!TypeOK'
  BY UploadingTypes DEF UInv
<1> USE DEF UInv, U!TypeOK, IdsPending, AtRest, U!OneUpload, U!Waits, U!Loops
<1>2. CASE U!UploadAll
  BY <1>1, <1>2, NoneListed DEF U!UploadAll, U!Is, U!UploaderAssumption
<1>3. CASE U!UploadNext
  <2>1. PICK f \in uploader_all.ids : /\ uploader_all' = [uploader_all EXCEPT !.ids = @ \ {f},
                                                          !.current = f]
                                      /\ uploader_entry' = [uploader_entry EXCEPT ![f] = "uploading"]
    BY <1>3 DEF U!UploadNext, U!Listed, U!Is
  <2>2. f \in uploader_Items /\ uploader_entry[f] = "pending" /\ f \notin uploader_single
        /\ uploader_all.on
    BY <1>3 DEF U!UploadNext
  <2>3. (NotListed /\ Apart)'
    BY <1>3, <2>1, <2>2, NoneListed DEF U!UploadNext
  <2>4. uploader_single' = uploader_single /\ uploader_all.current = NoValue
    BY <1>3 DEF U!UploadNext
  <2>5. U!OneUpload'
    BY <2>1, <2>2, <2>4 DEF U!UploaderAssumption
  <2>6. IdsPending' /\ AtRest'
    BY <2>1, <2>2
  <2> QED BY <1>1, <2>3, <2>5, <2>6
<1>4. CASE U!AllAnswered
  <2>1. uploader_all.current \in uploader_Items
        /\ uploader_entry[uploader_all.current] = "uploading"
             /\ uploader_all.current \notin uploader_single
    BY <1>4 DEF U!AllAnswered
  <2>2. PICK ok \in BOOLEAN : U!Mark(uploader_all.current, ok)
    BY <1>4 DEF U!AllAnswered
  <2>3. uploader_all' = [uploader_all EXCEPT !.current = NoValue]
        /\ UNCHANGED <<uploader_single, uploader_drop>>
    BY <1>4 DEF U!AllAnswered
  <2>4. (NotListed /\ Apart)'
    BY <2>1, <2>2, <2>3, NoneListed DEF U!Mark
  <2>5. (IdsPending /\ AtRest /\ U!OneUpload)'
    BY <2>1, <2>2, <2>3 DEF U!Mark, U!UploaderAssumption
  <2> QED BY <1>1, <2>4, <2>5
<1>5. CASE U!UploadEnds
  BY <1>1, <1>5, NoneListed DEF U!UploadEnds, U!NoRun
<1>6. ASSUME NEW f \in uploader_Items, U!UploadSingle(f) PROVE UInv'
  <2>1. uploader_all.ids = {} /\ uploader_all.current = NoValue
        /\ uploader_entry[f] \in {"pending", "error"}
    BY <1>6 DEF U!UploadSingle, U!CanUpload
  <2> QED BY <1>1, <1>6, <2>1, NoneListed DEF U!UploadSingle, U!UploaderAssumption
<1>7. ASSUME NEW f \in uploader_Items, U!SingleAnswered(f) PROVE UInv'
  <2>1. uploader_entry[f] = "uploading" /\ uploader_all.current # f /\ f \notin uploader_all.ids
    BY <1>7 DEF U!SingleAnswered
  <2>2. PICK ok \in BOOLEAN : U!Mark(f, ok)
    BY <1>7 DEF U!SingleAnswered
  <2>3. uploader_single' = uploader_single \ {f} /\ UNCHANGED <<uploader_all, uploader_drop>>
    BY <1>7 DEF U!SingleAnswered
  <2>4. (NotListed /\ Apart)'
    BY <2>1, <2>2, <2>3, NoneListed DEF U!Mark
  <2>5. (IdsPending /\ AtRest /\ U!OneUpload)'
    BY <2>1, <2>2, <2>3 DEF U!Mark
  <2> QED BY <1>1, <2>4, <2>5
<1> QED BY <1>2, <1>3, <1>4, <1>5, <1>6, <1>7 DEF U!Uploading

LEMMA UInvNext == U!UploaderAssumption /\ UInv /\ [U!Next]_(U!vars) => UInv'
<1>1. UInv /\ UNCHANGED U!vars => UInv'
  BY DEF UInv, U!TypeOK, NotListed, Apart, Taken, IdsPending, AtRest, U!OneUpload, U!Waits,
     U!Loops, U!vars
<1> QED BY <1>1, AddingKeeps, EditingKeeps, UploadingKeeps DEF U!Next, U!Adding

\* The part keeps to its own specification.
LEMMA UploaderSpec == Spec => U!Spec
<1>1. Init => U!Init
  BY DEF Init
<1>2. [Next]_vars => [U!Next]_(U!vars)
  BY DEF Next, vars, Alone, uploaderVars, U!vars
<1> QED BY <1>1, <1>2, PTL DEF Spec, U!Spec

\* However validations, single uploads, uploadAll and the removal of files interleave, a
\* file is shown as being uploaded exactly while one call of onUpload for it is under way
\* (uploadSingle and uploadAll of MultiFileUploader.tsx look at different copies of the
\* list).
THEOREM NeverTwice == Spec => []OneUpload
<1>1. U!UploaderAssumption
  BY WebAssumption DEF WebAssumption
<1>2. UInv => OneUpload
  BY DEF UInv, OneUpload
<1> QED BY <1>1, <1>2, UInvInit, UInvNext, UploaderSpec, PTL DEF U!Spec

\* The types of the part
LEMMA UploaderKeepsTypes == Spec => []U!TypeOK
<1>1. U!UploaderAssumption
  BY WebAssumption DEF WebAssumption
<1>2. UInv => U!TypeOK
  BY DEF UInv
<1> QED BY <1>1, <1>2, UInvInit, UInvNext, UploaderSpec, PTL DEF U!Spec

-----------------------------------------------------------------------------
(*****************************************************************************)
(* The file browser (FilesPage)                                              *)
(*****************************************************************************)

(* The timer of an upload is the only one about: while an upload is under way no other *)
(* can be started, so the rows that are cleared are its own.                           *)
HasDir == \A u \in files_UploadSlots : files_uploads[u].stage = "sending"
  => files_uploads[u].dir # NoValue
FilesInv == F!TypeOK /\ HasDir /\ F!RowsOfUpload

LEMMA FilesTypeInit == F!FilesAssumption /\ F!Init => F!TypeOK
<1> SUFFICES ASSUME F!FilesAssumption, F!Init PROVE F!TypeOK
  OBVIOUS
<1>1. F!Listing(files_Base[files_First], FALSE, files_First) \in F!Fetch
  BY DEF F!FilesAssumption, F!Listing, F!Fetch
<1>2. files_uploads \in [files_UploadSlots -> F!Job]
  BY DEF F!FilesAssumption, F!Init, F!Job
<1>3. files_fetches \in SUBSET F!Fetch /\ files_moves \in 0 .. files_MaxMoves
  <2>1. files_fetches = {F!Listing(files_Base[files_First], FALSE, files_First)}
        /\ files_moves = 0 /\ files_MaxMoves \in Nat
    BY DEF F!FilesAssumption, F!Init
  <2>2. 0 \in 0 .. files_MaxMoves
    BY <2>1
  <2> QED BY <1>1, <2>1, <2>2
<1>4. files_tab \in files_Tabs /\ files_path \in files_Dirs /\ files_root = NoValue
      /\ files_timer = NoValue /\ files_shown = NoValue /\ files_rows = NoValue
  BY DEF F!FilesAssumption, F!Init
<1> QED BY <1>2, <1>3, <1>4 DEF F!Init, F!TypeOK

LEMMA FilesMovesTypes ==
  ASSUME F!FilesAssumption, F!TypeOK, F!Moves
  PROVE  files_moves' \in 0 .. files_MaxMoves
  BY DEF F!FilesAssumption, F!TypeOK, F!Moves

LEMMA FetchTypes ==
  ASSUME F!TypeOK, NEW f \in F!Fetch, F!FetchFiles(f)
  PROVE  files_fetches' \in SUBSET F!Fetch /\ files_loading' \in BOOLEAN
         /\ files_selected' \in SUBSET files_Dirs
  BY DEF F!TypeOK, F!FetchFiles

LEMMA PlaceTypes ==
  ASSUME F!FilesAssumption, F!TypeOK, \/ \E t \in files_Tabs : F!SwitchDrive(t)
                                      \/ \E d \in files_Dirs : F!Navigate(d)
  PROVE  F!TypeOK'
<1>1. ASSUME NEW t \in files_Tabs, F!SwitchDrive(t) PROVE F!TypeOK'
  <2>1. files_Base[t] \in files_Dirs /\ F!Listing(files_Base[t], FALSE, t) \in F!Fetch
    BY DEF F!FilesAssumption, F!Listing, F!Fetch
  <2>2. files_fetches' \in SUBSET F!Fetch /\ files_loading' \in BOOLEAN
        /\ files_selected' \in SUBSET files_Dirs
    BY <1>1, <2>1, FetchTypes DEF F!SwitchDrive, F!TypeOK
  <2>3. files_moves' \in 0 .. files_MaxMoves
    BY <1>1, FilesMovesTypes DEF F!SwitchDrive
  <2> QED BY <1>1, <2>1, <2>2, <2>3 DEF F!SwitchDrive, F!TypeOK, F!transfer
<1>2. ASSUME NEW d \in files_Dirs, F!Navigate(d) PROVE F!TypeOK'
  <2>1. F!Listing(d, files_search, files_tab) \in F!Fetch
    BY DEF F!TypeOK, F!Listing, F!Fetch
  <2>2. files_fetches' \in SUBSET F!Fetch /\ files_loading' \in BOOLEAN
        /\ files_selected' \in SUBSET files_Dirs
    BY <1>2, <2>1, FetchTypes DEF F!Navigate, F!Opens, F!TypeOK
  <2> QED BY <1>2, <2>2 DEF F!Navigate, F!Opens, F!Moves, F!TypeOK, F!transfer, F!FilesAssumption
<1> QED BY <1>1, <1>2

LEMMA ListingTypes ==
  ASSUME F!FilesAssumption, F!TypeOK, NEW f \in F!Fetch, F!FetchAnswered(f) \/ F!FetchFails(f)
         \/ F!Changed(f)
  PROVE  F!TypeOK'
<1>1. CASE F!FetchAnswered(f) /\ F!Enters(f)
  <2>1. /\ files_Entry[f.tab] \in files_Dirs /\ files_root' = files_Entry[f.tab]
             /\ files_path' = files_Entry[f.tab]
        /\ UNCHANGED <<files_tab, files_search, files_timer, files_work, F!transfer,
                       files_moves, files_shown>>
    BY <1>1 DEF F!FetchAnswered, F!Enters, F!FilesAssumption, F!Fetch
  <2>2. F!Listing(files_path', files_search, files_tab) \in F!Fetch
    BY <2>1 DEF F!TypeOK, F!Listing, F!Fetch
  <2>3. files_fetches' \in SUBSET F!Fetch /\ files_loading' \in BOOLEAN
        /\ files_selected' \in SUBSET files_Dirs
    BY <1>1, <2>2 DEF F!FetchAnswered, F!TypeOK
  <2> QED BY <2>1, <2>3 DEF F!TypeOK, F!transfer
<1>2. CASE F!FetchAnswered(f) /\ ~F!Enters(f)
  BY <1>2 DEF F!FetchAnswered, F!TypeOK, F!transfer, F!Fetch
<1>3. CASE F!FetchFails(f)
  BY <1>3 DEF F!FetchFails, F!TypeOK, F!transfer, F!place
<1>4. CASE F!Changed(f)
  <2>1. files_fetches' \in SUBSET F!Fetch /\ files_loading' \in BOOLEAN
        /\ files_selected' \in SUBSET files_Dirs
    BY <1>4, FetchTypes DEF F!Changed
  <2> QED BY <1>4, <2>1 DEF F!Changed, F!TypeOK, F!transfer, F!place
<1> QED BY <1>1, <1>2, <1>3, <1>4

LEMMA SearchTypes ==
  ASSUME F!FilesAssumption, F!TypeOK,
         F!HandleSearchChange \/ F!SearchTimer \/ F!Select \/ F!ClearSelection \/ F!Change
  PROVE  F!TypeOK'
<1>1. CASE F!HandleSearchChange
  <2>1. \A q \in BOOLEAN : F!Listing(files_path, q, files_tab) \in F!Fetch
    BY DEF F!TypeOK, F!Listing, F!Fetch
  <2> QED BY <1>1, <2>1 DEF F!HandleSearchChange, F!Moves, F!FilesAssumption, F!TypeOK,
         F!transfer, F!place
<1>2. CASE F!SearchTimer
  <2>1. files_fetches' \in SUBSET F!Fetch /\ files_loading' \in BOOLEAN
        /\ files_selected' \in SUBSET files_Dirs
    BY <1>2, FetchTypes DEF F!SearchTimer, F!TypeOK
  <2> QED BY <1>2, <2>1 DEF F!SearchTimer, F!TypeOK, F!transfer, F!place
<1>3. CASE F!Select \/ F!ClearSelection
  BY <1>3 DEF F!Select, F!ClearSelection, F!TableShown, F!Moves, F!FilesAssumption, F!TypeOK,
     F!transfer, F!place
<1>4. CASE F!Change
  <2>1. F!Listing(files_path, FALSE, files_tab) \in F!Fetch
    BY DEF F!TypeOK, F!Listing, F!Fetch
  <2>2. files_moves' \in 0 .. files_MaxMoves
    BY <1>4, FilesMovesTypes DEF F!Change
  <2> QED BY <1>4, <2>1, <2>2 DEF F!Change, F!TypeOK, F!transfer, F!place
<1> QED BY <1>1, <1>2, <1>3, <1>4

\* No upload begins during another, so the rows and the timer are of the same one.
LEMMA TransferKeeps ==
  ASSUME F!FilesAssumption, FilesInv, NEW u \in files_UploadSlots,
         F!HandleUpload(u) \/ F!UploadsSettled(u) \/ F!RowsCleared(u)
  PROVE  FilesInv'
<1> USE DEF FilesInv
<1>1. files_uploads \in [files_UploadSlots -> F!Job]
  BY DEF F!TypeOK
<1>2. CASE F!HandleUpload(u)
  <2>1. [stage |-> "sending", dir |-> files_path, tab |-> files_tab] \in F!Job
    BY DEF F!TypeOK, F!Job
  <2>2. files_uploads' \in [files_UploadSlots -> F!Job]
    BY <1>1, <1>2, <2>1 DEF F!HandleUpload
  <2>3. F!TypeOK'
    BY <1>2, <2>2 DEF F!HandleUpload, F!Moves, F!FilesAssumption, F!TypeOK, F!place
  <2>4. files_path # NoValue
        /\ \A v \in files_UploadSlots : files_uploads[v].stage \notin {"sending", "fading"}
    BY <1>2 DEF F!HandleUpload, F!CanUpload, F!RowsOfUpload, F!FilesAssumption, F!TypeOK
  <2>5. (HasDir /\ F!RowsOfUpload)'
    BY <1>1, <1>2, <2>4 DEF F!HandleUpload, HasDir, F!RowsOfUpload
  <2> QED BY <2>3, <2>5
<1>3. CASE F!UploadsSettled(u)
  <2>1. files_uploads[u] \in F!Job /\ files_uploads[u].dir # NoValue
        /\ files_uploads[u].stage = "sending"
    BY <1>1, <1>3 DEF HasDir, F!UploadsSettled
  <2>2. F!Listing(files_uploads[u].dir, FALSE, files_uploads[u].tab) \in F!Fetch
    BY <2>1 DEF F!Job, F!Listing, F!Fetch
  <2>3. files_fetches' \in SUBSET F!Fetch /\ files_loading' \in BOOLEAN
        /\ files_selected' \in SUBSET files_Dirs
    BY <1>3, <2>2, FetchTypes DEF F!UploadsSettled
  <2>4. files_uploads' \in [files_UploadSlots -> F!Job]
    BY <1>1, <1>3, <2>1 DEF F!UploadsSettled, F!Job
  <2>5. F!TypeOK'
    BY <1>3, <2>3, <2>4 DEF F!UploadsSettled, F!TypeOK, F!place
  <2>6. (HasDir /\ F!RowsOfUpload)'
    BY <1>1, <1>3, <2>1 DEF F!UploadsSettled, HasDir, F!RowsOfUpload
  <2> QED BY <2>5, <2>6
<1>4. CASE F!RowsCleared(u)
  <2>1. files_uploads[u] \in F!Job /\ files_uploads[u].stage = "fading" /\ files_rows = u
    BY <1>1, <1>4 DEF F!RowsOfUpload, F!RowsCleared
  <2>2. files_uploads' \in [files_UploadSlots -> F!Job]
    BY <1>1, <1>4, <2>1 DEF F!RowsCleared, F!Job
  <2>3. F!TypeOK'
    BY <1>4, <2>2 DEF F!RowsCleared, F!TypeOK, F!place
  <2>4. (HasDir /\ F!RowsOfUpload)'
    BY <1>1, <1>4, <2>1 DEF F!RowsCleared, HasDir, F!RowsOfUpload
  <2> QED BY <2>3, <2>4
<1> QED BY <1>2, <1>3, <1>4

LEMMA FilesInvInit == F!FilesAssumption /\ F!Init => FilesInv
<1> SUFFICES ASSUME F!FilesAssumption, F!Init PROVE FilesInv
  OBVIOUS
<1>1. HasDir /\ F!RowsOfUpload
  BY DEF F!Init, HasDir, F!RowsOfUpload
<1> QED BY <1>1, FilesTypeInit DEF FilesInv

\* A step that leaves the uploads and their rows alone.
LEMMA TransferRests ==
  ASSUME HasDir, F!RowsOfUpload, UNCHANGED F!transfer
  PROVE  (HasDir /\ F!RowsOfUpload)'
  BY DEF HasDir, F!RowsOfUpload, F!transfer

LEMMA FilesInvNext == F!FilesAssumption /\ FilesInv /\ [F!Next]_(F!vars) => FilesInv'
<1> SUFFICES ASSUME F!FilesAssumption, FilesInv, [F!Next]_(F!vars) PROVE FilesInv'
  OBVIOUS
<1> USE DEF FilesInv
<1>1. CASE \/ \E t \in files_Tabs : F!SwitchDrive(t)
           \/ \E d \in files_Dirs : F!Navigate(d)
  <2>1. UNCHANGED F!transfer
    BY <1>1 DEF F!SwitchDrive, F!Navigate
  <2> QED BY <1>1, <2>1, PlaceTypes, TransferRests
<1>2. CASE F!HandleSearchChange \/ F!SearchTimer \/ F!Select \/ F!ClearSelection \/ F!Change
  <2>1. UNCHANGED F!transfer
    BY <1>2 DEF F!HandleSearchChange, F!SearchTimer, F!Select, F!ClearSelection, F!Change
  <2> QED BY <1>2, <2>1, SearchTypes, TransferRests
<1>3. ASSUME NEW f \in F!Fetch, F!FetchAnswered(f) \/ F!FetchFails(f) \/ F!Changed(f)
             PROVE FilesInv'
  <2>1. UNCHANGED F!transfer
    BY <1>3 DEF F!FetchAnswered, F!FetchFails, F!Changed
  <2> QED BY <1>3, <2>1, ListingTypes, TransferRests
<1>4. CASE UNCHANGED F!vars
  <2>1. F!TypeOK'
    BY <1>4 DEF F!TypeOK, F!vars
  <2> QED BY <1>4, <2>1, TransferRests DEF F!vars, F!transfer
<1> QED BY <1>1, <1>2, <1>3, <1>4, TransferKeeps DEF F!Next

\* The part keeps to its own specification.
LEMMA FilesSpec == Spec => F!Spec
<1>1. Init => F!Init
  BY DEF Init
<1>2. [Next]_vars => [F!Next]_(F!vars)
  BY DEF Next, vars, Alone, filesVars, F!vars
<1> QED BY <1>1, <1>2, PTL DEF Spec, F!Spec

\* While an upload of the file browser is sent or its rows are being cleared, the rows shown
\* are those of that upload, however answers of listings, searches and changes interleave: the
\* timer that clears them is of the last upload, and no other can begin before it ends
\* (handleUpload, Files.tsx).
THEOREM UploadsOwnRows == Spec => []RowsOfUpload
<1>1. F!FilesAssumption
  BY WebAssumption DEF WebAssumption
<1>2. FilesInv => RowsOfUpload
  BY DEF FilesInv, RowsOfUpload
<1> QED BY <1>1, <1>2, FilesInvInit, FilesInvNext, FilesSpec, PTL DEF F!Spec

\* The types of the part
LEMMA FilesKeepsTypes == Spec => []F!TypeOK
<1>1. F!FilesAssumption
  BY WebAssumption DEF WebAssumption
<1>2. FilesInv => F!TypeOK
  BY DEF FilesInv
<1> QED BY <1>1, <1>2, FilesInvInit, FilesInvNext, FilesSpec, PTL DEF F!Spec
=============================================================================
