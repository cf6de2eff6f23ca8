----------------------------- MODULE WebProofs -----------------------------
(*****************************************************************************)
(* The types of all the models of Web.                                       *)
(*****************************************************************************)
EXTENDS PagesProofs, ServerProofs, LibraryProofs, SetupProofs

\* Every model keeps to its types: no handler, answer or timer of the interface and of the
\* server behind it leaves a variable outside the values it is declared with.
THEOREM WebTypes == Spec => []WebTypeOK
<1> DEFINE AllTyped == /\ U!TypeOK /\ F!TypeOK /\ D!TypeOK /\ J!TypeOK /\ M!TypeOK
                       /\ L!TypeOK /\ R!TypeOK /\ Y!TypeOK /\ W!TypeOK /\ V!TypeOK
                       /\ P!TypeOK /\ C!TypeOK /\ S!TypeOK /\ K!TypeOK /\ B!TypeOK
                       /\ A!TypeOK /\ E!TypeOK /\ G!TypeOK /\ H!TypeOK
<1>1. Spec => []AllTyped
  BY UploaderKeepsTypes, FilesKeepsTypes, DrivesKeepsTypes, JobsKeepsTypes,
     MigrationKeepsTypes, SoundsKeepsTypes, RandomKeepsTypes, CommunityKeepsTypes,
     WrapsKeepsTypes, PreviewKeepsTypes, PushKeepsTypes, ConnectionKeepsTypes,
     SessionKeepsTypes, AwakeKeepsTypes, AwakePageKeepsTypes, AwayKeepsTypes,
     AwayPageKeepsTypes, FormKeepsTypes, SetupKeepsTypes, PTL
<1>2. AllTyped => WebTypeOK
  BY DEF WebTypeOK
<1> HIDE DEF AllTyped
<1> QED BY <1>1, <1>2, PTL
=============================================================================
