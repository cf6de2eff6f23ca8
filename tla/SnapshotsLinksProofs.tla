------------------------- MODULE SnapshotsLinksProofs -------------------------
(***************************************************************************)
(* What the snapshot store keeps as long as no fault has happened, for     *)
(* every set of clips, every number of processes that run make_snapshot.sh *)
(* and every bound: listings are honest, links lead to their clips and to  *)
(* the newest snapshot that has the clip, the newest image is never        *)
(* removed and discarding a snapshot takes no link away.                   *)
(***************************************************************************)
EXTENDS SnapshotsProofs

\* A script that makes a snapshot and works on its number
AtWork(p) == pc[p] \in {"copy", "list", "compare", "links", "umount", "rm", "unlink"}

\* The free space manager removes snap-n; its links are removed after it.
Removes(n) == pc["fsm"] = "rm" /\ job["fsm"].num = n
Releases(n) == pc["fsm"] \in {"rm", "unlink"} /\ job["fsm"].num = n

\* A number below that of an image is not used again.
Retired(n) == n \in Num /\ image[n] = NoFile /\ \E m \in Images : n < m

\* The mount of snap-n shows nothing that the snapshot before it does not list.
OldNews(n) == n # 0 /\ Complete(Preceding(n)) /\ ~HasNewLines(toc[Preceding(n)], mount[n])

-----------------------------------------------------------------------------
(* The invariant, part by part                                             *)

\* No snapshot is found incomplete.
NoPurge == \A q \in Actors : pc[q] # "purge"

\* An image has its listing, but for the one being made or removed; a listing has its
\* image, but for the one being removed.
WholeImages ==
  \A n \in Images : \/ toc[n] # NoFile
                    \/ Removes(n)
                    \/ \E p \in Takers : AtWork(p) /\ job[p].num = n
TocOfImage == \A n \in Num : toc[n] # NoFile => image[n] # NoFile \/ Removes(n)

\* The number of a new snapshot is past all images, the one before it is complete.
NumberNew(p) ==
  AtWork(p) => /\ job[p].prev = Preceding(job[p].num)
               /\ \A m \in Images : m <= job[p].num
               /\ job[p].num # 0 => Complete(job[p].prev)
               /\ toc[job[p].num] = NoFile

\* A mount shows its image, or that of a number that is not used again, or what cannot
\* make a snapshot worth keeping.
MountKnown ==
  \A n \in Num : mount[n] # NoFile =>
    \/ mount[n] = image[n]
    \/ Retired(n)
    \/ /\ OldNews(n)
       /\ \/ image[n] = NoFile
          \/ \E p \in Takers : /\ pc[p] \in {"list", "compare", "umount", "rm"}
                               /\ job[p].num = n

\* What a script has read of its image
BeforeList(p) ==
  /\ pc[p] \in {"copy", "list"} => job[p].list = Empty
  /\ pc[p] = "list" => job[p].num \in dirs
Listed(p) ==
  LET n == job[p].num IN
  pc[p] = "compare" =>
    /\ job[p].list = IF mount[n] = NoFile THEN Empty ELSE mount[n]
    /\ image[n] = NoFile /\ mount[n] = NoFile => n \notin dirs
Discards(p) ==
  LET n == job[p].num IN
  /\ pc[p] \in {"umount", "rm"} => n # 0 /\ (mount[n] # NoFile => OldNews(n))
  /\ pc[p] = "unlink" => image[n] = NoFile
Linking(p) ==
  LET n == job[p].num IN
  pc[p] = "links" =>
    /\ mount[n] \in {NoFile, image[n]}
    /\ image[n] = NoFile => n \notin dirs /\ job[p].todo = {}
    /\ image[n] # NoFile => /\ job[p].list \in {image[n], Empty}
                            /\ job[p].todo \subseteq LinksFor(image[n])
TakersKnow ==
  \A p \in Takers : NumberNew(p) /\ BeforeList(p) /\ Listed(p) /\ Discards(p) /\ Linking(p)

\* A link leads to its clip, or into the snapshot being released; none leads to a number
\* that a script works on before it makes links.
LinksHeld ==
  \A l \in LinkNames : link[l] # NoNum =>
    \/ image[link[l]] # NoFile /\ image[link[l]][l[2]] > 0
    \/ Releases(link[l])
NotLinked ==
  \A p \in Takers : AtWork(p) /\ pc[p] # "links" =>
    \A l \in LinkNames : link[l] # job[p].num

\* autofs releases numbers that are not used again, and the free space manager the
\* oldest directory, which is not that of the newest image; its links go after its image.
AutofsRetired == pc["autofs"] # "idle" => Retired(job["autofs"].num)
VictimKnown ==
  pc["fsm"] \in {"umount", "rm", "unlink"} =>
    /\ \E m \in Images : job["fsm"].num < m
    /\ \A m \in dirs : job["fsm"].num <= m
    /\ pc["fsm"] = "unlink" => image[job["fsm"].num] = NoFile

Clean ==
  /\ NoPurge
  /\ WholeImages
  /\ TocOfImage
  /\ MountKnown
  /\ TakersKnow
  /\ LinksHeld
  /\ NotLinked
  /\ AutofsRetired
  /\ VictimKnown
  /\ TocHonest

CleanInv == faults = 0 => Clean

-----------------------------------------------------------------------------
(* Who is at work                                                          *)

\* While a script makes a snapshot no other does, and nothing is removed for space.
LEMMA TakerAlone ==
  ASSUME IInv, NEW p \in Takers, pc[p] # "idle"
  PROVE  pc["fsm"] = "idle" /\ \A q \in Takers : q # p => pc[q] = "idle"
<1>1. "fsm" \notin Takers
  BY ConstantsAssumption
<1> QED BY <1>1 DEF IInv, LockExclusion

LEMMA FsmAlone ==
  ASSUME IInv, pc["fsm"] # "idle"
  PROVE  \A q \in Takers : pc[q] = "idle"
<1>1. "fsm" \notin Takers
  BY ConstantsAssumption
<1> QED BY <1>1 DEF IInv, LockExclusion

\* Nobody is at work when the flock is free.
LEMMA NobodyAtWork ==
  ASSUME IInv, Unlocked
  PROVE  pc["fsm"] = "idle" /\ \A q \in Takers : pc[q] = "idle"
<1>1. "free" # "fsm" /\ "free" \notin Takers
  BY ConstantsAssumption
<1> QED BY <1>1 DEF IInv, LockExclusion, Unlocked

\* The types of the state, as the proofs below use them
LEMMA Types ==
  ASSUME IInv
  PROVE  /\ TypeOK /\ NumOK /\ DirsCover
         /\ pc \in [Actors -> Stages] /\ job \in [Actors -> Job]
         /\ image \in [Num -> Listing \cup {NoFile}]
         /\ toc \in [Num -> Listing \cup {NoFile}]
         /\ mount \in [Num -> Listing \cup {NoFile}]
         /\ link \in [LinkNames -> Num \cup {NoNum}]
         /\ dirs \subseteq Num /\ Images \subseteq Num
         /\ Num \subseteq Nat /\ NoNum \notin Num /\ NoFile \notin Listing
         /\ Takers \subseteq Actors /\ "fsm" \in Actors /\ "autofs" \in Actors
         /\ "fsm" \notin Takers /\ "autofs" \notin Takers
         /\ Empty \in Listing /\ NoJob \in Job
<1>1. TypeOK /\ NumOK /\ DirsCover
  BY DEF IInv, TypeInv
<1>2. Num \subseteq Nat /\ NoNum \notin Num
  BY ConstantsAssumption DEF Num, NoNum
<1>3. Empty \in Listing /\ NoJob \in Job
  BY <1>1, OperatorTypes
<1> QED BY <1>1, <1>2, <1>3, ConstantsAssumption DEF TypeOK, Images, Actors

LEMMA CleanInit == Init => CleanInv
<1> SUFFICES ASSUME Init PROVE Clean
  BY DEF CleanInv
<1>1. /\ \A q \in Actors : pc[q] = "idle"
      /\ \A n \in Num : image[n] = NoFile /\ toc[n] = NoFile /\ mount[n] = NoFile
      /\ \A l \in LinkNames : link[l] = NoNum
  BY DEF Init
<1>2. Takers \subseteq Actors /\ "fsm" \in Actors /\ "autofs" \in Actors
  BY DEF Actors
<1>3. NoPurge /\ WholeImages /\ TocOfImage /\ MountKnown
  BY <1>1, <1>2 DEF NoPurge, WholeImages, TocOfImage, MountKnown, Images
<1>4. TakersKnow
  BY <1>1, <1>2 DEF TakersKnow, NumberNew, BeforeList, Listed, Discards, Linking, AtWork
<1>5. LinksHeld /\ NotLinked
  BY <1>1, <1>2 DEF LinksHeld, NotLinked, AtWork
<1>6. AutofsRetired /\ VictimKnown /\ TocHonest
  BY <1>1, <1>2 DEF AutofsRetired, VictimKnown, TocHonest, Complete
<1> QED BY <1>3, <1>4, <1>5, <1>6 DEF Clean

-----------------------------------------------------------------------------
(* The steps of make_snapshot.sh                                           *)

\* What the lemmas about a script that makes a snapshot start from: its number, and that
\* nobody else makes one or removes one for space.
LEMMA Working ==
  ASSUME IInv, Clean, NEW p \in Takers, AtWork(p)
  PROVE  /\ job[p].num \in Num /\ job[p] \in Job
         /\ pc["fsm"] = "idle" /\ \A q \in Takers : q # p => pc[q] = "idle"
         /\ NumberNew(p) /\ BeforeList(p) /\ Listed(p) /\ Discards(p) /\ Linking(p)
         /\ ~Retired(job[p].num)
         /\ \A n \in Images : n # job[p].num => Complete(n)
<1>1. pc[p] # "idle" /\ pc[p] \notin {"check", "rebuild"}
  BY DEF AtWork
<1>2. job[p].num \in Num /\ job[p] \in Job
  BY <1>1, Types DEF NumOK
<1>3. pc["fsm"] = "idle" /\ \A q \in Takers : q # p => pc[q] = "idle"
  BY <1>1, TakerAlone
<1>4. NumberNew(p) /\ BeforeList(p) /\ Listed(p) /\ Discards(p) /\ Linking(p)
  BY DEF Clean, TakersKnow
<1>5. ~Retired(job[p].num)
  <2>1. \A m \in Images : m <= job[p].num
    BY <1>4 DEF NumberNew
  <2> QED BY <2>1, <1>2, Types DEF Retired
<1>6. ASSUME NEW n \in Images, n # job[p].num PROVE Complete(n)
  <2>1. toc[n] # NoFile
    BY <1>3, <1>6 DEF Clean, WholeImages, Removes, AtWork
  <2> QED BY <2>1 DEF Complete, Images
<1> QED BY <1>2, <1>3, <1>4, <1>5, <1>6

LEMMA SelectClean ==
  ASSUME IInv, Clean, NEW p \in Takers, Select(p)
  PROVE  Clean'
<1> DEFINE redo == Images # {} /\ toc[Newest(Images)] = NoFile
           num == IF Images = {} THEN 0
                  ELSE IF redo THEN Newest(Images) ELSE Following(Newest(Images))
<1>0. pc["fsm"] = "idle" /\ \A q \in Takers : pc[q] = "idle"
  BY NobodyAtWork DEF Select
<1>1. \A m \in Images : Complete(m)
  BY <1>0, Types DEF Clean, WholeImages, Removes, AtWork, Complete, Images
<1>2. ~redo
  BY <1>1, Types, SelectNumbers DEF Complete
<1>3. /\ num \in Nat /\ \A m \in Images : m < num
      /\ num # 0 => Complete(Preceding(num))
      /\ num \in Num
  <2>1. CASE Images = {}
    BY <2>1, Types, ConstantsAssumption DEF Num
  <2>2. CASE Images # {}
    <3>1. Newest(Images) \in Images /\ \A m \in Images : m <= Newest(Images)
      BY <2>2, Types, SelectNumbers
    <3>2. num = Newest(Images) + 1 /\ Preceding(num) = Newest(Images)
      BY <3>1, <2>2, <1>2, Types DEF Following, Preceding
    <3>3. num <= MaxNum
      BY DEF Select
    <3> QED BY <3>1, <3>2, <3>3, <1>1, Types, ConstantsAssumption DEF Num
  <2> QED BY <2>1, <2>2
<1>4. /\ pc' = [pc EXCEPT ![p] = "copy"]
      /\ job' = [job EXCEPT ![p] = [NoJob EXCEPT !.num = num, !.prev = Preceding(num)]]
      /\ UNCHANGED <<dirs, image, toc, mount, link>>
  BY <1>2 DEF Select, Goto, files
<1> HIDE DEF num
<1>5. image[num] = NoFile /\ toc[num] = NoFile
  <2>1. image[num] = NoFile
    BY <1>3, Types DEF Images
  <2> QED BY <2>1, <1>0, <1>3 DEF Clean, TocOfImage, Removes
<1>6. \A l \in LinkNames : link[l] # num
  BY <1>0, <1>3, <1>5, Types DEF Clean, LinksHeld, Releases
<1>7. /\ pc'[p] = "copy" /\ job'[p].num = num /\ job'[p].prev = Preceding(num)
      /\ job'[p].list = Empty
      /\ \A q \in Actors : q # p => pc'[q] = pc[q] /\ job'[q] = job[q]
  BY <1>4, Types DEF NoJob
<1>8. Images' = Images
  BY <1>4 DEF Images
<1>9. NoPurge' /\ WholeImages' /\ TocOfImage'
  <2>1. NoPurge'
    BY <1>7 DEF Clean, NoPurge
  <2>2. WholeImages'
    BY <1>1, <1>4, <1>8 DEF WholeImages, Complete
  <2>3. TocOfImage'
    BY <1>0, <1>4 DEF Clean, TocOfImage, Removes
  <2> QED BY <2>1, <2>2, <2>3
<1>10. MountKnown'
  <2>1. \A n : Retired(n)' <=> Retired(n)
    BY <1>4, <1>8 DEF Retired
  <2>2. \A n : OldNews(n)' <=> OldNews(n)
    BY <1>4 DEF OldNews, Complete
  <2> QED BY <1>0, <1>4, <2>1, <2>2, Types DEF Clean, MountKnown
<1>11. TakersKnow'
  <2>1. \A q \in Takers : q # p => pc'[q] = "idle"
    BY <1>0, <1>7, Types
  <2>2. \A q \in Takers : q # p =>
          (NumberNew(q) /\ BeforeList(q) /\ Listed(q) /\ Discards(q) /\ Linking(q))'
    BY <2>1 DEF NumberNew, BeforeList, Listed, Discards, Linking, AtWork
  <2>3. NumberNew(p)'
    BY <1>3, <1>5, <1>4, <1>7, <1>8, Types DEF NumberNew, Complete
  <2>4. (BeforeList(p) /\ Listed(p) /\ Discards(p) /\ Linking(p))'
    BY <1>7 DEF BeforeList, Listed, Discards, Linking
  <2> QED BY <2>2, <2>3, <2>4 DEF TakersKnow
<1>12. LinksHeld' /\ NotLinked'
  <2>1. LinksHeld'
    BY <1>0, <1>4 DEF Clean, LinksHeld, Releases
  <2>2. NotLinked'
    BY <1>0, <1>6, <1>4, <1>7, Types DEF NotLinked, AtWork
  <2> QED BY <2>1, <2>2
<1>13. AutofsRetired' /\ VictimKnown' /\ TocHonest'
  BY <1>0, <1>4, <1>7, <1>8, Types
     DEF Clean, AutofsRetired, VictimKnown, TocHonest, Retired, Complete
<1> QED BY <1>9, <1>10, <1>11, <1>12, <1>13 DEF Clean

LEMMA CopyClean ==
  ASSUME IInv, Clean, NEW p \in Takers, Copy(p)
  PROVE  Clean'
<1> DEFINE n == job[p].num
<1>0. pc[p] = "copy" /\ AtWork(p)
  BY DEF Copy, AtWork
<1>1. /\ n \in Num /\ image[n] = NoFile
      /\ pc["fsm"] = "idle" /\ \A q \in Takers : q # p => pc[q] = "idle"
      /\ NumberNew(p) /\ BeforeList(p) /\ ~Retired(n)
      /\ \A m \in Images : m # n => Complete(m)
  BY <1>0, Working DEF IInv, CopyFresh
<1>2. PICK f \in {cam, Empty, NoFile} : image' = [image EXCEPT ![n] = f]
  BY DEF Copy
<1>3. /\ pc' = [pc EXCEPT ![p] = "list"] /\ dirs' = dirs \cup {n}
      /\ UNCHANGED <<job, toc, mount, link>>
  BY <1>1, Types DEF Copy, Goto
<1>4. /\ pc'[p] = "list" /\ \A q \in Actors : q # p => pc'[q] = pc[q]
      /\ \A m \in Num : m # n => image'[m] = image[m]
  BY <1>2, <1>3, Types
<1>5. Images \subseteq Images' /\ Images' \subseteq Images \cup {n}
  BY <1>1, <1>4 DEF Images
<1>6. \A m \in Num : m # n => (Complete(m)' <=> Complete(m))
  BY <1>3, <1>4 DEF Complete
<1>7. \A m \in Images : m < n
  BY <1>0, <1>1, Types DEF NumberNew, Images
<1>8. NoPurge' /\ WholeImages' /\ TocOfImage'
  <2>1. NoPurge'
    BY <1>4 DEF Clean, NoPurge
  <2>2. WholeImages'
    BY <1>1, <1>3, <1>4, <1>5, Types DEF WholeImages, Complete, AtWork
  <2>3. TocOfImage'
    BY <1>1, <1>3, <1>4 DEF Clean, TocOfImage, Removes
  <2> QED BY <2>1, <2>2, <2>3
<1>9. MountKnown'
  <2> SUFFICES ASSUME NEW m \in Num, mount'[m] # NoFile
               PROVE  \/ mount'[m] = image'[m]
                      \/ Retired(m)'
                      \/ /\ OldNews(m)'
                         /\ \/ image'[m] = NoFile
                            \/ \E q \in Takers : /\ pc'[q] \in {"list", "compare", "umount", "rm"}
                                                 /\ job'[q].num = m
    BY DEF MountKnown
  <2>1. \/ mount[m] = image[m]
        \/ Retired(m)
        \/ OldNews(m) /\ (image[m] = NoFile \/ m = n)
    BY <1>1, <1>3, Types DEF Clean, MountKnown
  <2>2. Retired(m) => Retired(m)'
    BY <1>1, <1>4, <1>5 DEF Retired
  <2>3. OldNews(m) => OldNews(m)'
    <3>1. OldNews(m) => Preceding(m) \in Num /\ Preceding(m) # n
      BY <1>1 DEF OldNews, Complete
    <3> QED BY <3>1, <1>3, <1>6 DEF OldNews
  <2>4. m = n => OldNews(m)
    BY <2>1, <1>1, <1>3
  <2> QED BY <2>1, <2>2, <2>3, <2>4, <1>3, <1>4
<1>10. TakersKnow'
  <2>1. \A q \in Takers : q # p => pc'[q] = "idle"
    BY <1>1, <1>4, Types
  <2>2. \A q \in Takers : q # p =>
          (NumberNew(q) /\ BeforeList(q) /\ Listed(q) /\ Discards(q) /\ Linking(q))'
    BY <2>1 DEF NumberNew, BeforeList, Listed, Discards, Linking, AtWork
  <2>3. NumberNew(p)'
    <3>1. n # 0 => Complete(job[p].prev) /\ job[p].prev # n /\ job[p].prev \in Num
      BY <1>0, <1>1 DEF NumberNew, Complete
    <3> QED BY <3>1, <1>0, <1>1, <1>3, <1>5, <1>6, Types DEF NumberNew
  <2>4. (BeforeList(p) /\ Listed(p) /\ Discards(p) /\ Linking(p))'
    BY <1>0, <1>1, <1>3, <1>4 DEF BeforeList, Listed, Discards, Linking
  <2> QED BY <2>2, <2>3, <2>4 DEF TakersKnow
<1>11. LinksHeld' /\ NotLinked'
  <2>1. LinksHeld'
    BY <1>1, <1>3, <1>4, Types DEF Clean, LinksHeld, Releases
  <2>2. NotLinked'
    BY <1>0, <1>1, <1>3, <1>4, Types DEF Clean, NotLinked, AtWork
  <2> QED BY <2>1, <2>2
<1>12. AutofsRetired' /\ VictimKnown' /\ TocHonest'
  <2>1. AutofsRetired'
    BY <1>1, <1>3, <1>4, <1>5, Types DEF Clean, AutofsRetired, Retired
  <2>2. VictimKnown'
    BY <1>1, <1>4, Types DEF VictimKnown
  <2>3. TocHonest'
    BY <1>1, <1>0, <1>3, <1>4, <1>6 DEF Clean, TocHonest, Complete, NumberNew
  <2> QED BY <2>1, <2>2, <2>3
<1> QED BY <1>8, <1>9, <1>10, <1>11, <1>12 DEF Clean

\* The local variables of a script that changes the listing or the links to do
LEMMA JobSteps ==
  ASSUME IInv, NEW p \in Takers, AtWork(p)
  PROVE  /\ \A f \in Listing : job' = [job EXCEPT ![p].list = f] =>
              /\ job'[p].num = job[p].num /\ job'[p].prev = job[p].prev
              /\ job'[p].list = f /\ job'[p].todo = job[p].todo
         /\ \A S \in SUBSET LinkNames : job' = [job EXCEPT ![p].todo = S] =>
              /\ job'[p].num = job[p].num /\ job'[p].prev = job[p].prev
              /\ job'[p].list = job[p].list /\ job'[p].todo = S
         /\ \A q \in Actors : \A f : q # p /\ job' = [job EXCEPT ![p].list = f] => job'[q] = job[q]
         /\ \A q \in Actors : \A S : q # p /\ job' = [job EXCEPT ![p].todo = S] => job'[q] = job[q]
BY Types DEF Job

\* No link is made for an empty listing.
LEMMA NoLinksForEmpty == LinksFor(Empty) = {}
BY DEF LinksFor, Empty, LinkNames, Clips

\* What the other scripts keep when a script works on
LEMMA OthersWait ==
  ASSUME NEW p \in Takers, \A q \in Takers : q # p => pc'[q] = "idle",
         (NumberNew(p) /\ BeforeList(p) /\ Listed(p) /\ Discards(p) /\ Linking(p))'
  PROVE  TakersKnow'
<1>1. \A q \in Takers : q # p =>
        (NumberNew(q) /\ BeforeList(q) /\ Listed(q) /\ Discards(q) /\ Linking(q))'
  BY DEF NumberNew, BeforeList, Listed, Discards, Linking, AtWork
<1> QED BY <1>1 DEF TakersKnow

LEMMA ListClean ==
  ASSUME IInv, Clean, NEW p \in Takers, List(p)
  PROVE  Clean'
<1> DEFINE n == job[p].num
<1>0. pc[p] = "list" /\ AtWork(p)
  BY DEF List, AtWork
<1>1. /\ n \in Num
      /\ pc["fsm"] = "idle" /\ \A q \in Takers : q # p => pc[q] = "idle"
      /\ NumberNew(p) /\ BeforeList(p) /\ ~Retired(n)
      /\ \A m \in Images : m # n => Complete(m)
  BY <1>0, Working
<1>2. /\ toc[n] = NoFile /\ n \in dirs /\ job[p].list = Empty
      /\ \A l \in LinkNames : link[l] # n
  BY <1>0, <1>1 DEF NumberNew, BeforeList, Clean, NotLinked
<1>3. pc' = [pc EXCEPT ![p] = "compare"] /\ image' = image
  BY DEF List, Goto
<1>4. pc'[p] = "compare" /\ \A q \in Actors : q # p => pc'[q] = pc[q]
  BY <1>3, Types
<1>5. /\ toc' = toc /\ link' = link
      /\ \A q \in Actors : q # p => job'[q] = job[q]
      /\ job'[p].num = n /\ job'[p].prev = job[p].prev
      /\ \A m \in Num : m # n => mount'[m] = mount[m]
      /\ mount'[n] \in {mount[n], image[n]}
      /\ job'[p].list = IF mount'[n] = NoFile THEN Empty ELSE mount'[n]
      /\ image[n] = NoFile /\ mount'[n] = NoFile => n \notin dirs'
      /\ dirs' \subseteq dirs
      /\ mount'[n] # mount[n] => mount'[n] = image[n]
  <2>1. CASE mount[n] = NoFile /\ image[n] = NoFile
    <3>1. /\ dirs' = dirs \ {n} /\ toc' = [toc EXCEPT ![n] = NoFile]
          /\ link' = Unlinked(LinksInto(n)) /\ UNCHANGED <<job, mount>>
      BY <2>1 DEF List
    <3>2. link' = link
      BY <3>1, <1>2, Types DEF Unlinked, LinksInto
    <3>3. toc' = toc
      BY <3>1, <1>1, <1>2, Types
    <3> QED BY <3>1, <3>2, <3>3, <2>1, <1>2
  <2>2. CASE ~(mount[n] = NoFile /\ image[n] = NoFile)
    <3>1. UNCHANGED <<dirs, toc, link>>
      BY <2>2 DEF List
    <3>2. PICK f \in Views(n) : /\ job' = [job EXCEPT ![p].list = IF n \in dirs THEN f ELSE Empty]
                                /\ mount' = Mounted(n, f)
      BY <2>2 DEF List
    <3>3. f \in Listing
      BY <3>2, <1>1, Types, OperatorTypes
    <3>4. /\ job'[p].num = n /\ job'[p].prev = job[p].prev /\ job'[p].list = f
          /\ \A q \in Actors : q # p => job'[q] = job[q]
      BY <3>2, <3>3, <1>0, <1>2, JobSteps, ZenonT(60)
    <3>5. \A m \in Num :
            mount'[m] = IF m = n /\ mount[n] = NoFile /\ f = image[n] THEN f ELSE mount[m]
      BY <3>2, <1>1, Types DEF Mounted
    <3>6. f = mount[n] \/ (mount[n] = NoFile /\ f \in {image[n], Empty})
      BY <3>2 DEF Views
    <3>7. /\ \A m \in Num : m # n => mount'[m] = mount[m]
          /\ mount'[n] \in {mount[n], image[n]}
          /\ mount'[n] # mount[n] => mount'[n] = image[n]
      BY <3>5, <1>1
    <3>8. f = IF mount'[n] = NoFile THEN Empty ELSE mount'[n]
      BY <3>3, <3>5, <3>6, <1>1, Types DEF Views
    <3>9. image[n] # NoFile \/ mount'[n] # NoFile
      BY <2>2, <3>5, <3>6, <1>1
    <3> QED BY <3>1, <3>4, <3>7, <3>8, <3>9
  <2> QED BY <2>1, <2>2
<1>6. Images' = Images /\ \A m : (Complete(m)' <=> Complete(m))
  BY <1>3, <1>5 DEF Images, Complete
<1>7. NoPurge' /\ WholeImages' /\ TocOfImage'
  <2>1. NoPurge'
    BY <1>4 DEF Clean, NoPurge
  <2>2. WholeImages'
    BY <1>1, <1>4, <1>5, <1>6 DEF WholeImages, Complete, AtWork
  <2>3. TocOfImage'
    BY <1>1, <1>3, <1>5 DEF Clean, TocOfImage, Removes
  <2> QED BY <2>1, <2>2, <2>3
<1>8. MountKnown'
  <2> SUFFICES ASSUME NEW m \in Num, mount'[m] # NoFile
               PROVE  \/ mount'[m] = image'[m]
                      \/ Retired(m)'
                      \/ /\ OldNews(m)'
                         /\ \/ image'[m] = NoFile
                            \/ \E q \in Takers : /\ pc'[q] \in {"list", "compare", "umount", "rm"}
                                                 /\ job'[q].num = m
    BY DEF MountKnown
  <2>1. CASE mount'[m] = mount[m]
    <3>1. \/ mount[m] = image[m]
          \/ Retired(m)
          \/ OldNews(m) /\ (image[m] = NoFile \/ m = n)
      BY <2>1, <1>1, Types DEF Clean, MountKnown
    <3>2. Retired(m)' <=> Retired(m)
      BY <1>3, <1>6 DEF Retired
    <3>3. OldNews(m)' <=> OldNews(m)
      BY <2>1, <1>5, <1>6 DEF OldNews
    <3> QED BY <2>1, <3>1, <3>2, <3>3, <1>3, <1>4, <1>5
  <2>2. CASE mount'[m] # mount[m]
    BY <2>2, <1>3, <1>5
  <2> QED BY <2>1, <2>2
<1>9. TakersKnow'
  <2>1. \A q \in Takers : q # p => pc'[q] = "idle"
    BY <1>1, <1>4, Types
  <2>2. NumberNew(p)'
    BY <1>0, <1>1, <1>5, <1>6 DEF NumberNew
  <2>3. (BeforeList(p) /\ Listed(p) /\ Discards(p) /\ Linking(p))'
    BY <1>3, <1>4, <1>5 DEF BeforeList, Listed, Discards, Linking
  <2> QED BY <2>1, <2>2, <2>3, OthersWait
<1>10. LinksHeld' /\ NotLinked'
  <2>1. LinksHeld'
    BY <1>1, <1>3, <1>5 DEF Clean, LinksHeld, Releases
  <2>2. NotLinked'
    BY <1>1, <1>2, <1>4, <1>5, Types DEF NotLinked, AtWork
  <2> QED BY <2>1, <2>2
<1>11. AutofsRetired' /\ VictimKnown' /\ TocHonest'
  <2>1. AutofsRetired'
    BY <1>3, <1>4, <1>5, <1>6, Types DEF Clean, AutofsRetired, Retired
  <2>2. VictimKnown'
    BY <1>1, <1>4, Types DEF VictimKnown
  <2>3. TocHonest'
    BY <1>3, <1>5, <1>6 DEF Clean, TocHonest
  <2> QED BY <2>1, <2>2, <2>3
<1> QED BY <1>7, <1>8, <1>9, <1>10, <1>11 DEF Clean

LEMMA CompareClean ==
  ASSUME IInv, Clean, NEW p \in Takers, Compare(p)
  PROVE  Clean'
<1> DEFINE n == job[p].num
           prev == job[p].prev
           same == HasToc(prev) /\ ~HasNewLines(toc[prev], job[p].list)
<1>0. pc[p] = "compare" /\ AtWork(p)
  BY DEF Compare, AtWork
<1>1. /\ n \in Num
      /\ pc["fsm"] = "idle" /\ \A q \in Takers : q # p => pc[q] = "idle"
      /\ NumberNew(p) /\ Listed(p) /\ ~Retired(n)
      /\ \A m \in Images : m # n => Complete(m)
  BY <1>0, Working
<1>2. UNCHANGED <<dirs, image, toc>>
  BY DEF Compare, files
<1>3. PICK s \in {"umount", "links"} : pc' = [pc EXCEPT ![p] = s] /\ (s = "umount" <=> same)
  BY DEF Compare, Goto
<1>4. pc'[p] = s /\ \A q \in Actors : q # p => pc'[q] = pc[q]
  BY <1>3, Types
<1>5. /\ \A l \in LinkNames : link'[l] \in {link[l], NoNum}
      /\ \A m \in Num : m # n => mount'[m] = mount[m]
      /\ mount'[n] # mount[n] => mount'[n] = image[n]
      /\ job'[p].num = n /\ job'[p].prev = prev /\ job'[p].list = job[p].list
      /\ \A q \in Actors : q # p => job'[q] = job[q]
      /\ s = "umount" => UNCHANGED <<job, mount>>
      /\ s = "links" => \E f \in Views(n) : job'[p].todo = LinksFor(f) /\ mount' = Mounted(n, f)
  <2>1. CASE s = "umount"
    <3>1. UNCHANGED <<job, mount, link>>
      BY <1>3, <2>1 DEF Compare
    <3> QED BY <3>1, <2>1
  <2>2. CASE s = "links"
    <3>1. PICK S : link' = Unlinked(S)
      BY <1>3, <2>2 DEF Compare
    <3>2. PICK f \in Views(n) : /\ job' = [job EXCEPT ![p].todo = LinksFor(f)]
                                /\ mount' = Mounted(n, f)
      BY <1>3, <2>2 DEF Compare
    <3>3. LinksFor(f) \in SUBSET LinkNames
      BY DEF LinksFor
    <3>4. /\ job'[p].num = n /\ job'[p].prev = prev /\ job'[p].list = job[p].list
          /\ job'[p].todo = LinksFor(f)
          /\ \A q \in Actors : q # p => job'[q] = job[q]
      BY <3>2, <3>3, <1>0, JobSteps, ZenonT(60)
    <3>5. \A m \in Num :
            mount'[m] = IF m = n /\ mount[n] = NoFile /\ f = image[n] THEN f ELSE mount[m]
      BY <3>2, <1>1, Types DEF Mounted
    <3>6. \A l \in LinkNames : link'[l] \in {link[l], NoNum}
      BY <3>1 DEF Unlinked
    <3>7. /\ \A m \in Num : m # n => mount'[m] = mount[m]
          /\ mount'[n] # mount[n] => mount'[n] = image[n]
      BY <3>5, <1>1
    <3>8. \E g \in Views(n) : job'[p].todo = LinksFor(g) /\ mount' = Mounted(n, g)
      BY <3>2, <3>4
    <3> QED BY <2>2, <3>4, <3>6, <3>7, <3>8
  <2> QED BY <2>1, <2>2
<1>6. Images' = Images /\ \A m : (Complete(m)' <=> Complete(m)) /\ (Retired(m)' <=> Retired(m))
  BY <1>2 DEF Images, Complete, Retired
<1>7. NoPurge' /\ WholeImages' /\ TocOfImage'
  <2>1. NoPurge'
    BY <1>4 DEF Clean, NoPurge
  <2>2. WholeImages'
    BY <1>1, <1>4, <1>5, <1>6 DEF WholeImages, Complete, AtWork
  <2>3. TocOfImage'
    BY <1>1, <1>2 DEF Clean, TocOfImage, Removes
  <2> QED BY <2>1, <2>2, <2>3
<1>8. s = "links" => mount[n] \in {NoFile, image[n]}
  <2> SUFFICES ASSUME ~same, mount[n] # NoFile, mount[n] # image[n] PROVE FALSE
    BY <1>3
  <2>1. OldNews(n)
    BY <1>1 DEF Clean, MountKnown
  <2>2. job[p].list = mount[n]
    BY <1>0, <1>1 DEF Listed
  <2> QED BY <2>1, <2>2, <1>0, <1>1 DEF OldNews, NumberNew, HasToc, Complete
<1>9. MountKnown'
  <2> SUFFICES ASSUME NEW m \in Num, mount'[m] # NoFile
               PROVE  \/ mount'[m] = image'[m]
                      \/ Retired(m)'
                      \/ /\ OldNews(m)'
                         /\ \/ image'[m] = NoFile
                            \/ \E q \in Takers : /\ pc'[q] \in {"list", "compare", "umount", "rm"}
                                                 /\ job'[q].num = m
    BY DEF MountKnown
  <2>1. CASE mount'[m] = mount[m]
    <3>1. \/ mount[m] = image[m]
          \/ Retired(m)
          \/ OldNews(m) /\ (image[m] = NoFile \/ m = n)
      BY <2>1, <1>1, Types DEF Clean, MountKnown
    <3>2. OldNews(m)' <=> OldNews(m)
      BY <2>1, <1>2, <1>6 DEF OldNews
    <3>3. s = "umount" => pc'[p] \in {"list", "compare", "umount", "rm"} /\ job'[p].num = n
      BY <1>4, <1>5
    <3>4. s = "links" /\ m = n => mount[m] = image[m]
      BY <2>1, <1>8
    <3> QED BY <2>1, <3>1, <3>2, <3>3, <3>4, <1>2, <1>3, <1>6
  <2>2. CASE mount'[m] # mount[m]
    BY <2>2, <1>2, <1>5
  <2> QED BY <2>1, <2>2
<1>10. TakersKnow'
  <2>1. \A q \in Takers : q # p => pc'[q] = "idle"
    BY <1>1, <1>4, Types
  <2>2. NumberNew(p)'
    BY <1>0, <1>1, <1>2, <1>5, <1>6 DEF NumberNew
  <2>3. (BeforeList(p) /\ Listed(p))'
    BY <1>3, <1>4 DEF BeforeList, Listed
  <2>4. Discards(p)'
    <3> SUFFICES ASSUME s = "umount" PROVE n # 0 /\ (mount[n] # NoFile => OldNews(n)')
      BY <1>3, <1>4, <1>5 DEF Discards
    <3>1. prev \in Num /\ toc[prev] # NoFile /\ ~HasNewLines(toc[prev], job[p].list)
      BY <1>3 DEF HasToc
    <3>2. prev = Preceding(n) /\ n # 0
      BY <3>1, <1>0, <1>1, Types DEF NumberNew, Preceding
    <3>3. mount[n] # NoFile => OldNews(n)
      BY <3>1, <3>2, <1>0, <1>1 DEF OldNews, NumberNew, Listed
    <3>4. OldNews(n)' <=> OldNews(n)
      BY <1>2, <1>5, <1>6 DEF OldNews
    <3> QED BY <3>2, <3>3, <3>4
  <2>5. Linking(p)'
    <3> SUFFICES ASSUME s = "links"
                 PROVE  /\ mount'[n] \in {NoFile, image[n]}
                        /\ image[n] = NoFile => n \notin dirs /\ job'[p].todo = {}
                        /\ image[n] # NoFile => /\ job[p].list \in {image[n], Empty}
                                                /\ job'[p].todo \subseteq LinksFor(image[n])
      BY <1>2, <1>3, <1>4, <1>5 DEF Linking
    <3>1. PICK f \in Views(n) : job'[p].todo = LinksFor(f)
      BY <1>5
    <3>2. mount[n] \in {NoFile, image[n]}
      BY <1>8
    <3>3. f = image[n] \/ f = Empty
      BY <3>2 DEF Views
    <3>4. image[n] = NoFile => f = Empty
      BY <3>2, <1>1, Types DEF Views
    <3>5. image[n] = NoFile => n \notin dirs
      BY <3>2, <1>0, <1>1 DEF Listed
    <3>6. job[p].list \in {image[n], Empty}
      BY <3>2, <1>0, <1>1 DEF Listed
    <3> QED BY <3>1, <3>2, <3>3, <3>4, <3>5, <3>6, <1>5, NoLinksForEmpty
  <2> QED BY <2>1, <2>2, <2>3, <2>4, <2>5, OthersWait
<1>11. LinksHeld' /\ NotLinked'
  <2>1. LinksHeld'
    BY <1>1, <1>2, <1>5 DEF Clean, LinksHeld, Releases
  <2>2. NotLinked'
    <3>1. \A l \in LinkNames : link[l] # n
      BY <1>0 DEF Clean, NotLinked
    <3> QED BY <3>1, <1>1, <1>4, <1>5, Types DEF NotLinked, AtWork
  <2> QED BY <2>1, <2>2
<1>12. AutofsRetired' /\ VictimKnown' /\ TocHonest'
  <2>1. AutofsRetired'
    BY <1>4, <1>5, <1>6, Types DEF Clean, AutofsRetired
  <2>2. VictimKnown'
    BY <1>1, <1>4, Types DEF VictimKnown
  <2>3. TocHonest'
    BY <1>2, <1>6 DEF Clean, TocHonest
  <2> QED BY <2>1, <2>2, <2>3
<1> QED BY <1>7, <1>9, <1>10, <1>11, <1>12 DEF Clean

LEMMA MakeLinkClean ==
  ASSUME IInv, Clean, NEW p \in Takers, MakeLink(p)
  PROVE  Clean'
<1> DEFINE n == job[p].num
<1>0. pc[p] = "links" /\ AtWork(p)
  BY DEF MakeLink, AtWork
<1>1. /\ n \in Num /\ job[p].todo \subseteq LinkNames
      /\ pc["fsm"] = "idle" /\ \A q \in Takers : q # p => pc[q] = "idle"
      /\ NumberNew(p) /\ Linking(p)
  BY <1>0, Working DEF Job
<1>2. UNCHANGED <<dirs, image, toc, mount, pc>>
  BY DEF MakeLink, files
<1>3. PICK l \in job[p].todo : /\ link' = Retarget(l, n)
                               /\ job' = [job EXCEPT ![p].todo = @ \ {l}]
  BY DEF MakeLink
<1>4. /\ job'[p].num = n /\ job'[p].prev = job[p].prev /\ job'[p].list = job[p].list
      /\ job'[p].todo = job[p].todo \ {l}
      /\ \A q \in Actors : q # p => job'[q] = job[q]
  <2>1. job[p].todo \ {l} \in SUBSET LinkNames
    BY <1>1
  <2>2. job' = [job EXCEPT ![p].todo = job[p].todo \ {l}]
    BY <1>3
  <2> QED BY <2>1, <2>2, <1>0, JobSteps
<1>5. Images' = Images /\ \A m : (Complete(m)' <=> Complete(m)) /\ (Retired(m)' <=> Retired(m))
                                 /\ (OldNews(m)' <=> OldNews(m))
  BY <1>2 DEF Images, Complete, Retired, OldNews
<1>6. \A q \in Actors : job'[q].num = job[q].num
  BY <1>4
<1>7. NoPurge' /\ WholeImages' /\ TocOfImage' /\ MountKnown'
  <2>1. NoPurge' /\ WholeImages' /\ TocOfImage'
    BY <1>2, <1>5, <1>6, Types DEF Clean, NoPurge, WholeImages, TocOfImage, Removes, AtWork
  <2>2. MountKnown'
    BY <1>2, <1>5, <1>6, Types DEF Clean, MountKnown
  <2> QED BY <2>1, <2>2
<1>8. TakersKnow'
  <2>1. \A q \in Takers : q # p => pc'[q] = "idle"
    BY <1>1, <1>2
  <2>2. NumberNew(p)'
    BY <1>0, <1>1, <1>2, <1>4, <1>5 DEF NumberNew
  <2>3. (BeforeList(p) /\ Listed(p) /\ Discards(p) /\ Linking(p))'
    BY <1>0, <1>1, <1>2, <1>4 DEF BeforeList, Listed, Discards, Linking
  <2> QED BY <2>1, <2>2, <2>3, OthersWait
<1>9. LinksHeld' /\ NotLinked'
  <2>1. image[n] # NoFile /\ image[n][l[2]] > 0 /\ l \in LinkNames
    BY <1>0, <1>1, <1>3 DEF Linking, LinksFor
  <2>2. \A k \in LinkNames : link'[k] = IF k = l THEN n ELSE link[k]
    BY <1>3, <2>1, Types DEF Retarget
  <2>3. LinksHeld'
    BY <2>1, <2>2, <1>1, <1>2 DEF Clean, LinksHeld, Releases
  <2>4. NotLinked'
    BY <1>0, <1>1, <1>2 DEF NotLinked, AtWork
  <2> QED BY <2>3, <2>4
<1>10. AutofsRetired' /\ VictimKnown' /\ TocHonest'
  BY <1>2, <1>5, <1>6, Types DEF Clean, AutofsRetired, VictimKnown, TocHonest
<1> QED BY <1>7, <1>8, <1>9, <1>10 DEF Clean

\* The end of snapshot(): nobody makes a snapshot any more.
LEMMA SnapshotEnds ==
  ASSUME IInv, NEW p \in Takers, pc[p] # "idle", NEW tocs, AfterSnapshot(p, tocs)
  PROVE  /\ pc'[p] \in {"idle", "rebuild"}
         /\ \A q \in Takers : q # p => pc'[q] = "idle"
         /\ \A q \in Actors : q # p => pc'[q] = pc[q] /\ job'[q] = job[q]
         /\ TakersKnow' /\ NotLinked'
<1>1. \A q \in Takers : q # p => pc[q] = "idle"
  BY TakerAlone
<1>2. /\ pc'[p] \in {"idle", "rebuild"}
      /\ \A q \in Actors : q # p => pc'[q] = pc[q] /\ job'[q] = job[q]
  BY Types DEF AfterSnapshot, Goto
<1>3. \A q \in Takers : q # p => pc'[q] = "idle"
  BY <1>1, <1>2, Types
<1>4. (NumberNew(p) /\ BeforeList(p) /\ Listed(p) /\ Discards(p) /\ Linking(p))'
  BY <1>2 DEF NumberNew, BeforeList, Listed, Discards, Linking, AtWork
<1>5. NotLinked'
  BY <1>2, <1>3 DEF NotLinked, AtWork
<1> QED BY <1>2, <1>3, <1>4, <1>5, OthersWait

LEMMA CommitClean ==
  ASSUME IInv, Clean, NEW p \in Takers, Commit(p)
  PROVE  Clean'
<1> DEFINE n == job[p].num
<1>0. pc[p] = "links" /\ AtWork(p)
  BY DEF Commit, AtWork
<1>1. /\ n \in Num /\ job[p].list \in Listing
      /\ pc["fsm"] = "idle"
      /\ NumberNew(p) /\ Linking(p) /\ toc[n] = NoFile
      /\ \A m \in Images : m # n => Complete(m)
  BY <1>0, Working DEF Job, NumberNew
<1>2. UNCHANGED <<dirs, image, mount, link>> /\ Images' = Images
  BY DEF Commit, Images
<1>3. \A m \in Num : toc'[m] = IF m = n /\ n \in dirs THEN job[p].list ELSE toc[m]
  BY <1>1, Types DEF Commit
<1>4. /\ pc'[p] \in {"idle", "rebuild"}
      /\ \A q \in Takers : q # p => pc'[q] = "idle"
      /\ \A q \in Actors : q # p => pc'[q] = pc[q] /\ job'[q] = job[q]
      /\ TakersKnow' /\ NotLinked'
  BY <1>0, SnapshotEnds DEF Commit
<1>5. image[n] # NoFile <=> n \in dirs
  BY <1>0, <1>1, Types DEF Linking, DirsCover, Images
<1>6. \A m : Complete(m) => Complete(m)'
  BY <1>1, <1>2, <1>3 DEF Complete
<1>7. NoPurge' /\ WholeImages' /\ TocOfImage'
  <2>1. NoPurge'
    BY <1>4, Types DEF Clean, NoPurge
  <2>2. WholeImages'
    <3> SUFFICES ASSUME NEW m \in Images PROVE toc'[m] # NoFile
      BY <1>2 DEF WholeImages
    <3>1. CASE m = n
      BY <3>1, <1>1, <1>3, <1>5, Types DEF Images
    <3>2. CASE m # n
      BY <3>2, <1>1, <1>3 DEF Complete
    <3> QED BY <3>1, <3>2
  <2>3. TocOfImage'
    BY <1>1, <1>2, <1>3, <1>5 DEF Clean, TocOfImage, Removes
  <2> QED BY <2>1, <2>2, <2>3
<1>8. MountKnown'
  <2> SUFFICES ASSUME NEW m \in Num, mount'[m] # NoFile
               PROVE  \/ mount'[m] = image'[m]
                      \/ Retired(m)'
                      \/ OldNews(m)' /\ image'[m] = NoFile
    BY DEF MountKnown
  <2>1. \/ mount[m] = image[m]
        \/ Retired(m)
        \/ OldNews(m) /\ image[m] = NoFile
    BY <1>0, <1>1, <1>2, <1>4, TakerAlone DEF Clean, MountKnown
  <2>2. Retired(m) => Retired(m)'
    BY <1>2 DEF Retired
  <2>3. OldNews(m) => OldNews(m)'
    <3>1. OldNews(m) => Preceding(m) \in Num /\ toc'[Preceding(m)] = toc[Preceding(m)]
      BY <1>1, <1>3 DEF OldNews, Complete
    <3> QED BY <3>1, <1>2, <1>6 DEF OldNews
  <2> QED BY <2>1, <2>2, <2>3, <1>2
<1>9. LinksHeld'
  BY <1>1, <1>2 DEF Clean, LinksHeld, Releases
<1>10. AutofsRetired' /\ VictimKnown' /\ TocHonest'
  <2>1. AutofsRetired'
    BY <1>2, <1>4, Types DEF Clean, AutofsRetired, Retired
  <2>2. VictimKnown'
    BY <1>1, <1>4, Types DEF VictimKnown
  <2>3. TocHonest'
    BY <1>0, <1>1, <1>2, <1>3, <1>5 DEF Clean, TocHonest, Complete, Linking
  <2> QED BY <2>1, <2>2, <2>3
<1> QED BY <1>4, <1>7, <1>8, <1>9, <1>10 DEF Clean

\* A mount of an image, while nobody makes a snapshot, shows that image.
LEMMA MountsAtRest ==
  ASSUME IInv, Clean, \A q \in Takers : ~AtWork(q), NEW n \in Num, image[n] # NoFile
  PROVE  mount[n] \in {NoFile, image[n]}
BY DEF Clean, MountKnown, Retired, AtWork

LEMMA RebuildClean ==
  ASSUME IInv, Clean, NEW p \in Takers, Rebuild(p) \/ RebuildDone(p)
  PROVE  Clean'
<1> DEFINE n == Oldest(job[p].queue)
<1>0. pc[p] = "rebuild" /\ ~AtWork(p)
  BY DEF Rebuild, RebuildDone, AtWork
<1>1. pc["fsm"] = "idle" /\ \A q \in Takers : q # p => pc[q] = "idle"
  BY <1>0, TakerAlone
<1>2. \A q \in Takers : ~AtWork(q)
  BY <1>0, <1>1 DEF AtWork
<1>3. UNCHANGED <<dirs, image, toc>>
  BY DEF Rebuild, RebuildDone, files
<1>4. /\ pc'[p] \in {"idle", "rebuild"}
      /\ \A q \in Actors : q # p => pc'[q] = pc[q] /\ job'[q] = job[q]
  BY <1>0, Types DEF Rebuild, RebuildDone, Goto
<1>5. /\ \A m \in Num : mount'[m] = mount[m] \/ mount'[m] = image[m]
      /\ \A l \in LinkNames : \/ link'[l] = link[l]
                              \/ image[link'[l]] # NoFile /\ image[link'[l]][l[2]] > 0
  <2>1. CASE UNCHANGED <<mount, link>>
    BY <2>1
  <2>2. CASE ~UNCHANGED <<mount, link>>
    <3>1. /\ job[p].queue # {} /\ image[n] # NoFile
          /\ mount' = [mount EXCEPT ![n] = IF @ = NoFile THEN image[n] ELSE @]
          /\ LET new == IF Linked(n) THEN {} ELSE LinksFor(mount'[n]) IN
             link' = [l \in LinkNames |-> IF l \in new THEN n ELSE link[l]]
      BY <2>2 DEF Rebuild, RebuildDone
    <3>2. n \in Num
      BY <3>1, Types, OldestOf DEF Job
    <3>3. mount'[n] = image[n]
      BY <3>1, <3>2, <1>2, Types, MountsAtRest
    <3>4. \A m \in Num : mount'[m] = mount[m] \/ mount'[m] = image[m]
      BY <3>1, <3>2, <3>3, Types
    <3>5. \A l \in LinkNames : link'[l] = link[l] \/ (link'[l] = n /\ l \in LinksFor(image[n]))
      BY <3>1, <3>3
    <3> QED BY <3>1, <3>4, <3>5 DEF LinksFor
  <2> QED BY <2>1, <2>2
<1>6. /\ Images' = Images
      /\ \A m : (Complete(m)' <=> Complete(m)) /\ (Retired(m)' <=> Retired(m))
  BY <1>3 DEF Images, Complete, Retired
<1>7. NoPurge' /\ WholeImages' /\ TocOfImage'
  <2>1. NoPurge'
    BY <1>4 DEF Clean, NoPurge
  <2>2. WholeImages'
    BY <1>1, <1>2, <1>3, <1>6 DEF Clean, WholeImages, Removes
  <2>3. TocOfImage'
    BY <1>1, <1>3 DEF Clean, TocOfImage, Removes
  <2> QED BY <2>1, <2>2, <2>3
<1>8. MountKnown'
  <2> SUFFICES ASSUME NEW m \in Num, mount'[m] # NoFile
               PROVE  \/ mount'[m] = image'[m]
                      \/ Retired(m)'
                      \/ OldNews(m)' /\ image'[m] = NoFile
    BY DEF MountKnown
  <2>1. CASE mount'[m] = mount[m]
    <3>1. \/ mount[m] = image[m]
          \/ Retired(m)
          \/ OldNews(m) /\ image[m] = NoFile
      BY <2>1, <1>2 DEF Clean, MountKnown, AtWork
    <3>2. OldNews(m)' <=> OldNews(m)
      BY <2>1, <1>3, <1>6 DEF OldNews
    <3> QED BY <2>1, <3>1, <3>2, <1>3, <1>6
  <2>2. CASE mount'[m] = image[m]
    BY <2>2, <1>3
  <2> QED BY <2>1, <2>2, <1>5
<1>9. TakersKnow' /\ NotLinked'
  <2>1. \A q \in Takers : q # p => pc'[q] = "idle"
    BY <1>1, <1>4, Types
  <2>2. (NumberNew(p) /\ BeforeList(p) /\ Listed(p) /\ Discards(p) /\ Linking(p))'
    BY <1>4 DEF NumberNew, BeforeList, Listed, Discards, Linking, AtWork
  <2>3. NotLinked'
    BY <2>1, <1>4 DEF NotLinked, AtWork
  <2> QED BY <2>1, <2>2, <2>3, OthersWait
<1>10. LinksHeld'
  BY <1>1, <1>3, <1>5 DEF Clean, LinksHeld, Releases
<1>11. AutofsRetired' /\ VictimKnown' /\ TocHonest'
  <2>1. AutofsRetired'
    BY <1>4, <1>6, Types DEF Clean, AutofsRetired
  <2>2. VictimKnown'
    BY <1>1, <1>4, Types DEF VictimKnown
  <2>3. TocHonest'
    BY <1>3, <1>6 DEF Clean, TocHonest
  <2> QED BY <2>1, <2>2, <2>3
<1> QED BY <1>7, <1>8, <1>9, <1>10, <1>11 DEF Clean

-----------------------------------------------------------------------------
(* The steps of release_snapshot.sh, run by the three that run it          *)

\* A new snapshot is discarded: its image or its listing goes, or both.
LEMMA DiscardClean ==
  ASSUME IInv, Clean, NEW p \in Takers, pc[p] = "rm",
         \A m \in Num : m # job[p].num => image'[m] = image[m],
         image'[job[p].num] \in {image[job[p].num], NoFile},
         pc'[p] = "rm" \/ (pc'[p] = "unlink" /\ image'[job[p].num] = NoFile),
         \A q \in Actors : q # p => pc'[q] = pc[q],
         \A m \in Num : toc'[m] = toc[m],
         dirs' \subseteq dirs, UNCHANGED <<mount, link, job>>
  PROVE  Clean'
<1> DEFINE n == job[p].num
<1>0. AtWork(p)
  BY DEF AtWork
<1>1. /\ n \in Num
      /\ pc["fsm"] = "idle" /\ \A q \in Takers : q # p => pc[q] = "idle"
      /\ NumberNew(p) /\ Discards(p) /\ ~Retired(n) /\ toc[n] = NoFile
      /\ \A m \in Images : m # n => Complete(m)
  BY <1>0, Working DEF NumberNew
<1>2. n # 0 /\ Complete(Preceding(n)) /\ Preceding(n) \in Num /\ Preceding(n) # n
  BY <1>0, <1>1, Types DEF Discards, NumberNew, Preceding, Complete
<1>3. Images' \subseteq Images /\ \A m \in Images : m # n => m \in Images'
  BY DEF Images
<1>4. \A m : Complete(m)' <=> Complete(m)
  BY <1>1 DEF Complete
<1>5. \A m : Retired(m) => Retired(m)'
  <2> SUFFICES ASSUME NEW m, Retired(m) PROVE Retired(m)'
    OBVIOUS
  <2>1. PICK k \in Images : m < k
    BY DEF Retired
  <2>2. m \in Num /\ image[m] = NoFile /\ m # n /\ image'[m] = NoFile
    BY <1>1 DEF Retired
  <2>3. CASE k # n
    BY <2>1, <2>2, <2>3, <1>3 DEF Retired
  <2>4. CASE k = n
    <3>1. m < Preceding(n)
      BY <2>1, <2>2, <2>4, <1>1, <1>2, Types DEF Preceding, Complete
    <3>2. Preceding(n) \in Images'
      BY <1>2, <1>3 DEF Complete, Images
    <3> QED BY <3>1, <3>2, <2>2 DEF Retired
  <2> QED BY <2>3, <2>4
<1>6. \A m \in Num : OldNews(m) => OldNews(m)'
  <2> SUFFICES ASSUME NEW m \in Num, OldNews(m) PROVE OldNews(m)'
    OBVIOUS
  <2>1. Preceding(m) \in Num /\ toc'[Preceding(m)] = toc[Preceding(m)]
    BY DEF OldNews, Complete
  <2> QED BY <2>1, <1>4 DEF OldNews
<1>7. NoPurge' /\ WholeImages' /\ TocOfImage'
  <2>1. NoPurge'
    BY DEF Clean, NoPurge
  <2>2. WholeImages'
    BY <1>1, <1>3, <1>4, Types DEF WholeImages, Complete, AtWork
  <2>3. TocOfImage'
    BY <1>1 DEF Clean, TocOfImage, Removes
  <2> QED BY <2>1, <2>2, <2>3
<1>8. MountKnown'
  <2> SUFFICES ASSUME NEW m \in Num, mount'[m] # NoFile
               PROVE  \/ mount'[m] = image'[m]
                      \/ Retired(m)'
                      \/ /\ OldNews(m)'
                         /\ \/ image'[m] = NoFile
                            \/ \E q \in Takers : /\ pc'[q] \in {"list", "compare", "umount", "rm"}
                                                 /\ job'[q].num = m
    BY DEF MountKnown
  <2>1. CASE m = n
    <3>1. OldNews(m)'
      BY <2>1, <1>1, <1>6 DEF Discards
    <3> QED BY <2>1, <3>1
  <2>2. CASE m # n
    <3>1. mount[m] = image[m] \/ Retired(m) \/ (OldNews(m) /\ image[m] = NoFile)
      BY <2>2, <1>1 DEF Clean, MountKnown
    <3> QED BY <2>2, <3>1, <1>5, <1>6
  <2> QED BY <2>1, <2>2
<1>9. TakersKnow'
  <2>1. \A q \in Takers : q # p => pc'[q] = "idle"
    BY <1>1, Types
  <2>2. NumberNew(p)'
    BY <1>0, <1>1, <1>2, <1>3, <1>4 DEF NumberNew
  <2>3. Discards(p)'
    BY <1>1, <1>6 DEF Discards
  <2>4. (BeforeList(p) /\ Listed(p) /\ Linking(p))'
    BY DEF BeforeList, Listed, Linking
  <2> QED BY <2>1, <2>2, <2>3, <2>4, OthersWait
<1>10. LinksHeld' /\ NotLinked'
  <2>1. \A l \in LinkNames : link[l] # n
    BY <1>0 DEF Clean, NotLinked
  <2>2. LinksHeld'
    BY <2>1, <1>1, Types DEF Clean, LinksHeld, Releases
  <2>3. NotLinked'
    BY <2>1, <1>1, Types DEF NotLinked, AtWork
  <2> QED BY <2>2, <2>3
<1>11. AutofsRetired' /\ VictimKnown' /\ TocHonest'
  <2>1. AutofsRetired'
    BY <1>5, Types DEF Clean, AutofsRetired
  <2>2. VictimKnown'
    BY <1>1, Types DEF VictimKnown
  <2>3. TocHonest'
    BY <1>1, <1>4 DEF Clean, TocHonest, Complete
  <2> QED BY <2>1, <2>2, <2>3
<1> QED BY <1>7, <1>8, <1>9, <1>10, <1>11 DEF Clean

\* The mount of a snapshot is given up; nothing else that the invariant speaks of
\* depends on it.
LEMMA UnmountClean ==
  ASSUME IInv, Clean, NEW n \in Num,
         mount' \in [Num -> Listing \cup {NoFile}],
         \A m \in Num : mount'[m] \in {mount[m], NoFile},
         \A m \in Num : m # n => mount'[m] = mount[m],
         UNCHANGED <<files, link, job>>,
         \A q \in Actors :
           \/ pc'[q] = pc[q] /\ ~(q \in Takers /\ pc[q] = "compare" /\ job[q].num = n)
           \/ pc[q] = "umount" /\ pc'[q] = "rm"
  PROVE  Clean'
<1> USE DEF files
<1>1. /\ Images' = Images
      /\ \A m : (Complete(m)' <=> Complete(m)) /\ (Retired(m)' <=> Retired(m))
  BY DEF Images, Complete, Retired
<1>2. \A q \in Takers : AtWork(q)' <=> AtWork(q)
  BY Types DEF AtWork
<1>3. \A m : mount'[m] = mount[m] => (OldNews(m)' <=> OldNews(m))
  BY <1>1 DEF OldNews
<1>4. NoPurge' /\ WholeImages' /\ TocOfImage' /\ NotLinked'
  <2>1. NoPurge'
    BY DEF Clean, NoPurge
  <2>2. WholeImages'
    BY <1>1, <1>2, Types DEF Clean, WholeImages, Removes
  <2>3. TocOfImage'
    BY Types DEF Clean, TocOfImage, Removes
  <2>4. NotLinked'
    BY <1>2, Types DEF Clean, NotLinked
  <2> QED BY <2>1, <2>2, <2>3, <2>4
<1>5. MountKnown'
  <2> SUFFICES ASSUME NEW m \in Num, mount'[m] # NoFile
               PROVE  \/ mount'[m] = image'[m]
                      \/ Retired(m)'
                      \/ /\ OldNews(m)'
                         /\ \/ image'[m] = NoFile
                            \/ \E q \in Takers : /\ pc'[q] \in {"list", "compare", "umount", "rm"}
                                                 /\ job'[q].num = m
    BY DEF MountKnown
  <2>1. mount'[m] = mount[m]
    OBVIOUS
  <2>2. \/ mount[m] = image[m]
        \/ Retired(m)
        \/ /\ OldNews(m)
           /\ \/ image[m] = NoFile
              \/ \E q \in Takers : /\ pc[q] \in {"list", "compare", "umount", "rm"}
                                   /\ job[q].num = m
    BY <2>1 DEF Clean, MountKnown
  <2> QED BY <2>1, <2>2, <1>1, <1>3, Types
<1>6. TakersKnow'
  <2> SUFFICES ASSUME NEW q \in Takers
               PROVE  (NumberNew(q) /\ BeforeList(q) /\ Listed(q) /\ Discards(q) /\ Linking(q))'
    BY DEF TakersKnow
  <2>0. /\ NumberNew(q) /\ BeforeList(q) /\ Listed(q) /\ Discards(q) /\ Linking(q)
        /\ q \in Actors
        /\ AtWork(q) => job[q].num \in Num
    BY Types DEF Clean, TakersKnow, AtWork, NumOK
  <2>1. NumberNew(q)' /\ BeforeList(q)'
    BY <2>0, <1>1, <1>2 DEF NumberNew, BeforeList
  <2>2. Listed(q)'
    BY <2>0 DEF Listed, AtWork
  <2>3. Discards(q)'
    BY <2>0, <1>3 DEF Discards, AtWork
  <2>4. Linking(q)'
    BY <2>0 DEF Linking, AtWork
  <2> QED BY <2>1, <2>2, <2>3, <2>4
<1>7. LinksHeld' /\ AutofsRetired' /\ VictimKnown' /\ TocHonest'
  <2>1. LinksHeld'
    BY Types DEF Clean, LinksHeld, Releases
  <2>2. AutofsRetired'
    BY <1>1, Types DEF Clean, AutofsRetired
  <2>3. VictimKnown'
    BY <1>1, Types DEF Clean, VictimKnown
  <2>4. TocHonest'
    BY <1>1 DEF Clean, TocHonest
  <2> QED BY <2>1, <2>2, <2>3, <2>4
<1> QED BY <1>4, <1>5, <1>6, <1>7 DEF Clean

LEMMA UmountClean ==
  ASSUME IInv, Clean, NEW q \in Actors, Umount(q)
  PROVE  Clean'
<1> DEFINE n == job[q].num
<1>1. n \in Num
  BY Types DEF Umount, NumOK
<1>2. PICK m \in {mount[n], NoFile} : mount' = [mount EXCEPT ![n] = m]
  BY DEF Umount
<1>3. pc[q] = "umount" /\ pc' = [pc EXCEPT ![q] = "rm"] /\ UNCHANGED <<files, link, job>>
  BY DEF Umount, Goto
<1>4. /\ mount' \in [Num -> Listing \cup {NoFile}]
      /\ \A k \in Num : mount'[k] \in {mount[k], NoFile}
      /\ \A k \in Num : k # n => mount'[k] = mount[k]
  BY <1>1, <1>2, Types
<1>5. \A r \in Actors : \/ pc'[r] = pc[r] /\ ~(r \in Takers /\ pc[r] = "compare" /\ job[r].num = n)
                        \/ pc[r] = "umount" /\ pc'[r] = "rm"
  <2> SUFFICES ASSUME NEW r \in Takers, pc[r] = "compare", job[r].num = n, r # q PROVE FALSE
    BY <1>3, Types
  <2>1. AtWork(r)
    BY DEF AtWork
  <2>2. ~Retired(n) /\ pc["fsm"] = "idle" /\ \A k \in Takers : k # r => pc[k] = "idle"
    BY <2>1, Working
  <2>3. q = "autofs"
    BY <2>2, <1>3 DEF Actors
  <2> QED BY <2>2, <2>3, <1>3 DEF Clean, AutofsRetired
<1> QED BY <1>1, <1>3, <1>4, <1>5, UnmountClean

\* Images, listings and mounts stay, links only go, and the scripts that make snapshots
\* wait: the user, the car, autofs and a free space manager that removes no files.
LEMMA ChoresClean ==
  ASSUME IInv, Clean, UNCHANGED <<files, mount>>,
         \A l \in LinkNames : link'[l] \in {link[l], NoNum},
         \A q \in Takers : pc'[q] = pc[q] /\ job'[q] = job[q],
         \/ pc'["fsm"] = pc["fsm"] /\ job'["fsm"] = job["fsm"]
         \/ pc["fsm"] # "rm" /\ \A l \in LinkNames : ~Releases(link'[l]),
         pc'["fsm"] # "purge", pc'["autofs"] # "purge",
         AutofsRetired', VictimKnown'
  PROVE  Clean'
<1> USE DEF files
<1>1. /\ Images' = Images
      /\ \A m : /\ Complete(m)' <=> Complete(m)
                /\ Retired(m)' <=> Retired(m)
                /\ OldNews(m)' <=> OldNews(m)
  BY DEF Images, Complete, Retired, OldNews
<1>2. \A q \in Takers : AtWork(q)' <=> AtWork(q)
  BY DEF AtWork
<1>3. /\ \A m \in Num : Removes(m) => Removes(m)'
      /\ \A m : Releases(m) /\ (\E l \in LinkNames : link'[l] = m) => Releases(m)'
  BY DEF Removes, Releases
<1>4. NoPurge' /\ WholeImages' /\ TocOfImage'
  <2>1. NoPurge'
    BY DEF Clean, NoPurge, Actors
  <2>2. WholeImages'
    BY <1>1, <1>2, <1>3, Types DEF Clean, WholeImages
  <2>3. TocOfImage'
    BY <1>3 DEF Clean, TocOfImage
  <2> QED BY <2>1, <2>2, <2>3
<1>5. MountKnown'
  BY <1>1 DEF Clean, MountKnown
<1>6. TakersKnow'
  <2> SUFFICES ASSUME NEW q \in Takers
               PROVE  (NumberNew(q) /\ BeforeList(q) /\ Listed(q) /\ Discards(q) /\ Linking(q))'
    BY DEF TakersKnow
  <2>0. NumberNew(q) /\ BeforeList(q) /\ Listed(q) /\ Discards(q) /\ Linking(q)
    BY DEF Clean, TakersKnow
  <2>1. NumberNew(q)' /\ BeforeList(q)'
    BY <2>0, <1>1, <1>2 DEF NumberNew, BeforeList
  <2>2. Listed(q)' /\ Discards(q)' /\ Linking(q)'
    BY <2>0, <1>1 DEF Listed, Discards, Linking
  <2> QED BY <2>1, <2>2
<1>7. LinksHeld' /\ NotLinked'
  <2>1. LinksHeld'
    <3> SUFFICES ASSUME NEW l \in LinkNames, NEW m, m = link'[l], m # NoNum
                 PROVE  (image[m] # NoFile /\ image[m][l[2]] > 0) \/ Releases(m)'
      BY DEF LinksHeld
    <3>1. link[l] = m
      OBVIOUS
    <3>2. (image[m] # NoFile /\ image[m][l[2]] > 0) \/ Releases(m)
      BY <3>1 DEF Clean, LinksHeld
    <3> QED BY <3>2, <1>3
  <2>2. NotLinked'
    <3>1. \A q \in Takers : AtWork(q) => job[q].num \in Num
      BY Types DEF AtWork, NumOK
    <3> QED BY <3>1, <1>2, Types DEF Clean, NotLinked
  <2> QED BY <2>1, <2>2
<1>8. TocHonest'
  BY <1>1 DEF Clean, TocHonest
<1> QED BY <1>4, <1>5, <1>6, <1>7, <1>8 DEF Clean

\* make_snapshot.sh discards what it made.
LEMMA TakerRmClean ==
  ASSUME IInv, Clean, NEW p \in Takers, Rm(p) \/ RmPart(p)
  PROVE  Clean'
<1> DEFINE n == job[p].num
<1>1. pc[p] = "rm" /\ AtWork(p)
  BY Types DEF Rm, RmPart, Clean, NoPurge, AtWork
<1>2. n \in Num /\ toc[n] = NoFile
  BY <1>1, Working DEF NumberNew
<1>3. UNCHANGED <<mount, link, job>> /\ dirs' \subseteq dirs
  BY DEF Rm, RmPart
<1>4. \A m \in Num : toc'[m] = toc[m]
  BY <1>2, Types DEF Rm, RmPart
<1>5. /\ \A m \in Num : m # n => image'[m] = image[m]
      /\ image'[n] \in {image[n], NoFile}
      /\ Rm(p) => image'[n] = NoFile
  BY <1>2, Types DEF Rm, RmPart
<1>6. /\ pc'[p] = "rm" \/ (pc'[p] = "unlink" /\ Rm(p))
      /\ \A q \in Actors : q # p => pc'[q] = pc[q]
  BY <1>1, Types DEF Rm, RmPart, Goto
<1> QED BY <1>1, <1>3, <1>4, <1>5, <1>6, DiscardClean

LEMMA TakerUnlinkClean ==
  ASSUME IInv, Clean, NEW p \in Takers, Unlink(p)
  PROVE  Clean'
<1> DEFINE n == job[p].num
<1>0. pc[p] = "unlink" /\ AtWork(p)
  BY DEF Unlink, AtWork
<1>1. /\ n \in Num /\ image[n] = NoFile
      /\ pc["fsm"] = "idle" /\ \A q \in Takers : q # p => pc[q] = "idle"
      /\ \A m \in Images : Complete(m)
  BY <1>0, Working DEF Discards, Images
<1>2. UNCHANGED <<dirs, image, toc, mount>> /\ AfterSnapshot(p, toc)
  BY Types DEF Unlink, files
<1>3. link' = link
  <2>1. \A l \in LinkNames : link[l] # n
    BY <1>0 DEF Clean, NotLinked
  <2>2. link' = Unlinked(LinksInto(n))
    BY DEF Unlink
  <2> QED BY <2>1, <2>2, Types DEF Unlinked, LinksInto
<1>4. /\ pc'[p] \in {"idle", "rebuild"}
      /\ \A q \in Takers : q # p => pc'[q] = "idle"
      /\ \A q \in Actors : q # p => pc'[q] = pc[q] /\ job'[q] = job[q]
      /\ TakersKnow' /\ NotLinked'
  BY <1>0, <1>2, SnapshotEnds
<1>5. /\ Images' = Images
      /\ \A m : /\ Complete(m)' <=> Complete(m)
                /\ Retired(m)' <=> Retired(m)
                /\ OldNews(m)' <=> OldNews(m)
  BY <1>2 DEF Images, Complete, Retired, OldNews
<1>6. NoPurge' /\ WholeImages' /\ TocOfImage'
  <2>1. NoPurge'
    BY <1>4, Types DEF Clean, NoPurge
  <2>2. WholeImages'
    BY <1>1, <1>2, <1>5 DEF WholeImages, Complete
  <2>3. TocOfImage'
    BY <1>1, <1>2 DEF Clean, TocOfImage, Removes
  <2> QED BY <2>1, <2>2, <2>3
<1>7. MountKnown'
  <2>1. \A q \in Takers : pc[q] \notin {"list", "compare", "umount", "rm"}
    BY <1>0, <1>1
  <2> QED BY <2>1, <1>2, <1>5 DEF Clean, MountKnown
<1>8. LinksHeld'
  BY <1>1, <1>2, <1>3 DEF Clean, LinksHeld, Releases
<1>9. AutofsRetired' /\ VictimKnown' /\ TocHonest'
  BY <1>1, <1>2, <1>4, <1>5, Types DEF Clean, AutofsRetired, VictimKnown, TocHonest
<1> QED BY <1>4, <1>6, <1>7, <1>8, <1>9 DEF Clean

\* Of two images one is newer than the oldest directory.
LEMMA NewerThanVictim ==
  ASSUME IInv, SparesOne
  PROVE  /\ Victim \in dirs /\ \A m \in dirs : Victim <= m
         /\ \E m \in Images : Victim < m
<1>1. dirs # {}
  BY Types, SomeDirectory
<1>2. Victim \in dirs /\ \A m \in dirs : Victim <= m
  BY <1>1, Types, OldestOf DEF Victim
<1>3. ASSUME \A m \in Images : ~(Victim < m) PROVE FALSE
  <2>1. \A m \in Images : m = Victim
    BY <1>2, <1>3, Types DEF DirsCover
  <2>2. IsFiniteSet({Victim}) /\ Cardinality({Victim}) = 1
    BY FS_Singleton
  <2>3. Images \subseteq {Victim}
    BY <2>1
  <2>4. Cardinality(Images) <= 1 /\ Cardinality(Images) \in Nat
    BY <2>2, <2>3, FS_Subset, FS_CardinalityType
  <2> QED BY <2>4 DEF SparesOne
<1> QED BY <1>2, <1>3

LEMMA FreeSpaceClean ==
  ASSUME IInv, Clean, ManageFreeSpace
  PROVE  Clean'
<1> USE DEF ManageFreeSpace, FsmStart, FsmStop, FsmChoose, Goto
<1>1. pc["fsm"] \in {"idle", "check"}
  OBVIOUS
<1>2. /\ UNCHANGED <<files, mount, link>>
      /\ \A q \in Actors : q # "fsm" => pc'[q] = pc[q] /\ job'[q] = job[q]
  BY Types
<1>3. pc'["fsm"] \in {"idle", "check", "umount"}
  BY Types
<1>4. AutofsRetired'
  BY <1>2, Types DEF Clean, AutofsRetired, Retired, Images, files
<1>5. VictimKnown'
  <2> SUFFICES ASSUME FsmChoose PROVE VictimKnown'
    BY Types DEF VictimKnown
  <2>1. job'["fsm"].num = Victim
    BY Types, NewerThanVictim DEF Job
  <2>2. Images' = Images /\ dirs' = dirs
    BY <1>2 DEF Images, files
  <2> QED BY <2>1, <2>2, NewerThanVictim DEF VictimKnown
<1>6. pc'["autofs"] # "purge"
  BY <1>2, Types, ConstantsAssumption DEF Clean, NoPurge
<1>7. \A q \in Takers : pc'[q] = pc[q] /\ job'[q] = job[q]
  BY <1>2, Types
<1>8. \A l \in LinkNames : link'[l] \in {link[l], NoNum}
  BY <1>2
<1> HIDE DEF ManageFreeSpace, FsmStart, FsmStop, FsmChoose, Goto
<1>9. UNCHANGED <<files, mount>> /\ pc'["fsm"] # "purge"
  BY <1>2, <1>3
<1>10. pc["fsm"] # "rm" /\ \A l \in LinkNames : ~Releases(link'[l])
  BY <1>1 DEF Releases
<1> QED BY <1>4, <1>5, <1>6, <1>7, <1>8, <1>9, <1>10, ChoresClean

LEMMA FsmRmClean ==
  ASSUME IInv, Clean, Rm("fsm") \/ RmPart("fsm")
  PROVE  Clean'
<1> DEFINE v == job["fsm"].num
<1>1. pc["fsm"] = "rm" /\ \A q \in Takers : pc[q] = "idle"
  BY Types, FsmAlone DEF Rm, RmPart, Clean, NoPurge
<1>2. v \in Num /\ \A m \in dirs : v <= m
  BY <1>1, Types DEF NumOK, Clean, VictimKnown
<1>3. PICK k \in Images : v < k
  BY <1>1 DEF Clean, VictimKnown
<1>4. UNCHANGED <<mount, link, job>> /\ dirs' \subseteq dirs
  BY DEF Rm, RmPart
<1>5. /\ \A m \in Num : m # v => image'[m] = image[m] /\ toc'[m] = toc[m]
      /\ image'[v] \in {image[v], NoFile} /\ toc'[v] \in {toc[v], NoFile}
      /\ Rm("fsm") => image'[v] = NoFile /\ toc'[v] = NoFile
  BY <1>2, Types DEF Rm, RmPart
<1>6. /\ pc'["fsm"] = "rm" \/ (pc'["fsm"] = "unlink" /\ Rm("fsm"))
      /\ \A q \in Actors : q # "fsm" => pc'[q] = pc[q]
  BY <1>1, Types DEF Rm, RmPart, Goto
<1>7. \A q \in Takers : pc'[q] = "idle"
  BY <1>1, <1>6, Types
<1>8. /\ Images' \subseteq Images /\ \A m \in Images : m # v => m \in Images'
      /\ k \in Images'
      /\ \A m : Complete(m)' => Complete(m) /\ image'[m] = image[m] /\ toc'[m] = toc[m]
      /\ \A m : Complete(m) /\ m # v => Complete(m)'
  BY <1>2, <1>3, <1>5, Types DEF Images, Complete
<1>9. \A m : Retired(m) => Retired(m)'
  <2> SUFFICES ASSUME NEW m, Retired(m) PROVE Retired(m)'
    OBVIOUS
  <2>1. PICK i \in Images : m < i
    BY DEF Retired
  <2>2. m \in Num /\ image'[m] = NoFile
    BY <1>5 DEF Retired
  <2>3. CASE i # v
    BY <2>1, <2>2, <2>3, <1>8 DEF Retired
  <2>4. CASE i = v
    <3>1. m < k
      BY <2>1, <2>2, <2>4, <1>2, <1>3, Types
    <3> QED BY <3>1, <2>2, <1>8 DEF Retired
  <2> QED BY <2>3, <2>4
<1>10. NoPurge' /\ WholeImages' /\ TocOfImage'
  <2>1. NoPurge'
    BY <1>6 DEF Clean, NoPurge
  <2>2. WholeImages'
    <3> SUFFICES ASSUME NEW m \in Images' PROVE toc'[m] # NoFile \/ Removes(m)'
      BY DEF WholeImages
    <3>1. CASE m = v
      BY <3>1, <1>4, <1>5, <1>6 DEF Removes, Images
    <3>2. CASE m # v
      BY <3>2, <1>1, <1>5, <1>8, Types DEF Clean, WholeImages, Removes, AtWork
    <3> QED BY <3>1, <3>2
  <2>3. TocOfImage'
    BY <1>4, <1>5, <1>6 DEF Clean, TocOfImage, Removes
  <2> QED BY <2>1, <2>2, <2>3
<1>11. MountKnown'
  <2> SUFFICES ASSUME NEW m \in Num, mount'[m] # NoFile
               PROVE  \/ mount'[m] = image'[m]
                      \/ Retired(m)'
                      \/ OldNews(m)' /\ image'[m] = NoFile
    BY DEF MountKnown
  <2>1. \/ mount[m] = image[m]
        \/ Retired(m)
        \/ OldNews(m) /\ image[m] = NoFile
    BY <1>1, <1>4 DEF Clean, MountKnown
  <2>2. CASE mount[m] = image[m]
    <3>1. image'[m] = NoFile => m = v
      BY <2>2, <1>4, <1>5
    <3> QED BY <2>2, <3>1, <1>3, <1>4, <1>5, <1>8 DEF Retired
  <2>3. CASE OldNews(m) /\ image[m] = NoFile
    <3>1. image'[m] = NoFile /\ Preceding(m) \in Num /\ Complete(Preceding(m))
      BY <2>3, <1>5 DEF OldNews, Complete
    <3>2. CASE Preceding(m) = v
      <4>1. m < k
        BY <2>3, <3>2, <1>2, <1>3, Types DEF Preceding, Images
      <4> QED BY <4>1, <3>1, <1>8 DEF Retired
    <3>3. CASE Preceding(m) # v
      BY <2>3, <3>1, <3>3, <1>4, <1>5, <1>8 DEF OldNews
    <3> QED BY <3>2, <3>3
  <2> QED BY <2>1, <2>2, <2>3, <1>9
<1>12. TakersKnow'
  BY <1>7 DEF TakersKnow, NumberNew, BeforeList, Listed, Discards, Linking, AtWork
<1>13. LinksHeld' /\ NotLinked'
  <2>1. LinksHeld'
    <3> SUFFICES ASSUME NEW l \in LinkNames, link[l] # NoNum
                 PROVE  \/ image'[link[l]] # NoFile /\ image'[link[l]][l[2]] > 0
                        \/ Releases(link[l])'
      BY <1>4 DEF LinksHeld
    <3>1. CASE link[l] = v
      BY <3>1, <1>4, <1>6 DEF Releases
    <3>2. CASE link[l] # v
      BY <3>2, <1>5, Types DEF Clean, LinksHeld, Releases
    <3> QED BY <3>1, <3>2
  <2>2. NotLinked'
    BY <1>7 DEF NotLinked, AtWork
  <2> QED BY <2>1, <2>2
<1>14. AutofsRetired' /\ VictimKnown' /\ TocHonest'
  <2>1. AutofsRetired'
    BY <1>4, <1>6, <1>9, Types DEF Clean, AutofsRetired
  <2>2. VictimKnown'
    BY <1>2, <1>3, <1>4, <1>5, <1>6, <1>8 DEF VictimKnown
  <2>3. TocHonest'
    BY <1>8 DEF Clean, TocHonest
  <2> QED BY <2>1, <2>2, <2>3
<1> QED BY <1>10, <1>11, <1>12, <1>13, <1>14 DEF Clean

\* No link leads to a snapshot once find -delete is through.
LEMMA LinksGone ==
  ASSUME IInv, NEW n \in Num, link' = Unlinked(LinksInto(n))
  PROVE  \A l \in LinkNames : link'[l] \in {link[l], NoNum} /\ link'[l] # n
BY Types DEF Unlinked, LinksInto

LEMMA FsmUnlinkClean ==
  ASSUME IInv, Clean, Unlink("fsm")
  PROVE  Clean'
<1> DEFINE v == job["fsm"].num
<1>1. /\ pc["fsm"] = "unlink" /\ link' = Unlinked(LinksInto(v))
      /\ pc' = [pc EXCEPT !["fsm"] = "check"] /\ job' = [job EXCEPT !["fsm"] = NoJob]
      /\ UNCHANGED <<files, mount>>
  BY DEF Unlink, Goto
<1>2. /\ v \in Num /\ pc'["fsm"] = "check"
      /\ \A q \in Actors : q # "fsm" => pc'[q] = pc[q] /\ job'[q] = job[q]
  BY <1>1, Types DEF NumOK
<1>3. \A l \in LinkNames : link'[l] \in {link[l], NoNum} /\ link'[l] # v
  BY <1>1, <1>2, LinksGone
<1>4. \A l \in LinkNames : ~Releases(link'[l])
  BY <1>3 DEF Releases
<1>5. AutofsRetired' /\ VictimKnown'
  BY <1>1, <1>2, Types DEF Clean, AutofsRetired, VictimKnown, Retired, Images, files
<1>6. pc'["fsm"] # "purge" /\ pc'["autofs"] # "purge" /\ pc["fsm"] # "rm"
  BY <1>1, <1>2, Types DEF Clean, NoPurge
<1>7. \A q \in Takers : pc'[q] = pc[q] /\ job'[q] = job[q]
  BY <1>2, Types
<1> QED BY <1>1, <1>3, <1>4, <1>5, <1>6, <1>7, ChoresClean

\* auto.sentryusb releases a number that is not used again: there is no image to remove.
LEMMA AutofsReleaseClean ==
  ASSUME IInv, Clean, Rm("autofs") \/ RmPart("autofs") \/ Unlink("autofs")
  PROVE  Clean'
<1> DEFINE n == job["autofs"].num
<1>1. pc["autofs"] \in {"rm", "unlink"} /\ n \in Num /\ Retired(n) /\ image[n] = NoFile
  BY Types DEF Rm, RmPart, Unlink, Clean, NoPurge, AutofsRetired, NumOK, Retired
<1>2. CASE Unlink("autofs")
  <2>1. /\ link' = Unlinked(LinksInto(n)) /\ UNCHANGED <<files, mount>>
        /\ pc' = [pc EXCEPT !["autofs"] = "idle"] /\ job' = [job EXCEPT !["autofs"] = NoJob]
    BY <1>2 DEF Unlink, Goto
  <2>2. /\ pc'["autofs"] = "idle"
        /\ \A q \in Actors : q # "autofs" => pc'[q] = pc[q] /\ job'[q] = job[q]
    BY <2>1, Types
  <2>3. \A l \in LinkNames : link'[l] \in {link[l], NoNum}
    BY <2>1, <1>1, LinksGone
  <2>4. AutofsRetired' /\ VictimKnown'
    BY <2>1, <2>2, Types DEF Clean, AutofsRetired, VictimKnown, Images, files
  <2>5. pc'["fsm"] # "purge" /\ pc'["autofs"] # "purge"
    BY <2>2, Types DEF Clean, NoPurge
  <2>6. \A q \in Takers : pc'[q] = pc[q] /\ job'[q] = job[q]
    BY <2>2, Types
  <2> QED BY <2>1, <2>2, <2>3, <2>4, <2>5, <2>6, Types, ChoresClean
<1>3. CASE Rm("autofs") \/ RmPart("autofs")
  <2>1. UNCHANGED <<mount, link, job>> /\ dirs' \subseteq dirs
    BY <1>3 DEF Rm, RmPart
  <2>2. /\ \A m \in Num : image'[m] = image[m]
        /\ \A m \in Num : m # n => toc'[m] = toc[m]
        /\ toc'[n] \in {toc[n], NoFile}
        /\ n \notin dirs' \/ dirs' = dirs
        /\ \A m \in dirs : m # n => m \in dirs'
    BY <1>1, <1>3, Types DEF Rm, RmPart
  <2>3. /\ pc'["autofs"] \in {"rm", "unlink"}
        /\ \A q \in Actors : q # "autofs" => pc'[q] = pc[q]
    BY <1>1, <1>3, Types DEF Rm, RmPart, Goto
  <2>4. pc'["fsm"] = pc["fsm"] /\ \A q \in Takers : pc'[q] = pc[q]
    BY <2>3, Types
  <2>5. /\ Images' = Images
        /\ \A m : /\ Complete(m)' <=> Complete(m)
                  /\ Complete(m) => toc'[m] = toc[m]
                  /\ Retired(m)' <=> Retired(m)
    BY <1>1, <2>2 DEF Images, Complete, Retired
  <2>6. \A m : OldNews(m)' <=> OldNews(m)
    BY <2>1, <2>5 DEF OldNews
  <2>7. \A p \in Takers : AtWork(p) => job[p].num # n /\ job[p].num \in Num
    BY <1>1, Working DEF AtWork
  <2>8. NoPurge' /\ WholeImages' /\ TocOfImage'
    <3>1. NoPurge'
      BY <2>3 DEF Clean, NoPurge
    <3>2. WholeImages'
      BY <1>1, <2>1, <2>2, <2>4, <2>5, Types DEF Clean, WholeImages, Removes, AtWork, Images
    <3>3. TocOfImage'
      BY <2>1, <2>2, <2>4 DEF Clean, TocOfImage, Removes
    <3> QED BY <3>1, <3>2, <3>3
  <2>9. MountKnown'
    BY <2>1, <2>2, <2>4, <2>5, <2>6 DEF Clean, MountKnown
  <2>10. TakersKnow'
    <3> SUFFICES ASSUME NEW p \in Takers
                 PROVE  (NumberNew(p) /\ BeforeList(p) /\ Listed(p) /\ Discards(p) /\ Linking(p))'
      BY DEF TakersKnow
    <3>0. /\ NumberNew(p) /\ BeforeList(p) /\ Listed(p) /\ Discards(p) /\ Linking(p)
          /\ pc'[p] = pc[p] /\ job'[p] = job[p]
          /\ AtWork(p) => job[p].num # n /\ job[p].num \in Num
      BY <2>1, <2>4, <2>7 DEF Clean, TakersKnow
    <3>1. NumberNew(p)'
      BY <3>0, <2>2, <2>5 DEF NumberNew, AtWork
    <3>2. BeforeList(p)' /\ Listed(p)'
      BY <3>0, <2>1, <2>2 DEF BeforeList, Listed, AtWork
    <3>3. Discards(p)' /\ Linking(p)'
      BY <3>0, <2>1, <2>2, <2>6 DEF Discards, Linking, AtWork
    <3> QED BY <3>1, <3>2, <3>3
  <2>11. LinksHeld' /\ NotLinked'
    <3>1. LinksHeld'
      BY <2>1, <2>2, <2>4, Types DEF Clean, LinksHeld, Releases
    <3>2. NotLinked'
      BY <2>1, <2>4 DEF Clean, NotLinked, AtWork
    <3> QED BY <3>1, <3>2
  <2>12. AutofsRetired' /\ VictimKnown' /\ TocHonest'
    <3>1. AutofsRetired' /\ VictimKnown'
      <4>1. AutofsRetired'
        BY <1>1, <2>1, <2>3, <2>5 DEF Clean, AutofsRetired
      <4>2. pc["fsm"] = "unlink" => job["fsm"].num \in Num
        BY Types DEF NumOK
      <4>3. VictimKnown'
        BY <4>2, <2>1, <2>2, <2>4, <2>5 DEF Clean, VictimKnown
      <4> QED BY <4>1, <4>3
    <3>2. TocHonest'
      BY <2>2, <2>5 DEF Clean, TocHonest
    <3> QED BY <3>1, <3>2
  <2> QED BY <2>8, <2>9, <2>10, <2>11, <2>12 DEF Clean
<1> QED BY <1>2, <1>3

\* Nobody can look into a snapshot without an image unless it is being released.
LEMMA ReachableRetired ==
  ASSUME IInv, Clean, NEW n \in Num, Reachable(n), image[n] = NoFile
  PROVE  Retired(n)
<1>1. toc[n] # NoFile \/ \E l \in LinkNames : link[l] = n
  BY DEF Reachable, Linked, LinksInto
<1>2. Releases(n)
  <2>1. toc[n] # NoFile => Releases(n)
    BY DEF Clean, TocOfImage, Removes, Releases
  <2>2. (\E l \in LinkNames : link[l] = n) => Releases(n)
    BY Types DEF Clean, LinksHeld
  <2> QED BY <1>1, <2>1, <2>2
<1> QED BY <1>2 DEF Clean, VictimKnown, Releases, Retired

\* Nobody can look into a snapshot that is being made before it has links.
LEMMA UnreachableAtWork ==
  ASSUME IInv, Clean, NEW p \in Takers, AtWork(p), pc[p] # "links"
  PROVE  ~Reachable(job[p].num)
BY Working DEF Clean, NotLinked, NumberNew, Reachable, Linked, LinksInto

LEMMA AutofsClean ==
  ASSUME IInv, Clean, NEW n \in Num, Autofs(n)
  PROVE  Clean'
<1>1. CASE AutofsMount(n)
  <2>1. /\ Reachable(n) /\ mount[n] = NoFile /\ image[n] # NoFile
        /\ UNCHANGED <<dirs, image, toc, link, pc, job>>
        /\ \A m \in Num : mount'[m] = IF m = n THEN image[n] ELSE mount[m]
    BY <1>1, Types DEF AutofsMount, files
  <2>2. /\ Images' = Images
        /\ \A m : /\ Complete(m)' <=> Complete(m)
                  /\ Retired(m)' <=> Retired(m)
                  /\ mount'[m] = mount[m] => (OldNews(m)' <=> OldNews(m))
        /\ \A q \in Takers : AtWork(q)' <=> AtWork(q)
        /\ \A m : (Removes(m)' <=> Removes(m)) /\ (Releases(m)' <=> Releases(m))
    BY <2>1 DEF Images, Complete, Retired, OldNews, AtWork, Removes, Releases
  <2>3. NoPurge' /\ WholeImages' /\ TocOfImage' /\ NotLinked'
    BY <2>1, <2>2 DEF Clean, NoPurge, WholeImages, TocOfImage, NotLinked
  <2>4. MountKnown'
    BY <2>1, <2>2 DEF Clean, MountKnown
  <2>5. TakersKnow'
    <3> SUFFICES ASSUME NEW p \in Takers
                 PROVE  (NumberNew(p) /\ BeforeList(p) /\ Listed(p) /\ Discards(p) /\ Linking(p))'
      BY DEF TakersKnow
    <3>0. /\ NumberNew(p) /\ BeforeList(p) /\ Listed(p) /\ Discards(p) /\ Linking(p)
          /\ AtWork(p) => job[p].num \in Num
          /\ AtWork(p) /\ pc[p] # "links" => mount'[job[p].num] = mount[job[p].num]
      BY <2>1, UnreachableAtWork, Working DEF Clean, TakersKnow
    <3>1. NumberNew(p)' /\ BeforeList(p)'
      BY <3>0, <2>1, <2>2 DEF NumberNew, BeforeList
    <3>2. Listed(p)' /\ Discards(p)'
      BY <3>0, <2>1, <2>2 DEF Listed, Discards, AtWork
    <3>3. Linking(p)'
      BY <3>0, <2>1 DEF Linking, AtWork
    <3> QED BY <3>1, <3>2, <3>3
  <2>6. LinksHeld' /\ AutofsRetired' /\ VictimKnown' /\ TocHonest'
    BY <2>1, <2>2 DEF Clean, LinksHeld, AutofsRetired, VictimKnown, TocHonest
  <2> QED BY <2>3, <2>4, <2>5, <2>6 DEF Clean
<1>2. CASE AutofsRelease(n)
  <2>1. /\ Reachable(n) /\ image[n] = NoFile /\ UNCHANGED <<files, mount, link>>
        /\ pc' = [pc EXCEPT !["autofs"] = "umount"]
        /\ job' = [job EXCEPT !["autofs"].num = n]
    BY <1>2 DEF AutofsRelease, Goto
  <2>2. /\ pc'["autofs"] = "umount" /\ job'["autofs"].num = n
        /\ \A q \in Actors : q # "autofs" => pc'[q] = pc[q] /\ job'[q] = job[q]
    BY <2>1, Types DEF Job
  <2>3. AutofsRetired' /\ VictimKnown'
    <3>1. Retired(n)' /\ Images' = Images /\ dirs' = dirs /\ image' = image
      BY <2>1, ReachableRetired DEF Retired, Images, files
    <3> QED BY <3>1, <2>2, Types DEF Clean, AutofsRetired, VictimKnown
  <2>4. pc'["fsm"] # "purge" /\ pc'["autofs"] # "purge"
    BY <2>2, Types DEF Clean, NoPurge
  <2>5. \A q \in Takers : pc'[q] = pc[q] /\ job'[q] = job[q]
    BY <2>2, Types
  <2> QED BY <2>1, <2>2, <2>3, <2>4, <2>5, Types, ChoresClean
<1>3. CASE AutofsExpire(n)
  <2>1. /\ mount' \in [Num -> Listing \cup {NoFile}]
        /\ \A m \in Num : mount'[m] \in {mount[m], NoFile}
        /\ \A m \in Num : m # n => mount'[m] = mount[m]
    BY <1>3, Types DEF AutofsExpire
  <2>2. /\ UNCHANGED <<files, link, job, pc>>
        /\ \A p \in Takers : pc[p] = "compare" => job[p].num # n
    BY <1>3 DEF AutofsExpire
  <2> QED BY <2>1, <2>2, UnmountClean
<1> QED BY <1>1, <1>2, <1>3 DEF Autofs

\* The car and the user change the disk and the links, setup asks for a rebuild.
LEMMA EnvironmentClean ==
  ASSUME IInv, Clean,
         \/ \E c \in Clips : CamChanges(c)
         \/ \E l \in LinkNames : UserDeletes(l)
         \/ SetupRerun \/ AutofsUp
         \/ UNCHANGED vars
  PROVE  Clean'
<1>1. UNCHANGED <<files, mount, pc, job>>
  BY DEF CamChanges, UserDeletes, SetupRerun, AutofsUp, vars, files
<1>2. \A l \in LinkNames : link'[l] \in {link[l], NoNum}
  <2>1. CASE \E l \in LinkNames : UserDeletes(l)
    BY <2>1 DEF UserDeletes, Unlinked
  <2>2. CASE ~\E l \in LinkNames : UserDeletes(l)
    BY <2>2 DEF CamChanges, SetupRerun, AutofsUp, vars
  <2> QED BY <2>1, <2>2
<1>3. AutofsRetired' /\ VictimKnown'
  BY <1>1 DEF Clean, AutofsRetired, VictimKnown, Retired, Images, files
<1>4. pc'["fsm"] # "purge" /\ pc'["autofs"] # "purge"
  BY <1>1, Types DEF Clean, NoPurge
<1> QED BY <1>1, <1>2, <1>3, <1>4, ChoresClean

\* Every step before a fault keeps the invariant.
LEMMA CleanStep ==
  ASSUME IInv, CleanInv, [Next]_vars
  PROVE  CleanInv'
<1> SUFFICES ASSUME faults' = 0 PROVE Clean'
  BY DEF CleanInv
<1>1. ~ServiceRestart /\ ~PowerLoss
  BY Types, ConstantsAssumption DEF ServiceRestart, PowerLoss, TypeOK
<1>2. faults = 0
  BY <1>1 DEF Next, MakeSnapshot, MakeSnapshotStep, Select, Copy, List, Compare, MakeLink, Commit,
     Rebuild, RebuildDone, ManageFreeSpace, FsmStart, FsmStop, FsmChoose, Release, ReleaseStep,
     Umount, Rm, RmPart, Unlink, Autofs, AutofsMount, AutofsRelease, AutofsExpire, CamChanges,
     UserDeletes, SetupRerun, AutofsUp, vars
<1>3. Clean
  BY <1>2 DEF CleanInv
<1>4. ASSUME NEW p \in Takers, MakeSnapshot(p) PROVE Clean'
  BY <1>3, <1>4, SelectClean, CopyClean, ListClean, CompareClean, MakeLinkClean, CommitClean,
     RebuildClean DEF MakeSnapshot, MakeSnapshotStep
<1>5. ASSUME NEW q \in Actors, Release(q) PROVE Clean'
  <2>1. CASE Umount(q)
    BY <2>1, <1>3, UmountClean
  <2>2. CASE q \in Takers /\ (Rm(q) \/ RmPart(q) \/ Unlink(q))
    BY <2>2, <1>3, TakerRmClean, TakerUnlinkClean
  <2>3. CASE q = "fsm" /\ (Rm(q) \/ RmPart(q) \/ Unlink(q))
    BY <2>3, <1>3, FsmRmClean, FsmUnlinkClean
  <2>4. CASE q = "autofs" /\ (Rm(q) \/ RmPart(q) \/ Unlink(q))
    BY <2>4, <1>3, AutofsReleaseClean
  <2> QED BY <1>5, <2>1, <2>2, <2>3, <2>4 DEF Release, ReleaseStep, Actors
<1> QED BY <1>1, <1>3, <1>4, <1>5, FreeSpaceClean, AutofsClean, EnvironmentClean DEF Next

\* Before a fault the invariant holds.
LEMMA CleanHolds == Spec => [](IInv /\ CleanInv)
<1>1. IInv /\ CleanInv /\ [Next]_vars => CleanInv'
  BY CleanStep
<1> QED BY <1>1, CleanInit, Inductive, PTL DEF Spec

-----------------------------------------------------------------------------
(* Where the links lead before a fault and a rebuild                       *)

\* A script that makes links has those of its listing still to do, unless they are made
\* or were removed for good since.
LinksComing ==
  \A p \in Takers : pc[p] = "links" =>
    \A l \in LinksFor(job[p].list) : l \in job[p].todo \cup dropped \/ link[l] = job[p].num

NoRebuild == ~rebuildFlag /\ \A p \in Takers : pc[p] # "rebuild"

LinkedInv == faults = 0 /\ reruns = 0 => NoRebuild /\ LinkedNewest /\ LinksComing

\* Steps that complete no snapshot and remove no link that is wanted
LEMMA LinksStay ==
  ASSUME IInv, Clean, LinkedNewest, LinksComing,
         \A n \in Num : Complete(n)' => Complete(n) /\ toc'[n] = toc[n],
         dropped \subseteq dropped',
         \A l \in LinkNames :
           \/ link'[l] = link[l]
           \/ l \in dropped'
           \/ /\ \A n \in Images : ~(n < link[l])
              /\ image[link[l]] = NoFile
              /\ \A p \in Takers : pc[p] = "links" => job[p].num # link[l],
         \A p \in Takers : pc'[p] = "links" =>
           pc[p] = "links" /\ job'[p].num = job[p].num /\ job'[p].list = job[p].list
                           /\ job'[p].todo = job[p].todo
  PROVE  LinkedNewest' /\ LinksComing'
<1>1. LinkedNewest'
  <2> SUFFICES ASSUME NEW n \in Num, Complete(n)', NEW l \in LinksFor(toc'[n])
               PROVE  l \in dropped' \/ link'[l] >= n
    BY DEF LinkedNewest
  <2>1. Complete(n) /\ l \in LinksFor(toc[n]) /\ l \in LinkNames
    BY DEF LinksFor
  <2>2. l \in dropped \/ link[l] >= n
    BY <2>1 DEF LinkedNewest
  <2>3. n \in Images /\ (link[l] = n => image[link[l]] # NoFile)
    BY <2>1 DEF Complete, Images
  <2> QED BY <2>1, <2>2, <2>3, Types DEF NoNum
<1>2. LinksComing'
  <2> SUFFICES ASSUME NEW p \in Takers, pc'[p] = "links", NEW l \in LinksFor(job'[p].list)
               PROVE  l \in job'[p].todo \cup dropped' \/ link'[l] = job'[p].num
    BY DEF LinksComing
  <2>1. l \in LinkNames /\ (l \in job[p].todo \cup dropped \/ link[l] = job[p].num)
    BY DEF LinksComing, LinksFor
  <2> QED BY <2>1
<1> QED BY <1>1, <1>2

\* The snapshot that is made becomes complete when its links are there.
LEMMA LinkedByTaker ==
  ASSUME IInv, Clean, NoRebuild, LinkedNewest, LinksComing,
         NEW p \in Takers, Compare(p) \/ MakeLink(p) \/ Commit(p)
  PROVE  LinkedNewest' /\ LinksComing'
<1> DEFINE n == job[p].num
<1>0. pc[p] \in {"compare", "links"} /\ AtWork(p)
  BY DEF Compare, MakeLink, Commit, AtWork
<1>1. /\ n \in Num /\ job[p] \in Job /\ pc["fsm"] = "idle"
      /\ \A q \in Takers : q # p => pc[q] = "idle"
      /\ NumberNew(p) /\ Listed(p) /\ Linking(p) /\ ~Retired(n)
  BY <1>0, Working
<1>2. CASE Compare(p)
  <2>1. UNCHANGED files /\ (\A m : Complete(m)' <=> Complete(m))
    BY <1>2 DEF Compare, files, Complete
  <2>2. \A q \in Takers : q # p => pc'[q] # "links"
    BY <1>1, <1>2, Types DEF Compare, Goto
  <2>3. PICK gone : link' = Unlinked(gone) /\ dropped' = dropped \cup gone
    <3>1. CASE UNCHANGED <<link, dropped>>
      <4>1. link' = Unlinked({}) /\ dropped' = dropped \cup {}
        BY <3>1, Types DEF Unlinked
      <4> QED BY <4>1
    <3>2. CASE ~UNCHANGED <<link, dropped>>
      BY <1>2, <3>2 DEF Compare
    <3> QED BY <3>1, <3>2
  <2>4. \A l \in LinkNames : link'[l] = link[l] \/ l \in dropped'
    BY <2>3 DEF Unlinked
  <2>5. dropped \subseteq dropped'
    BY <2>3
  <2>6. LinkedNewest'
    <3> SUFFICES ASSUME NEW m \in Num, Complete(m)', NEW l \in LinksFor(toc'[m])
                 PROVE  l \in dropped' \/ link'[l] >= m
      BY DEF LinkedNewest
    <3>1. l \in LinkNames /\ (l \in dropped \/ link[l] >= m)
      BY <2>1 DEF LinkedNewest, LinksFor, files
    <3> QED BY <3>1, <2>4, <2>5
  <2>7. ASSUME pc'[p] = "links" PROVE LinksFor(job'[p].list) \subseteq job'[p].todo
    <3>1. ~(HasToc(job[p].prev) /\ ~HasNewLines(toc[job[p].prev], job[p].list))
      BY <1>2, <2>7, Types DEF Compare, Goto
    <3>2. PICK f \in Views(n) : /\ job' = [job EXCEPT ![p].todo = LinksFor(f)]
                                /\ mount' = Mounted(n, f)
      BY <1>2, <3>1 DEF Compare
    <3>3. LinksFor(f) \in SUBSET LinkNames
      BY DEF LinksFor
    <3>4. job'[p].todo = LinksFor(f) /\ job'[p].list = job[p].list
      BY <3>2, <3>3, <1>0, JobSteps
    <3>5. job[p].list = IF mount[n] = NoFile THEN Empty ELSE mount[n]
      BY <1>1, <1>2 DEF Listed, Compare
    <3>6. mount[n] # NoFile => f = mount[n]
      BY <3>2 DEF Views
    <3> QED BY <3>4, <3>5, <3>6, NoLinksForEmpty
  <2>8. LinksComing'
    BY <2>2, <2>7 DEF LinksComing
  <2> QED BY <2>6, <2>8
<1>3. CASE MakeLink(p)
  <2>0. pc[p] = "links" /\ job[p].todo \subseteq LinkNames
    BY <1>1, <1>3 DEF MakeLink, Job
  <2>1. PICK l \in job[p].todo : /\ link' = Retarget(l, n)
                                 /\ dropped' = dropped \ {l}
                                 /\ job' = [job EXCEPT ![p].todo = job[p].todo \ {l}]
    BY <1>3 DEF MakeLink
  <2>2. UNCHANGED <<dirs, image, toc, pc>> /\ (\A m : Complete(m)' <=> Complete(m))
    BY <1>3 DEF MakeLink, files, Complete
  <2>3. \A k \in LinkNames : link'[k] = IF k = l THEN n ELSE link[k]
    BY <2>0, <2>1, Types DEF Retarget
  <2>4. /\ job'[p].num = n /\ job'[p].list = job[p].list
        /\ job'[p].todo = job[p].todo \ {l}
    <3>1. job[p].todo \ {l} \in SUBSET LinkNames
      BY <2>0
    <3> QED BY <2>1, <3>1, <1>0, JobSteps
  <2>5. LinkedNewest'
    <3> SUFFICES ASSUME NEW m \in Num, Complete(m)', NEW k \in LinksFor(toc'[m])
                 PROVE  k \in dropped' \/ link'[k] >= m
      BY DEF LinkedNewest
    <3>1. k \in LinkNames /\ (k \in dropped \/ link[k] >= m) /\ m \in Images
      BY <2>2 DEF LinkedNewest, LinksFor, Complete, Images
    <3>2. m <= n
      BY <3>1, <1>0, <1>1 DEF NumberNew
    <3> QED BY <3>1, <3>2, <2>1, <2>3, <1>1, Types
  <2>6. LinksComing'
    <3> SUFFICES ASSUME NEW k \in LinksFor(job'[p].list)
                 PROVE  k \in job'[p].todo \cup dropped' \/ link'[k] = n
      BY <1>1, <2>2, <2>4 DEF LinksComing
    <3>1. k \in LinkNames /\ (k \in job[p].todo \cup dropped \/ link[k] = n)
      BY <2>0, <2>4 DEF LinksComing, LinksFor
    <3> QED BY <3>1, <2>1, <2>3, <2>4
  <2> QED BY <2>5, <2>6
<1>4. CASE Commit(p)
  <2>1. pc[p] = "links" /\ job[p].todo = {} /\ UNCHANGED <<dirs, image, link, dropped>>
    BY <1>4 DEF Commit
  <2>2. \A m \in Num : toc'[m] = IF m = n /\ n \in dirs THEN job[p].list ELSE toc[m]
    BY <1>1, <1>4, Types DEF Commit
  <2>3. pc'[p] = "idle" /\ \A q \in Takers : q # p => pc'[q] = "idle"
    BY <1>1, <1>4, Types DEF Commit, AfterSnapshot, Goto, NoRebuild
  <2>4. LinkedNewest'
    <3> SUFFICES ASSUME NEW m \in Num, Complete(m)', NEW k \in LinksFor(toc'[m])
                 PROVE  k \in dropped \/ link[k] >= m
      BY <2>1 DEF LinkedNewest
    <3>1. CASE m = n /\ n \in dirs
      <4>1. k \in dropped \/ link[k] = n
        BY <3>1, <2>1, <2>2 DEF LinksComing
      <4> QED BY <3>1, <4>1, <1>1, Types
    <3>2. CASE ~(m = n /\ n \in dirs)
      BY <3>2, <2>1, <2>2 DEF LinkedNewest, Complete
    <3> QED BY <3>1, <3>2
  <2>5. LinksComing'
    BY <2>3 DEF LinksComing
  <2> QED BY <2>4, <2>5
<1> QED BY <1>2, <1>3, <1>4

\* Releasing a snapshot takes no link of a clip that a newer one holds.
LEMMA LinkedByRelease ==
  ASSUME IInv, Clean, NoRebuild, LinkedNewest, LinksComing, NEW q \in Actors, Release(q)
  PROVE  LinkedNewest' /\ LinksComing'
<1> DEFINE v == job[q].num
<1>0. v \in Num /\ dropped' = dropped
  BY Types DEF Release, ReleaseStep, Umount, Rm, RmPart, Unlink, NumOK
<1>1. \A n \in Num : Complete(n)' => Complete(n) /\ toc'[n] = toc[n]
  BY <1>0, Types DEF Release, ReleaseStep, Umount, Rm, RmPart, Unlink, Complete, files
<1>2. \A p \in Takers : pc'[p] = "links" => pc[p] = "links" /\ job'[p] = job[p]
  <2> SUFFICES ASSUME NEW p \in Takers, pc'[p] = "links"
               PROVE  pc[p] = "links" /\ job'[p] = job[p]
    OBVIOUS
  <2>1. CASE p = q
    BY <2>1, Types DEF Release, ReleaseStep, Umount, Rm, RmPart, Unlink, Goto, AfterSnapshot
  <2>2. CASE p # q
    BY <2>2, Types DEF Release, ReleaseStep, Umount, Rm, RmPart, Unlink, Goto, AfterSnapshot
  <2> QED BY <2>1, <2>2
<1>3. ASSUME NEW l \in LinkNames, link'[l] # link[l]
      PROVE  /\ \A n \in Images : ~(n < link[l])
             /\ image[link[l]] = NoFile
             /\ \A p \in Takers : pc[p] = "links" => job[p].num # link[l]
  <2>1. Unlink(q) /\ pc[q] = "unlink" /\ link' = Unlinked(LinksInto(v))
    BY <1>3 DEF Release, ReleaseStep, Umount, Rm, RmPart, Unlink
  <2>2. link[l] = v
    BY <2>1, <1>3 DEF Unlinked, LinksInto
  <2>3. ~(q \in Takers)
    BY <2>1, <2>2 DEF Clean, NotLinked, AtWork
  <2>4. image[v] = NoFile /\ Retired(v)
    BY <2>1, <2>3, <1>0 DEF Clean, VictimKnown, AutofsRetired, Retired, Actors
  <2>5. Releases(v)
    BY <2>2, <2>4, <1>0, Types DEF Clean, LinksHeld
  <2>6. \A n \in Images : v <= n
    BY <2>5, Types DEF Clean, VictimKnown, Releases, DirsCover
  <2>7. \A p \in Takers : pc[p] = "links" => job[p].num # v
    BY <2>4, Working DEF AtWork
  <2> QED BY <2>2, <2>4, <2>6, <2>7, <1>0, Types
<1> QED BY <1>0, <1>1, <1>2, <1>3, LinksStay

LEMMA LinkedStep ==
  ASSUME IInv, CleanInv, LinkedInv, [Next]_vars
  PROVE  LinkedInv'
<1> SUFFICES ASSUME faults' = 0, reruns' = 0
             PROVE  NoRebuild' /\ LinkedNewest' /\ LinksComing'
  BY DEF LinkedInv
<1>1. ~ServiceRestart /\ ~PowerLoss /\ ~SetupRerun
  BY Types, ConstantsAssumption DEF ServiceRestart, PowerLoss, SetupRerun, TypeOK
<1>2. faults = 0 /\ reruns = 0
  BY <1>1 DEF Next, MakeSnapshot, MakeSnapshotStep, Select, Copy, List, Compare, MakeLink, Commit,
     Rebuild, RebuildDone, ManageFreeSpace, FsmStart, FsmStop, FsmChoose, Release, ReleaseStep,
     Umount, Rm, RmPart, Unlink, Autofs, AutofsMount, AutofsRelease, AutofsExpire, CamChanges,
     UserDeletes, AutofsUp, vars
<1>3. Clean /\ NoRebuild /\ LinkedNewest /\ LinksComing
  BY <1>2 DEF CleanInv, LinkedInv
<1>4. NoRebuild'
  <2>1. ~rebuildFlag'
    BY <1>1, <1>3 DEF NoRebuild, Next, MakeSnapshot, MakeSnapshotStep, Select, Copy, List, Compare,
       MakeLink, Commit, Rebuild, RebuildDone, ManageFreeSpace, FsmStart, FsmStop, FsmChoose,
       Release, ReleaseStep, Umount, Rm, RmPart, Unlink, Autofs, AutofsMount, AutofsRelease,
       AutofsExpire, CamChanges, UserDeletes, AutofsUp, vars
  <2>2. \A p \in Takers : pc'[p] # "rebuild"
    <3> SUFFICES ASSUME NEW p \in Takers, pc[p] # "rebuild", ~rebuildFlag PROVE pc'[p] # "rebuild"
      BY <1>3 DEF NoRebuild
    <3> USE Types DEF Goto, AfterSnapshot
    <3>1. ASSUME NEW q \in Takers, MakeSnapshot(q) PROVE pc'[p] # "rebuild"
      <4>1. CASE p = q
        BY <3>1, <4>1 DEF MakeSnapshot, MakeSnapshotStep, Select, Copy, List, Compare, MakeLink,
           Commit, Rebuild, RebuildDone
      <4>2. CASE p # q
        BY <3>1, <4>2 DEF MakeSnapshot, MakeSnapshotStep, Select, Copy, List, Compare, MakeLink,
           Commit, Rebuild, RebuildDone
      <4> QED BY <4>1, <4>2
    <3>2. ASSUME NEW q \in Actors, Release(q) PROVE pc'[p] # "rebuild"
      BY <3>2 DEF Release, ReleaseStep, Umount, Rm, RmPart, Unlink
    <3>3. CASE \/ ManageFreeSpace \/ (\E n \in Num : Autofs(n)) \/ (\E c \in Clips : CamChanges(c))
               \/ (\E l \in LinkNames : UserDeletes(l)) \/ AutofsUp \/ UNCHANGED vars
      BY <3>3 DEF ManageFreeSpace, FsmStart, FsmStop, FsmChoose, Autofs, AutofsMount,
         AutofsRelease, AutofsExpire, CamChanges, UserDeletes, AutofsUp, vars
    <3> QED BY <1>1, <3>1, <3>2, <3>3 DEF Next
  <2> QED BY <2>1, <2>2 DEF NoRebuild
<1>5. ASSUME NEW p \in Takers, MakeSnapshot(p) PROVE LinkedNewest' /\ LinksComing'
  <2>1. CASE Compare(p) \/ MakeLink(p) \/ Commit(p)
    BY <2>1, <1>3, LinkedByTaker
  <2>2. CASE Select(p) \/ Copy(p) \/ List(p)
    <3>1. /\ pc[p] # "links" /\ pc'[p] # "links"
          /\ \A q \in Takers : q # p => pc'[q] = pc[q] /\ job'[q] = job[q]
      BY <2>2, Types DEF Select, Copy, List, Goto
    <3>2. dropped' = dropped
      BY <2>2 DEF Select, Copy, List
    <3>3. pc[p] \in {"copy", "list"} => /\ toc[job[p].num] = NoFile
                                        /\ \A l \in LinkNames : link[l] # job[p].num
      BY <1>3, Working DEF AtWork, NumberNew, Clean, NotLinked
    <3>4. \A l \in LinkNames : link'[l] = link[l]
      BY <2>2, <3>3, Types DEF Select, Copy, List, Unlinked, LinksInto
    <3>5. \A n \in Num : Complete(n)' => Complete(n) /\ toc'[n] = toc[n]
      BY <2>2, <3>3, Types DEF Select, Copy, List, Complete, files
    <3> QED BY <1>3, <3>1, <3>2, <3>4, <3>5, LinksStay
  <2>3. ~Rebuild(p) /\ ~RebuildDone(p)
    BY <1>3 DEF NoRebuild, Rebuild, RebuildDone
  <2> QED BY <1>5, <2>1, <2>2, <2>3 DEF MakeSnapshot, MakeSnapshotStep
<1>6. ASSUME NEW q \in Actors, Release(q) PROVE LinkedNewest' /\ LinksComing'
  BY <1>3, <1>6, LinkedByRelease
<1>7. CASE \/ ManageFreeSpace \/ (\E n \in Num : Autofs(n)) \/ (\E c \in Clips : CamChanges(c))
           \/ (\E l \in LinkNames : UserDeletes(l)) \/ AutofsUp \/ UNCHANGED vars
  <2>1. UNCHANGED files /\ \A p \in Takers : pc'[p] = pc[p] /\ job'[p] = job[p]
    BY <1>7, Types DEF ManageFreeSpace, FsmStart, FsmStop, FsmChoose, Autofs, AutofsMount,
       AutofsRelease, AutofsExpire, CamChanges, UserDeletes, AutofsUp, vars, Goto, files
  <2>2. dropped \subseteq dropped' /\ \A l \in LinkNames : link'[l] = link[l] \/ l \in dropped'
    BY <1>7 DEF ManageFreeSpace, FsmStart, FsmStop, FsmChoose, Autofs, AutofsMount,
       AutofsRelease, AutofsExpire, CamChanges, UserDeletes, AutofsUp, vars, Unlinked
  <2>3. \A n \in Num : Complete(n)' => Complete(n) /\ toc'[n] = toc[n]
    BY <2>1 DEF Complete, files
  <2>4. \A p \in Takers : pc'[p] = "links" =>
          pc[p] = "links" /\ job'[p].num = job[p].num /\ job'[p].list = job[p].list
                          /\ job'[p].todo = job[p].todo
    BY <2>1
  <2>5. dropped \subseteq dropped'
    BY <2>2
  <2>6. \A l \in LinkNames :
          \/ link'[l] = link[l]
          \/ l \in dropped'
          \/ /\ \A n \in Images : ~(n < link[l])
             /\ image[link[l]] = NoFile
             /\ \A p \in Takers : pc[p] = "links" => job[p].num # link[l]
    BY <2>2
  <2> QED BY <1>3, <1>4, <2>3, <2>4, <2>5, <2>6, LinksStay
<1> QED BY <1>1, <1>4, <1>5, <1>6, <1>7 DEF Next

-----------------------------------------------------------------------------
(* Theorems                                                                *)

\* Before a fault, snap.bin.toc lists the image it stands beside or nothing at all, whoever
\* mounts, expires and releases the image while make_snapshot.sh reads it.
THEOREM ListingsHonest == Spec => [](faults = 0 => TocHonest)
<1>1. CleanInv => (faults = 0 => TocHonest)
  BY DEF CleanInv, Clean
<1> QED BY <1>1, CleanHolds, PTL

\* Before a fault, every link leads to its clip whenever no script has the flock, through
\* rebuilds and releases by auto.sentryusb as well.
THEOREM LinksSafe == Spec => [](faults = 0 => LinksResolve)
<1>1. IInv /\ CleanInv => (faults = 0 => LinksResolve)
  <2> SUFFICES ASSUME IInv, Clean, Unlocked, NEW l \in LinkNames, link[l] # NoNum
               PROVE  image[link[l]] # NoFile /\ image[link[l]][l[2]] > 0
    BY DEF CleanInv, LinksResolve
  <2>1. ~Releases(link[l])
    BY NobodyAtWork DEF Releases
  <2> QED BY <2>1 DEF Clean, LinksHeld
<1> QED BY <1>1, CleanHolds, PTL

\* Before a fault and a re-run of setup, every clip of a complete snapshot has its link in
\* that snapshot or a newer one, unless the link was removed for good.
THEOREM NewestLinked == Spec => [](faults = 0 /\ reruns = 0 => LinkedNewest)
<1>1. Init => LinkedInv
  <2> SUFFICES ASSUME Init PROVE NoRebuild /\ LinkedNewest /\ LinksComing
    BY DEF LinkedInv
  <2>1. \A p \in Takers : pc[p] = "idle"
    BY DEF Init, Actors
  <2> QED BY <2>1 DEF Init, NoRebuild, LinkedNewest, LinksComing, Complete
<1>2. IInv /\ CleanInv /\ LinkedInv /\ [Next]_vars => LinkedInv'
  BY LinkedStep
<1>3. LinkedInv => (faults = 0 /\ reruns = 0 => LinkedNewest)
  BY DEF LinkedInv
<1> QED BY <1>1, <1>2, <1>3, CleanHolds, PTL DEF Spec

\* In a behaviour without faults the free space manager never removes the newest image.
THEOREM NewestKept == Spec /\ [](faults = 0) => KeepsNewest
<1>1. IInv /\ CleanInv /\ faults = 0 /\ [Next]_vars =>
        [FsmRemoves => \E m \in Images : job["fsm"].num < m]_vars
  BY DEF CleanInv, Clean, VictimKnown, FsmRemoves
<1> QED BY <1>1, CleanHolds, PTL DEF Spec, KeepsNewest

\* Only the end of the release takes a discarded snapshot past its links.
LEMMA DiscardEnds ==
  ASSUME IInv, [Next]_vars, faults' = 0,
         NEW p \in Takers, pc[p] = "unlink", pc'[p] # "unlink"
  PROVE  Unlink(p)
<1> USE Types DEF Goto, AfterSnapshot
<1>1. ASSUME NEW q \in Takers, MakeSnapshot(q) PROVE FALSE
  <2>1. CASE p = q
    BY <1>1, <2>1 DEF MakeSnapshot, MakeSnapshotStep, Select, Copy, List, Compare, MakeLink,
       Commit, Rebuild, RebuildDone
  <2>2. CASE p # q
    BY <1>1, <2>2 DEF MakeSnapshot, MakeSnapshotStep, Select, Copy, List, Compare, MakeLink,
       Commit, Rebuild, RebuildDone
  <2> QED BY <2>1, <2>2
<1>2. ASSUME NEW q \in Actors, Release(q) PROVE Unlink(p)
  <2>1. CASE p = q
    BY <1>2, <2>1 DEF Release, ReleaseStep, Umount, Rm, RmPart, Unlink
  <2>2. CASE p # q
    BY <1>2, <2>2 DEF Release, ReleaseStep, Umount, Rm, RmPart, Unlink
  <2> QED BY <2>1, <2>2
<1>3. CASE \/ ManageFreeSpace \/ (\E n \in Num : Autofs(n)) \/ (\E c \in Clips : CamChanges(c))
           \/ (\E l \in LinkNames : UserDeletes(l)) \/ SetupRerun \/ AutofsUp \/ UNCHANGED vars
  BY <1>3 DEF ManageFreeSpace, FsmStart, FsmStop, FsmChoose, Autofs, AutofsMount,
     AutofsRelease, AutofsExpire, CamChanges, UserDeletes, SetupRerun, AutofsUp, vars
<1>4. ~ServiceRestart /\ ~PowerLoss
  BY ConstantsAssumption DEF ServiceRestart, PowerLoss, TypeOK
<1> QED BY <1>1, <1>2, <1>3, <1>4 DEF Next

\* Before a fault the release of a discarded snapshot removes no link: none names the
\* number of a snapshot that has none of its own yet.
THEOREM DiscardSafe == Spec => DiscardKeepsLinks
<1>1. ASSUME IInv, CleanInv, [Next]_vars, faults' = 0,
             NEW p \in Takers, pc[p] = "unlink", pc'[p] # "unlink"
      PROVE  link' = link
  <2>1. Unlink(p) /\ faults = 0
    BY <1>1, DiscardEnds DEF Unlink
  <2>2. LinksInto(job[p].num) = {}
    BY <1>1, <2>1 DEF CleanInv, Clean, NotLinked, AtWork, LinksInto
  <2>3. link' = [l \in LinkNames |-> link[l]]
    BY <2>1, <2>2 DEF Unlink, Unlinked
  <2> QED BY <2>3, <1>1, Types
<1>2. IInv /\ CleanInv /\ [Next]_vars =>
        [\A p \in Takers : pc[p] = "unlink" /\ pc'[p] # "unlink" /\ faults' = 0 =>
           link' = link]_vars
  BY <1>1
<1> QED BY <1>2, CleanHolds, PTL DEF Spec, DiscardKeepsLinks

\* Before a fault a step that is not one of the rebuild removes a link or moves it to a
\* newer snapshot.
LEMMA LinksMoveOn ==
  ASSUME IInv, Clean, [Next]_vars, \A p \in Takers : pc[p] # "rebuild",
         NEW l \in LinkNames, link'[l] # NoNum
  PROVE  link'[l] >= link[l]
<1>0. link[l] \in Num \cup {NoNum} /\ \A n \in Num : n >= n /\ n >= NoNum
  BY Types DEF NoNum
<1>1. ASSUME NEW p \in Takers, MakeLink(p) PROVE link'[l] >= link[l]
  <2>1. pc[p] = "links" /\ AtWork(p)
    BY <1>1 DEF MakeLink, AtWork
  <2>2. job[p].num \in Num /\ NumberNew(p) /\ pc["fsm"] = "idle"
    BY <2>1, Working
  <2>3. link'[l] = link[l] \/ link'[l] = job[p].num
    BY <1>1, Types DEF MakeLink, Retarget
  <2>4. link[l] \in Num => link[l] \in Images
    BY <2>2, Types DEF Clean, LinksHeld, Releases, Images
  <2> QED BY <2>1, <2>2, <2>3, <2>4, <1>0 DEF NumberNew
<1>2. ASSUME NEW p \in Takers, MakeSnapshot(p), ~MakeLink(p) PROVE link'[l] \in {link[l], NoNum}
  <2>1. CASE Select(p) \/ Copy(p) \/ Commit(p)
    BY <2>1 DEF Select, Copy, Commit
  <2>2. CASE List(p) \/ Compare(p)
    <3>1. \/ link' = link
          \/ \E S : link' = Unlinked(S)
      BY <2>2 DEF List, Compare
    <3> QED BY <3>1 DEF Unlinked
  <2>3. ~Rebuild(p) /\ ~RebuildDone(p)
    BY DEF Rebuild, RebuildDone
  <2> QED BY <1>2, <2>1, <2>2, <2>3 DEF MakeSnapshot, MakeSnapshotStep
<1>3. CASE \/ ManageFreeSpace \/ (\E q \in Actors : Release(q)) \/ (\E n \in Num : Autofs(n))
           \/ (\E c \in Clips : CamChanges(c)) \/ (\E k \in LinkNames : UserDeletes(k))
           \/ SetupRerun \/ ServiceRestart \/ PowerLoss \/ AutofsUp \/ UNCHANGED vars
  <2>1. link'[l] \in {link[l], NoNum}
    BY <1>3 DEF ManageFreeSpace, FsmStart, FsmStop, FsmChoose, Release, ReleaseStep, Umount, Rm,
       RmPart, Unlink, Autofs, AutofsMount, AutofsRelease, AutofsExpire, CamChanges, UserDeletes,
       SetupRerun, ServiceRestart, PowerLoss, AutofsUp, vars, Unlinked
  <2> QED BY <2>1, <1>0
<1> QED BY <1>0, <1>1, <1>2, <1>3 DEF Next

\* Before a fault only the rebuild moves a link back to an older snapshot.
THEOREM LinksMoveForward == Spec => OnlyRebuildMovesBack
<1>1. ASSUME IInv, CleanInv, [Next]_vars, faults = 0, NEW l \in LinkNames,
             link'[l] \in 0 .. (link[l] - 1)
      PROVE  \E p \in Takers : pc[p] = "rebuild"
  <2> SUFFICES ASSUME \A p \in Takers : pc[p] # "rebuild" PROVE FALSE
    OBVIOUS
  <2>1. link'[l] # NoNum /\ link[l] \in Int
    BY <1>1, Types DEF NoNum
  <2>2. link'[l] >= link[l]
    BY <1>1, <2>1, LinksMoveOn DEF CleanInv
  <2> QED BY <1>1, <2>1, <2>2
<1>2. IInv /\ CleanInv /\ [Next]_vars =>
        [\A l \in LinkNames : faults = 0 /\ link'[l] \in 0 .. (link[l] - 1) =>
           \E p \in Takers : pc[p] = "rebuild"]_vars
  BY <1>1
<1> QED BY <1>2, CleanHolds, PTL DEF Spec, OnlyRebuildMovesBack
=============================================================================
