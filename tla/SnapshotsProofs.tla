--------------------------- MODULE SnapshotsProofs ---------------------------
(***************************************************************************)
(* Proofs about module Snapshots, for every set of clips and of processes  *)
(* that run make_snapshot.sh and for every bound: type correctness, the    *)
(* exclusion the flock gives, that no image is ever overwritten, and that  *)
(* the free space manager removes the oldest snapshot.                     *)
(***************************************************************************)
EXTENDS Snapshots, TLAPS, WellFoundedInduction, FiniteSetTheorems

(***************************************************************************)
(* The numbers the scripts compute.                                        *)
(***************************************************************************)

\* A set of naturals that is not empty has a smallest element: what
\* sort | head -1 finds among the snapshot directories.
LEMMA SmallestExists ==
  ASSUME NEW T, T \subseteq Nat, T # {}
  PROVE  \E x \in T : \A y \in T : x <= y
<1>1. \E x \in T : \A y \in T : ~(<<y, x>> \in OpToRel(<, Nat))
  BY WFMin, NatLessThanWellFounded
<1>2. PICK x \in T : \A y \in T : ~(<<y, x>> \in OpToRel(<, Nat))
  BY <1>1
<1>3. ASSUME NEW y \in T PROVE x <= y
  <2>1. ~(<<y, x>> \in OpToRel(<, Nat))
    BY <1>2
  <2>2. ~(y < x)
    BY <2>1 DEF OpToRel
  <2> QED BY <2>2
<1> QED BY <1>3

\* Oldest of a set of snapshot numbers is its smallest element.
LEMMA OldestOf ==
  ASSUME NEW S, S \subseteq Num, S # {}
  PROVE  Oldest(S) \in S /\ \A m \in S : Oldest(S) <= m
<1>1. S \subseteq Nat
  BY ConstantsAssumption DEF Num
<1>2. \E n \in S : \A m \in S : n <= m
  BY <1>1, SmallestExists
<1> QED BY <1>2 DEF Oldest

\* Newest of a set of snapshot numbers is its largest element.
LEMMA NewestOf ==
  ASSUME NEW S, S \subseteq Num, S # {}
  PROVE  Newest(S) \in S /\ \A m \in S : m <= Newest(S)
<1> DEFINE T == {MaxNum - n : n \in S}
<1>1. T \subseteq Nat /\ T # {}
  BY ConstantsAssumption DEF Num
<1>2. PICK x \in T : \A y \in T : x <= y
  BY <1>1, SmallestExists
<1>3. PICK n \in S : x = MaxNum - n
  BY <1>2
<1>4. ASSUME NEW m \in S PROVE m <= n
  <2>1. MaxNum - n <= MaxNum - m
    BY <1>2, <1>3
  <2> QED BY <2>1, ConstantsAssumption DEF Num
<1>5. \E k \in S : \A m \in S : m <= k
  BY <1>4
<1> QED BY <1>5 DEF Newest

(***************************************************************************)
(* Type correctness.                                                       *)
(***************************************************************************)

\* A script beyond its first stage works on a snapshot number.
NumOK ==
  \A q \in Actors : pc[q] \notin {"idle", "check", "rebuild"} => job[q].num \in Num

TypeInv == TypeOK /\ NumOK

\* The values the operators of the model return.
LEMMA OperatorTypes ==
  ASSUME TypeOK
  PROVE  /\ Empty \in Listing
         /\ NoJob \in Job
         /\ \A S : Unlinked(S) \in [LinkNames -> Num \cup {NoNum}]
         /\ \A n \in Num : Views(n) \subseteq Listing
         /\ \A n \in Num, f \in Listing :
              Mounted(n, f) \in [Num -> Listing \cup {NoFile}]
         /\ \A f : LinksFor(f) \subseteq LinkNames
<1>1. Empty \in Listing
  BY ConstantsAssumption DEF Empty, Listing
<1>2. NoJob \in Job
  BY <1>1 DEF NoJob, Job, Num, NoNum
<1>3. \A S : Unlinked(S) \in [LinkNames -> Num \cup {NoNum}]
  BY DEF TypeOK, Unlinked
<1>4. \A n \in Num : Views(n) \subseteq Listing
  BY <1>1 DEF TypeOK, Views
<1>5. \A n \in Num, f \in Listing : Mounted(n, f) \in [Num -> Listing \cup {NoFile}]
  BY DEF TypeOK, Mounted
<1>6. \A f : LinksFor(f) \subseteq LinkNames
  BY DEF LinksFor
<1> QED BY <1>1, <1>2, <1>3, <1>4, <1>5, <1>6

\* The steps of a script change the listing, the links to do or the snapshots
\* to visit of its local variables; the number it works on stays.
LEMMA JobUpdates ==
  ASSUME NEW j \in Job
  PROVE  /\ \A f \in Listing : [j EXCEPT !.list = f] \in Job /\ [j EXCEPT !.list = f].num = j.num
         /\ \A S \in SUBSET LinkNames :
              [j EXCEPT !.todo = S] \in Job /\ [j EXCEPT !.todo = S].num = j.num
         /\ \A S \in SUBSET Num :
              [j EXCEPT !.queue = S] \in Job /\ [j EXCEPT !.queue = S].num = j.num
         /\ \A n \in Num : [j EXCEPT !.num = n] \in Job /\ [j EXCEPT !.num = n].num = n
BY DEF Job

\* The initial state has the right types.
LEMMA TypeInit == Init => TypeInv
<1> SUFFICES ASSUME Init PROVE TypeInv
  OBVIOUS
<1>1. Empty \in Listing
  BY ConstantsAssumption DEF Empty, Listing
<1>2. NoJob \in Job
  BY <1>1 DEF NoJob, Job, Num, NoNum
<1>3. /\ pc \in [Actors -> Stages] /\ job \in [Actors -> Job]
      /\ link \in [LinkNames -> Num \cup {NoNum}]
  BY <1>2 DEF Init, Stages
<1>4. /\ image \in [Num -> Listing \cup {NoFile}] /\ toc \in [Num -> Listing \cup {NoFile}]
      /\ mount \in [Num -> Listing \cup {NoFile}]
  BY DEF Init
<1>5. faults \in 0 .. MaxFaults /\ reruns \in 0 .. MaxReruns
  BY ConstantsAssumption DEF Init
<1>6. TypeOK
  BY <1>1, <1>3, <1>4, <1>5 DEF Init, TypeOK
<1>7. NumOK
  BY DEF Init, NumOK
<1> QED BY <1>6, <1>7 DEF TypeInv

\* The numbers Select chooses are snapshot numbers.
LEMMA SelectNumbers ==
  ASSUME TypeOK
  PROVE  /\ Images # {} => Newest(Images) \in Images /\ \A m \in Images : m <= Newest(Images)
         /\ Images \subseteq Num
         /\ Images # {} => Newest(Images) \in Num
<1>1. Images \subseteq Num
  BY DEF Images
<1> QED BY <1>1, NewestOf

\* An image lies in a directory that is there.
DirsCover == Images \subseteq dirs

\* Two images are two directories at least: the free space manager finds one.
LEMMA SomeDirectory ==
  ASSUME DirsCover, SparesOne
  PROVE  dirs # {}
<1>1. Images # {}
  <2>1. SUFFICES ASSUME Images = {} PROVE FALSE
    OBVIOUS
  <2>2. Cardinality(Images) = 0
    BY <2>1, FS_EmptySet
  <2> QED BY <2>2 DEF SparesOne
<1> QED BY <1>1 DEF DirsCover

\* The end of snapshot() leaves well-typed stages, local variables and flock.
LEMMA AfterSnapshotTypes ==
  ASSUME TypeOK, NumOK, NEW p \in Takers, NEW tocs, AfterSnapshot(p, tocs)
  PROVE  /\ job' \in [Actors -> Job] /\ pc' \in [Actors -> Stages]
         /\ lock' \in Takers \cup {"fsm", "free"} /\ NumOK'
<1> DEFINE Q == {n \in Num : tocs[n] # NoFile}
<1>1. p \in Actors /\ NoJob \in Job
  BY OperatorTypes DEF Actors
<1>2. [NoJob EXCEPT !.queue = Q] \in Job
  BY <1>1, JobUpdates
<1>3. PICK j \in Job : job' = [job EXCEPT ![p] = j]
  BY <1>1, <1>2 DEF AfterSnapshot
<1>4. /\ job' \in [Actors -> Job]
      /\ \A q \in Actors \ {p} : job'[q] = job[q]
  BY <1>1, <1>3 DEF TypeOK
<1>5. PICK s \in {"rebuild", "idle"} : pc' = [pc EXCEPT ![p] = s]
  BY DEF AfterSnapshot, Goto
<1>6. pc' \in [Actors -> Stages]
  BY <1>1, <1>5 DEF TypeOK, Stages
<1>7. lock' \in Takers \cup {"fsm", "free"}
  BY DEF AfterSnapshot, TypeOK
<1>8. NumOK'
  BY <1>1, <1>4, <1>5 DEF NumOK, TypeOK
<1> QED BY <1>4, <1>6, <1>7, <1>8

\* The steps of make_snapshot.sh keep the types.
LEMMA TypeMakeSnapshot ==
  ASSUME TypeInv, NEW p \in Takers, MakeSnapshot(p)
  PROVE  TypeInv'
<1> USE DEF TypeInv
<1>0. TypeOK /\ NumOK /\ p \in Actors
  BY DEF Actors
<1>a. p \notin {"fsm", "autofs", "free"}
  BY ConstantsAssumption
<1>1. CASE Select(p)
  <2> DEFINE redo == Images # {} /\ toc[Newest(Images)] = NoFile
             num == IF Images = {} THEN 0
                    ELSE IF redo THEN Newest(Images) ELSE Following(Newest(Images))
  <2>1. num \in Num /\ Preceding(num) \in Num \cup {NoNum}
    BY <1>0, <1>1, SelectNumbers, ConstantsAssumption
       DEF Select, Num, Following, Preceding, NoNum
  <2>2. job' = [job EXCEPT ![p] = [NoJob EXCEPT !.num = num, !.prev = Preceding(num)]]
    BY <1>1 DEF Select
  <2>3. [NoJob EXCEPT !.num = num, !.prev = Preceding(num)] \in Job
    BY <2>1, <1>0, OperatorTypes DEF Job, NoJob
  <2>4. job' \in [Actors -> Job]
    BY <2>2, <2>3, <1>0 DEF TypeOK
  <2>5. pc' \in [Actors -> Stages]
    BY <1>1, <1>0 DEF Select, Goto, TypeOK, Stages
  <2>6. TypeOK'
    BY <2>4, <2>5, <1>1, <1>0 DEF Select, TypeOK, files
  <2>7. NumOK'
    BY <2>1, <2>2, <1>1, <1>0 DEF Select, Goto, NumOK, TypeOK, NoJob
  <2> QED BY <2>6, <2>7
<1>2. CASE Copy(p)
  BY <1>0, <1>2, OperatorTypes DEF Copy, Goto, TypeOK, NumOK, Stages
<1>3. CASE List(p)
  <2>1. job[p].num \in Num /\ job[p] \in Job
    BY <1>0, <1>3 DEF List, NumOK, TypeOK
  <2>2. /\ job' \in [Actors -> Job] /\ \A q \in Actors : job'[q].num = job[q].num
        /\ mount' \in [Num -> Listing \cup {NoFile}]
    <3>1. CASE UNCHANGED <<job, mount>>
      BY <3>1, <1>0 DEF TypeOK
    <3>2. CASE \E f \in Views(job[p].num) :
                 /\ job' = [job EXCEPT ![p].list = IF job[p].num \in dirs THEN f ELSE Empty]
                 /\ mount' = Mounted(job[p].num, f)
      <4>1. PICK f \in Listing :
              /\ job' = [job EXCEPT ![p].list = IF job[p].num \in dirs THEN f ELSE Empty]
              /\ mount' = Mounted(job[p].num, f)
        BY <3>2, <2>1, <1>0, OperatorTypes
      <4>2. PICK g \in Listing : job' = [job EXCEPT ![p] = [job[p] EXCEPT !.list = g]]
        BY <4>1, <1>0, OperatorTypes
      <4>3. [job[p] EXCEPT !.list = g] \in Job /\ [job[p] EXCEPT !.list = g].num = job[p].num
        BY <2>1, JobUpdates
      <4> QED BY <4>1, <4>2, <4>3, <2>1, <1>0, OperatorTypes, ZenonT(60) DEF TypeOK
    <3> QED BY <3>1, <3>2, <1>3 DEF List
  <2>3. link' \in [LinkNames -> Num \cup {NoNum}] /\ toc' \in [Num -> Listing \cup {NoFile}]
    <3>1. link' \in {link, Unlinked(LinksInto(job[p].num))}
      BY <1>3 DEF List
    <3>2. toc' \in {toc, [toc EXCEPT ![job[p].num] = NoFile]}
      BY <1>3 DEF List
    <3>3. link' \in [LinkNames -> Num \cup {NoNum}]
      BY <3>1, <1>0, OperatorTypes DEF TypeOK
    <3> QED BY <3>2, <3>3, <2>1, <1>0 DEF TypeOK
  <2>4. TypeOK'
    BY <2>2, <2>3, <1>0, <1>3 DEF List, Goto, TypeOK, Stages
  <2>5. NumOK'
    BY <2>1, <2>2, <1>0, <1>3 DEF List, Goto, TypeOK, NumOK
  <2> QED BY <2>4, <2>5
<1>4. CASE Compare(p)
  <2>1. job[p].num \in Num /\ job[p] \in Job
    BY <1>0, <1>4 DEF Compare, NumOK, TypeOK
  <2>2. /\ job' \in [Actors -> Job] /\ \A q \in Actors : job'[q].num = job[q].num
        /\ mount' \in [Num -> Listing \cup {NoFile}]
    <3>1. CASE UNCHANGED <<job, mount>>
      BY <3>1, <1>0 DEF TypeOK
    <3>2. CASE \E f \in Views(job[p].num) :
                 /\ job' = [job EXCEPT ![p].todo = LinksFor(f)]
                 /\ mount' = Mounted(job[p].num, f)
      <4>1. PICK f \in Listing : /\ job' = [job EXCEPT ![p] = [job[p] EXCEPT !.todo = LinksFor(f)]]
                                 /\ mount' = Mounted(job[p].num, f)
        BY <3>2, <2>1, <1>0, OperatorTypes
      <4>2. /\ [job[p] EXCEPT !.todo = LinksFor(f)] \in Job
            /\ [job[p] EXCEPT !.todo = LinksFor(f)].num = job[p].num
        BY <2>1, <1>0, OperatorTypes, JobUpdates
      <4> QED BY <4>1, <4>2, <2>1, <1>0, OperatorTypes DEF TypeOK
    <3> QED BY <3>1, <3>2, <1>4 DEF Compare
  <2>4. link' \in [LinkNames -> Num \cup {NoNum}]
    BY <1>0, <1>4, OperatorTypes DEF Compare, TypeOK
  <2>5. dropped' \subseteq LinkNames
    BY <1>0, <1>4 DEF Compare, TypeOK, GoneLinks
  <2>6. pc' \in [Actors -> Stages]
    BY <1>0, <1>4 DEF Compare, Goto, TypeOK, Stages
  <2>7. TypeOK'
    BY <2>2, <2>4, <2>5, <2>6, <1>0, <1>4 DEF Compare, TypeOK, files
  <2>8. NumOK'
    BY <2>1, <2>2, <1>0, <1>4 DEF Compare, Goto, TypeOK, NumOK
  <2> QED BY <2>7, <2>8
<1>5. CASE MakeLink(p)
  <2>1. PICK l \in job[p].todo :
          /\ link' = Retarget(l, job[p].num)
          /\ dropped' = dropped \ {l}
          /\ job' = [job EXCEPT ![p].todo = @ \ {l}]
    BY <1>5 DEF MakeLink
  <2>2. job[p].num \in Num /\ job[p] \in Job
    BY <1>0, <1>5 DEF MakeLink, NumOK, TypeOK
  <2>3. job' \in [Actors -> Job] /\ \A q \in Actors : job'[q].num = job[q].num
    BY <2>1, <2>2, <1>0 DEF TypeOK, Job
  <2>4. TypeOK'
    BY <2>1, <2>2, <2>3, <1>0, <1>5 DEF MakeLink, TypeOK, files, Retarget
  <2>5. NumOK'
    BY <2>3, <1>0, <1>5 DEF MakeLink, NumOK
  <2> QED BY <2>4, <2>5
<1>6. CASE Commit(p)
  <2>1. job[p].list \in Listing
    BY <1>0 DEF TypeOK, Job
  <2>2. toc' \in [Num -> Listing \cup {NoFile}]
    BY <2>1, <1>0, <1>6 DEF Commit, TypeOK
  <2>3. /\ job' \in [Actors -> Job] /\ pc' \in [Actors -> Stages]
        /\ lock' \in Takers \cup {"fsm", "free"} /\ NumOK'
    BY <1>0, <1>6, AfterSnapshotTypes DEF Commit
  <2>4. TypeOK'
    BY <2>2, <2>3, <1>0, <1>6 DEF Commit, TypeOK
  <2> QED BY <2>3, <2>4
<1>7. CASE Rebuild(p)
  <2> DEFINE n == Oldest(job[p].queue)
  <2>1. job[p] \in Job /\ job[p].queue \subseteq Num
    BY <1>0 DEF TypeOK, Job
  <2>2. n \in Num
    BY <2>1, <1>7, OldestOf DEF Rebuild
  <2>3. /\ job' \in [Actors -> Job]
        /\ \A q \in Actors \ {p} : job'[q] = job[q]
    <3>1. [job[p] EXCEPT !.queue = job[p].queue \ {n}] \in Job
      BY <2>1, JobUpdates
    <3>2. CASE job' = [job EXCEPT ![p].queue = @ \ {n}]
      BY <3>1, <3>2, <1>0 DEF TypeOK
    <3>3. CASE job' = [job EXCEPT ![p] = NoJob]
      BY <3>3, <1>0, OperatorTypes DEF TypeOK
    <3> QED BY <3>2, <3>3, <1>7 DEF Rebuild
  <2>4. mount' \in [Num -> Listing \cup {NoFile}]
    BY <2>2, <1>0, <1>7 DEF Rebuild, TypeOK
  <2>5. link' \in [LinkNames -> Num \cup {NoNum}] /\ dropped' \subseteq LinkNames
    BY <2>2, <1>0, <1>7 DEF Rebuild, TypeOK
  <2>6. pc' \in [Actors -> Stages] /\ lock' \in Takers \cup {"fsm", "free"}
    BY <1>0, <1>7 DEF Rebuild, Goto, TypeOK, Stages
  <2>7. TypeOK'
    BY <2>3, <2>4, <2>5, <2>6, <1>0, <1>7 DEF Rebuild, TypeOK, files
  <2>8. NumOK'
    BY <2>3, <1>0, <1>7 DEF Rebuild, Goto, TypeOK, NumOK
  <2> QED BY <2>7, <2>8
<1>8. CASE RebuildDone(p)
  <2>1. job' \in [Actors -> Job]
    BY <1>0, <1>8, OperatorTypes DEF RebuildDone, TypeOK
  <2> QED BY <2>1, <1>0, <1>8 DEF RebuildDone, Goto, TypeOK, NumOK, files, Stages
<1> QED BY <1>1, <1>2, <1>3, <1>4, <1>5, <1>6, <1>7, <1>8
       DEF MakeSnapshot, MakeSnapshotStep

\* The steps of manage_free_space.sh keep the types: a directory is chosen
\* only when there are two images, so when there is a directory.
LEMMA TypeFreeSpace ==
  ASSUME TypeInv, ManageFreeSpace, DirsCover
  PROVE  TypeInv'
<1>0. TypeOK /\ NumOK /\ "fsm" \in Actors
  BY DEF TypeInv, Actors
<1>1. CASE FsmStart
  BY <1>0, <1>1 DEF FsmStart, Goto, TypeInv, TypeOK, NumOK, Stages, files
<1>2. CASE FsmStop
  BY <1>0, <1>2, OperatorTypes DEF FsmStop, Goto, TypeInv, TypeOK, NumOK, Stages, files
<1>3. CASE FsmChoose
  <2>1. dirs # {} /\ Victim \in Num
    BY <1>0, <1>3, SomeDirectory, OldestOf DEF FsmChoose, Victim, TypeOK
  <2>2. [job["fsm"] EXCEPT !.num = Victim] \in Job
    BY <2>1, <1>0, JobUpdates DEF TypeOK
  <2>3. job' = [job EXCEPT !["fsm"] = [job["fsm"] EXCEPT !.num = Victim]]
    BY <1>3 DEF FsmChoose
  <2>4. /\ job' \in [Actors -> Job] /\ job'["fsm"].num = Victim
        /\ \A q \in Actors \ {"fsm"} : job'[q] = job[q]
    BY <2>1, <2>2, <2>3, <1>0, JobUpdates DEF TypeOK
  <2>5. TypeOK'
    BY <2>4, <1>0, <1>3 DEF FsmChoose, Goto, TypeOK, Stages, files
  <2>6. NumOK'
    BY <2>1, <2>4, <1>0, <1>3 DEF FsmChoose, Goto, TypeOK, NumOK
  <2> QED BY <2>5, <2>6 DEF TypeInv
<1> QED BY <1>1, <1>2, <1>3 DEF ManageFreeSpace

\* The steps of release_snapshot.sh keep the types, whoever runs it.
LEMMA TypeRelease ==
  ASSUME TypeInv, NEW q \in Actors, Release(q)
  PROVE  TypeInv'
<1>0. TypeOK /\ NumOK
  BY DEF TypeInv
<1>a. pc[q] \in {"umount", "purge", "rm", "unlink"} => job[q].num \in Num
  BY <1>0 DEF NumOK
<1>1. CASE Umount(q)
  <2>1. mount' \in [Num -> Listing \cup {NoFile}]
    BY <1>a, <1>0, <1>1 DEF Umount, TypeOK
  <2>2. pc' \in [Actors -> Stages]
    BY <1>0, <1>1 DEF Umount, Goto, TypeOK, Stages
  <2>3. TypeOK'
    BY <2>1, <2>2, <1>0, <1>1 DEF Umount, TypeOK, files
  <2>4. NumOK'
    BY <1>a, <1>0, <1>1 DEF Umount, Goto, TypeOK, NumOK
  <2> QED BY <2>3, <2>4 DEF TypeInv
<1>2. CASE Rm(q)
  <2>1. pc' \in [Actors -> Stages]
    BY <1>0, <1>2 DEF Rm, Goto, TypeOK, Stages
  <2>2. TypeOK'
    BY <2>1, <1>a, <1>0, <1>2 DEF Rm, TypeOK
  <2>3. NumOK'
    BY <1>a, <1>0, <1>2 DEF Rm, Goto, TypeOK, NumOK
  <2> QED BY <2>2, <2>3 DEF TypeInv
<1>3. CASE RmPart(q)
  BY <1>a, <1>0, <1>3 DEF RmPart, TypeOK, NumOK, TypeInv
<1>4. CASE Unlink(q)
  <2>1. link' \in [LinkNames -> Num \cup {NoNum}]
    BY <1>0, <1>4, OperatorTypes DEF Unlink
  <2>2. /\ job' \in [Actors -> Job] /\ pc' \in [Actors -> Stages]
        /\ lock' \in Takers \cup {"fsm", "free"} /\ NumOK'
    <3>1. CASE q \in {"fsm", "autofs"}
      <4>1. /\ job' = [job EXCEPT ![q] = NoJob] /\ UNCHANGED lock
            /\ \E s \in {"check", "idle"} : pc' = [pc EXCEPT ![q] = s]
        BY <3>1, <1>4 DEF Unlink, Goto
      <4>2. NoJob \in Job
        BY <1>0, OperatorTypes
      <4> QED BY <4>1, <4>2, <1>0 DEF TypeOK, NumOK, Stages
    <3>2. CASE q \notin {"fsm", "autofs"}
      <4>1. q \in Takers /\ AfterSnapshot(q, toc)
        BY <3>2, <1>4 DEF Unlink, Actors
      <4> QED BY <4>1, <1>0, AfterSnapshotTypes
    <3> QED BY <3>1, <3>2
  <2>3. TypeOK'
    BY <2>1, <2>2, <1>0, <1>4 DEF Unlink, TypeOK, files
  <2> QED BY <2>2, <2>3 DEF TypeInv
<1> QED BY <1>1, <1>2, <1>3, <1>4 DEF Release, ReleaseStep

\* The steps of autofs keep the types.
LEMMA TypeAutofs ==
  ASSUME TypeInv, NEW n \in Num, Autofs(n)
  PROVE  TypeInv'
<1>0. TypeOK /\ NumOK /\ "autofs" \in Actors
  BY DEF TypeInv, Actors
<1>1. CASE AutofsMount(n)
  BY <1>0, <1>1 DEF AutofsMount, TypeInv, TypeOK, NumOK, files
<1>2. CASE AutofsRelease(n)
  <2>1. [job["autofs"] EXCEPT !.num = n] \in Job
    BY <1>0, JobUpdates DEF TypeOK
  <2>2. job' = [job EXCEPT !["autofs"] = [job["autofs"] EXCEPT !.num = n]]
    BY <1>2 DEF AutofsRelease
  <2>3. /\ job' \in [Actors -> Job] /\ job'["autofs"].num = n
        /\ \A q \in Actors \ {"autofs"} : job'[q] = job[q]
    BY <2>1, <2>2, <1>0, JobUpdates DEF TypeOK
  <2>4. TypeOK'
    BY <2>3, <1>0, <1>2 DEF AutofsRelease, Goto, TypeOK, Stages, files
  <2>5. NumOK'
    BY <2>3, <1>0, <1>2 DEF AutofsRelease, Goto, TypeOK, NumOK
  <2> QED BY <2>4, <2>5 DEF TypeInv
<1>3. CASE AutofsExpire(n)
  BY <1>0, <1>3 DEF AutofsExpire, TypeInv, TypeOK, NumOK, files
<1> QED BY <1>1, <1>2, <1>3 DEF Autofs

\* The car, the user, setup and the faults keep the types.
LEMMA TypeEnvironment ==
  ASSUME TypeInv,
         \/ \E c \in Clips : CamChanges(c)
         \/ \E l \in LinkNames : UserDeletes(l)
         \/ AutofsUp \/ SetupRerun \/ ServiceRestart \/ PowerLoss
  PROVE  TypeInv'
<1>0. TypeOK /\ NumOK /\ NoJob \in Job
  BY OperatorTypes DEF TypeInv
<1>1. ASSUME NEW c \in Clips, CamChanges(c) PROVE TypeInv'
  <2>1. cam' \in Listing
    BY <1>0, <1>1 DEF CamChanges, TypeOK, Listing
  <2> QED BY <2>1, <1>0, <1>1 DEF CamChanges, TypeInv, TypeOK, NumOK, files
<1>2. ASSUME NEW l \in LinkNames, UserDeletes(l) PROVE TypeInv'
  <2>1. link' \in [LinkNames -> Num \cup {NoNum}]
    BY <1>0, <1>2, OperatorTypes DEF UserDeletes
  <2> QED BY <2>1, <1>0, <1>2 DEF UserDeletes, TypeInv, TypeOK, NumOK, files
<1>6. CASE AutofsUp
  BY <1>0, <1>6 DEF AutofsUp, TypeInv, TypeOK, NumOK, files
<1>3. CASE SetupRerun
  BY <1>0, <1>3, ConstantsAssumption DEF SetupRerun, TypeInv, TypeOK, NumOK, files
<1>4. CASE ServiceRestart
  <2>1. /\ pc' \in [Actors -> Stages] /\ job' \in [Actors -> Job]
        /\ lock' \in Takers \cup {"fsm", "free"}
    BY <1>0, <1>4 DEF ServiceRestart, TypeOK, Stages
  <2>2. faults' \in 0 .. MaxFaults
    BY <1>0, <1>4, ConstantsAssumption DEF ServiceRestart, TypeOK
  <2>3. TypeOK'
    BY <2>1, <2>2, <1>0, <1>4 DEF ServiceRestart, TypeOK, files
  <2>4. NumOK'
    BY <1>0, <1>4 DEF ServiceRestart, NumOK
  <2> QED BY <2>3, <2>4 DEF TypeInv
<1>5. CASE PowerLoss
  <2>1. /\ pc' \in [Actors -> Stages] /\ job' \in [Actors -> Job]
        /\ mount' \in [Num -> Listing \cup {NoFile}] /\ lock' = "free"
    BY <1>0, <1>5 DEF PowerLoss, Stages
  <2>2. faults' \in 0 .. MaxFaults
    BY <1>0, <1>5, ConstantsAssumption DEF PowerLoss, TypeOK
  <2>3. TypeOK'
    BY <2>1, <2>2, <1>0, <1>5 DEF PowerLoss, TypeOK, files
  <2>4. NumOK'
    BY <1>0, <1>5 DEF PowerLoss, NumOK
  <2> QED BY <2>3, <2>4 DEF TypeInv
<1> QED BY <1>1, <1>2, <1>3, <1>4, <1>5, <1>6

\* Every step keeps the types.
LEMMA TypeStep ==
  ASSUME TypeInv, DirsCover, [Next]_vars
  PROVE  TypeInv'
<1>1. ASSUME NEW p \in Takers, MakeSnapshot(p) PROVE TypeInv'
  BY <1>1, TypeMakeSnapshot
<1>2. CASE ManageFreeSpace
  BY <1>2, TypeFreeSpace
<1>3. ASSUME NEW q \in Actors, Release(q) PROVE TypeInv'
  BY <1>3, TypeRelease
<1>4. ASSUME NEW n \in Num, Autofs(n) PROVE TypeInv'
  BY <1>4, TypeAutofs
<1>5. CASE \/ \E c \in Clips : CamChanges(c)
           \/ \E l \in LinkNames : UserDeletes(l)
           \/ AutofsUp \/ SetupRerun \/ ServiceRestart \/ PowerLoss
  BY <1>5, TypeEnvironment
<1>6. CASE UNCHANGED vars
  BY <1>6 DEF vars, files, TypeInv, TypeOK, NumOK
<1> QED BY <1>1, <1>2, <1>3, <1>4, <1>5, <1>6 DEF Next

\* No image without its directory: snap.bin is copied into a directory that was
\* made, and only rm -rf removes a directory that has one.
LEMMA DirsStep ==
  ASSUME TypeInv, DirsCover, [Next]_vars
  PROVE  DirsCover'
<1> USE DEF TypeInv, DirsCover, Images
<1>0. /\ image \in [Num -> Listing \cup {NoFile}]
      /\ \A q \in Actors : pc[q] \in {"copy", "list", "purge", "rm"} => job[q].num \in Num
  BY DEF TypeOK, NumOK
<1>a. Takers \subseteq Actors
  BY DEF Actors
<1>1. ASSUME UNCHANGED files PROVE DirsCover'
  BY <1>1 DEF files
<1>2. ASSUME NEW p \in Takers, MakeSnapshot(p) PROVE DirsCover'
  <2>1. CASE Copy(p)
    BY <2>1, <1>0, <1>a DEF Copy
  <2>2. CASE List(p)
    <3>1. image' = image /\ dirs' \in {dirs, dirs \ {job[p].num}}
      BY <2>2 DEF List
    <3>2. image[job[p].num] = NoFile \/ dirs' = dirs
      BY <2>2 DEF List
    <3> QED BY <3>1, <3>2
  <2>3. CASE Commit(p)
    BY <2>3 DEF Commit
  <2>4. CASE Select(p) \/ Compare(p) \/ MakeLink(p) \/ Rebuild(p) \/ RebuildDone(p)
    BY <2>4, <1>1 DEF Select, Compare, MakeLink, Rebuild, RebuildDone
  <2> QED BY <1>2, <2>1, <2>2, <2>3, <2>4 DEF MakeSnapshot, MakeSnapshotStep
<1>3. ASSUME NEW q \in Actors, Release(q) PROVE DirsCover'
  <2>1. CASE Rm(q)
    BY <2>1, <1>0 DEF Rm
  <2>2. CASE RmPart(q)
    BY <2>2, <1>0 DEF RmPart
  <2>3. CASE Umount(q) \/ Unlink(q)
    BY <2>3, <1>1 DEF Umount, Unlink
  <2> QED BY <1>3, <2>1, <2>2, <2>3 DEF Release, ReleaseStep
<1>4. CASE ManageFreeSpace
  BY <1>4, <1>1 DEF ManageFreeSpace, FsmStart, FsmStop, FsmChoose
<1>5. ASSUME NEW n \in Num, Autofs(n) PROVE DirsCover'
  BY <1>5, <1>1 DEF Autofs, AutofsMount, AutofsRelease, AutofsExpire
<1>6. CASE (\E c \in Clips : CamChanges(c)) \/ (\E l \in LinkNames : UserDeletes(l))
  BY <1>6, <1>1 DEF CamChanges, UserDeletes
<1>7. CASE SetupRerun \/ ServiceRestart \/ PowerLoss \/ AutofsUp \/ UNCHANGED vars
  BY <1>7, <1>1 DEF SetupRerun, ServiceRestart, PowerLoss, AutofsUp, vars
<1> QED BY <1>2, <1>3, <1>4, <1>5, <1>6, <1>7 DEF Next

\* The scripts' types and the directories are right in every state.
THEOREM TypeCorrect == Spec => []TypeOK
<1>1. Init => TypeInv /\ DirsCover
  <2>1. Init => DirsCover
    BY DEF Init, DirsCover, Images
  <2> QED BY <2>1, TypeInit
<1>2. TypeInv /\ DirsCover /\ [Next]_vars => (TypeInv /\ DirsCover)'
  BY TypeStep, DirsStep
<1>3. TypeInv /\ DirsCover => TypeOK
  BY DEF TypeInv
<1> QED BY <1>1, <1>2, <1>3, PTL DEF Spec

(***************************************************************************)
(* The flock, and what it protects.                                        *)
(***************************************************************************)

\* Those that take the flock.
Lockers == Takers \cup {"fsm"}

\* A step of a holder that neither ends nor starts a script, and a step of
\* autofs, leave the flock and who is at work as they are.
LEMMA SameHolder ==
  ASSUME TypeOK, LockExclusion, lock' = lock,
         \A q \in Lockers : pc'[q] # "idle" <=> pc[q] # "idle"
  PROVE  LockExclusion'
BY DEF LockExclusion, Lockers

\* The holder gives the flock back as it ends.
LEMMA HolderEnds ==
  ASSUME TypeOK, LockExclusion, NEW p \in Lockers, pc[p] # "idle",
         lock' = "free", pc' = [pc EXCEPT ![p] = "idle"]
  PROVE  LockExclusion'
<1>1. Lockers \subseteq Actors /\ "free" \notin Lockers
  BY ConstantsAssumption DEF Lockers, Actors
<1>2. \A q \in Lockers : pc[q] # "idle" => q = p
  BY DEF LockExclusion, Lockers
<1> QED BY <1>1, <1>2 DEF LockExclusion, Lockers, TypeOK

\* The end of snapshot() keeps or gives back the flock.
LEMMA AfterSnapshotHolder ==
  ASSUME TypeOK, LockExclusion, NEW p \in Takers, NEW tocs, pc[p] # "idle",
         AfterSnapshot(p, tocs)
  PROVE  LockExclusion'
<1>1. p \in Lockers /\ p \in Actors
  BY DEF Lockers, Actors
<1>2. CASE rebuildFlag
  <2>1. lock' = lock /\ pc' = [pc EXCEPT ![p] = "rebuild"]
    BY <1>2 DEF AfterSnapshot, Goto
  <2> QED BY <2>1, <1>1, SameHolder DEF TypeOK, Lockers, Actors
<1>3. CASE ~rebuildFlag
  BY <1>1, <1>3, HolderEnds DEF AfterSnapshot, Goto
<1> QED BY <1>2, <1>3

\* The flock is taken only when it is free, by a script that starts.
LEMMA HolderStarts ==
  ASSUME TypeOK, LockExclusion, NEW p \in Lockers, NEW s, s # "idle", Unlocked,
         lock' = p, pc' = [pc EXCEPT ![p] = s]
  PROVE  LockExclusion'
<1>1. Lockers \subseteq Actors /\ "free" \notin Lockers
  BY ConstantsAssumption DEF Lockers, Actors
<1>2. \A q \in Lockers : pc[q] = "idle"
  BY <1>1 DEF LockExclusion, Lockers, Unlocked
<1> QED BY <1>1, <1>2 DEF LockExclusion, Lockers, TypeOK

\* Every step keeps the exclusion.
LEMMA LockStep ==
  ASSUME TypeInv, LockExclusion, [Next]_vars
  PROVE  LockExclusion'
<1>0. TypeOK /\ Lockers \subseteq Actors /\ Takers \subseteq Lockers /\ "fsm" \in Lockers
  BY DEF TypeInv, Lockers, Actors
<1>a. "autofs" \notin Lockers /\ "free" \notin Lockers
  BY ConstantsAssumption DEF Lockers
<1>b. ASSUME NEW q \in Actors, NEW s, pc[q] # "idle", s # "idle",
             lock' = lock, pc' = [pc EXCEPT ![q] = s]
      PROVE  LockExclusion'
  BY <1>0, <1>b, SameHolder DEF TypeOK
<1>c. ASSUME lock' = lock, pc' = pc PROVE LockExclusion'
  BY <1>0, <1>c, SameHolder
<1>1. ASSUME NEW p \in Takers, MakeSnapshot(p) PROVE LockExclusion'
  <2>0. p \in Lockers /\ p \in Actors
    BY <1>0
  <2>1. CASE Select(p)
    <3>1. Unlocked /\ lock' = p /\ \E s \in {"purge", "copy"} : pc' = [pc EXCEPT ![p] = s]
      BY <2>1 DEF Select, Goto
    <3> QED BY <3>1, <2>0, <1>0, HolderStarts
  <2>2. CASE Copy(p) \/ List(p)
    <3>1. /\ pc[p] # "idle" /\ lock' = lock
          /\ \E s \in {"list", "compare"} : pc' = [pc EXCEPT ![p] = s]
      BY <2>2 DEF Copy, List, Goto
    <3> QED BY <3>1, <2>0, <1>b
  <2>3. CASE Compare(p)
    <3>1. /\ pc[p] # "idle" /\ lock' = lock
          /\ \E s \in {"umount", "links"} : pc' = [pc EXCEPT ![p] = s]
      BY <2>3 DEF Compare, Goto
    <3> QED BY <3>1, <2>0, <1>b
  <2>4. CASE MakeLink(p)
    BY <2>4, <1>c DEF MakeLink
  <2>5. CASE Commit(p)
    <3>1. pc[p] # "idle" /\ AfterSnapshot(p, toc')
      BY <2>5 DEF Commit
    <3> QED BY <3>1, <1>0, AfterSnapshotHolder
  <2>6. CASE Rebuild(p)
    <3>1. pc[p] # "idle"
      BY <2>6 DEF Rebuild
    <3>2. \/ lock' = lock /\ pc' = pc
          \/ lock' = "free" /\ pc' = [pc EXCEPT ![p] = "idle"]
      BY <2>6 DEF Rebuild, Goto
    <3> QED BY <3>1, <3>2, <2>0, <1>0, <1>c, HolderEnds
  <2>7. CASE RebuildDone(p)
    <3>1. pc[p] # "idle" /\ lock' = "free" /\ pc' = [pc EXCEPT ![p] = "idle"]
      BY <2>7 DEF RebuildDone, Goto
    <3> QED BY <3>1, <2>0, <1>0, HolderEnds
  <2> QED BY <1>1, <2>1, <2>2, <2>3, <2>4, <2>5, <2>6, <2>7
          DEF MakeSnapshot, MakeSnapshotStep
<1>2. CASE ManageFreeSpace
  <2>1. CASE FsmStart
    <3>1. Unlocked /\ lock' = "fsm" /\ pc' = [pc EXCEPT !["fsm"] = "check"]
      BY <2>1 DEF FsmStart, Goto
    <3> QED BY <3>1, <1>0, HolderStarts
  <2>2. CASE FsmStop
    <3>1. pc["fsm"] # "idle" /\ lock' = "free" /\ pc' = [pc EXCEPT !["fsm"] = "idle"]
      BY <2>2 DEF FsmStop, Goto
    <3> QED BY <3>1, <1>0, HolderEnds
  <2>3. CASE FsmChoose
    <3>1. pc["fsm"] # "idle" /\ lock' = lock /\ pc' = [pc EXCEPT !["fsm"] = "umount"]
      BY <2>3 DEF FsmChoose, Goto
    <3> QED BY <3>1, <1>0, <1>b
  <2> QED BY <1>2, <2>1, <2>2, <2>3 DEF ManageFreeSpace
<1>3. ASSUME NEW q \in Actors, Release(q) PROVE LockExclusion'
  <2>1. CASE Umount(q) \/ Rm(q)
    <3>1. /\ pc[q] # "idle" /\ lock' = lock
          /\ \E s \in {"rm", "copy", "unlink"} : pc' = [pc EXCEPT ![q] = s]
      BY <2>1 DEF Umount, Rm, Goto
    <3> QED BY <3>1, <1>b
  <2>2. CASE RmPart(q)
    BY <2>2, <1>c DEF RmPart
  <2>3. CASE Unlink(q)
    <3>0. pc[q] # "idle"
      BY <2>3 DEF Unlink
    <3>1. CASE q = "fsm"
      <4>1. lock' = lock /\ pc' = [pc EXCEPT !["fsm"] = "check"]
        BY <2>3, <3>1 DEF Unlink, Goto
      <4> QED BY <4>1, <3>0, <3>1, <1>b
    <3>2. CASE q = "autofs"
      <4>1. lock' = lock /\ pc' = [pc EXCEPT !["autofs"] = "idle"]
        BY <2>3, <3>2 DEF Unlink, Goto
      <4> QED BY <4>1, <1>0, <1>a, SameHolder DEF TypeOK
    <3>3. CASE q \notin {"fsm", "autofs"}
      <4>1. q \in Takers /\ AfterSnapshot(q, toc)
        BY <2>3, <3>3 DEF Unlink, Actors
      <4> QED BY <4>1, <3>0, <1>0, AfterSnapshotHolder
    <3> QED BY <3>1, <3>2, <3>3
  <2> QED BY <1>3, <2>1, <2>2, <2>3 DEF Release, ReleaseStep
<1>4. ASSUME NEW n \in Num, Autofs(n) PROVE LockExclusion'
  <2>1. CASE AutofsMount(n) \/ AutofsExpire(n)
    BY <2>1, <1>c DEF AutofsMount, AutofsExpire
  <2>2. CASE AutofsRelease(n)
    <3>1. lock' = lock /\ pc' = [pc EXCEPT !["autofs"] = "umount"]
      BY <2>2 DEF AutofsRelease, Goto
    <3> QED BY <3>1, <1>0, <1>a, SameHolder DEF TypeOK
  <2> QED BY <1>4, <2>1, <2>2 DEF Autofs
<1>5. CASE (\E c \in Clips : CamChanges(c)) \/ (\E l \in LinkNames : UserDeletes(l))
  BY <1>5, <1>c DEF CamChanges, UserDeletes
<1>6. CASE SetupRerun \/ AutofsUp \/ UNCHANGED vars
  BY <1>6, <1>c DEF SetupRerun, AutofsUp, vars
<1>7. CASE ServiceRestart
  <2> DEFINE killed == Actors \ {"autofs", "samba"}
  <2>1. \A q \in Lockers : pc'[q] = IF q \in killed THEN "idle" ELSE pc[q]
    BY <1>0, <1>7 DEF ServiceRestart
  <2>2. lock' = IF lock \in killed THEN "free" ELSE lock
    BY <1>7 DEF ServiceRestart
  <2> QED BY <2>1, <2>2, <1>0, <1>a DEF LockExclusion, Lockers
<1>8. CASE PowerLoss
  BY <1>8, <1>0, <1>a DEF PowerLoss, LockExclusion, Lockers
<1> QED BY <1>1, <1>2, <1>3, <1>4, <1>5, <1>6, <1>7, <1>8 DEF Next

\* The scripts that take the flock exclude each other, in every state.
THEOREM LockSafe == Spec => []LockExclusion
<1> DEFINE Inv == TypeInv /\ DirsCover /\ LockExclusion
<1>1. Init => Inv
  <2>1. Init => DirsCover
    BY DEF Init, DirsCover, Images
  <2>2. Init => LockExclusion
    BY ConstantsAssumption DEF Init, LockExclusion, Actors
  <2> QED BY <2>1, <2>2, TypeInit
<1>2. Inv /\ [Next]_vars => Inv'
  BY TypeStep, DirsStep, LockStep
<1>3. Inv => LockExclusion
  OBVIOUS
<1> QED BY <1>1, <1>2, <1>3, PTL DEF Spec

(***************************************************************************)
(* What the flock protects.                                                *)
(***************************************************************************)

\* The snapshot number a script copies to has no image: it is past every image,
\* or rm -rf has removed the incomplete snapshot.
CopyFresh == \A p \in Takers : pc[p] = "copy" => image[job[p].num] = NoFile

\* The snapshot the free space manager removes is still the oldest directory.
VictimOldest ==
  pc["fsm"] \in {"umount", "rm"} => \A m \in dirs : job["fsm"].num <= m

IInv == TypeInv /\ DirsCover /\ LockExclusion /\ CopyFresh /\ VictimOldest

\* The number Select chooses for a copy has no image yet.
LEMMA SelectFresh ==
  ASSUME TypeOK, NEW num, Images = {} \/ num = Following(Newest(Images))
  PROVE  num \in Num => image[num] = NoFile
<1>1. CASE Images = {}
  BY <1>1 DEF Images
<1>2. CASE Images # {}
  <2>1. Newest(Images) \in Num /\ \A m \in Images : m <= Newest(Images)
    BY <1>2, SelectNumbers
  <2>2. num \notin Images
    BY <1>2, <2>1, ConstantsAssumption DEF Following, Num
  <2> QED BY <2>2 DEF Images
<1> QED BY <1>1, <1>2

\* At most one script that took the flock is past its first stage.
LEMMA OneHolder ==
  ASSUME LockExclusion, NEW p \in Lockers, NEW q \in Lockers,
         pc[p] # "idle", pc[q] # "idle"
  PROVE  p = q
BY DEF LockExclusion, Lockers

\* An image appears only where Copy found none; every other step keeps the
\* images or removes one.
LEMMA ImageSteps ==
  ASSUME IInv, [Next]_vars
  PROVE  \A n \in Num : image[n] # NoFile => image'[n] \in {image[n], NoFile}
<1>0. /\ image \in [Num -> Listing \cup {NoFile}]
      /\ \A q \in Actors : pc[q] \in {"purge", "rm"} => job[q].num \in Num
  BY DEF IInv, TypeInv, TypeOK, NumOK
<1>1. ASSUME NEW p \in Takers, MakeSnapshot(p)
      PROVE  \A n \in Num : image[n] # NoFile => image'[n] \in {image[n], NoFile}
  <2>1. CASE Copy(p)
    <3>1. image[job[p].num] = NoFile
      BY <2>1 DEF Copy, IInv, CopyFresh
    <3>2. \E f : image' = [image EXCEPT ![job[p].num] = f]
      BY <2>1 DEF Copy
    <3> QED BY <3>1, <3>2, <1>0
  <2>2. CASE Select(p) \/ List(p) \/ Compare(p) \/ MakeLink(p) \/ Commit(p)
             \/ Rebuild(p) \/ RebuildDone(p)
    <3>1. image' = image
      BY <2>2 DEF Select, List, Compare, MakeLink, Commit, Rebuild, RebuildDone, files
    <3> QED BY <3>1
  <2> QED BY <1>1, <2>1, <2>2 DEF MakeSnapshot, MakeSnapshotStep
<1>2. ASSUME NEW q \in Actors, Release(q)
      PROVE  \A n \in Num : image[n] # NoFile => image'[n] \in {image[n], NoFile}
  <2>1. image' = image \/ image' = [image EXCEPT ![job[q].num] = NoFile]
    BY <1>2 DEF Release, ReleaseStep, Umount, Rm, RmPart, Unlink, files
  <2> QED BY <2>1, <1>0
<1>3. CASE \/ ManageFreeSpace \/ (\E n \in Num : Autofs(n))
           \/ (\E c \in Clips : CamChanges(c)) \/ (\E l \in LinkNames : UserDeletes(l))
           \/ SetupRerun \/ ServiceRestart \/ PowerLoss \/ AutofsUp \/ UNCHANGED vars
  <2>1. image' = image
    BY <1>3 DEF ManageFreeSpace, FsmStart, FsmStop, FsmChoose, Autofs, AutofsMount,
         AutofsRelease, AutofsExpire, CamChanges, UserDeletes, SetupRerun,
         ServiceRestart, PowerLoss, AutofsUp, vars, files
  <2> QED BY <2>1
<1> QED BY <1>1, <1>2, <1>3 DEF Next

\* A script that keeps copying to the same number keeps finding no image there.
LEMMA CopyStep ==
  ASSUME IInv, [Next]_vars
  PROVE  CopyFresh'
<1> SUFFICES ASSUME NEW p \in Takers, pc'[p] = "copy"
             PROVE  image'[job'[p].num] = NoFile
  BY DEF CopyFresh
<1>0. /\ TypeOK /\ NumOK /\ p \in Actors /\ p \in Lockers /\ Takers \subseteq Lockers
      /\ pc \in [Actors -> Stages] /\ job \in [Actors -> Job]
      /\ image \in [Num -> Listing \cup {NoFile}]
      /\ p # "fsm" /\ p # "autofs"
  BY ConstantsAssumption DEF IInv, TypeInv, TypeOK, Actors, Lockers
<1>1. CASE pc'[p] = pc[p] /\ job'[p] = job[p] /\ \A n \in Num : image'[n] \in {image[n], NoFile}
  <2>1. image[job[p].num] = NoFile /\ job[p].num \in Num
    BY <1>0, <1>1 DEF IInv, CopyFresh, NumOK
  <2> QED BY <2>1, <1>1
<1>2. CASE Select(p)
  <2> DEFINE redo == Images # {} /\ toc[Newest(Images)] = NoFile
             num == IF Images = {} THEN 0
                    ELSE IF redo THEN Newest(Images) ELSE Following(Newest(Images))
  <2>1. /\ job' = [job EXCEPT ![p] = [NoJob EXCEPT !.num = num, !.prev = Preceding(num)]]
        /\ pc' = [pc EXCEPT ![p] = IF redo THEN "purge" ELSE "copy"]
        /\ image' = image /\ num <= MaxNum
    BY <1>2 DEF Select, Goto, files
  <2>2. ~redo
    BY <2>1, <1>0
  <2>3. num \in Num
    BY <2>1, <2>2, <1>0, SelectNumbers, ConstantsAssumption DEF Num, Following
  <2>4. image[num] = NoFile
    BY <2>2, <2>3, <1>0, SelectFresh
  <2>5. job'[p].num = num
    BY <2>1, <1>0 DEF NoJob
  <2> QED BY <2>1, <2>4, <2>5
<1>3. CASE Rm(p)
  <2>1. job' = job /\ image' = [image EXCEPT ![job[p].num] = NoFile] /\ job[p].num \in Num
    BY <1>3, <1>0 DEF Rm, NumOK
  <2> QED BY <2>1, <1>0
<1>4. ASSUME NEW q \in Takers, Copy(q) PROVE image'[job'[p].num] = NoFile
  <2>1. pc[q] # "idle" /\ pc' = [pc EXCEPT ![q] = "list"] /\ q \in Lockers
    BY <1>4, <1>0 DEF Copy, Goto
  <2>2. p # q
    BY <2>1, <1>0
  <2>3. pc[p] # "idle"
    BY <2>1, <2>2, <1>0
  <2> QED BY <2>1, <2>2, <2>3, <1>0, OneHolder DEF IInv
<1>5. ASSUME NEW q \in Takers, MakeSnapshot(q), ~Copy(q), ~(q = p /\ Select(p))
      PROVE  image'[job'[p].num] = NoFile
  <2>1. image' = image
    BY <1>5 DEF MakeSnapshot, MakeSnapshotStep, Select, List, Compare, MakeLink, Commit,
         Rebuild, RebuildDone, files
  <2>2. CASE q = p
    <3>1. pc'[p] # "copy"
      BY <1>5, <2>2, <1>0 DEF MakeSnapshot, MakeSnapshotStep, List, Compare, MakeLink,
           Commit, Rebuild, RebuildDone, AfterSnapshot, Goto
    <3> QED BY <3>1
  <2>3. CASE q # p
    <3>1. pc'[p] = pc[p] /\ job'[p] = job[p]
      BY <1>5, <2>3, <1>0 DEF MakeSnapshot, MakeSnapshotStep, Select, List, Compare,
           MakeLink, Commit, Rebuild, RebuildDone, AfterSnapshot, Goto
    <3> QED BY <3>1, <2>1, <1>1
  <2> QED BY <2>2, <2>3
<1>6. ASSUME NEW q \in Actors, Release(q), ~(q = p /\ Rm(p))
      PROVE  image'[job'[p].num] = NoFile
  <2>1. \A n \in Num : image'[n] \in {image[n], NoFile}
    <3>1. image' = image \/ image' = [image EXCEPT ![job[q].num] = NoFile]
      BY <1>6 DEF Release, ReleaseStep, Umount, Rm, RmPart, Unlink, files
    <3> QED BY <3>1, <1>0
  <2>2. CASE q = p
    <3>1. pc'[p] = pc[p] /\ job'[p] = job[p]
      <4>1. CASE RmPart(p)
        BY <4>1 DEF RmPart
      <4>2. CASE Umount(p)
        BY <4>2, <1>0 DEF Umount, Goto
      <4>3. CASE Unlink(p)
        BY <4>3, <1>0 DEF Unlink, AfterSnapshot, Goto
      <4> QED BY <4>1, <4>2, <4>3, <1>6, <2>2 DEF Release, ReleaseStep
    <3> QED BY <3>1, <2>1, <1>1
  <2>3. CASE q # p
    <3>1. pc'[p] = pc[p] /\ job'[p] = job[p]
      BY <1>6, <2>3, <1>0 DEF Release, ReleaseStep, Umount, Rm, RmPart, Unlink,
           AfterSnapshot, Goto
    <3> QED BY <3>1, <2>1, <1>1
  <2> QED BY <2>2, <2>3
<1>7. CASE ManageFreeSpace \/ (\E n \in Num : Autofs(n))
  <2>1. image' = image
    BY <1>7 DEF ManageFreeSpace, FsmStart, FsmStop, FsmChoose, Autofs, AutofsMount,
         AutofsRelease, AutofsExpire, files
  <2>2. pc'[p] = pc[p] /\ job'[p] = job[p]
    BY <1>7, <1>0 DEF ManageFreeSpace, FsmStart, FsmStop, FsmChoose, Autofs, AutofsMount,
         AutofsRelease, AutofsExpire, Goto
  <2> QED BY <2>1, <2>2, <1>1
<1>8. CASE \/ (\E c \in Clips : CamChanges(c)) \/ (\E l \in LinkNames : UserDeletes(l))
           \/ SetupRerun \/ AutofsUp \/ UNCHANGED vars
  <2>1. image' = image /\ pc' = pc /\ job' = job
    BY <1>8 DEF CamChanges, UserDeletes, SetupRerun, AutofsUp, vars, files
  <2> QED BY <2>1, <1>1
<1>9. CASE ServiceRestart
  <2>1. image' = image /\ (pc'[p] = "idle" \/ (pc'[p] = pc[p] /\ job'[p] = job[p]))
    BY <1>9, <1>0 DEF ServiceRestart, files
  <2> QED BY <2>1, <1>1
<1>10. CASE PowerLoss
  <2>1. pc'[p] = "idle"
    BY <1>10, <1>0 DEF PowerLoss
  <2> QED BY <2>1
<1> QED BY <1>2, <1>3, <1>4, <1>5, <1>6, <1>7, <1>8, <1>9, <1>10 DEF Next

\* While the free space manager removes a snapshot no directory is made, so its
\* choice stays the oldest one whatever else is removed meanwhile.
LEMMA VictimStep ==
  ASSUME IInv, [Next]_vars
  PROVE  VictimOldest'
<1> SUFFICES ASSUME pc'["fsm"] \in {"umount", "rm"}
             PROVE  \A m \in dirs' : job'["fsm"].num <= m
  BY DEF VictimOldest
<1>0. /\ TypeOK /\ "fsm" \in Actors /\ "fsm" \in Lockers /\ Takers \subseteq Lockers
      /\ pc \in [Actors -> Stages] /\ job \in [Actors -> Job] /\ dirs \subseteq Num
      /\ "fsm" \notin Takers
  BY ConstantsAssumption DEF IInv, TypeInv, TypeOK, Actors, Lockers
<1>1. CASE /\ pc["fsm"] \in {"umount", "rm"} /\ job'["fsm"] = job["fsm"]
           /\ dirs' \subseteq dirs
  BY <1>1 DEF IInv, VictimOldest
<1>2. CASE ManageFreeSpace
  <2>1. FsmChoose
    BY <1>2, <1>0 DEF ManageFreeSpace, FsmStart, FsmStop, Goto
  <2>2. dirs # {}
    BY <2>1, SomeDirectory DEF FsmChoose, IInv
  <2>3. dirs' = dirs /\ job'["fsm"].num = Victim
    BY <2>1, <1>0 DEF FsmChoose, files, Job
  <2> QED BY <2>2, <2>3, <1>0, OldestOf DEF Victim
<1>3. ASSUME NEW p \in Takers, MakeSnapshot(p) PROVE \A m \in dirs' : job'["fsm"].num <= m
  <2>1. pc'["fsm"] = pc["fsm"] /\ job'["fsm"] = job["fsm"]
    BY <1>3, <1>0 DEF MakeSnapshot, MakeSnapshotStep, Select, Copy, List, Compare, MakeLink,
         Commit, Rebuild, RebuildDone, AfterSnapshot, Goto
  <2>2. ~Copy(p)
    <3>1. Copy(p) => pc[p] # "idle" /\ p # "fsm" /\ p \in Lockers
      BY <1>0 DEF Copy
    <3> QED BY <3>1, <2>1, <1>0, OneHolder DEF IInv
  <2>3. dirs' \subseteq dirs
    BY <1>3, <2>2 DEF MakeSnapshot, MakeSnapshotStep, Select, List, Compare, MakeLink,
         Commit, Rebuild, RebuildDone, files
  <2> QED BY <2>1, <2>3, <1>1
<1>4. ASSUME NEW q \in Actors, Release(q) PROVE \A m \in dirs' : job'["fsm"].num <= m
  <2>1. dirs' \subseteq dirs
    BY <1>4 DEF Release, ReleaseStep, Umount, Rm, RmPart, Unlink, files
  <2>2. pc["fsm"] \in {"umount", "rm"} /\ job'["fsm"] = job["fsm"]
    <3>1. CASE q = "fsm"
      <4>1. Umount(q) \/ RmPart(q)
        BY <1>4, <3>1, <1>0 DEF Release, ReleaseStep, Rm, Unlink, Goto
      <4> QED BY <4>1, <3>1, <1>0 DEF Umount, RmPart
    <3>2. CASE q # "fsm"
      <4>1. pc'["fsm"] = pc["fsm"] /\ job'["fsm"] = job["fsm"]
        BY <1>4, <3>2, <1>0 DEF Release, ReleaseStep, Umount, Rm, RmPart, Unlink,
             AfterSnapshot, Goto
      <4> QED BY <4>1
    <3> QED BY <3>1, <3>2
  <2> QED BY <2>1, <2>2, <1>1
<1>5. CASE \/ (\E n \in Num : Autofs(n)) \/ (\E c \in Clips : CamChanges(c))
           \/ (\E l \in LinkNames : UserDeletes(l)) \/ SetupRerun \/ AutofsUp \/ UNCHANGED vars
  <2>1. dirs' = dirs /\ pc'["fsm"] = pc["fsm"] /\ job'["fsm"] = job["fsm"]
    BY <1>5, <1>0 DEF Autofs, AutofsMount, AutofsRelease, AutofsExpire, CamChanges,
         UserDeletes, SetupRerun, AutofsUp, vars, files, Goto
  <2> QED BY <2>1, <1>1
<1>6. CASE ServiceRestart \/ PowerLoss
  <2>1. pc'["fsm"] = "idle"
    BY <1>6, <1>0 DEF ServiceRestart, PowerLoss
  <2> QED BY <2>1
<1> QED BY <1>2, <1>3, <1>4, <1>5, <1>6 DEF Next

\* The inductive invariant holds in every state.
LEMMA Inductive == Spec => []IInv
<1>1. Init => IInv
  <2>1. Init => DirsCover /\ CopyFresh /\ VictimOldest
    BY DEF Init, DirsCover, Images, CopyFresh, VictimOldest, Actors
  <2>2. Init => LockExclusion
    BY ConstantsAssumption DEF Init, LockExclusion, Actors
  <2> QED BY <2>1, <2>2, TypeInit DEF IInv
<1>2. IInv /\ [Next]_vars => IInv'
  BY TypeStep, DirsStep, LockStep, CopyStep, VictimStep DEF IInv
<1> QED BY <1>1, <1>2, PTL DEF Spec

\* No snapshot is ever overwritten: an image stays what was copied until it is
\* removed, through every crash, restart and reuse of a number.
THEOREM ImagesSafe == Spec => ImagesImmutable
<1>1. IInv /\ [Next]_vars =>
        [\A n \in Num : image[n] # NoFile => image'[n] \in {image[n], NoFile}]_vars
  BY ImageSteps
<1> QED BY <1>1, Inductive, PTL DEF Spec, ImagesImmutable

\* The free space manager removes the oldest snapshot directory there is, even
\* when auto.sentryusb removes directories without the flock meanwhile.
THEOREM OldestSafe == Spec => OldestFirst
<1>1. IInv /\ [Next]_vars => [FsmRemoves => \A m \in dirs : job["fsm"].num <= m]_vars
  BY DEF IInv, VictimOldest, FsmRemoves
<1> QED BY <1>1, Inductive, PTL DEF Spec, OldestFirst
=============================================================================
