----------------------------- MODULE FeedProofs -----------------------------
(***************************************************************************)
(* Theorems about what gets into the event feed and what its clients get   *)
(* of it: ProviderProjection, for every set of paths, objects and contents,*)
(* every list of fallback paths and every bound; EventFeed and SyncClient, *)
(* for every size of the pages, the subscription and the wire.             *)
(***************************************************************************)
EXTENDS ProviderProjection, SyncClient, SequenceTheorems, NaturalsInduction,
        WellFoundedInduction, TLAPS

-----------------------------------------------------------------------------
(* Where a delivery goes *)

(* A nonempty set of numbers has a least one. *)
LEMMA LeastOf ==
    ASSUME NEW S \in SUBSET Nat, S # {}
    PROVE  \E i \in S : \A j \in S : i <= j
  <1> DEFINE R == {ss \in Nat \X Nat : ss[1] < ss[2]}
  <1>1. IsWellFoundedOn(R, Nat)
    BY NatLessThanWellFounded DEF OpToRel
  <1>2. \E i \in S : \A j \in S : ~(<<j, i>> \in R)
    <2> HIDE DEF R
    <2> QED
      BY <1>1, WFMin
  <1>3. \A i \in Nat, j \in Nat : j < i => <<j, i>> \in R
    OBVIOUS
  <1> HIDE DEF R
  <1>4. PICK i \in S : \A j \in S : ~(<<j, i>> \in R)
    BY <1>2
  <1>5. ASSUME NEW j \in S
        PROVE  i <= j
    <2>1. i \in Nat /\ j \in Nat
      OBVIOUS
    <2>2. ~(j < i)
      BY <1>3, <1>4, <2>1
    <2> QED
      BY <2>1, <2>2
  <1> QED
    BY <1>5

(* resolveProviderObjectPathLocked returns a file of the object, or none. *)
LEMMA ResolvesToMatch ==
    ASSUME NEW o \in Objects
    PROVE  resolveProviderObjectPath(o) \in Matches(o) \cup {NoPath}
  BY DEF resolveProviderObjectPath, Matches

(* A pathless upsert finds a file of the object, a free path, or no place. *)
LEMMA UpsertResolves ==
    ASSUME NEW o \in Objects
    PROVE  LET q == resolveProviderObjectUpsertPath(o)
           IN  \/ q = NoPath
               \/ q \in Matches(o)
               \/ q \in Paths /\ files[q] = Absent
  <1> DEFINE least == CHOOSE i \in FreeFallbacks(o) :
                        \A j \in FreeFallbacks(o) : i <= j
  <1>1. Fallbacks[o] \in Seq(Paths)
    BY ProjectionAssumption
  <1>2. FreeFallbacks(o) \in SUBSET Nat
    BY <1>1 DEF FreeFallbacks
  <1>3. FreeFallbacks(o) # {} => least \in FreeFallbacks(o)
    BY <1>2, LeastOf
  <1>4. FreeFallbacks(o) # {} =>
          Fallbacks[o][least] \in Paths /\ files[Fallbacks[o][least]] = Absent
    <2> HIDE DEF least
    <2> QED
      BY <1>1, <1>3 DEF FreeFallbacks
  <1> QED
    BY <1>4, ResolvesToMatch DEF resolveProviderObjectUpsertPath

LEMMA TargetIsPath ==
    ASSUME NEW d \in Delivery
    PROVE  TargetPath(d) \in Paths \cup {NoPath}
  <1>1. \A o \in Objects : Matches(o) \subseteq Paths
    BY DEF Matches
  <1>2. d.path \in Paths \cup {NoPath} /\ d.obj \in Objects \cup {NoObject}
    BY DEF Delivery
  <1>3. d.path # NoPath \/ d.obj \in Objects
    BY DEF Delivery
  <1> QED
    BY <1>1, <1>2, <1>3, ResolvesToMatch, UpsertResolves DEF TargetPath

-----------------------------------------------------------------------------
(* What one operation does to the files, the index and the feed *)

ProjectionType ==
    /\ files \in [Paths -> FileOrAbsent]
    /\ index \in [Objects -> Paths \cup {NoPath}]
    /\ view \in [Paths -> Values \cup {Absent}]

LEMMA FileFacts ==
    /\ \A f \in File : f # Absent /\ f.content \in Values
                       /\ f.obj \in Objects \cup {NoObject}
    /\ \A c \in Values, o \in Objects \cup {NoObject} :
         [content |-> c, obj |-> o] \in File
    /\ NoObject \notin Objects
    /\ Absent \notin Values
  BY ProjectionAssumption DEF File

LEMMA UpsertStep ==
    ASSUME ProjectionType, NEW d \in Delivery, NEW path \in Paths,
           applyProviderUpsert(d, path)
    PROVE  /\ ProjectionType'
           /\ IndexedProjection => IndexedProjection'
           /\ ViewMirrorsFiles => ViewMirrorsFiles'
  <1> DEFINE left == IF d.obj = NoObject THEN {}
                     ELSE {index[d.obj]} \cap (Matches(d.obj) \ {path})
             new  == [content |-> d.content, obj |-> d.obj]
  <1>1. d.obj \in Objects \cup {NoObject} /\ d.content \in Values
    BY DEF Delivery
  <1>2. new \in File /\ new # Absent /\ new.content = d.content /\ new.obj = d.obj
    BY <1>1, FileFacts
  <1>3. left \subseteq Paths
    BY DEF Matches
  <1>4. files' = [p \in Paths |-> IF p = path THEN new
                                  ELSE IF p \in left THEN Absent ELSE files[p]]
    BY DEF applyProviderUpsert
  <1>5. index' = IF d.obj = NoObject THEN index
                 ELSE [index EXCEPT ![d.obj] = path]
    BY DEF applyProviderUpsert
  <1>6. \A p \in Paths : view'[p] = IF p = path THEN d.content
                                    ELSE IF p \in left THEN Absent ELSE view[p]
    BY DEF applyProviderUpsert, appendWorkspaceEvents
  <1>7. view' \in [Paths -> Values \cup {Absent}]
    BY <1>1, <1>3 DEF applyProviderUpsert, appendWorkspaceEvents, ProjectionType
  <1>8. ProjectionType'
    BY <1>1, <1>2, <1>4, <1>5, <1>7 DEF ProjectionType, FileOrAbsent
  <1>9. ASSUME ViewMirrorsFiles
        PROVE  ViewMirrorsFiles'
    BY <1>2, <1>4, <1>6, <1>9 DEF ViewMirrorsFiles, ContentOf
  <1>10. ASSUME IndexedProjection, NEW o \in Objects, NEW p \in Paths,
                files'[p] # Absent, files'[p].obj = o
         PROVE  index'[o] = p
    <2>1. CASE p = path
      BY <1>1, <1>2, <1>4, <1>5, <1>10, <2>1, FileFacts DEF ProjectionType
    <2>2. CASE p # path /\ o = d.obj
      <3>1. p \notin left /\ files'[p] = files[p]
        BY <1>4, <1>10, <2>2
      <3>2. p \in Matches(o)
        BY <1>10, <3>1 DEF Matches
      <3>3. index[o] = p
        BY <1>10, <3>2 DEF IndexedProjection
      <3> QED
        BY <2>2, <3>1, <3>2, <3>3, FileFacts
    <2>3. CASE p # path /\ o # d.obj
      <3>1. files'[p] = files[p]
        BY <1>4, <1>10, <2>3
      <3>2. index[o] = p
        BY <1>10, <3>1 DEF IndexedProjection, Matches
      <3> QED
        BY <1>5, <2>3, <3>2 DEF ProjectionType
    <2> QED
      BY <2>1, <2>2, <2>3
  <1>11. ASSUME IndexedProjection
         PROVE  IndexedProjection'
    BY <1>10, <1>11 DEF IndexedProjection, Matches
  <1> QED
    BY <1>8, <1>9, <1>11

(* An operation that only takes files away, and says so. *)
LEMMA RemovalStep ==
    ASSUME ProjectionType, NEW gone \in SUBSET Paths,
           files' = [p \in Paths |-> IF p \in gone THEN Absent ELSE files[p]],
           appendWorkspaceEvents([p \in gone |-> Absent])
    PROVE  /\ files' \in [Paths -> FileOrAbsent]
           /\ view' \in [Paths -> Values \cup {Absent}]
           /\ ViewMirrorsFiles => ViewMirrorsFiles'
           /\ (IndexedProjection /\ index' = index) => IndexedProjection'
  <1>1. \A p \in Paths : view'[p] = IF p \in gone THEN Absent ELSE view[p]
    BY DEF appendWorkspaceEvents
  <1>2. view' \in [Paths -> Values \cup {Absent}]
    BY DEF appendWorkspaceEvents, ProjectionType
  <1>3. files' \in [Paths -> FileOrAbsent]
    BY DEF ProjectionType, FileOrAbsent
  <1>4. ViewMirrorsFiles => ViewMirrorsFiles'
    BY <1>1 DEF ViewMirrorsFiles, ContentOf
  <1>5. (IndexedProjection /\ index' = index) => IndexedProjection'
    BY DEF IndexedProjection, Matches
  <1> QED
    BY <1>2, <1>3, <1>4, <1>5

LEMMA RemoveOne ==
    ASSUME ProjectionType, NEW q \in Paths,
           files' = [files EXCEPT ![q] = Absent],
           appendWorkspaceEvents([p \in {q} |-> Absent])
    PROVE  /\ files' \in [Paths -> FileOrAbsent]
           /\ view' \in [Paths -> Values \cup {Absent}]
           /\ ViewMirrorsFiles => ViewMirrorsFiles'
           /\ (IndexedProjection /\ index' = index) => IndexedProjection'
  <1>1. files' = [p \in Paths |-> IF p \in {q} THEN Absent ELSE files[p]]
    BY DEF ProjectionType
  <1> QED
    BY <1>1, RemovalStep

LEMMA DeleteStep ==
    ASSUME ProjectionType, NEW d \in Delivery, NEW path \in Paths,
           d.obj # NoObject => path \in Matches(d.obj),
           applyProviderDelete(d, path)
    PROVE  /\ ProjectionType'
           /\ IndexedProjection => IndexedProjection'
           /\ ViewMirrorsFiles => ViewMirrorsFiles'
  <1>1. /\ files' \in [Paths -> FileOrAbsent]
        /\ view' \in [Paths -> Values \cup {Absent}]
        /\ ViewMirrorsFiles => ViewMirrorsFiles'
        /\ (IndexedProjection /\ index' = index) => IndexedProjection'
    BY RemoveOne DEF applyProviderDelete
  <1>2. CASE d.obj = NoObject
    BY <1>1, <1>2 DEF applyProviderDelete, ProjectionType
  <1>3. CASE d.obj # NoObject
    <2>1. d.obj \in Objects
      BY <1>3 DEF Delivery
    <2>2. index' = [index EXCEPT ![d.obj] = NoPath]
      BY <1>3 DEF applyProviderDelete
    <2>3. files' = [files EXCEPT ![path] = Absent]
      BY DEF applyProviderDelete
    <2>4. ASSUME IndexedProjection, NEW o \in Objects, NEW p \in Paths,
                 files'[p] # Absent, files'[p].obj = o
          PROVE  index'[o] = p
      <3>1. p # path /\ files'[p] = files[p]
        BY <2>3, <2>4 DEF ProjectionType
      <3>2. index[o] = p
        BY <2>4, <3>1 DEF IndexedProjection, Matches
      <3>3. index[d.obj] = path
        BY <1>3, <2>1, <2>4 DEF IndexedProjection
      <3>4. o # d.obj
        BY <3>1, <3>2, <3>3
      <3> QED
        BY <2>2, <3>2, <3>4 DEF ProjectionType
    <2>5. IndexedProjection => IndexedProjection'
      BY <2>4 DEF IndexedProjection, Matches
    <2>6. ProjectionType'
      BY <1>1, <2>1, <2>2 DEF ProjectionType
    <2> QED
      BY <1>1, <2>5, <2>6
  <1> QED
    BY <1>2, <1>3

(* A delete that names an object hits that object's file. *)
LEMMA DeleteTargets ==
    ASSUME NEW d \in Delivery, d.type = "file_delete", d.obj # NoObject,
           TargetPath(d) # NoPath
    PROVE  TargetPath(d) \in Matches(d.obj)
  <1>1. d.obj \in Objects
    BY DEF Delivery
  <1> QED
    BY <1>1, ResolvesToMatch DEF TargetPath

(* processEnvelope's step for one action. *)
LEMMA DeliverStep ==
    ASSUME ProjectionType, NEW d \in Delivery, Deliver(d)
    PROVE  /\ ProjectionType'
           /\ IndexedProjection => IndexedProjection'
           /\ ViewMirrorsFiles => ViewMirrorsFiles'
  <1>1. CASE UNCHANGED <<files, index, view>>
    BY <1>1 DEF ProjectionType, IndexedProjection, Matches, ViewMirrorsFiles,
                ContentOf
  <1>2. CASE /\ HasEffect(d) /\ d.type = "file_upsert"
             /\ applyProviderUpsert(d, TargetPath(d))
    BY <1>2, TargetIsPath, UpsertStep DEF HasEffect
  <1>3. CASE /\ HasEffect(d) /\ d.type = "file_delete"
             /\ applyProviderDelete(d, TargetPath(d))
    <2>1. TargetPath(d) \in Paths
      BY <1>3, TargetIsPath DEF HasEffect
    <2>2. d.obj # NoObject => TargetPath(d) \in Matches(d.obj)
      BY <1>3, DeleteTargets DEF HasEffect
    <2> QED
      BY <1>3, <2>1, <2>2, DeleteStep
  <1> QED
    BY <1>1, <1>2, <1>3 DEF Deliver

-----------------------------------------------------------------------------
(* Agents and drafts *)

LEMMA WriteStep ==
    ASSUME ProjectionType, NEW q \in Paths, NEW c \in Values, WriteFile(q, c)
    PROVE  /\ ProjectionType'
           /\ IndexedProjection => IndexedProjection'
           /\ ViewMirrorsFiles => ViewMirrorsFiles'
  <1> DEFINE o1  == IF files[q] = Absent THEN NoObject ELSE files[q].obj
             new == [content |-> c, obj |-> o1]
  <1>1. o1 \in Objects \cup {NoObject}
    BY FileFacts DEF ProjectionType, FileOrAbsent
  <1>2. new \in File /\ new # Absent /\ new.content = c /\ new.obj = o1
    <2> HIDE DEF o1
    <2> QED
      BY <1>1, FileFacts
  <1>3. files' = [files EXCEPT ![q] = new]
    BY DEF WriteFile, ProjectionType
  <1>4. \A p \in Paths : view'[p] = IF p = q THEN c ELSE view[p]
    BY DEF WriteFile, appendWorkspaceEvents
  <1>5. index' = index
    BY DEF WriteFile, recordWrite
  <1>6. view' \in [Paths -> Values \cup {Absent}]
    BY DEF WriteFile, appendWorkspaceEvents, ProjectionType
  <1> HIDE DEF new
  <1>7. ProjectionType'
    BY <1>2, <1>3, <1>5, <1>6 DEF ProjectionType, FileOrAbsent
  <1>8. ViewMirrorsFiles => ViewMirrorsFiles'
    BY <1>2, <1>3, <1>4 DEF ViewMirrorsFiles, ContentOf, ProjectionType
  <1>9. \A o \in Objects : Matches(o)' = Matches(o)
    BY <1>2, <1>3, FileFacts DEF Matches, ProjectionType
  <1>10. IndexedProjection => IndexedProjection'
    BY <1>5, <1>9 DEF IndexedProjection
  <1> QED
    BY <1>7, <1>8, <1>10

LEMMA RenameStep ==
    ASSUME ProjectionType, NEW draft \in Paths, NEW ext \in Objects,
           NEW target \in Paths, target # draft,
           files[draft] # Absent, files[draft].obj = NoObject,
           ~Materialized(draft, ext, target),
           renameDraft(draft, ext, target)
    PROVE  /\ ProjectionType'
           /\ IndexedProjection => IndexedProjection'
           /\ ViewMirrorsFiles => ViewMirrorsFiles'
  <1> DEFINE new == [files[draft] EXCEPT !.obj = ext]
  <1>1. files[draft] \in File
    BY DEF ProjectionType, FileOrAbsent
  <1>2. /\ new \in File /\ new # Absent /\ new.obj = ext
        /\ new.content = files[draft].content
    BY <1>1, FileFacts DEF File
  <1>3. files' = [files EXCEPT ![draft] = Absent, ![target] = new]
    BY DEF renameDraft
  <1>4. index' = [index EXCEPT ![ext] = target]
    BY DEF renameDraft
  <1>5. \A p \in Paths : view'[p] = IF p = target THEN files[draft].content
                                    ELSE IF p = draft THEN Absent ELSE view[p]
    BY DEF renameDraft, appendWorkspaceEvents
  <1>6. view' \in [Paths -> Values \cup {Absent}]
    BY <1>1, FileFacts DEF renameDraft, appendWorkspaceEvents, ProjectionType
  <1> HIDE DEF new
  <1>7. ProjectionType'
    BY <1>2, <1>3, <1>4, <1>6 DEF ProjectionType, FileOrAbsent
  <1>8. ViewMirrorsFiles => ViewMirrorsFiles'
    BY <1>2, <1>3, <1>5 DEF ViewMirrorsFiles, ContentOf, ProjectionType
  <1>9. ASSUME IndexedProjection, NEW o \in Objects, NEW p \in Paths,
               files'[p] # Absent, files'[p].obj = o
        PROVE  index'[o] = p
    <2>1. p # draft
      BY <1>3, <1>9 DEF ProjectionType
    <2>2. CASE p = target
      BY <1>2, <1>3, <1>4, <1>9, <2>2 DEF ProjectionType
    <2>3. CASE p # target
      <3>1. files'[p] = files[p]
        BY <1>3, <2>1, <2>3 DEF ProjectionType
      <3>2. index[o] = p
        BY <1>9, <3>1 DEF IndexedProjection, Matches
      <3>3. o # ext
        BY <1>9, <2>1, <3>1, <3>2, ProjectionAssumption DEF Materialized
      <3> QED
        BY <1>4, <3>2, <3>3 DEF ProjectionType
    <2> QED
      BY <2>2, <2>3
  <1>10. IndexedProjection => IndexedProjection'
    BY <1>9 DEF IndexedProjection, Matches
  <1> QED
    BY <1>7, <1>8, <1>10

LEMMA ReconcileStep ==
    ASSUME ProjectionType, NEW op \in Op, NEW ext \in Objects,
           NEW target \in Paths, reconcileAckedDraft(op, ext, target)
    PROVE  /\ ProjectionType'
           /\ IndexedProjection => IndexedProjection'
           /\ ViewMirrorsFiles => ViewMirrorsFiles'
  <1> DEFINE draft == op.path
  <1>1. draft \in Paths
    BY DEF Op
  <1>2. CASE removeDraft(draft)
    BY <1>1, <1>2, RemoveOne DEF removeDraft, ProjectionType
  <1>3. CASE /\ files[draft] # Absent /\ files[draft].obj = NoObject
             /\ ~Materialized(draft, ext, target) /\ target # draft
             /\ renameDraft(draft, ext, target)
    BY <1>1, <1>3, RenameStep
  <1>4. CASE /\ files[draft] # Absent /\ files[draft].obj = ext
             /\ index' = [index EXCEPT ![ext] = IF @ = NoPath THEN draft ELSE @]
             /\ UNCHANGED <<files, view>>
    <2>1. ProjectionType'
      BY <1>1, <1>4 DEF ProjectionType
    <2>2. ViewMirrorsFiles => ViewMirrorsFiles'
      BY <1>4 DEF ViewMirrorsFiles, ContentOf
    <2>3. ASSUME IndexedProjection
          PROVE  IndexedProjection'
      <3>1. index[ext] = draft
        BY <1>1, <1>4, <2>3 DEF IndexedProjection, Matches
      <3>2. index' = index
        BY <1>1, <1>4, <3>1, ProjectionAssumption DEF ProjectionType
      <3> QED
        BY <1>4, <2>3, <3>2 DEF IndexedProjection, Matches
    <2> QED
      BY <2>1, <2>2, <2>3
  <1>5. CASE UNCHANGED <<files, index, view>>
    BY <1>5 DEF ProjectionType, IndexedProjection, Matches, ViewMirrorsFiles,
                ContentOf
  <1> QED
    BY <1>2, <1>3, <1>4, <1>5 DEF reconcileAckedDraft

LEMMA SweepStep ==
    ASSUME ProjectionType, NEW S \in SUBSET Paths, SweepWritebackDrafts(S)
    PROVE  /\ ProjectionType'
           /\ IndexedProjection => IndexedProjection'
           /\ ViewMirrorsFiles => ViewMirrorsFiles'
  <1> DEFINE swept == {p \in S :
                         /\ files[p] # Absent /\ files[p].obj = NoObject
                         /\ p \notin Range(index)
                         /\ \A i \in DOMAIN ops :
                              ~(ops[i].armed /\ ops[i].path = p)}
  <1>1. swept \in SUBSET Paths
    OBVIOUS
  <1>2. /\ files' = [p \in Paths |-> IF p \in swept THEN Absent ELSE files[p]]
        /\ appendWorkspaceEvents([p \in swept |-> Absent])
        /\ index' = index
    BY DEF SweepWritebackDrafts
  <1> HIDE DEF swept
  <1> QED
    BY <1>1, <1>2, RemovalStep DEF ProjectionType

(* Every step keeps the files typed, the index exact and the feed true. *)
LEMMA ProjectionStep ==
    ASSUME ProjectionType, ops \in Seq(Op), Next
    PROVE  /\ ProjectionType'
           /\ IndexedProjection => IndexedProjection'
           /\ ViewMirrorsFiles => ViewMirrorsFiles'
  <1>1. CASE \E d \in Delivery : Deliver(d)
    BY <1>1, DeliverStep
  <1>2. CASE \E p \in Paths : DeleteFile(p)
    <2>1. PICK p \in Paths : DeleteFile(p)
      BY <1>2
    <2>2. index' = index
      BY <2>1 DEF DeleteFile, recordWrite
    <2> QED
      BY <2>1, <2>2, RemoveOne DEF DeleteFile, ProjectionType
  <1>3. CASE \E p \in Paths, c \in Values : WriteFile(p, c)
    BY <1>3, WriteStep
  <1>4. CASE \E i \in OpIds : AcknowledgePlainly(i)
    BY <1>4 DEF AcknowledgePlainly, ProjectionType, IndexedProjection, Matches,
                ViewMirrorsFiles, ContentOf
  <1>5. CASE \E i \in OpIds, o \in Objects, p \in Paths :
               AcknowledgeWriteback(i, o, p)
    <2>1. PICK i \in OpIds, o \in Objects, p \in Paths :
            AcknowledgeWriteback(i, o, p)
      BY <1>5
    <2>2. ops[i] \in Op /\ reconcileAckedDraft(ops[i], o, p)
      BY <2>1 DEF AcknowledgeWriteback
    <2> QED
      BY <2>2, ReconcileStep
  <1>6. CASE \E S \in SUBSET Paths : SweepWritebackDrafts(S)
    BY <1>6, SweepStep
  <1> QED
    BY <1>1, <1>2, <1>3, <1>4, <1>5, <1>6 DEF Next

-----------------------------------------------------------------------------
(* Theorems *)

LEMMA InitType == Init => TypeOK
  <1> SUFFICES ASSUME Init
               PROVE  TypeOK
    OBVIOUS
  <1>1. view \in [Paths -> Values \cup {Absent}]
    BY FileFacts DEF Init, ContentOf, FileOrAbsent
  <1>2. watermarks \in [Keys -> 0..MaxTime]
    BY ProjectionAssumption DEF Init
  <1> QED
    BY <1>1, <1>2 DEF Init, TypeOK

(* The watermarks, the operations and the history keep their types. *)
LEMMA RestType ==
    ASSUME TypeOK, Next
    PROVE  /\ watermarks' \in [Keys -> 0..MaxTime]
           /\ ops' \in Seq(Op)
           /\ newest' \in [Objects -> Delivery \cup {Never}]
           /\ disturbed' \subseteq Objects
  <1>0. \A k : Others(k) \subseteq Objects
    BY DEF Others
  <1>1. CASE \E d \in Delivery : Deliver(d)
    <2>1. PICK d \in Delivery : Deliver(d)
      BY <1>1
    <2>2. /\ d.t \in 0..MaxTime /\ d.obj \in Objects \cup {NoObject}
          /\ WatermarkKey(d) \in Keys
      BY ProjectionAssumption DEF Delivery, Times, WatermarkKey, Keys
    <2>3. watermarks' \in [Keys -> 0..MaxTime]
      BY <2>1, <2>2 DEF Deliver, RaiseWatermark, TypeOK
    <2>4. newest' \in [Objects -> Delivery \cup {Never}]
      <3>1. \/ newest' = newest
            \/ d.obj # NoObject /\ newest' = [newest EXCEPT ![d.obj] = Said(d)]
        BY <2>1 DEF Deliver, News
      <3>2. d.obj # NoObject => Said(d) \in Delivery
        BY DEF Said, Delivery
      <3> QED
        BY <3>1, <3>2 DEF TypeOK
    <2>5. disturbed' \subseteq Objects
      BY <1>0, <2>1, <2>2 DEF Deliver, News, TypeOK
    <2> QED
      BY <2>1, <2>3, <2>4, <2>5 DEF Deliver, TypeOK
  <1>2. ASSUME NEW p \in Paths, NEW a \in {"file_upsert", "file_delete"},
               recordWrite(p, a)
        PROVE  /\ watermarks' \in [Keys -> 0..MaxTime]
               /\ ops' \in Seq(Op)
               /\ newest' \in [Objects -> Delivery \cup {Never}]
               /\ disturbed' \subseteq Objects
    <2>1. [path |-> p, action |-> a, armed |-> TRUE] \in Op
      BY DEF Op
    <2> QED
      BY <1>0, <1>2, <2>1 DEF recordWrite, TypeOK
  <1>3. CASE \E p \in Paths : DeleteFile(p)
    BY <1>2, <1>3 DEF DeleteFile
  <1>4. CASE \E p \in Paths, c \in Values : WriteFile(p, c)
    BY <1>2, <1>4 DEF WriteFile
  <1>5. ASSUME NEW i \in DOMAIN ops
        PROVE  [ops EXCEPT ![i].armed = FALSE] \in Seq(Op)
    <2>1. [ops[i] EXCEPT !.armed = FALSE] \in Op
      <3>1. ops[i] \in Op
        BY DEF TypeOK
      <3> QED
        BY <3>1 DEF Op
    <2> QED
      BY <1>5, <2>1 DEF TypeOK
  <1>6. CASE \E i \in OpIds : AcknowledgePlainly(i)
    BY <1>5, <1>6 DEF AcknowledgePlainly, TypeOK
  <1>7. CASE \E i \in OpIds, o \in Objects, p \in Paths :
               AcknowledgeWriteback(i, o, p)
    BY <1>0, <1>5, <1>7 DEF AcknowledgeWriteback, TypeOK
  <1>8. CASE \E S \in SUBSET Paths : SweepWritebackDrafts(S)
    BY <1>8 DEF SweepWritebackDrafts, TypeOK
  <1> QED
    BY <1>1, <1>3, <1>4, <1>6, <1>7, <1>8 DEF Next

LEMMA NextType == TypeOK /\ [Next]_vars => TypeOK'
  <1> SUFFICES ASSUME TypeOK, [Next]_vars
               PROVE  TypeOK'
    OBVIOUS
  <1>1. CASE Next
    BY <1>1, ProjectionStep, RestType DEF TypeOK, ProjectionType
  <1>2. CASE UNCHANGED vars
    BY <1>2 DEF vars, TypeOK
  <1> QED
    BY <1>1, <1>2

(* Type correctness from any files and any index: in particular a pathless *)
(* delivery resolves to a path or to none, whatever the index holds.       *)
THEOREM TypeCorrect == Spec => []TypeOK
  BY InitType, NextType, PTL DEF Spec

(* In a workspace this code has filled, an object never has two files and  *)
(* the provider index always names the one it has, whatever providers,     *)
(* agents, acks and sweeps do.                                             *)
THEOREM ProjectionIndexed == ~Legacy => (Spec => []IndexedProjection)
  <1> SUFFICES ASSUME ~Legacy
               PROVE  Spec => []IndexedProjection
    OBVIOUS
  <1>1. Init => IndexedProjection
    BY DEF Init, IndexedProjection, Matches
  <1>2. TypeOK /\ IndexedProjection /\ [Next]_vars => IndexedProjection'
    <2> SUFFICES ASSUME TypeOK, IndexedProjection, [Next]_vars
                 PROVE  IndexedProjection'
      OBVIOUS
    <2>1. CASE Next
      BY <2>1, ProjectionStep DEF TypeOK, ProjectionType
    <2>2. CASE UNCHANGED vars
      BY <2>2 DEF vars, IndexedProjection, Matches
    <2> QED
      BY <2>1, <2>2
  <1> QED
    BY <1>1, <1>2, TypeCorrect, PTL DEF Spec

-----------------------------------------------------------------------------
(* The newest delivery *)

(* ProjectionCurrent for one object. *)
Current(o) ==
    newest[o] # Never =>
      IF newest[o].type = "file_delete" THEN Matches(o) = {}
      ELSE \E p \in Paths :
             /\ Matches(o) = {p}
             /\ files[p].content = newest[o].content
             /\ newest[o].path \in {NoPath, p}

(* The watermark of an object is the time of its newest delivery. *)
WatermarksTell ==
    \A o \in Objects :
      watermarks[o] = IF newest[o] = Never THEN 0 ELSE newest[o].t

(* An object whose files nobody changed has the files it had. *)
LEMMA Untouched ==
    ASSUME NEW key, NEW o \in Objects, o # key, o \notin Others(key)
    PROVE  /\ Matches(o)' = Matches(o)
           /\ \A p \in Matches(o) : files'[p] = files[p]
  <1>1. ASSUME NEW p \in Paths, files'[p] # files[p]
        PROVE  /\ ~(files[p] # Absent /\ files[p].obj = o)
               /\ ~(files'[p] # Absent /\ files'[p].obj = o)
    BY <1>1 DEF Others
  <1> QED
    BY <1>1 DEF Matches

LEMMA UntouchedCurrent ==
    ASSUME NEW key, NEW o \in Objects, o # key, o \notin Others(key),
           newest'[o] = newest[o], Current(o)
    PROVE  Current(o)'
  <1>1. /\ Matches(o)' = Matches(o)
        /\ \A p \in Matches(o) : files'[p] = files[p]
    BY Untouched
  <1> QED
    BY <1>1 DEF Current

(* The watermark lets through exactly the deliveries that are news. *)
LEMMA FreshIsNews ==
    ASSUME TypeOK, WatermarksTell, NEW d \in Delivery, d.obj \in Objects
    PROVE  isStaleProviderAction(d) <=>
             ~(newest[d.obj] = Never \/ newest[d.obj].t <= d.t)
  <1>1. d.t \in 1..MaxTime /\ d.obj # NoObject
    BY ProjectionAssumption DEF Delivery, Times
  <1>2. watermarks[d.obj] =
          IF newest[d.obj] = Never THEN 0 ELSE newest[d.obj].t
    BY DEF WatermarksTell
  <1>3. newest[d.obj] # Never => newest[d.obj].t \in 1..MaxTime
    BY DEF TypeOK, Delivery, Times
  <1> QED
    BY <1>1, <1>2, <1>3, ProjectionAssumption
    DEF isStaleProviderAction, WatermarkKey

LEMMA DeliverWatermarks ==
    ASSUME TypeOK, WatermarksTell, NEW d \in Delivery, Deliver(d)
    PROVE  WatermarksTell'
  <1>0. Objects \subseteq Keys /\ Objects \cap Paths = {}
    BY ProjectionAssumption DEF Keys
  <1>1. CASE d.obj \in Objects
    <2>1. Said(d) # Never /\ Said(d).t = d.t
      <3>1. Said(d) \in Delivery /\ Said(d).t = d.t
        BY <1>1, ProjectionAssumption DEF Said, Delivery
      <3> QED
        BY <3>1, NeverAssumption
    <2>2. CASE isStaleProviderAction(d)
      <3>1. newest' = newest /\ watermarks' = watermarks
        BY <1>1, <2>2, FreshIsNews DEF Deliver, News
      <3> QED
        BY <3>1 DEF WatermarksTell
    <2>3. CASE ~isStaleProviderAction(d)
      <3>1. newest' = [newest EXCEPT ![d.obj] = Said(d)]
        BY <1>1, <2>3, FreshIsNews, ProjectionAssumption DEF Deliver, News
      <3>2. watermarks' = [watermarks EXCEPT ![d.obj] = d.t]
        BY <1>1, <2>3, ProjectionAssumption
        DEF Deliver, RaiseWatermark, WatermarkKey
      <3>3. newest'[d.obj] = Said(d) /\ watermarks'[d.obj] = d.t
        BY <1>0, <1>1, <3>1, <3>2 DEF TypeOK
      <3>4. \A o \in Objects \ {d.obj} :
              newest'[o] = newest[o] /\ watermarks'[o] = watermarks[o]
        BY <1>0, <3>1, <3>2 DEF TypeOK
      <3> QED
        BY <2>1, <3>3, <3>4 DEF WatermarksTell
    <2> QED
      BY <2>2, <2>3
  <1>2. CASE d.obj = NoObject
    <2>1. newest' = newest /\ d.path \in Paths
      BY <1>2 DEF Deliver, News, Delivery
    <2>2. \A o \in Objects : watermarks'[o] = watermarks[o]
      BY <1>0, <1>2, <2>1 DEF Deliver, RaiseWatermark, WatermarkKey, TypeOK
    <2> QED
      BY <2>1, <2>2 DEF WatermarksTell
  <1> QED
    BY <1>1, <1>2 DEF Delivery

(* The delivered object's own file, when the delivery is the newest. *)
LEMMA DeliverOwn ==
    ASSUME TypeOK, IndexedProjection, NEW d \in Delivery, d.obj \in Objects,
           ~isStaleProviderAction(d), Deliver(d),
           newest[d.obj] = Never \/ newest[d.obj].t <= d.t,
           newest'[d.obj] = Said(d), d.obj \notin disturbed'
    PROVE  Current(d.obj)'
  <1> DEFINE o == d.obj
             path == TargetPath(d)
  <1>0. /\ o # NoObject /\ NoPath \notin Paths
        /\ path \in Paths \cup {NoPath}
        /\ Matches(o) \subseteq {index[o]} \cap Paths
        /\ d.type \in {"file_upsert", "file_delete"}
    BY ProjectionAssumption, TargetIsPath DEF IndexedProjection, Matches, Delivery
  <1>1. CASE d.type = "file_upsert"
    <2>1. path # NoPath
      BY <1>0, <1>1 DEF Deliver, News, Said
    <2>2. applyProviderUpsert(d, path)
      BY <1>1, <2>1 DEF Deliver, HasEffect
    <2>3. d.path \in {NoPath, path}
      BY <1>1 DEF TargetPath
    <2> HIDE DEF path
    <2>4. files' = [p \in Paths |->
             IF p = path THEN [content |-> d.content, obj |-> o]
             ELSE IF p \in {index[o]} \cap (Matches(o) \ {path}) THEN Absent
             ELSE files[p]]
      BY <1>0, <2>2 DEF applyProviderUpsert
    <2>5. [content |-> d.content, obj |-> o] # Absent
      BY FileFacts DEF Delivery
    <2>6. Matches(o)' = {path}
      <3>1. path \in Paths
        BY <1>0, <2>1
      <3>2. path \in Matches(o)'
        BY <2>4, <2>5, <3>1 DEF Matches
      <3>3. ASSUME NEW p \in Paths, p # path, files'[p] # Absent,
                   files'[p].obj = o
            PROVE  FALSE
        <4>1. p \notin {index[o]} \cap (Matches(o) \ {path})
          BY <2>4, <3>3
        <4>2. files'[p] = files[p]
          BY <2>4, <3>3, <4>1
        <4>3. p \in Matches(o)
          BY <3>3, <4>2 DEF Matches
        <4> QED
          BY <1>0, <3>3, <4>1, <4>3
      <3> QED
        BY <3>2, <3>3 DEF Matches
    <2>7. files'[path].content = d.content
      BY <1>0, <2>1, <2>4
    <2>8. newest'[o] = d
      BY <1>1 DEF Said
    <2> QED
      BY <1>0, <1>1, <2>1, <2>3, <2>6, <2>7, <2>8 DEF Current
  <1>2. CASE d.type = "file_delete"
    <2>1. newest'[o].type = "file_delete"
      BY <1>2 DEF Said, Delivery
    <2>2. Matches(o)' = {}
      <3>1. CASE path = NoPath
        <4>1. ~HasEffect(d)
          BY <3>1 DEF HasEffect
        <4>2. files' = files
          BY <4>1 DEF Deliver
        <4>3. d.path \notin Matches(o) /\ resolveProviderObjectPath(o) = NoPath
          BY <1>0, <1>2, <3>1 DEF TargetPath
        <4>4. Matches(o) = {}
          BY <1>0, <4>3 DEF resolveProviderObjectPath
        <4> QED
          BY <4>2, <4>4 DEF Matches
      <3>2. CASE path # NoPath
        <4>1. path \in Matches(o)
          BY <1>0, <1>2, <3>2, DeleteTargets
        <4>2. HasEffect(d)
          BY <3>2, <4>1 DEF HasEffect, Matches
        <4>3. files' = [files EXCEPT ![path] = Absent]
          BY <1>2, <4>2 DEF Deliver, applyProviderDelete
        <4> HIDE DEF path
        <4>4. Matches(o) = {path}
          BY <1>0, <4>1
        <4> QED
          BY <4>3, <4>4 DEF Matches, TypeOK
      <3> QED
        BY <3>1, <3>2
    <2> QED
      BY <2>1, <2>2 DEF Current
  <1> QED
    BY <1>0, <1>1, <1>2

LEMMA DeliverCurrent ==
    ASSUME TypeOK, IndexedProjection, WatermarksTell, ProjectionCurrent,
           NEW d \in Delivery, Deliver(d)
    PROVE  ProjectionCurrent'
  <1> SUFFICES ASSUME NEW o \in Objects, o \notin disturbed'
               PROVE  Current(o)'
    BY DEF ProjectionCurrent, Current
  <1>1. CASE o # d.obj
    <2>1. newest'[o] = newest[o]
      BY <1>1 DEF Deliver, News, TypeOK
    <2>2. o \notin disturbed /\ o \notin Others(d.obj)
      BY <1>1 DEF Deliver, News
    <2>3. Current(o)
      BY <2>2 DEF ProjectionCurrent, Current
    <2> QED
      BY <1>1, <2>1, <2>2, <2>3, UntouchedCurrent
  <1>2. CASE o = d.obj /\ isStaleProviderAction(d)
    <2>1. newest' = newest /\ files' = files
      BY <1>2, FreshIsNews DEF Deliver, News
    <2>2. o \notin disturbed
      BY <1>2, FreshIsNews DEF Deliver, News
    <2>3. Current(o)
      BY <2>2 DEF ProjectionCurrent, Current
    <2> QED
      BY <2>1, <2>3 DEF Current, Matches
  <1>3. CASE o = d.obj /\ ~isStaleProviderAction(d)
    <2>1. newest'[o] = Said(d)
      BY <1>3, FreshIsNews, ProjectionAssumption DEF Deliver, News, TypeOK
    <2> QED
      BY <1>3, <2>1, FreshIsNews, DeliverOwn
  <1> QED
    BY <1>1, <1>2, <1>3

(* Whoever else changes files says whose. *)
LEMMA AgentsCurrent ==
    ASSUME ProjectionCurrent, newest' = newest,
           disturbed' = disturbed \cup Others(NoObject)
    PROVE  ProjectionCurrent'
  <1> SUFFICES ASSUME NEW o \in Objects, o \notin disturbed'
               PROVE  Current(o)'
    BY DEF ProjectionCurrent, Current
  <1>1. Current(o)
    BY DEF ProjectionCurrent, Current
  <1>2. o # NoObject /\ o \notin Others(NoObject)
    BY ProjectionAssumption
  <1> QED
    BY <1>1, <1>2, UntouchedCurrent

(* The sweep takes no object's file. *)
LEMMA SweepCurrent ==
    ASSUME TypeOK, ProjectionCurrent, NEW S \in SUBSET Paths,
           SweepWritebackDrafts(S)
    PROVE  ProjectionCurrent'
  <1>1. \A p \in Paths :
          \/ files'[p] = files[p]
          \/ files'[p] = Absent /\ files[p].obj = NoObject
    BY DEF SweepWritebackDrafts
  <1>2. Others(NoObject) = {}
    BY <1>1, ProjectionAssumption DEF Others
  <1> QED
    BY <1>2, AgentsCurrent DEF SweepWritebackDrafts

LEMMA CurrentStep ==
    ASSUME TypeOK, IndexedProjection, WatermarksTell, ProjectionCurrent,
           [Next]_vars
    PROVE  WatermarksTell' /\ ProjectionCurrent'
  <1>1. CASE \E d \in Delivery : Deliver(d)
    BY <1>1, DeliverWatermarks, DeliverCurrent
  <1>2. CASE \E p \in Paths : DeleteFile(p) \/ \E c \in Values : WriteFile(p, c)
    BY <1>2, AgentsCurrent DEF DeleteFile, WriteFile, recordWrite, WatermarksTell
  <1>3. CASE UNCHANGED vars \/ \E i \in OpIds : AcknowledgePlainly(i)
    BY <1>3 DEF vars, AcknowledgePlainly, WatermarksTell, ProjectionCurrent,
                Matches
  <1>4. CASE \E i \in OpIds, o \in Objects, p \in Paths :
               AcknowledgeWriteback(i, o, p)
    BY <1>4, AgentsCurrent DEF AcknowledgeWriteback, WatermarksTell
  <1>5. CASE \E S \in SUBSET Paths : SweepWritebackDrafts(S)
    BY <1>5, SweepCurrent DEF SweepWritebackDrafts, WatermarksTell
  <1> QED
    BY <1>1, <1>2, <1>3, <1>4, <1>5 DEF Next

(* In a workspace this code has filled, deliveries that arrive in any      *)
(* order, late or twice, leave the newest one's content or absence: the    *)
(* watermark is its time, and the index finds the file it replaces.        *)
THEOREM NewestDeliveryStands == ~Legacy => (Spec => []ProjectionCurrent)
  <1> SUFFICES ASSUME ~Legacy
               PROVE  Spec => []ProjectionCurrent
    OBVIOUS
  <1>1. Init => WatermarksTell /\ ProjectionCurrent
    BY DEF Init, WatermarksTell, ProjectionCurrent, Keys
  <1>2. /\ TypeOK /\ IndexedProjection
        /\ WatermarksTell /\ ProjectionCurrent
        /\ [Next]_vars
        => WatermarksTell' /\ ProjectionCurrent'
    BY CurrentStep
  <1>3. Spec => []IndexedProjection
    BY ProjectionIndexed
  <1> QED
    BY <1>1, <1>2, <1>3, TypeCorrect, PTL DEF Spec

(* A reader of the event feed knows every file, from any start: no move,   *)
(* delete, rename or sweep changes a path without an event that says so.   *)
THEOREM FeedMirrorsFiles == Spec => []ViewMirrorsFiles
  <1>1. Init => ViewMirrorsFiles
    BY DEF Init, ViewMirrorsFiles
  <1>2. TypeOK /\ ViewMirrorsFiles /\ [Next]_vars => ViewMirrorsFiles'
    <2> SUFFICES ASSUME TypeOK, ViewMirrorsFiles, [Next]_vars
                 PROVE  ViewMirrorsFiles'
      OBVIOUS
    <2>1. CASE Next
      BY <2>1, ProjectionStep DEF TypeOK, ProjectionType
    <2>2. CASE UNCHANGED vars
      BY <2>2 DEF vars, ViewMirrorsFiles, ContentOf
    <2> QED
      BY <2>1, <2>2
  <1> QED
    BY <1>1, <1>2, TypeCorrect, PTL DEF Spec

(* From any files and any index, a delivery that names an object but not a *)
(* trusted path changes no file that is another's: what it is applied to   *)
(* is a file of the object or a free path, and what it leaves is a file of *)
(* the object.                                                             *)
LEMMA DeliverRespects ==
    ASSUME TypeOK, NEW d \in Delivery, d.obj # NoObject,
           d.path = NoPath \/ d.type = "file_delete",
           Deliver(d), NEW p \in Paths
    PROVE  files'[p] = files[p] \/ files[p] = Absent \/ p \in Matches(d.obj)
  <1> DEFINE path == TargetPath(d)
  <1>1. d.obj \in Objects
    BY DEF Delivery
  <1>2. CASE UNCHANGED files
    BY <1>2
  <1>3. CASE /\ HasEffect(d) /\ d.type = "file_upsert"
             /\ applyProviderUpsert(d, path)
    <2>1. path = resolveProviderObjectUpsertPath(d.obj)
      BY <1>3 DEF TargetPath
    <2>2. path \in Matches(d.obj) \/ files[path] = Absent
      BY <1>1, <1>3, <2>1, UpsertResolves DEF HasEffect
    <2> HIDE DEF path
    <2> QED
      BY <1>3, <2>2 DEF applyProviderUpsert
  <1>4. CASE /\ HasEffect(d) /\ d.type = "file_delete"
             /\ applyProviderDelete(d, path)
    <2>1. path \in Matches(d.obj)
      BY <1>4, DeleteTargets DEF HasEffect
    <2> HIDE DEF path
    <2> QED
      BY <1>4, <2>1 DEF applyProviderDelete, TypeOK
  <1> QED
    BY <1>2, <1>3, <1>4 DEF Deliver

(* IdentityRespected, for whatever files and index an older binary left.   *)
THEOREM DeliveriesRespectIdentity == Spec => IdentityRespected
  <1> DEFINE Respects ==
        \A p \in Paths :
          (files'[p] # files[p] /\ files[p] # Absent) =>
            \A d \in Delivery :
              (/\ d.obj # NoObject
               /\ d.path = NoPath \/ d.type = "file_delete"
               /\ p \notin Matches(d.obj)) => ~Deliver(d)
  <1>1. TypeOK => Respects
    BY DeliverRespects
  <1>2. TypeOK => [Respects]_vars
    BY <1>1
  <1>3. Spec => [][Respects]_vars
    <2> HIDE DEF Respects
    <2> QED
      BY <1>2, TypeCorrect, PTL
  <1> QED
    BY <1>3 DEF IdentityRespected

-----------------------------------------------------------------------------
(* Keep, the events of a sequence that are in a set *)

(* The recursion of Keep up to the m-th event.                              *)
KeepsTo(g, s, set, m) ==
    /\ g = [i \in 0..m |-> g[i]]
    /\ \A i \in 0..m :
         g[i] = IF i = 0 THEN <<>>
                ELSE IF s[i] \in set THEN Append(g[i - 1], s[i])
                ELSE g[i - 1]

(* The recursion of Keep can be carried to any length.                      *)
LEMMA KeepExists ==
    ASSUME NEW X, NEW s \in Seq(X), NEW set
    PROVE  \E g : KeepsTo(g, s, set, Len(s))
  <1> DEFINE Bad == {m \in 0..Len(s) : ~ \E g : KeepsTo(g, s, set, m)}
  <1>0. Len(s) \in Nat
    OBVIOUS
  <1>1. ASSUME Bad # {} PROVE FALSE
    <2>1. PICK m \in Bad : \A j \in Bad : m <= j
      <3>1. Bad \in SUBSET Nat
        BY <1>0
      <3> QED
        BY <1>1, <3>1, LeastOf
    <2>2. CASE m = 0
      <3>1. KeepsTo([i \in 0..0 |-> <<>>], s, set, 0)
        BY DEF KeepsTo
      <3> QED
        BY <2>1, <2>2, <3>1
    <2>3. CASE m # 0
      <3>1. m \in Nat /\ m - 1 \in 0..Len(s) /\ m - 1 \notin Bad
        BY <1>0, <2>1, <2>3
      <3>2. PICK g : KeepsTo(g, s, set, m - 1)
        BY <3>1
      <3> DEFINE h == [i \in 0..m |-> IF i = m
                         THEN IF s[m] \in set THEN Append(g[m - 1], s[m]) ELSE g[m - 1]
                         ELSE g[i]]
      <3>3. /\ h = [i \in 0..m |-> h[i]]
            /\ h[m] = IF s[m] \in set THEN Append(g[m - 1], s[m]) ELSE g[m - 1]
            /\ \A i \in 0..m : i # m => h[i] = g[i]
        BY <3>1
      <3> HIDE DEF h
      <3>4. ASSUME NEW i \in 0..m
            PROVE  h[i] = IF i = 0 THEN <<>>
                          ELSE IF s[i] \in set THEN Append(h[i - 1], s[i])
                          ELSE h[i - 1]
        <4>1. CASE i = m
          <5>1. h[m - 1] = g[m - 1]
            BY <3>1, <3>3
          <5> QED
            BY <2>3, <3>3, <4>1, <5>1
        <4>2. CASE i # m
          <5>1. i \in 0..(m - 1) /\ h[i] = g[i]
            BY <3>1, <3>3, <4>2
          <5>2. i # 0 => h[i - 1] = g[i - 1]
            BY <3>1, <3>3, <4>2
          <5> QED
            BY <3>2, <5>1, <5>2 DEF KeepsTo
        <4> QED
          BY <4>1, <4>2
      <3>5. KeepsTo(h, s, set, m)
        BY <3>3, <3>4 DEF KeepsTo
      <3> QED
        BY <2>1, <3>5
    <2> QED
      BY <2>2, <2>3
  <1> QED
    BY <1>0, <1>1

(* What the recursion has kept: the events in the set, in their order.      *)
KeptSo(q, s, set, m) ==
    /\ \A x : (\E a \in DOMAIN q : q[a] = x) <=> (x \in set /\ \E i \in 1..m : s[i] = x)
    /\ \A a, b \in DOMAIN q : a < b =>
         \E i, j \in 1..m : i < j /\ s[i] = q[a] /\ s[j] = q[b]

(* One more event.                                                          *)
LEMMA KeepStep ==
    ASSUME NEW X, NEW s \in Seq(X), NEW set, NEW m \in 1..Len(s), NEW q \in Seq(X),
           KeptSo(q, s, set, m - 1)
    PROVE  LET r == IF s[m] \in set THEN Append(q, s[m]) ELSE q
           IN  r \in Seq(X) /\ KeptSo(r, s, set, m)
  <1>1. m \in Nat /\ 1..m = (1..(m - 1)) \cup {m} /\ s[m] \in X /\ Len(q) \in Nat
    OBVIOUS
  <1>2. CASE s[m] \notin set
    BY <1>1, <1>2 DEF KeptSo
  <1>3. CASE s[m] \in set
    <2> DEFINE r == Append(q, s[m])
    <2>1. /\ r \in Seq(X) /\ DOMAIN r = (DOMAIN q) \cup {Len(q) + 1}
          /\ r[Len(q) + 1] = s[m] /\ \A a \in DOMAIN q : r[a] = q[a] /\ a \in 1..Len(q)
      BY <1>1
    <2> HIDE DEF r
    <2>2. \A x : (\E a \in DOMAIN r : r[a] = x) <=> (x \in set /\ \E i \in 1..m : s[i] = x)
      <3>1. \A x : (\E a \in DOMAIN r : r[a] = x) <=> (\E a \in DOMAIN q : q[a] = x) \/ x = s[m]
        BY <2>1
      <3>2. \A x : (\E i \in 1..m : s[i] = x) <=> (\E i \in 1..(m - 1) : s[i] = x) \/ x = s[m]
        BY <1>1
      <3> QED
        BY <1>3, <3>1, <3>2 DEF KeptSo
    <2>3. ASSUME NEW a \in DOMAIN r, NEW b \in DOMAIN r, a < b
          PROVE  \E i, j \in 1..m : i < j /\ s[i] = r[a] /\ s[j] = r[b]
      <3>1. a \in DOMAIN q
        BY <1>1, <2>1, <2>3
      <3>2. CASE b \in DOMAIN q
        <4>1. PICK i, j \in 1..(m - 1) : i < j /\ s[i] = q[a] /\ s[j] = q[b]
          BY <2>3, <3>1, <3>2 DEF KeptSo
        <4>2. i \in 1..m /\ j \in 1..m
          BY <1>1
        <4> QED
          BY <2>1, <3>1, <3>2, <4>1, <4>2
      <3>3. CASE b = Len(q) + 1
        <4>1. PICK i \in 1..(m - 1) : s[i] = q[a]
          BY <3>1 DEF KeptSo
        <4> QED
          BY <1>1, <2>1, <3>1, <3>3, <4>1
      <3> QED
        BY <2>1, <3>2, <3>3
    <2>4. KeptSo(r, s, set, m)
      BY <2>2, <2>3 DEF KeptSo
    <2> QED
      BY <1>3, <2>1, <2>4 DEF r
  <1> QED
    BY <1>2, <1>3

(* Keep returns the events in the set, in their order, and no other.        *)
LEMMA KeepKeeps ==
    ASSUME NEW X, NEW s \in Seq(X), NEW set
    PROVE  Keep(s, set) \in Seq(X) /\ KeptSo(Keep(s, set), s, set, Len(s))
  <1> DEFINE K(g) == g = [i \in 0..Len(s) |->
                            IF i = 0 THEN <<>>
                            ELSE IF s[i] \in set THEN Append(g[i - 1], s[i])
                            ELSE g[i - 1]]
             kept == CHOOSE g : K(g)
  <1>0. Len(s) \in Nat
    OBVIOUS
  <1>1. Keep(s, set) = kept[Len(s)]
    BY Zenon DEF Keep
  <1>2. \E g : K(g)
    <2>1. PICK g : KeepsTo(g, s, set, Len(s))
      BY KeepExists
    <2>2. K(g)
      BY <2>1 DEF KeepsTo
    <2> QED
      BY <2>2
  <1>3. K(kept)
    <2> HIDE DEF K
    <2> QED
      BY <1>2
  <1> HIDE DEF kept
  <1>4. \A i \in 0..Len(s) :
           kept[i] = IF i = 0 THEN <<>>
                     ELSE IF s[i] \in set THEN Append(kept[i - 1], s[i])
                     ELSE kept[i - 1]
    BY <1>3
  <1> HIDE DEF K
  <1> DEFINE Bad == {m \in 0..Len(s) : ~(kept[m] \in Seq(X) /\ KeptSo(kept[m], s, set, m))}
  <1>5. ASSUME Bad # {} PROVE FALSE
    <2>1. PICK m \in Bad : \A j \in Bad : m <= j
      <3>1. Bad \in SUBSET Nat
        BY <1>0
      <3> QED
        BY <1>5, <3>1, LeastOf
    <2>2. CASE m = 0
      <3>1. kept[m] = <<>>
        BY <1>0, <1>4, <2>2
      <3>2. <<>> \in Seq(X) /\ KeptSo(<<>>, s, set, 0)
        BY DEF KeptSo
      <3> QED
        BY <2>1, <2>2, <3>1, <3>2
    <2>3. CASE m # 0
      <3>1. m \in 1..Len(s) /\ m - 1 \in 0..Len(s) /\ m - 1 \notin Bad
        BY <1>0, <2>1, <2>3
      <3>2. kept[m - 1] \in Seq(X) /\ KeptSo(kept[m - 1], s, set, m - 1)
        BY <3>1
      <3>3. kept[m] = IF s[m] \in set THEN Append(kept[m - 1], s[m]) ELSE kept[m - 1]
        BY <1>4, <2>3, <3>1
      <3>4. kept[m] \in Seq(X) /\ KeptSo(kept[m], s, set, m)
        <4> HIDE DEF Bad
        <4> QED
          BY <3>1, <3>2, <3>3, KeepStep
      <3> QED
        BY <2>1, <3>4
    <2> QED
      BY <2>2, <2>3
  <1> QED
    BY <1>0, <1>1, <1>5

-----------------------------------------------------------------------------
(* The types *)

(* Serials are given out as events are logged.                              *)
TypeInv == SyncTypeOK /\ Len(log) <= serials /\ Len(disk) <= serials

(* Where a cursor is found in the log.                                      *)
LEMMA EventsAt ==
    ASSUME log \in Seq(Event), NEW c
    PROVE  /\ IndexOf(c) \in 0..Len(log) /\ Len(log) \in Nat
           /\ IndexOf(c) # 0 => log[IndexOf(c)].id = c
  BY DEF IndexOf

(* A part of a sequence.                                                    *)
LEMMA Part ==
    ASSUME NEW X, NEW s \in Seq(X), NEW m \in Nat \ {0}, NEW n \in 0..Len(s)
    PROVE  /\ SubSeq(s, m, n) \in Seq(X)
           /\ Len(SubSeq(s, m, n)) = IF m <= n THEN n - m + 1 ELSE 0
           /\ \A i \in 1..Len(SubSeq(s, m, n)) : SubSeq(s, m, n)[i] = s[m + i - 1]
  OBVIOUS

(* The events a request sees and the pages of the catch-up are events.      *)
LEMMA Pages ==
    ASSUME log \in Seq(Event), NEW c, NEW limit \in Nat \ {0}
    PROVE  /\ GetEventsAfterCursor(c, limit) \in Seq(Event)
           /\ GetRecentEvents(limit) \in Seq(Event)
           /\ visibleEvents(c) \in Seq(Event)
  <1>1. IndexOf(c) \in 0..Len(log) /\ Len(log) \in Nat
    BY EventsAt
  <1>2. GetEventsAfterCursor(c, limit) \in Seq(Event)
    BY <1>1, Part DEF GetEventsAfterCursor
  <1>3. GetRecentEvents(limit) \in Seq(Event)
    BY <1>1, Part DEF GetRecentEvents
  <1>4. SubSeq(log, IndexOf(c) + 1, Len(log)) \in Seq(Event)
    BY <1>1, Part
  <1> QED
    BY <1>2, <1>3, <1>4, KeepKeeps DEF visibleEvents

(* No connection is one.                                                    *)
LEMMA NoneTyped ==
    /\ NoSub \in [on : BOOLEAN, events : Seq(Event), overflowed : BOOLEAN, signal : BOOLEAN]
    /\ NoSub.events = <<>> /\ Len(NoSub.events) = 0
    /\ NoConn \in [pc : {"closed", "paging", "sending", "live"}, cursor : Cursors,
                   catchUp : Seq(Event), ids : SUBSET (1..MaxSerial)]
  <1>1. <<>> \in Seq(Event) /\ 0 \in Cursors
    BY FeedAssumption DEF Cursors
  <1> QED
    BY <1>1 DEF NoSub, NoConn, NoCursor

(* appendWorkspaceEvent, and publishEvent to the subscription.              *)
LEMMA Publishes ==
    ASSUME TypeInv, NEW kind \in Kinds, appendWorkspaceEvent(kind), UNCHANGED clientVars
    PROVE  TypeInv'
  <1> DEFINE e == [id |-> Len(log) + 1, serial |-> serials + 1, kind |-> kind]
  <1>1. serials \in Nat /\ serials < MaxSerial /\ Len(log) \in Nat
    BY FeedAssumption DEF TypeInv, SyncTypeOK, FeedTypeOK, appendWorkspaceEvent
  <1>2. e \in Event
    BY <1>1, FeedAssumption DEF TypeInv, Event
  <1> HIDE DEF e
  <1>3. log' = Append(log, e) /\ serials' = serials + 1
        /\ sub' = publishEvent(e) /\ writing' = TRUE
    BY DEF appendWorkspaceEvent, e
  <1>4. /\ log' \in Seq(Event) /\ Len(log') <= serials' /\ Len(disk) <= serials'
        /\ serials' \in 0..MaxSerial
    BY <1>1, <1>2, <1>3, FeedAssumption DEF TypeInv, SyncTypeOK, FeedTypeOK
  <1>5. /\ sub' \in [on : BOOLEAN, events : Seq(Event), overflowed : BOOLEAN, signal : BOOLEAN]
        /\ Len(sub'.events) <= Buffered
    <2>1. /\ sub \in [on : BOOLEAN, events : Seq(Event), overflowed : BOOLEAN, signal : BOOLEAN]
          /\ Len(sub.events) \in Nat /\ Len(sub.events) <= Buffered /\ Buffered \in Nat
      BY FeedAssumption DEF TypeInv, SyncTypeOK, FeedTypeOK
    <2>2. Append(sub.events, e) \in Seq(Event)
          /\ Len(Append(sub.events, e)) = Len(sub.events) + 1
      BY <1>2, <2>1
    <2>3. CASE ~sub.on \/ sub.overflowed
      BY <1>3, <2>1, <2>3 DEF publishEvent
    <2>4. CASE ~(~sub.on \/ sub.overflowed) /\ Len(sub.events) < Buffered
      <3>1. sub' = [sub EXCEPT !.events = Append(@, e)]
        BY <1>3, <2>4 DEF publishEvent
      <3>2. /\ sub' \in [on : BOOLEAN, events : Seq(Event), overflowed : BOOLEAN, signal : BOOLEAN]
            /\ sub'.events = Append(sub.events, e)
        BY <2>1, <2>2, <3>1
      <3> QED
        BY <2>1, <2>2, <2>4, <3>2
    <2>5. CASE ~(~sub.on \/ sub.overflowed) /\ ~(Len(sub.events) < Buffered)
      <3>1. sub' = [sub EXCEPT !.overflowed = TRUE, !.signal = TRUE]
        BY <1>3, <2>5 DEF publishEvent
      <3> QED
        BY <2>1, <2>5, <3>1
    <2> QED
      BY <2>3, <2>4, <2>5
  <1> QED
    BY <1>3, <1>4, <1>5 DEF TypeInv, SyncTypeOK, FeedTypeOK, appendWorkspaceEvent, clientVars

(* webSocketCatchUpPage.                                                    *)
LEMMA TypePage ==
    ASSUME TypeInv, webSocketCatchUpPage, UNCHANGED clientVars
    PROVE  TypeInv'
  <1> DEFINE page == IF handler.cursor = NoCursor THEN GetRecentEvents(Recent)
                     ELSE GetEventsAfterCursor(handler.cursor, PageSize)
             last == handler.cursor = NoCursor \/ Len(page) < PageSize
  <1>1. log \in Seq(Event) /\ handler \in [pc : {"closed", "paging", "sending", "live"},
                    cursor : Cursors, catchUp : Seq(Event), ids : SUBSET (1..MaxSerial)]
    BY DEF TypeInv, SyncTypeOK, FeedTypeOK
  <1>2. page \in Seq(Event)
    BY <1>1, Pages, FeedAssumption
  <1>3. handler.catchUp \o page \in Seq(Event)
    BY <1>1, <1>2
  <1>4. {e.id : e \in Range(handler.catchUp \o page)} \subseteq 1..MaxSerial
    <2>1. \A s \in Seq(Event) : \A e \in Range(s) : e.id \in 1..MaxSerial
      <3>1. \A e \in Event : e.id \in 1..MaxSerial
        BY DEF Event
      <3> QED
        BY <3>1 DEF Range
    <2> HIDE DEF page
    <2> QED
      BY <1>3, <2>1
  <1>5. ~last => page[Len(page)].id \in Cursors
    <2>1. ~last => Len(page) \in 1..Len(page)
      BY <1>2, FeedAssumption
    <2>2. \A e \in Event : e.id \in Cursors
      BY FeedAssumption DEF Event, Cursors
    <2> HIDE DEF page, last
    <2> QED
      BY <1>2, <2>1, <2>2
  <1>6. handler' = [handler EXCEPT
             !.catchUp = handler.catchUp \o page,
             !.pc = IF last THEN "sending" ELSE "paging",
             !.cursor = IF last THEN @ ELSE page[Len(page)].id,
             !.ids = IF last THEN {e.id : e \in Range(handler.catchUp \o page)} ELSE {}]
    BY DEF webSocketCatchUpPage
  <1> HIDE DEF page, last
  <1>7. handler' \in [pc : {"closed", "paging", "sending", "live"},
                    cursor : Cursors, catchUp : Seq(Event), ids : SUBSET (1..MaxSerial)]
    BY <1>1, <1>3, <1>4, <1>5, <1>6
  <1> QED
    BY <1>7 DEF TypeInv, SyncTypeOK, FeedTypeOK, webSocketCatchUpPage, storeVars, clientVars

(* SendCatchUp and SendLive.                                                *)
LEMMA TypeSends ==
    ASSUME TypeInv, SendCatchUp \/ SendLive, UNCHANGED clientVars
    PROVE  TypeInv'
  <1>1. /\ wire \in Seq(Event) /\ Len(wire) <= WireSize /\ WireSize \in Nat
        /\ handler \in [pc : {"closed", "paging", "sending", "live"},
                    cursor : Cursors, catchUp : Seq(Event), ids : SUBSET (1..MaxSerial)]
        /\ sub \in [on : BOOLEAN, events : Seq(Event), overflowed : BOOLEAN, signal : BOOLEAN]
        /\ Len(sub.events) <= Buffered /\ Buffered \in Nat
    BY FeedAssumption DEF TypeInv, SyncTypeOK, FeedTypeOK
  <1>2. ASSUME NEW e \in Event, writeWebSocketEvent(e)
        PROVE  wire' \in Seq(Event) /\ Len(wire') <= WireSize
    <2>1. Append(wire, e) \in Seq(Event) /\ Len(Append(wire, e)) = Len(wire) + 1
      BY <1>1
    <2>2. \/ wire' = Append(wire, e) /\ Len(wire) < WireSize
          \/ wire' = wire
      BY <1>2 DEF writeWebSocketEvent
    <2>3. Len(wire) \in Nat
      BY <1>1
    <2>4. WireSize \in Nat /\ Len(wire) <= WireSize /\ wire \in Seq(Event)
      BY <1>1
    <2>5. CASE wire' = Append(wire, e) /\ Len(wire) < WireSize
      BY <2>1, <2>3, <2>4, <2>5
    <2>6. CASE wire' = wire
      BY <2>4, <2>6
    <2> QED
      BY <2>2, <2>5, <2>6
  <1>3. /\ wire' \in Seq(Event) /\ Len(wire') <= WireSize
        /\ handler' \in [pc : {"closed", "paging", "sending", "live"},
                    cursor : Cursors, catchUp : Seq(Event), ids : SUBSET (1..MaxSerial)]
        /\ sub' \in [on : BOOLEAN, events : Seq(Event), overflowed : BOOLEAN, signal : BOOLEAN]
        /\ Len(sub'.events) <= Buffered
    <2>1. CASE SendCatchUp
      <3>1. handler.catchUp # <<>> => /\ Head(handler.catchUp) \in Event
                                      /\ Tail(handler.catchUp) \in Seq(Event)
        BY <1>1
      <3> QED
        BY <1>1, <1>2, <2>1, <3>1 DEF SendCatchUp
    <2>2. CASE SendLive
      <3>1. sub.events # <<>> /\ Head(sub.events) \in Event /\ Tail(sub.events) \in Seq(Event)
            /\ Len(Tail(sub.events)) <= Buffered
        BY <1>1, <2>2 DEF SendLive
      <3>2. sub' = [sub EXCEPT !.events = Tail(@)]
        BY <2>2 DEF SendLive
      <3>3. \/ UNCHANGED wire /\ handler' = [handler EXCEPT !.ids = @ \ {Head(sub.events).id}]
            \/ writeWebSocketEvent(Head(sub.events)) /\ UNCHANGED handler
        BY <2>2 DEF SendLive
      <3> QED
        BY <1>1, <1>2, <3>1, <3>2, <3>3
    <2> QED
      BY <2>1, <2>2
  <1> QED
    BY <1>3 DEF TypeInv, SyncTypeOK, FeedTypeOK, SendCatchUp, SendLive, storeVars, clientVars

(* The end of a connection.                                                 *)
LEMMA TypeCloses ==
    ASSUME TypeInv, handler' = NoConn, sub' = NoSub,
           wire' \in {wire, <<>>}, serials' = serials, writing' \in BOOLEAN,
           log' \in {log, disk}, disk' \in {log, disk}, crashes' \in 0..MaxCrashes,
           client' \in Client, since' \in Cursors \cup {-1}, emitted' \in Seq(Event),
           silenced' \subseteq 1..MaxSerial, dropped' \subseteq 1..MaxSerial,
           drops' \in 0..MaxDrops
    PROVE  TypeInv'
  <1>1. <<>> \in Seq(Event) /\ Len(<<>>) <= WireSize /\ 0 <= Buffered
    BY FeedAssumption
  <1> QED
    BY <1>1, NoneTyped DEF TypeInv, SyncTypeOK, FeedTypeOK

(* Steps of the client that leave the server alone.                         *)
LEMMA TypeClient ==
    ASSUME TypeInv, UNCHANGED <<storeVars, feedVars>>,
           client' \in Client, since' \in Cursors \cup {-1}, emitted' \in Seq(Event),
           silenced' \subseteq 1..MaxSerial, dropped' \subseteq 1..MaxSerial,
           drops' \in 0..MaxDrops
    PROVE  TypeInv'
  BY DEF TypeInv, SyncTypeOK, FeedTypeOK, storeVars, feedVars

(* handleSocketMessage.                                                     *)
LEMMA TypeReceives ==
    ASSUME TypeInv, handleSocketMessage
    PROVE  TypeInv'
  <1>1. /\ wire \in Seq(Event) /\ wire # <<>> /\ Len(wire) <= WireSize /\ WireSize \in Nat
        /\ client \in Client /\ emitted \in Seq(Event) /\ since \in Cursors \cup {-1}
    BY FeedAssumption DEF TypeInv, SyncTypeOK, FeedTypeOK, handleSocketMessage
  <1>2. /\ Head(wire) \in Event /\ Tail(wire) \in Seq(Event) /\ Len(Tail(wire)) <= WireSize
    BY <1>1
  <1>3. Head(wire).id \in Cursors
    BY <1>2, FeedAssumption DEF Event, Cursors
  <1>4. /\ client' = [client EXCEPT !.cursor = Head(wire).id]
        /\ emitted' = Append(emitted, Head(wire))
        /\ since' \in {since, Head(wire).id}
        /\ wire' = Tail(wire)
    BY DEF handleSocketMessage, SetCursor
  <1>5. client' \in Client /\ emitted' \in Seq(Event) /\ since' \in Cursors \cup {-1}
    <2>1. client' \in Client
      BY <1>1, <1>3, <1>4 DEF Client
    <2>2. emitted' \in Seq(Event)
      BY <1>1, <1>2, <1>4
    <2> QED
      BY <1>1, <1>3, <1>4, <2>1, <2>2
  <1> QED
    BY <1>2, <1>4, <1>5
    DEF TypeInv, SyncTypeOK, FeedTypeOK, handleSocketMessage, storeVars

(* What one poll request does, piece by piece.                              *)
PollOf(visible, more, events, fresh, latest, pending, polled) ==
    /\ visible = visibleEvents(client.polledCursor)
    /\ more <=> Len(visible) > PollLimit
    /\ events = IF more THEN SubSeq(visible, 1, PollLimit) ELSE visible
    /\ fresh = NotPolled(client.polledEventOrder, events)
    /\ latest = IF events = <<>> THEN client.polledLatest ELSE events[Len(events)].id
    /\ pending = IF client.firstPollComplete THEN client.pending \o fresh ELSE <<>>
    /\ polled = [client EXCEPT
                   !.polledEventOrder = Remembered(@, events)[Len(events)]]

(* What a first poll passes in silence.                                     *)
Silent(events) ==
    {e.serial : e \in {d \in Range(events) : d.kind = "wanted" /\ since >= 0}}

(* What is emitted after the last page.                                     *)
WantedOf(pending) ==
    Keep(pending, {e \in Range(pending) : e.kind = "wanted"})

(* What pollLoop does with them.                                            *)
PollActs(more, events, latest, pending, polled) ==
    /\ silenced' = silenced \cup (IF client.firstPollComplete THEN {} ELSE Silent(events))
    /\ \/ /\ more
          /\ client' = [polled EXCEPT !.polledCursor = latest, !.polledLatest = latest,
                                      !.pending = pending]
          /\ UNCHANGED <<since, emitted>>
       \/ /\ ~more
          /\ client' = NewPoll([polled EXCEPT !.cursor = latest, !.firstPollComplete = TRUE])
          /\ emitted' = emitted \o WantedOf(pending)
          /\ SetCursor(latest)
    /\ UNCHANGED <<storeVars, feedVars, dropped, drops>>

(* pollLoop does it.                                                        *)
LEMMA PollTaken ==
    ASSUME pollLoop
    PROVE  \E visible, more, events, fresh, latest, pending, polled :
              /\ PollOf(visible, more, events, fresh, latest, pending, polled)
              /\ more \in BOOLEAN
              /\ PollActs(more, events, latest, pending, polled)
  <1> DEFINE visible == visibleEvents(client.polledCursor)
             more == Len(visible) > PollLimit
             events == IF more THEN SubSeq(visible, 1, PollLimit) ELSE visible
             fresh == NotPolled(client.polledEventOrder, events)
             latest == IF events = <<>> THEN client.polledLatest ELSE events[Len(events)].id
             pending == IF client.firstPollComplete THEN client.pending \o fresh ELSE <<>>
             polled == [client EXCEPT
                          !.polledEventOrder = Remembered(@, events)[Len(events)]]
  <1>1. PollOf(visible, more, events, fresh, latest, pending, polled)
    BY DEF PollOf
  <1>2. PollActs(more, events, latest, pending, polled)
    BY DEF pollLoop, PollActs, Silent, WantedOf
  <1>3. more \in BOOLEAN
    OBVIOUS
  <1> HIDE DEF visible, more, events, fresh, latest, pending, polled
  <1> QED
    BY <1>1, <1>2, <1>3

(* The elements of a sequence.                                              *)
LEMMA RangeIn ==
    ASSUME NEW X, NEW s \in Seq(X)
    PROVE  Range(s) \subseteq X
  BY DEF Range

(* Keep returns the elements in the set.                                    *)
LEMMA KeptRange ==
    ASSUME NEW X, NEW s \in Seq(X), NEW set
    PROVE  /\ Keep(s, set) \in Seq(X)
           /\ \A x : x \in Range(Keep(s, set)) <=> x \in Range(s) /\ x \in set
  <1>1. Keep(s, set) \in Seq(X) /\ KeptSo(Keep(s, set), s, set, Len(s))
    BY KeepKeeps
  <1>2. DOMAIN s = 1..Len(s)
    OBVIOUS
  <1> QED
    BY <1>1, <1>2 DEF KeptSo, Range

(* The recursion of Remembered up to the m-th event.                        *)
RemembersTo(g, order, s, m) ==
    /\ g = [k \in 0..m |-> g[k]]
    /\ \A k \in 0..m :
         g[k] = IF k = 0 THEN order ELSE rememberPolledEvent(g[k - 1], s[k].id)

(* The recursion of Remembered can be carried to any length.                *)
LEMMA RememberExists ==
    ASSUME NEW s, Len(s) \in Nat, NEW order
    PROVE  \E g : RemembersTo(g, order, s, Len(s))
  <1> DEFINE Bad == {m \in 0..Len(s) : ~ \E g : RemembersTo(g, order, s, m)}
  <1>1. ASSUME Bad # {} PROVE FALSE
    <2>1. PICK m \in Bad : \A j \in Bad : m <= j
      <3>1. Bad \in SUBSET Nat
        OBVIOUS
      <3> QED
        BY <1>1, <3>1, LeastOf
    <2>2. CASE m = 0
      <3>1. RemembersTo([k \in 0..0 |-> order], order, s, 0)
        BY DEF RemembersTo
      <3> QED
        BY <2>1, <2>2, <3>1
    <2>3. CASE m # 0
      <3>1. m \in Nat /\ m - 1 \in 0..Len(s) /\ m - 1 \notin Bad
        BY <2>1, <2>3
      <3>2. PICK g : RemembersTo(g, order, s, m - 1)
        BY <3>1
      <3> DEFINE next == rememberPolledEvent(g[m - 1], s[m].id)
                 h == [k \in 0..m |-> IF k = m THEN next ELSE g[k]]
      <3> HIDE DEF next
      <3>3. /\ h = [k \in 0..m |-> h[k]]
            /\ h[m] = next
            /\ \A k \in 0..m : k # m => h[k] = g[k]
        BY <3>1
      <3> HIDE DEF h
      <3>4. ASSUME NEW k \in 0..m
            PROVE  h[k] = IF k = 0 THEN order ELSE rememberPolledEvent(h[k - 1], s[k].id)
        <4>1. CASE k = m
          <5>1. h[m - 1] = g[m - 1]
            BY <3>1, <3>3
          <5> QED
            BY <2>3, <3>3, <4>1, <5>1 DEF next
        <4>2. CASE k # m
          <5>1. k \in 0..(m - 1) /\ h[k] = g[k]
            BY <3>1, <3>3, <4>2
          <5>2. k # 0 => h[k - 1] = g[k - 1]
            BY <3>1, <3>3, <4>2
          <5> QED
            BY <3>2, <5>1, <5>2 DEF RemembersTo
        <4> QED
          BY <4>1, <4>2
      <3>5. RemembersTo(h, order, s, m)
        BY <3>3, <3>4 DEF RemembersTo
      <3> QED
        BY <2>1, <3>5
    <2> QED
      BY <2>2, <2>3
  <1> QED
    BY <1>1

(* One more id is remembered, and no other.                                 *)
LEMMA RememberStep ==
    ASSUME NEW X, NEW order \in Seq(X), NEW id \in X
    PROVE  /\ rememberPolledEvent(order, id) \in Seq(X)
           /\ Range(rememberPolledEvent(order, id)) \subseteq Range(order) \cup {id}
  <1> DEFINE longer == Append(order, id)
  <1>1. /\ longer \in Seq(X) /\ longer # <<>> /\ Len(order) \in Nat
        /\ DOMAIN longer = 1..(Len(order) + 1) /\ DOMAIN order = 1..Len(order)
        /\ longer[Len(order) + 1] = id /\ \A i \in 1..Len(order) : longer[i] = order[i]
    OBVIOUS
  <1>2. Tail(longer) \in Seq(X) /\ DOMAIN Tail(longer) = 1..Len(order)
        /\ \A i \in 1..Len(order) : Tail(longer)[i] = longer[i + 1]
    OBVIOUS
  <1> HIDE DEF longer
  <1>3. Range(longer) \subseteq Range(order) \cup {id}
    <2> SUFFICES ASSUME NEW i \in 1..(Len(order) + 1)
                 PROVE  longer[i] \in Range(order) \cup {id}
      BY <1>1 DEF Range
    <2>1. i \in 1..Len(order) \/ i = Len(order) + 1
      BY <1>1
    <2> QED
      BY <1>1, <2>1 DEF Range
  <1>4. Range(Tail(longer)) \subseteq Range(longer)
    <2> SUFFICES ASSUME NEW i \in 1..Len(order)
                 PROVE  Tail(longer)[i] \in Range(longer)
      BY <1>2 DEF Range
    <2>1. i + 1 \in 1..(Len(order) + 1)
      BY <1>1
    <2> QED
      BY <1>1, <1>2, <2>1 DEF Range
  <1>5. rememberPolledEvent(order, id) \in {order, longer, Tail(longer)}
    BY DEF rememberPolledEvent, longer
  <1> QED
    BY <1>1, <1>2, <1>3, <1>4, <1>5

(* What the cache holds after each event of a page: ids that it held or     *)
(* that an event had.                                                       *)
RemembersOnly(X, order, s, after) ==
    \A k \in 0..Len(s) :
       /\ after[k] \in Seq(X)
       /\ \A x \in Range(after[k]) : x \in Range(order) \/ \E i \in 1..k : s[i].id = x

(* The cache never holds another id.                                        *)
LEMMA RememberAll ==
    ASSUME NEW X, NEW order \in Seq(X), NEW s, Len(s) \in Nat,
           \A i \in 1..Len(s) : s[i].id \in X
    PROVE  RemembersOnly(X, order, s, Remembered(order, s))
  <1> DEFINE K(g) == g = [k \in 0..Len(s) |->
                           IF k = 0 THEN order ELSE rememberPolledEvent(g[k - 1], s[k].id)]
             after == CHOOSE g : K(g)
  <1>1. Remembered(order, s) = after
    BY Zenon DEF Remembered
  <1>2. \E g : K(g)
    <2>1. PICK g : RemembersTo(g, order, s, Len(s))
      BY RememberExists
    <2>2. K(g)
      BY <2>1 DEF RemembersTo
    <2> QED
      BY <2>2
  <1>3. K(after)
    <2> HIDE DEF K
    <2> QED
      BY <1>2
  <1> HIDE DEF after
  <1>4. \A k \in 0..Len(s) :
          after[k] = IF k = 0 THEN order ELSE rememberPolledEvent(after[k - 1], s[k].id)
    BY <1>3
  <1> HIDE DEF K
  <1> DEFINE Good(k) == /\ after[k] \in Seq(X)
                        /\ \A x \in Range(after[k]) :
                             x \in Range(order) \/ \E i \in 1..k : s[i].id = x
             Bad == {k \in 0..Len(s) : ~Good(k)}
  <1>5. ASSUME Bad # {} PROVE FALSE
    <2>1. PICK m \in Bad : \A j \in Bad : m <= j
      <3>1. Bad \in SUBSET Nat
        OBVIOUS
      <3> QED
        BY <1>5, <3>1, LeastOf
    <2>2. CASE m = 0
      <3>1. after[m] = order
        BY <1>4, <2>1, <2>2
      <3> QED
        BY <2>1, <3>1
    <2>3. CASE m # 0
      <3>1. m \in 1..Len(s) /\ m - 1 \in 0..Len(s) /\ m - 1 \notin Bad
        BY <2>1, <2>3
      <3>2. Good(m - 1)
        BY <3>1
      <3>3. after[m] = rememberPolledEvent(after[m - 1], s[m].id)
        BY <1>4, <2>3, <3>1
      <3>4. after[m] \in Seq(X) /\ Range(after[m]) \subseteq Range(after[m - 1]) \cup {s[m].id}
        BY <3>1, <3>2, <3>3, RememberStep
      <3>5. 1..m = (1..(m - 1)) \cup {m}
        BY <3>1
      <3>6. Good(m)
        BY <3>2, <3>4, <3>5
      <3> QED
        BY <2>1, <3>6
    <2> QED
      BY <2>2, <2>3
  <1>6. \A k \in 0..Len(s) : Good(k)
    BY <1>5
  <1> QED
    BY <1>1, <1>6 DEF RemembersOnly

(* Of a page whose events have ids of their own, every event that the cache *)
(* does not have is taken.                                                  *)
LEMMA NotPolledTakes ==
    ASSUME NEW X, NEW order \in Seq(X), NEW events \in Seq(Event),
           \A i \in 1..Len(events) : events[i].id \in X
    PROVE  /\ NotPolled(order, events) \in Seq(Event)
           /\ \A x \in Range(NotPolled(order, events)) : x \in Range(events)
           /\ (\A i, j \in 1..Len(events) : i < j => events[i].id # events[j].id) =>
                \A x \in Range(events) :
                  x.id \notin Range(order) => x \in Range(NotPolled(order, events))
  <1> DEFINE after == Remembered(order, events)
             new == {events[k] : k \in {n \in 1..Len(events) :
                                    events[n].id \notin Range(after[n - 1])}}
  <1>1. Len(events) \in Nat /\ DOMAIN events = 1..Len(events)
    OBVIOUS
  <1>2. NotPolled(order, events) = Keep(events, new)
    BY DEF NotPolled
  <1>3. \A k \in 0..Len(events) : \A x \in Range(after[k]) :
           x \in Range(order) \/ \E i \in 1..k : events[i].id = x
    <2> HIDE DEF after
    <2>1. RemembersOnly(X, order, events, Remembered(order, events))
      BY <1>1, RememberAll
    <2>2. RemembersOnly(X, order, events, after)
      BY <2>1 DEF after
    <2> QED
      BY <2>2 DEF RemembersOnly
  <1> HIDE DEF after
  <1>4. ASSUME \A i, j \in 1..Len(events) : i < j => events[i].id # events[j].id,
               NEW n \in 1..Len(events), events[n].id \notin Range(order)
        PROVE  events[n] \in new
    <2>1. ASSUME events[n].id \in Range(after[n - 1]) PROVE FALSE
      <3>1. n - 1 \in 0..Len(events)
        BY <1>1
      <3>2. PICK i \in 1..(n - 1) : events[i].id = events[n].id
        BY <1>3, <1>4, <2>1, <3>1
      <3>3. i \in 1..Len(events) /\ i < n
        BY <1>1
      <3> QED
        BY <1>4, <3>2, <3>3
    <2> QED
      BY <2>1
  <1> HIDE DEF new
  <1>5. /\ Keep(events, new) \in Seq(Event)
        /\ \A x : x \in Range(Keep(events, new)) <=> x \in Range(events) /\ x \in new
    BY KeptRange
  <1> QED
    BY <1>1, <1>2, <1>4, <1>5 DEF Range

(* The pieces of a poll request have their types.                           *)
LEMMA PollTyped ==
    ASSUME TypeInv, NEW visible, NEW more \in BOOLEAN, NEW events, NEW fresh, NEW latest,
           NEW pending, NEW polled,
           PollOf(visible, more, events, fresh, latest, pending, polled)
    PROVE  /\ visible \in Seq(Event) /\ events \in Seq(Event) /\ fresh \in Seq(Event)
           /\ latest \in Cursors /\ pending \in Seq(Event) /\ polled \in Client
           /\ WantedOf(pending) \in Seq(Event) /\ Silent(events) \subseteq 1..MaxSerial
  <1>1. log \in Seq(Event) /\ client \in Client /\ PollLimit \in Nat \ {0}
    BY ClientAssumption DEF TypeInv, SyncTypeOK, FeedTypeOK
  <1>2. visible \in Seq(Event)
    BY <1>1, Pages DEF PollOf
  <1>3. events \in Seq(Event)
    <2>1. CASE more
      <3>1. Len(visible) > PollLimit /\ events = SubSeq(visible, 1, PollLimit)
        BY <2>1 DEF PollOf
      <3>2. PollLimit \in 0..Len(visible)
        BY <1>1, <1>2, <3>1
      <3> QED
        BY <1>2, <3>1, <3>2, Part
    <2>2. CASE ~more
      BY <1>2, <2>2 DEF PollOf
    <2> QED
      BY <2>1, <2>2
  <1>4. /\ fresh \in Seq(Event)
        /\ Remembered(client.polledEventOrder, events)[Len(events)] \in Seq(1..MaxSerial)
    <2>1. client.polledEventOrder \in Seq(1..MaxSerial) /\ Len(events) \in Nat
          /\ Len(events) \in 0..Len(events)
      BY <1>1, <1>3 DEF Client
    <2>2. \A i \in 1..Len(events) : events[i].id \in 1..MaxSerial
      <3>1. \A i \in 1..Len(events) : events[i] \in Event
        BY <1>3
      <3>2. \A e \in Event : e.id \in 1..MaxSerial
        BY DEF Event
      <3> QED
        BY <3>1, <3>2
    <2>3. NotPolled(client.polledEventOrder, events) \in Seq(Event)
      BY <1>3, <2>1, <2>2, NotPolledTakes
    <2>4. RemembersOnly(1..MaxSerial, client.polledEventOrder, events,
                        Remembered(client.polledEventOrder, events))
      BY <2>1, <2>2, RememberAll
    <2>5. Remembered(client.polledEventOrder, events)[Len(events)] \in Seq(1..MaxSerial)
      BY <2>1, <2>4 DEF RemembersOnly
    <2> QED
      BY <2>3, <2>5, Zenon DEF PollOf
  <1>5. \A e \in Event : e.id \in Cursors /\ e.id \in 1..MaxSerial /\ e.serial \in 1..MaxSerial
    BY FeedAssumption DEF Event, Cursors
  <1>6. latest \in Cursors
    <2>1. CASE events = <<>>
      BY <1>1, <2>1 DEF PollOf, Client
    <2>2. CASE events # <<>>
      <3>1. events[Len(events)] \in Event
        BY <1>3, <2>2
      <3> QED
        BY <1>5, <2>2, <3>1 DEF PollOf
    <2> QED
      BY <2>1, <2>2
  <1>7. pending \in Seq(Event)
    BY <1>1, <1>4 DEF PollOf, Client
  <1>9. polled \in Client
    BY <1>1, <1>4 DEF PollOf, Client
  <1>10. Silent(events) \subseteq 1..MaxSerial
    BY <1>3, <1>5, RangeIn DEF Silent
  <1> QED
    BY <1>2, <1>3, <1>4, <1>6, <1>7, <1>9, <1>10, KeepKeeps DEF WantedOf

(* pollLoop.                                                                *)
LEMMA TypePolls ==
    ASSUME TypeInv, pollLoop
    PROVE  TypeInv'
  <1>1. PICK visible, more, events, fresh, latest, pending, polled :
              /\ PollOf(visible, more, events, fresh, latest, pending, polled)
              /\ more \in BOOLEAN
              /\ PollActs(more, events, latest, pending, polled)
    BY PollTaken
  <1>2. /\ latest \in Cursors /\ pending \in Seq(Event) /\ polled \in Client
        /\ WantedOf(pending) \in Seq(Event) /\ Silent(events) \subseteq 1..MaxSerial
    BY <1>1, PollTyped
  <1>3. /\ since \in Cursors \cup {-1} /\ emitted \in Seq(Event) /\ silenced \subseteq 1..MaxSerial
        /\ dropped \subseteq 1..MaxSerial /\ drops \in 0..MaxDrops /\ <<>> \in Seq(Event)
    BY DEF TypeInv, SyncTypeOK, FeedTypeOK
  <1>4. silenced' \subseteq 1..MaxSerial /\ dropped' = dropped /\ drops' = drops
    BY <1>1, <1>2, <1>3 DEF PollActs
  <1>5. client' \in Client /\ since' \in Cursors \cup {-1} /\ emitted' \in Seq(Event)
    <2>1. CASE more
      <3>1. /\ client' = [polled EXCEPT !.polledCursor = latest, !.polledLatest = latest,
                                      !.pending = pending]
            /\ UNCHANGED <<since, emitted>>
        BY <1>1, <2>1 DEF PollActs
      <3> QED
        BY <1>2, <1>3, <3>1 DEF Client
    <2>2. CASE ~more
      <3>1. /\ client' = NewPoll([polled EXCEPT !.cursor = latest, !.firstPollComplete = TRUE])
            /\ emitted' = emitted \o WantedOf(pending)
            /\ since' \in {since, latest}
        BY <1>1, <2>2 DEF PollActs, SetCursor
      <3>2. client' \in Client
        BY <1>2, <1>3, <3>1 DEF NewPoll, Client
      <3>3. emitted' \in Seq(Event)
        BY <1>2, <1>3, <3>1
      <3> QED
        BY <1>2, <1>3, <3>1, <3>2, <3>3
    <2> QED
      BY <2>1, <2>2
  <1>6. UNCHANGED <<storeVars, feedVars>>
    BY <1>1 DEF PollActs, storeVars, feedVars
  <1> QED
    BY <1>3, <1>4, <1>5, <1>6, TypeClient

(* The types hold to begin with, and every step preserves them.             *)
LEMMA TypeInit ==
    ASSUME SyncInit
    PROVE  TypeInv
  <1>1. PICK k \in Kinds : log = <<[id |-> 1, serial |-> 1, kind |-> k]>>
    BY DEF SyncInit, FeedInit
  <1>2. /\ log \in Seq(Event) /\ Len(log) = 1 /\ disk = log /\ serials = 1
        /\ 1 \in 0..MaxSerial
    BY <1>1, FeedAssumption DEF SyncInit, FeedInit, Event
  <1>3. /\ <<>> \in Seq(Event) /\ Len(<<>>) = 0 /\ 0 <= WireSize /\ 0 <= Buffered
        /\ 0 \in 0..MaxCrashes /\ 0 \in 0..MaxDrops /\ {} \subseteq 1..MaxSerial
    BY FeedAssumption, ClientAssumption
  <1>4. sub = NoSub /\ handler = NoConn /\ wire = <<>> /\ crashes = 0 /\ writing = FALSE
    BY DEF SyncInit, FeedInit
  <1>5. client \in Client /\ since \in Cursors \cup {-1}
    <2>1. PICK from \in Starts :
         /\ client = [state |-> "reconnecting", from |-> from,
                      cursor |-> IF from = "cursor" THEN 1 ELSE NoCursor,
                      firstPollComplete |-> FALSE, polledEventOrder |-> <<>>,
                      polledCursor |-> NoCursor, polledLatest |-> NoCursor,
                      pending |-> <<>>]
         /\ since = IF from = "cursor" THEN 1 ELSE -1
      BY DEF SyncInit
    <2>2. from \in {"cursor", "now", "legacy"} /\ 1 \in Cursors /\ 0 \in Cursors
          /\ <<>> \in Seq(1..MaxSerial)
      BY ClientAssumption, FeedAssumption DEF Cursors
    <2> QED
      BY <1>3, <2>1, <2>2 DEF Client, NoCursor
  <1>6. emitted = <<>> /\ silenced = {} /\ dropped = {} /\ drops = 0
    BY DEF SyncInit
  <1> QED
    <2>1. FeedTypeOK
      BY <1>2, <1>3, <1>4, NoneTyped DEF FeedTypeOK
    <2>2. emitted \in Seq(Event) /\ silenced \subseteq 1..MaxSerial
          /\ dropped \subseteq 1..MaxSerial /\ drops \in 0..MaxDrops
      BY <1>3, <1>6
    <2>3. Len(log) <= serials /\ Len(disk) <= serials
      <3>1. Len(log) = 1 /\ Len(disk) = 1 /\ serials = 1
        BY <1>2, Zenon
      <3> QED
        BY <3>1
    <2> QED
      BY <1>5, <2>1, <2>2, <2>3 DEF TypeInv, SyncTypeOK

LEMMA TypeStep ==
    ASSUME TypeInv, [SyncNext]_syncVars
    PROVE  TypeInv'
  <1>0. /\ client \in Client /\ since \in Cursors \cup {-1} /\ emitted \in Seq(Event)
        /\ silenced \subseteq 1..MaxSerial /\ dropped \subseteq 1..MaxSerial
        /\ drops \in 0..MaxDrops /\ crashes \in 0..MaxCrashes
        /\ MaxDrops \in Nat /\ MaxCrashes \in Nat /\ writing \in BOOLEAN
    BY FeedAssumption, ClientAssumption DEF TypeInv, SyncTypeOK, FeedTypeOK
  <1>1. CASE FeedNext /\ UNCHANGED clientVars
    <2>1. CASE \E k \in Kinds : appendWorkspaceEvent(k)
      BY <1>1, <2>1, Publishes
    <2>2. CASE SaveAndUnlock
      BY <1>1, <2>2 DEF SaveAndUnlock, TypeInv, SyncTypeOK, FeedTypeOK, feedVars, clientVars
    <2>3. CASE webSocketCatchUpPage
      BY <1>1, <2>3, TypePage
    <2>4. CASE SendCatchUp \/ SendLive
      BY <1>1, <2>4, TypeSends
    <2>5. CASE CloseOnOverflow
      BY <1>0, <1>1, <2>5, TypeCloses DEF CloseOnOverflow, storeVars, clientVars
    <2> QED
      BY <1>1, <2>1, <2>2, <2>3, <2>4, <2>5 DEF FeedNext
  <1>2. CASE openWebSocket
    <2>1. client' \in Client
      BY <1>0, <1>2 DEF openWebSocket, Client
    <2>2. /\ sub' \in [on : BOOLEAN, events : Seq(Event), overflowed : BOOLEAN, signal : BOOLEAN]
          /\ Len(sub'.events) <= Buffered
          /\ handler' \in [pc : {"closed", "paging", "sending", "live"},
                    cursor : Cursors, catchUp : Seq(Event), ids : SUBSET (1..MaxSerial)]
      <3>1. /\ sub' = [NoSub EXCEPT !.on = TRUE]
            /\ \/ handler' = [NoConn EXCEPT !.pc = "sending"]
               \/ handler' = [NoConn EXCEPT !.pc = "paging", !.cursor = client.cursor]
        BY <1>2 DEF openWebSocket, Accept
      <3>2. client.cursor \in Cursors /\ 0 <= Buffered
        BY <1>0, FeedAssumption DEF Client
      <3> QED
        BY <3>1, <3>2, NoneTyped
    <2> QED
      BY <1>2, <2>1, <2>2 DEF openWebSocket, TypeInv, SyncTypeOK, FeedTypeOK, storeVars
  <1>3. CASE handleSocketMessage
    BY <1>3, TypeReceives
  <1>4. CASE SocketClosed
    <2>1. client' \in Client
      BY <1>0, <1>4 DEF SocketClosed, Client
    <2> QED
      BY <1>0, <1>4, <2>1, TypeClient DEF SocketClosed, storeVars, feedVars
  <1>5. CASE forceReconnect
    <2>1. client' \in Client /\ drops' \in 0..MaxDrops
      <3>1. client' \in Client
        BY <1>0, <1>5 DEF forceReconnect, Client
      <3>2. drops' = drops + 1 /\ drops < MaxDrops
        BY <1>5 DEF forceReconnect
      <3> QED
        BY <1>0, <3>1, <3>2
    <2> QED
      BY <1>0, <1>5, <2>1, TypeCloses DEF forceReconnect, Disconnect, storeVars
  <1>6. CASE startPolling
    <2>1. client' \in Client /\ drops' \in 0..MaxDrops
      <3>1. <<>> \in Seq(Event)
        OBVIOUS
      <3>2. client' \in Client
        BY <1>0, <1>6, <3>1 DEF startPolling, NewPoll, Client
      <3>3. drops' = drops + 1 /\ drops < MaxDrops
        BY <1>6 DEF startPolling
      <3> QED
        BY <1>0, <3>2, <3>3
    <2> QED
      BY <1>0, <1>6, <2>1, TypeClient DEF startPolling, storeVars, feedVars
  <1>7. CASE pollLoop
    BY <1>7, TypePolls
  <1>8. CASE pollLoopYields
    <2>1. client' \in Client
      BY <1>0, <1>8 DEF pollLoopYields, Client
    <2> QED
      BY <1>0, <1>8, <2>1, TypeClient DEF pollLoopYields, storeVars, feedVars
  <1>9. CASE Restart /\ UNCHANGED clientVars
    <2>1. crashes' \in 0..MaxCrashes
      BY <1>0, <1>9 DEF Restart
    <2> QED
      BY <1>0, <1>9, <2>1, TypeCloses DEF Restart, Disconnect, clientVars
  <1>10. CASE UNCHANGED syncVars
    BY <1>10 DEF syncVars, storeVars, feedVars, clientVars, TypeInv, SyncTypeOK, FeedTypeOK
  <1>11. CASE pollFails
    <2>1. client' \in Client
      <3>1. PICK state \in {"polling", "reconnecting"} :
               client' = NewPoll([client EXCEPT !.state = state])
        BY <1>11 DEF pollFails
      <3>2. <<>> \in Seq(Event)
        OBVIOUS
      <3> QED
        BY <1>0, <3>1, <3>2 DEF NewPoll, Client
    <2>2. dropped' \subseteq 1..MaxSerial
      <3>1. client.pending \in Seq(Event) /\ \A e \in Event : e.serial \in 1..MaxSerial
        BY <1>0 DEF Client, Event
      <3>2. Range(client.pending) \subseteq Event
        BY <3>1, RangeIn
      <3>3. dropped' = dropped \cup {e.serial : e \in Wanted(client.pending)}
        BY <1>11 DEF pollFails
      <3> QED
        BY <1>0, <3>1, <3>2, <3>3 DEF Wanted
    <2>3. drops' \in 0..MaxDrops
      <3>1. drops' = drops + 1 /\ drops < MaxDrops
        BY <1>11 DEF pollFails
      <3> QED
        BY <1>0, <3>1
    <2> QED
      BY <1>0, <1>11, <2>1, <2>2, <2>3, TypeClient DEF pollFails, storeVars, feedVars
  <1> QED
    BY <1>1, <1>2, <1>3, <1>4, <1>5, <1>6, <1>7, <1>8, <1>9, <1>10, <1>11
    DEF SyncNext, ClientNext

-----------------------------------------------------------------------------
(* Events in a queue, some of which are to be delivered *)

(* Of a sequence P of events, those at the positions C are to be delivered. *)
(* An event has its turn: everything delivered before it is older.          *)
Turn(e, P, C, k) ==
    /\ k <= Len(P) => k \in C /\ P[k] = e
    /\ \A i \in 1..(k - 1) : i \in C => P[i].id < e.id

(* It is among them, or newer than all of them.                             *)
Comes(e, P, C) == \E k \in 1..Len(P) : Turn(e, P, C, k)
Later(e, P, C) == \E k \in 1..(Len(P) + 1) : Turn(e, P, C, k)

(* The first of them is no newer than the event.                            *)
Begun(e, P, C) ==
    \E i \in C : P[i].id <= e.id /\ \A j \in 1..(i - 1) : j \notin C

(* Nothing is to be delivered.                                              *)
Nothing(C) == \A i \in C : FALSE

(* One that is not delivered is left out.                                   *)
LEMMA LeftOut ==
    ASSUME NEW P, NEW Q, NEW C, NEW D, NEW e, Len(P) \in Nat, NEW m \in 1..Len(P),
           Len(Q) = Len(P) - 1, C \subseteq 1..Len(P), D \subseteq 1..Len(Q), m \notin C,
           \A i \in 1..Len(Q) : i < m => Q[i] = P[i] /\ (i \in D <=> i \in C),
           \A i \in 1..Len(Q) : i >= m => Q[i] = P[i + 1] /\ (i \in D <=> i + 1 \in C)
    PROVE  /\ Later(e, P, C) => Later(e, Q, D)
           /\ Comes(e, P, C) => Comes(e, Q, D)
           /\ Begun(e, Q, D) => Begun(e, P, C)
  <1>1. ASSUME NEW k \in 1..(Len(P) + 1), Turn(e, P, C, k)
        PROVE  \E l \in 1..(Len(Q) + 1) :
                  Turn(e, Q, D, l) /\ (k <= Len(P) => l <= Len(Q))
    <2>1. CASE k < m
      <3>1. k \in 1..(Len(Q) + 1) /\ k <= Len(Q) /\ k <= Len(P)
        BY <2>1
      <3>2. Turn(e, Q, D, k)
        BY <1>1, <2>1, <3>1 DEF Turn
      <3> QED
        BY <3>1, <3>2
    <2>2. CASE k = m
      BY <1>1, <2>2 DEF Turn
    <2>3. CASE k > m
      <3>1. k - 1 \in 1..(Len(Q) + 1) /\ (k <= Len(P) => k - 1 <= Len(Q)) /\ k - 1 >= m
        BY <2>3
      <3>2. k - 1 <= Len(Q) => k - 1 \in D /\ Q[k - 1] = e
        BY <1>1, <2>3, <3>1 DEF Turn
      <3>3. ASSUME NEW i \in 1..((k - 1) - 1), i \in D PROVE Q[i].id < e.id
        <4>1. i \in 1..Len(Q) /\ i \in 1..(k - 1) /\ i + 1 \in 1..(k - 1)
          BY <3>1, <3>3
        <4> QED
          BY <1>1, <3>3, <4>1 DEF Turn
      <3> QED
        BY <3>1, <3>2, <3>3 DEF Turn
    <2> QED
      BY <2>1, <2>2, <2>3
  <1>2. Begun(e, Q, D) => Begun(e, P, C)
    <2> SUFFICES ASSUME NEW i \in D, Q[i].id <= e.id, \A j \in 1..(i - 1) : j \notin D
                 PROVE  Begun(e, P, C)
      BY DEF Begun
    <2>1. i \in 1..Len(Q)
      OBVIOUS
    <2>2. CASE i < m
      <3>1. i \in C /\ P[i].id <= e.id
        BY <2>1, <2>2
      <3>2. \A j \in 1..(i - 1) : j \notin C
        BY <2>1, <2>2
      <3> QED
        BY <3>1, <3>2 DEF Begun
    <2>3. CASE i >= m
      <3>1. i + 1 \in C /\ P[i + 1].id <= e.id
        BY <2>1, <2>3
      <3>2. ASSUME NEW j \in 1..((i + 1) - 1), j \in C PROVE FALSE
        <4>1. CASE j < m
          <5>1. j \in 1..Len(Q) /\ j \in 1..(i - 1)
            BY <2>1, <2>3, <4>1
          <5> QED
            BY <3>2, <4>1, <5>1
        <4>2. CASE j > m
          <5>1. j - 1 \in 1..Len(Q) /\ j - 1 \in 1..(i - 1) /\ j - 1 >= m /\ (j - 1) + 1 = j
            BY <2>1, <2>3, <4>2
          <5>2. j - 1 \in D
            BY <3>2, <5>1
          <5> QED
            BY <5>1, <5>2
        <4> QED
          BY <3>2, <4>1, <4>2
      <3> QED
        BY <3>1, <3>2 DEF Begun
    <2> QED
      BY <2>1, <2>2, <2>3
  <1>3. Later(e, P, C) => Later(e, Q, D)
    BY <1>1 DEF Later
  <1>4. Comes(e, P, C) => Comes(e, Q, D)
    <2> SUFFICES ASSUME NEW k \in 1..Len(P), Turn(e, P, C, k)
                 PROVE  Comes(e, Q, D)
      BY DEF Comes
    <2>1. PICK l \in 1..(Len(Q) + 1) : Turn(e, Q, D, l) /\ (k <= Len(P) => l <= Len(Q))
      BY <1>1
    <2> QED
      BY <2>1 DEF Comes
  <1> QED
    BY <1>2, <1>3, <1>4

(* The first is delivered.                                                  *)
LEMMA Taken ==
    ASSUME NEW P, NEW Q, NEW C, NEW D, NEW e, Len(P) \in Nat \ {0}, Len(Q) = Len(P) - 1,
           C \subseteq 1..Len(P), D \subseteq 1..Len(Q), 1 \in C, e # P[1],
           \A i \in 1..Len(Q) : Q[i] = P[i + 1] /\ (i \in D <=> i + 1 \in C)
    PROVE  /\ Later(e, P, C) => Later(e, Q, D) /\ P[1].id < e.id
           /\ Comes(e, P, C) => Comes(e, Q, D)
  <1>1. ASSUME NEW k \in 1..(Len(P) + 1), Turn(e, P, C, k)
        PROVE  /\ P[1].id < e.id
               /\ \E l \in 1..(Len(Q) + 1) :
                     Turn(e, Q, D, l) /\ (k <= Len(P) => l <= Len(Q))
    <2>1. k # 1
      BY <1>1 DEF Turn
    <2>2. k - 1 \in 1..(Len(Q) + 1) /\ (k <= Len(P) => k - 1 <= Len(Q)) /\ 1 \in 1..(k - 1)
      BY <2>1
    <2>3. P[1].id < e.id
      BY <1>1, <2>2 DEF Turn
    <2>4. k - 1 <= Len(Q) => k - 1 \in D /\ Q[k - 1] = e
      BY <1>1, <2>2 DEF Turn
    <2>5. ASSUME NEW i \in 1..((k - 1) - 1), i \in D PROVE Q[i].id < e.id
      <3>1. i \in 1..Len(Q) /\ i + 1 \in 1..(k - 1)
        BY <2>2, <2>5
      <3> QED
        BY <1>1, <2>5, <3>1 DEF Turn
    <2> QED
      BY <2>2, <2>3, <2>4, <2>5 DEF Turn
  <1>2. Later(e, P, C) => Later(e, Q, D) /\ P[1].id < e.id
    BY <1>1 DEF Later
  <1>3. Comes(e, P, C) => Comes(e, Q, D)
    <2> SUFFICES ASSUME NEW k \in 1..Len(P), Turn(e, P, C, k)
                 PROVE  Comes(e, Q, D)
      BY DEF Comes
    <2>1. PICK l \in 1..(Len(Q) + 1) : Turn(e, Q, D, l) /\ (k <= Len(P) => l <= Len(Q))
      BY <1>1
    <2> QED
      BY <2>1 DEF Comes
  <1> QED
    BY <1>2, <1>3

(* The rest is lost.                                                        *)
LEMMA CutShort ==
    ASSUME NEW P, NEW Q, NEW C, NEW D, NEW e, Len(P) \in Nat, Len(Q) \in 0..Len(P),
           C \subseteq 1..Len(P), D \subseteq 1..Len(Q),
           \A i \in 1..Len(Q) : Q[i] = P[i] /\ (i \in D <=> i \in C)
    PROVE  /\ Later(e, P, C) => Later(e, Q, D)
           /\ Begun(e, Q, D) => Begun(e, P, C)
  <1>1. ASSUME NEW k \in 1..(Len(P) + 1), Turn(e, P, C, k)
        PROVE  Later(e, Q, D)
    <2>1. CASE k <= Len(Q)
      <3>1. k \in 1..(Len(Q) + 1) /\ Turn(e, Q, D, k)
        BY <1>1, <2>1 DEF Turn
      <3> QED
        BY <3>1 DEF Later
    <2>2. CASE k > Len(Q)
      <3>1. Len(Q) + 1 \in 1..(Len(Q) + 1) /\ Turn(e, Q, D, Len(Q) + 1)
        BY <1>1, <2>2 DEF Turn
      <3> QED
        BY <3>1 DEF Later
    <2> QED
      BY <2>1, <2>2
  <1>2. Begun(e, Q, D) => Begun(e, P, C)
    BY DEF Begun
  <1> QED
    BY <1>1, <1>2 DEF Later

(* An event comes after all the others.                                     *)
LEMMA Appended ==
    ASSUME NEW P, NEW Q, NEW C, NEW D, NEW x, Len(P) \in Nat, Len(Q) = Len(P) + 1,
           C \subseteq 1..Len(P), D \subseteq 1..Len(Q), Q[Len(Q)] = x,
           \A i \in 1..Len(P) : Q[i] = P[i] /\ (i \in D <=> i \in C)
    PROVE  /\ \A e : Comes(e, P, C) => Comes(e, Q, D)
           /\ \A e : Begun(e, Q, D) => Begun(e, P, C) \/ (Nothing(C) /\ Len(Q) \in D /\ x.id <= e.id)
           /\ Len(Q) \in D /\ (\A i \in 1..Len(P) : P[i].id < x.id) => Comes(x, Q, D)
  <1>1. ASSUME NEW e, Comes(e, P, C) PROVE Comes(e, Q, D)
    <2>1. PICK k \in 1..Len(P) : Turn(e, P, C, k)
      BY <1>1 DEF Comes
    <2>2. k \in 1..Len(Q) /\ Turn(e, Q, D, k)
      BY <2>1 DEF Turn
    <2> QED
      BY <2>2 DEF Comes
  <1>2. ASSUME NEW e, NEW i \in D, Q[i].id <= e.id, \A j \in 1..(i - 1) : j \notin D
        PROVE  Begun(e, P, C) \/ (Nothing(C) /\ Len(Q) \in D /\ x.id <= e.id)
    <2>1. CASE i <= Len(P)
      <3>1. i \in C /\ P[i].id <= e.id /\ \A j \in 1..(i - 1) : j \notin C
        BY <1>2, <2>1
      <3> QED
        BY <3>1 DEF Begun
    <2>2. CASE i = Len(Q)
      BY <1>2, <2>2 DEF Nothing
    <2> QED
      BY <1>2, <2>1, <2>2
  <1>3. ASSUME Len(Q) \in D, \A i \in 1..Len(P) : P[i].id < x.id PROVE Comes(x, Q, D)
    <2>1. Len(Q) \in 1..Len(Q) /\ Turn(x, Q, D, Len(Q))
      BY <1>3 DEF Turn
    <2> QED
      BY <2>1 DEF Comes
  <1> QED
    BY <1>1, <1>2, <1>3 DEF Begun

-----------------------------------------------------------------------------
(* The inductive invariant of the stream: the log, what is on its way to    *)
(* the client, and what the client is owed *)

(* An event at its place in the log.                                        *)
Logged(x) == x.id \in DOMAIN log /\ log[x.id] = x

(* The log is what it was and more, and its ids are its places.             *)
LogInv ==
    /\ Len(log) >= 1
    /\ \A i \in DOMAIN log : log[i].id = i
    /\ ~writing => disk = log

(* What has been sent, what is to be sent, and what is published for the    *)
(* handler, which has not looked at it while it pages.                      *)
Live == IF handler.pc = "paging" THEN <<>> ELSE sub.events
Direct == Len(wire) + Len(handler.catchUp)
Pipe == (wire \o handler.catchUp) \o Live
Coming ==
    {i \in 1..Len(Pipe) : /\ Pipe[i].kind = "wanted"
                          /\ i > Direct => Pipe[i].id \notin handler.ids}

(* What is on its way is in the log, and a subscription holds the newest    *)
(* events, one after another, until it overflows.                           *)
FeedInv ==
    /\ handler.pc = "closed" => handler = NoConn /\ sub = NoSub
    /\ handler.pc # "closed" => sub.on
    /\ client.state # "open" => handler.pc = "closed" /\ wire = <<>>
    /\ handler.pc = "live" => handler.catchUp = <<>>
    /\ handler.ids \subseteq DOMAIN log
    /\ \A i \in DOMAIN wire : wire[i].kind = "wanted" /\ Logged(wire[i])
    /\ \A i \in DOMAIN handler.catchUp : Logged(handler.catchUp[i])
    /\ \A i \in DOMAIN sub.events :
          Logged(sub.events[i]) /\ sub.events[i].id = sub.events[1].id + i - 1
    /\ ~sub.overflowed /\ sub.events # <<>> => sub.events[Len(sub.events)].id = Len(log)

(* While the handler pages, it has what follows the client's cursor.        *)
PagingInv == handler.pc = "paging" =>
    /\ wire = <<>> /\ handler.ids = {}
    /\ handler.cursor = 0 => client.cursor = 0 /\ handler.catchUp = <<>>
    /\ handler.cursor # 0 =>
         /\ client.cursor # 0 /\ handler.cursor <= Len(log)
         /\ handler.cursor = client.cursor + Len(handler.catchUp)
         /\ \A i \in DOMAIN handler.catchUp : handler.catchUp[i] = log[client.cursor + i]

(* The handlers have seen the event, or a first poll has passed it or a     *)
(* failed one let it go.                                                    *)
Settled(e) == e.serial \in Emitted \cup silenced \cup dropped

(* The client is owed the event, or will be once it has a first event.      *)
Due(e) ==
    /\ e.kind = "wanted" /\ ~Settled(e)
    /\ since >= 0 => since < e.id
    /\ since < 0 => Begun(e, Pipe, Coming)

(* What the client is owed is after its cursor; once the handler has caught *)
(* up it comes in its turn, unless the subscription has overflowed: then it *)
(* is newer than all that comes.                                            *)
DueInv ==
    \A e \in Range(log) : Due(e) =>
       /\ client.cursor < e.id
       /\ handler.pc # "paging" => Later(e, Pipe, Coming)
       /\ handler.pc \notin {"paging", "closed"} /\ ~sub.overflowed => Comes(e, Pipe, Coming)

(* The cursor is in the log, and stands once something is owed.             *)
CursorInv ==
    /\ client.cursor <= Len(log)
    /\ since = -1 <=> client.cursor = 0
    /\ Range(client.polledEventOrder) \subseteq DOMAIN log

(* A poll holds what is owed up to its cursor, until it has emitted it or   *)
(* failed; what a later poll skips as polled is settled.                    *)
PollInv ==
    /\ ~client.firstPollComplete => client.pending = <<>>
    /\ client.state = "polling" =>
         /\ client.polledLatest = client.polledCursor
         /\ client.cursor <= client.polledCursor /\ client.polledCursor <= Len(log)
         /\ client.polledCursor = client.cursor => client.pending = <<>>
         /\ \A e \in Range(log) :
              e.kind = "wanted" /\ client.cursor < e.id /\ e.id <= client.polledCursor =>
                \/ Settled(e)
                \/ since < 0 \/ e.id <= since
                \/ e \in Range(client.pending)
    /\ client.firstPollComplete =>
         \A e \in Range(log) :
           e.kind = "wanted" /\ e.id \in Range(client.polledEventOrder) =>
             \/ Settled(e)
             \/ since >= 0 /\ e.id <= since
             \/ client.state = "polling" /\ e \in Range(client.pending)

(* The inductive invariant.                                                 *)
FlowInv == TypeInv /\ LogInv /\ FeedInv /\ PagingInv /\ DueInv /\ CursorInv /\ PollInv

(* What the types say of the parts.                                         *)
LEMMA Types ==
    ASSUME TypeInv
    PROVE  /\ log \in Seq(Event) /\ Len(log) \in Nat /\ DOMAIN log = 1..Len(log)
           /\ \A e \in Event : e.id \in Nat \ {0}
           /\ wire \in Seq(Event) /\ Len(wire) \in Nat
           /\ handler \in [pc : {"closed", "paging", "sending", "live"},
                    cursor : Cursors, catchUp : Seq(Event), ids : SUBSET (1..MaxSerial)]
           /\ Len(handler.catchUp) \in Nat
           /\ sub \in [on : BOOLEAN, events : Seq(Event), overflowed : BOOLEAN, signal : BOOLEAN]
           /\ Len(sub.events) \in Nat /\ handler.catchUp \in Seq(Event)
           /\ sub.events \in Seq(Event)
           /\ client \in Client /\ client.cursor \in Nat /\ handler.cursor \in Nat
           /\ since \in Nat \cup {-1} /\ emitted \in Seq(Event)
  <1>1. \A e \in Event : e.id \in Nat \ {0}
    BY FeedAssumption DEF Event
  <1>2. Cursors \subseteq Nat
    BY FeedAssumption DEF Cursors
  <1>3. /\ log \in Seq(Event) /\ wire \in Seq(Event) /\ emitted \in Seq(Event)
        /\ handler \in [pc : {"closed", "paging", "sending", "live"},
                    cursor : Cursors, catchUp : Seq(Event), ids : SUBSET (1..MaxSerial)]
        /\ sub \in [on : BOOLEAN, events : Seq(Event), overflowed : BOOLEAN, signal : BOOLEAN]
        /\ client \in Client /\ since \in Cursors \cup {-1}
    BY DEF TypeInv, SyncTypeOK, FeedTypeOK
  <1>4. handler.cursor \in Cursors /\ handler.catchUp \in Seq(Event) /\ sub.events \in Seq(Event)
    BY <1>3
  <1>5. client.cursor \in Cursors
    BY <1>3 DEF Client
  <1>6. Len(log) \in Nat /\ DOMAIN log = 1..Len(log) /\ Len(wire) \in Nat
        /\ Len(handler.catchUp) \in Nat /\ Len(sub.events) \in Nat
    BY <1>3, <1>4
  <1> QED
    BY <1>1, <1>2, <1>3, <1>4, <1>5, <1>6

(* The log's part of the invariant.                                         *)
LEMMA LogStep ==
    ASSUME CleanStops, TypeInv, LogInv, [SyncNext]_syncVars
    PROVE  /\ LogInv'
           /\ \/ log' = log
              \/ \E k \in Kinds : appendWorkspaceEvent(k) /\ UNCHANGED clientVars
  <1>1. CASE FeedNext /\ UNCHANGED clientVars
    <2>1. ASSUME NEW k \in Kinds, appendWorkspaceEvent(k) PROVE LogInv'
      <3>1. PICK e : log' = Append(log, e) /\ e.id = Len(log) + 1 /\ writing' = TRUE
        BY <2>1 DEF appendWorkspaceEvent
      <3>2. /\ log' \in Seq(Event) /\ Len(log') = Len(log) + 1 /\ log'[Len(log) + 1] = e
            /\ \A i \in 1..Len(log) : log'[i] = log[i]
        <4>1. log' \in Seq(Event)
          BY <1>1, TypeStep, Types DEF SyncNext, TypeInv, SyncTypeOK, FeedTypeOK
        <4> QED
          BY <3>1, <4>1, Types
      <3> QED
        BY <3>1, <3>2, Types DEF LogInv
    <2>2. CASE ~ \E k \in Kinds : appendWorkspaceEvent(k)
      BY <1>1, <2>2 DEF FeedNext, SaveAndUnlock, webSocketCatchUpPage, SendCatchUp, SendLive,
         CloseOnOverflow, storeVars, LogInv
    <2> QED
      BY <1>1, <2>1, <2>2 DEF FeedNext, SaveAndUnlock, webSocketCatchUpPage, SendCatchUp,
         SendLive, CloseOnOverflow, storeVars
  <1>2. CASE ClientNext \/ UNCHANGED syncVars
    BY <1>2 DEF ClientNext, openWebSocket, handleSocketMessage, SocketClosed, forceReconnect,
       startPolling, pollLoop, pollFails, pollLoopYields, syncVars, storeVars, LogInv
  <1>3. CASE Restart
    BY <1>3 DEF Restart, LogInv
  <1> QED
    BY <1>1, <1>2, <1>3 DEF SyncNext

(* Logged events stay.                                                      *)
LEMMA LoggedStays ==
    ASSUME CleanStops, TypeInv, LogInv, [SyncNext]_syncVars
    PROVE  /\ \A x : Logged(x) => Logged(x)'
           /\ Len(log) <= Len(log') /\ Len(log') \in Nat /\ DOMAIN log' = 1..Len(log')
           /\ DOMAIN log \subseteq DOMAIN log' /\ \A i \in DOMAIN log : log'[i] = log[i]
  <1>1. log' \in Seq(Event)
    BY TypeStep DEF TypeInv, SyncTypeOK, FeedTypeOK
  <1>2. CASE log' = log
    BY <1>2, Types DEF Logged
  <1>3. CASE \E k \in Kinds : appendWorkspaceEvent(k)
    <2>1. PICK e : log' = Append(log, e)
      BY <1>3 DEF appendWorkspaceEvent
    <2>2. Len(log') = Len(log) + 1 /\ \A i \in 1..Len(log) : log'[i] = log[i]
      BY <1>1, <2>1, Types
    <2> QED
      BY <1>1, <2>2, Types DEF Logged
  <1> QED
    BY <1>2, <1>3, LogStep

(* An event is found at its id.                                             *)
LEMMA IndexIs ==
    ASSUME TypeInv, LogInv, NEW c \in 0..Len(log)
    PROVE  IndexOf(c) = c
  <1>1. DOMAIN log = 1..Len(log) /\ Len(log) \in Nat
    BY Types
  <1>2. CASE c = 0
    BY <1>1, <1>2 DEF IndexOf, LogInv
  <1>3. CASE c # 0
    <2>1. c \in DOMAIN log /\ log[c].id = c
      BY <1>1, <1>3 DEF LogInv
    <2>2. \E i \in DOMAIN log : log[i].id = c
      BY <2>1
    <2>3. \A i \in DOMAIN log : log[i].id = c => i = c
      BY DEF LogInv
    <2>4. IndexOf(c) = CHOOSE i \in DOMAIN log : log[i].id = c
      BY <2>2 DEF IndexOf
    <2> QED
      BY <2>2, <2>3, <2>4
  <1> QED
    BY <1>2, <1>3

(* What is logged is at its id.                                             *)
LEMMA EventsLogged ==
    ASSUME TypeInv, LogInv
    PROVE  /\ \A i \in DOMAIN log : Logged(log[i]) /\ log[i] \in Event
           /\ \A x \in Range(log) : Logged(x) /\ x \in Event /\ x.id \in 1..Len(log)
           /\ \A x : Logged(x) => x \in Range(log)
  BY Types DEF LogInv, Logged, Range

(* The page the handler reads.                                              *)
LEMMA CursorPage ==
    ASSUME TypeInv, LogInv, NEW c \in 1..Len(log)
    PROVE  LET page == GetEventsAfterCursor(c, PageSize)
           IN  /\ page \in Seq(Event) /\ Len(page) \in Nat
               /\ Len(page) = IF c + PageSize < Len(log) THEN PageSize ELSE Len(log) - c
               /\ \A i \in 1..Len(page) : page[i] = log[c + i] /\ c + i \in 1..Len(log)
  <1>1. log \in Seq(Event) /\ Len(log) \in Nat /\ PageSize \in Nat \ {0}
    BY Types, FeedAssumption
  <1>2. IndexOf(c) = c
    BY IndexIs
  <1> DEFINE n == IF c + PageSize < Len(log) THEN c + PageSize ELSE Len(log)
  <1>3. GetEventsAfterCursor(c, PageSize) = SubSeq(log, c + 1, n)
    BY <1>1, <1>2 DEF GetEventsAfterCursor
  <1>4. n \in 0..Len(log) /\ n >= c
    BY <1>1
  <1>5. n - c = IF c + PageSize < Len(log) THEN PageSize ELSE Len(log) - c
    BY <1>1
  <1> HIDE DEF n
  <1>6. /\ SubSeq(log, c + 1, n) \in Seq(Event)
        /\ Len(SubSeq(log, c + 1, n)) = IF c + 1 <= n THEN n - (c + 1) + 1 ELSE 0
        /\ \A i \in 1..Len(SubSeq(log, c + 1, n)) : SubSeq(log, c + 1, n)[i] = log[(c + 1) + i - 1]
    <2>1. c + 1 \in Nat \ {0}
      OBVIOUS
    <2> QED
      BY <1>1, <1>4, <2>1, Part
  <1>7. Len(SubSeq(log, c + 1, n)) = n - c
    BY <1>1, <1>4, <1>6
  <1>8. ASSUME NEW i \in 1..(n - c)
        PROVE  (c + 1) + i - 1 = c + i /\ c + i \in 1..Len(log)
    BY <1>1, <1>4
  <1> QED
    BY <1>1, <1>3, <1>4, <1>5, <1>6, <1>7, <1>8

(* The newest events, which a legacy connection is sent first.              *)
LEMMA RecentPage ==
    ASSUME TypeInv, LogInv
    PROVE  LET page == GetRecentEvents(Recent)
           IN  /\ page \in Seq(Event) /\ Len(page) \in 1..Len(log)
               /\ \A i \in 1..Len(page) : page[i] = log[Len(log) - Len(page) + i]
  <1>1. log \in Seq(Event) /\ Len(log) \in Nat \ {0} /\ Recent \in Nat \ {0}
    BY Types, FeedAssumption DEF LogInv
  <1> DEFINE m == IF Len(log) > Recent THEN Len(log) - Recent + 1 ELSE 1
  <1>2. m \in 1..Len(log) /\ m \in Nat \ {0} /\ Len(log) \in 0..Len(log)
    BY <1>1
  <1>3. GetRecentEvents(Recent) = SubSeq(log, m, Len(log))
    BY DEF GetRecentEvents
  <1> HIDE DEF m
  <1>4. /\ SubSeq(log, m, Len(log)) \in Seq(Event)
        /\ Len(SubSeq(log, m, Len(log))) = Len(log) - m + 1
        /\ \A i \in 1..Len(SubSeq(log, m, Len(log))) : SubSeq(log, m, Len(log))[i] = log[m + i - 1]
    BY <1>1, <1>2, Part
  <1>5. \A i \in 1..(Len(log) - m + 1) : m + i - 1 = Len(log) - (Len(log) - m + 1) + i
    BY <1>1, <1>2
  <1> QED
    BY <1>1, <1>2, <1>3, <1>4, <1>5

-----------------------------------------------------------------------------
(* The connection, step by step *)

(* A publication comes after all that is on its way.                        *)
LEMMA FeedAppends ==
    ASSUME CleanStops, FlowInv, NEW k \in Kinds, appendWorkspaceEvent(k), UNCHANGED clientVars,
           [SyncNext]_syncVars
    PROVE  FeedInv' /\ PagingInv'
  <1> DEFINE Holds(x) == x.id \in DOMAIN log' /\ log'[x.id] = x
  <1>0. TypeInv /\ LogInv /\ FeedInv /\ PagingInv
    BY DEF FlowInv
  <1>1. PICK e : /\ log' = Append(log, e) /\ sub' = publishEvent(e)
                 /\ UNCHANGED <<handler, wire, client>> /\ e.id = Len(log) + 1
    BY DEF appendWorkspaceEvent, clientVars
  <1>2. /\ Len(log') = Len(log) + 1 /\ \A x : Logged(x) => Holds(x)
        /\ DOMAIN log \subseteq DOMAIN log' /\ \A i \in DOMAIN log : log'[i] = log[i]
        /\ DOMAIN log' = 1..(Len(log) + 1) /\ log'[Len(log) + 1] = e
    <2>1. log \in Seq(Event) /\ Len(log) \in Nat
      BY Types DEF FlowInv
    <2>2. log' \in Seq(Event)
      BY TypeStep, Types DEF FlowInv, TypeInv, SyncTypeOK, FeedTypeOK
    <2> QED
      BY <1>0, <1>1, <2>1, <2>2, LoggedStays DEF Logged
  <1>3. Holds(e)
    BY <1>0, <1>1, <1>2, Types
  <1>4. /\ sub.events \in Seq(Event) /\ Len(sub.events) \in Nat /\ Len(log) \in Nat
        /\ sub \in [on : BOOLEAN, events : Seq(Event), overflowed : BOOLEAN, signal : BOOLEAN]
    BY Types DEF FlowInv
  <1> HIDE DEF Holds
  <1>5. /\ \A i \in DOMAIN sub'.events :
             Holds(sub'.events[i]) /\ sub'.events[i].id = sub'.events[1].id + i - 1
        /\ ~sub'.overflowed /\ sub'.events # <<>> => sub'.events[Len(sub'.events)].id = Len(log')
        /\ handler.pc = "closed" => sub' = NoSub
        /\ sub.on => sub'.on
    <2>1. CASE ~sub.on \/ sub.overflowed
      <3>1. sub' = sub
        BY <1>1, <2>1 DEF publishEvent
      <3>2. ~sub.on => sub.events = <<>>
        BY DEF FlowInv, FeedInv, NoSub
      <3> QED
        BY <1>0, <1>2, <1>4, <2>1, <3>1, <3>2 DEF FeedInv, NoSub
    <2>2. CASE ~(~sub.on \/ sub.overflowed) /\ Len(sub.events) < Buffered
      <3>1. sub' = [sub EXCEPT !.events = Append(@, e)]
        BY <1>1, <2>2 DEF publishEvent
      <3>2. /\ sub'.events = Append(sub.events, e) /\ sub'.overflowed = sub.overflowed
            /\ sub'.on = sub.on
        BY <1>4, <3>1
      <3>3. /\ Len(sub'.events) = Len(sub.events) + 1 /\ DOMAIN sub'.events = 1..(Len(sub.events) + 1)
            /\ sub'.events[Len(sub.events) + 1] = e
            /\ \A i \in 1..Len(sub.events) : sub'.events[i] = sub.events[i] /\ i \in DOMAIN sub.events
        <4>1. e \in Event
          <5>1. log' \in Seq(Event)
            BY TypeStep DEF FlowInv, TypeInv, SyncTypeOK, FeedTypeOK
          <5> QED
            BY <1>2, <1>4, <5>1
        <4> QED
          BY <1>4, <3>2, <4>1
      <3>4. handler.pc # "closed"
        BY <2>2 DEF FlowInv, FeedInv, NoSub
      <3>5. ASSUME NEW i \in 1..(Len(sub.events) + 1)
            PROVE  Holds(sub'.events[i]) /\ sub'.events[i].id = sub'.events[1].id + i - 1
        <4>1. CASE i <= Len(sub.events)
          <5>1. 1 \in 1..Len(sub.events) /\ i \in 1..Len(sub.events)
            BY <1>4, <4>1
          <5>2. Logged(sub.events[i]) /\ sub.events[i].id = sub.events[1].id + i - 1
            BY <3>3, <5>1 DEF FlowInv, FeedInv
          <5> QED
            BY <1>2, <3>3, <5>1, <5>2
        <4>2. CASE i = Len(sub.events) + 1 /\ sub.events # <<>>
          <5>1. Len(sub.events) \in DOMAIN sub.events /\ 1 \in 1..Len(sub.events)
            BY <1>4, <4>2
          <5>2. /\ sub.events[Len(sub.events)].id = Len(log)
                /\ sub.events[Len(sub.events)].id = sub.events[1].id + Len(sub.events) - 1
            BY <2>2, <4>2, <5>1 DEF FlowInv, FeedInv
          <5>3. sub.events[1].id \in Nat
            BY <1>4, <5>1, Types DEF FlowInv
          <5>4. sub'.events[i] = e /\ sub'.events[1] = sub.events[1]
            BY <3>3, <4>2, <5>1
          <5> QED
            BY <1>1, <1>3, <1>4, <4>2, <5>2, <5>3, <5>4
        <4>3. CASE i = Len(sub.events) + 1 /\ sub.events = <<>>
          <5>1. i = 1 /\ sub'.events[1] = e
            BY <3>3, <4>3
          <5> QED
            BY <1>1, <1>3, <1>4, <5>1
        <4> QED
          BY <4>1, <4>2, <4>3
      <3> QED
        BY <1>1, <1>2, <3>2, <3>3, <3>4, <3>5
    <2>3. CASE ~(~sub.on \/ sub.overflowed) /\ ~(Len(sub.events) < Buffered)
      <3>1. sub' = [sub EXCEPT !.overflowed = TRUE, !.signal = TRUE]
        BY <1>1, <2>3 DEF publishEvent
      <3>2. sub'.events = sub.events /\ sub'.overflowed /\ sub'.on = sub.on
        BY <1>4, <3>1
      <3>3. handler.pc # "closed"
        BY <2>3 DEF FlowInv, FeedInv, NoSub
      <3> QED
        BY <1>0, <1>2, <3>2, <3>3 DEF FeedInv
    <2> QED
      BY <2>1, <2>2, <2>3
  <1>6. FeedInv'
    BY <1>0, <1>1, <1>2, <1>5 DEF FeedInv, Holds, Logged
  <1>7. PagingInv'
    <2> SUFFICES ASSUME handler.pc = "paging", handler.cursor # 0
                 PROVE  \A i \in DOMAIN handler.catchUp : handler.catchUp[i] = log'[client.cursor + i]
      BY <1>1, <1>2, <1>4, Types DEF FlowInv, PagingInv
    <2> TAKE i \in DOMAIN handler.catchUp
    <2>1. /\ handler.catchUp[i] = log[client.cursor + i]
          /\ handler.cursor = client.cursor + Len(handler.catchUp) /\ handler.cursor <= Len(log)
      BY DEF FlowInv, PagingInv
    <2>2. /\ handler.cursor \in Nat /\ client.cursor \in Nat /\ i \in 1..Len(handler.catchUp)
          /\ Len(handler.catchUp) \in Nat /\ DOMAIN log = 1..Len(log)
      BY Types DEF FlowInv
    <2>3. client.cursor + i \in DOMAIN log
      BY <1>4, <2>1, <2>2
    <2> QED
      BY <1>2, <2>1, <2>3
  <1> QED
    BY <1>6, <1>7

(* webSocketCatchUpPage reads on where it stopped.                          *)
LEMMA FeedPages ==
    ASSUME FlowInv, webSocketCatchUpPage, UNCHANGED clientVars
    PROVE  FeedInv' /\ PagingInv'
  <1> DEFINE page == IF handler.cursor = NoCursor THEN GetRecentEvents(Recent)
                     ELSE GetEventsAfterCursor(handler.cursor, PageSize)
             last == handler.cursor = NoCursor \/ Len(page) < PageSize
             events == handler.catchUp \o page
  <1>0. TypeInv /\ LogInv /\ FeedInv /\ PagingInv
    BY DEF FlowInv
  <1>1. /\ handler.pc = "paging"
        /\ handler' = [handler EXCEPT
             !.catchUp = events,
             !.pc = IF last THEN "sending" ELSE "paging",
             !.cursor = IF last THEN @ ELSE page[Len(page)].id,
             !.ids = IF last THEN {x.id : x \in Range(events)} ELSE {}]
        /\ UNCHANGED <<log, sub, wire, client>>
    BY DEF webSocketCatchUpPage, storeVars, clientVars
  <1>2. /\ page \in Seq(Event) /\ Len(page) \in Nat /\ \A i \in 1..Len(page) : Logged(page[i])
        /\ handler.cursor # 0 => /\ page = GetEventsAfterCursor(handler.cursor, PageSize)
                                 /\ handler.cursor \in 1..Len(log)
    <2>1. CASE handler.cursor = 0
      <3>1. page = GetRecentEvents(Recent)
        BY <2>1 DEF NoCursor
      <3>2. /\ page \in Seq(Event) /\ Len(page) \in 1..Len(log)
            /\ \A i \in 1..Len(page) : page[i] = log[Len(log) - Len(page) + i]
        BY <1>0, <3>1, RecentPage
      <3>3. Len(page) \in Nat /\ \A i \in 1..Len(page) : Len(log) - Len(page) + i \in DOMAIN log
        BY <1>0, <3>2, Types
      <3> QED
        BY <1>0, <2>1, <3>1, <3>2, <3>3, EventsLogged
    <2>2. CASE handler.cursor # 0
      <3>1. page = GetEventsAfterCursor(handler.cursor, PageSize) /\ handler.cursor \in 1..Len(log)
        BY <1>0, <1>1, <2>2, Types DEF NoCursor, PagingInv
      <3>2. /\ page \in Seq(Event) /\ Len(page) \in Nat
            /\ \A i \in 1..Len(page) : page[i] = log[handler.cursor + i]
                                       /\ handler.cursor + i \in 1..Len(log)
        BY <1>0, <3>1, CursorPage
      <3> QED
        BY <1>0, <3>1, <3>2, EventsLogged, Types
    <2> QED
      BY <2>1, <2>2
  <1> HIDE DEF page
  <1>3. handler.catchUp \in Seq(Event) /\ Len(handler.catchUp) \in Nat
        /\ \A i \in 1..Len(handler.catchUp) : Logged(handler.catchUp[i])
    BY Types DEF FlowInv, FeedInv
  <1>4. /\ events \in Seq(Event) /\ Len(events) = Len(handler.catchUp) + Len(page)
        /\ \A i \in 1..Len(handler.catchUp) : events[i] = handler.catchUp[i]
        /\ \A i \in (Len(handler.catchUp) + 1)..Len(events) :
              events[i] = page[i - Len(handler.catchUp)]
    BY <1>2, <1>3
  <1>5. ASSUME NEW i \in DOMAIN events PROVE Logged(events[i])
    <2>1. i \in 1..(Len(handler.catchUp) + Len(page))
      BY <1>4
    <2>2. CASE i <= Len(handler.catchUp)
      <3>1. i \in 1..Len(handler.catchUp)
        BY <1>3, <2>1, <2>2
      <3> QED
        BY <1>3, <1>4, <3>1
    <2>3. CASE i > Len(handler.catchUp)
      <3>1. i - Len(handler.catchUp) \in 1..Len(page) /\ i \in (Len(handler.catchUp) + 1)..Len(events)
        BY <1>2, <1>3, <1>4, <2>1, <2>3
      <3> QED
        BY <1>2, <1>4, <3>1
    <2> QED
      BY <1>3, <2>1, <2>2, <2>3
  <1>6. {x.id : x \in Range(events)} \subseteq DOMAIN log
    BY <1>5 DEF Range, Logged
  <1>7. handler \in [pc : {"closed", "paging", "sending", "live"},
                    cursor : Cursors, catchUp : Seq(Event), ids : SUBSET (1..MaxSerial)]
    BY Types DEF FlowInv
  <1> HIDE DEF events
  <1>8. FeedInv'
    <2>1. /\ handler'.pc \in {"paging", "sending"} /\ handler'.catchUp = events
          /\ handler'.ids \subseteq DOMAIN log
      BY <1>1, <1>6, <1>7
    <2>2. client.state = "open"
      BY <1>1 DEF FlowInv, FeedInv
    <2>3. \A x : Logged(x)' <=> Logged(x)
      BY <1>1 DEF Logged
    <2> QED
      BY <1>1, <1>5, <2>1, <2>2, <2>3 DEF FlowInv, FeedInv
  <1>9. PagingInv'
    <2> SUFFICES ASSUME ~last PROVE PagingInv'
      BY <1>1, <1>7 DEF PagingInv
    <2>1. /\ handler'.catchUp = events /\ handler'.cursor = page[Len(page)].id /\ handler'.ids = {}
          /\ handler'.pc = "paging"
      BY <1>1, <1>7
    <2>2. /\ handler.cursor # 0 /\ wire = <<>> /\ client.cursor # 0
          /\ handler.cursor = client.cursor + Len(handler.catchUp)
          /\ \A i \in DOMAIN handler.catchUp : handler.catchUp[i] = log[client.cursor + i]
          /\ PageSize \in Nat \ {0} /\ Len(log) \in Nat /\ client.cursor \in Nat
      BY <1>1, Types, FeedAssumption DEF FlowInv, PagingInv, NoCursor
    <2>3. /\ Len(page) = PageSize /\ handler.cursor \in 1..Len(log)
          /\ \A i \in 1..Len(page) : page[i] = log[handler.cursor + i]
                                     /\ handler.cursor + i \in 1..Len(log)
      <3>1. /\ Len(page) = IF handler.cursor + PageSize < Len(log) THEN PageSize
                           ELSE Len(log) - handler.cursor
            /\ \A i \in 1..Len(page) : page[i] = log[handler.cursor + i]
                                       /\ handler.cursor + i \in 1..Len(log)
        <4>1. /\ handler.cursor \in 1..Len(log)
              /\ page = GetEventsAfterCursor(handler.cursor, PageSize)
          BY <1>2, <2>2
        <4>2. /\ Len(GetEventsAfterCursor(handler.cursor, PageSize)) =
                   IF handler.cursor + PageSize < Len(log) THEN PageSize
                   ELSE Len(log) - handler.cursor
              /\ \A i \in 1..Len(GetEventsAfterCursor(handler.cursor, PageSize)) :
                   /\ GetEventsAfterCursor(handler.cursor, PageSize)[i] = log[handler.cursor + i]
                   /\ handler.cursor + i \in 1..Len(log)
          BY <1>0, <4>1, CursorPage
        <4> QED
          BY <4>1, <4>2, Zenon
      <3>2. ~(Len(page) < PageSize)
        BY DEF NoCursor
      <3> QED
        BY <1>2, <2>2, <3>1, <3>2
    <2>4. page[Len(page)].id = handler.cursor + Len(page) /\ handler.cursor + Len(page) <= Len(log)
      <3>1. Len(page) \in 1..Len(page)
        BY <2>2, <2>3
      <3>2. page[Len(page)] = log[handler.cursor + Len(page)]
            /\ handler.cursor + Len(page) \in DOMAIN log
        BY <2>3, <3>1, Types DEF FlowInv
      <3> QED
        BY <2>2, <3>2 DEF FlowInv, LogInv
    <2>5. ASSUME NEW i \in DOMAIN events PROVE events[i] = log[client.cursor + i]
      <3>1. i \in 1..(Len(handler.catchUp) + Len(page))
        BY <1>4
      <3>2. CASE i <= Len(handler.catchUp)
        <4>1. i \in 1..Len(handler.catchUp) /\ i \in DOMAIN handler.catchUp
          BY <1>3, <3>1, <3>2
        <4> QED
          BY <1>4, <2>2, <4>1
      <3>3. CASE i > Len(handler.catchUp)
        <4>1. i - Len(handler.catchUp) \in 1..Len(page) /\ i \in (Len(handler.catchUp) + 1)..Len(events)
          BY <1>2, <1>3, <1>4, <3>1, <3>3
        <4>2. handler.cursor + (i - Len(handler.catchUp)) = client.cursor + i
          BY <1>3, <2>2, <3>1
        <4> QED
          BY <1>4, <2>3, <4>1, <4>2
      <3> QED
        BY <1>3, <3>1, <3>2, <3>3
    <2>6. handler'.cursor = client.cursor + Len(events) /\ handler'.cursor <= Len(log)
      <3>1. handler'.cursor = (client.cursor + Len(handler.catchUp)) + Len(page)
        BY <2>1, <2>2, <2>4
      <3>2. handler'.cursor = handler.cursor + Len(page)
        BY <2>1, <2>4
      <3> QED
        <4>1. handler'.cursor <= Len(log)
          BY <2>4, <3>2
        <4>2. (client.cursor + Len(handler.catchUp)) + Len(page)
                = client.cursor + (Len(handler.catchUp) + Len(page))
          <5>1. client.cursor \in Nat /\ Len(handler.catchUp) \in Nat /\ Len(page) \in Nat
            BY <1>2, <1>3, <2>2
          <5> HIDE DEF last
          <5> QED
            BY <5>1
        <4>3. Len(events) = Len(handler.catchUp) + Len(page)
          BY <1>4
        <4> QED
          BY <3>1, <4>1, <4>2, <4>3, Zenon
    <2>7. handler'.cursor # 0
      BY <1>3, <1>4, <2>2, <2>6, <1>2
    <2> QED
      BY <1>1, <2>1, <2>2, <2>5, <2>6, <2>7 DEF PagingInv
  <1> QED
    BY <1>8, <1>9

(* The rest of a sequence.                                                  *)
LEMMA Shifted ==
    ASSUME NEW X, NEW s \in Seq(X), s # <<>>
    PROVE  /\ Tail(s) \in Seq(X) /\ Len(s) \in Nat \ {0} /\ Len(Tail(s)) = Len(s) - 1
           /\ Head(s) = s[1] /\ 1 \in DOMAIN s
           /\ \A i \in DOMAIN Tail(s) : Tail(s)[i] = s[i + 1] /\ i + 1 \in DOMAIN s
           /\ Tail(s) # <<>> => Tail(s)[Len(Tail(s))] = s[Len(s)] /\ Tail(s)[1] = s[2]
                                /\ 2 \in DOMAIN s
  <1>1. Tail(s) \in Seq(X) /\ Len(s) \in Nat \ {0} /\ Len(Tail(s)) = Len(s) - 1 /\ Head(s) = s[1]
    OBVIOUS
  <1>2. \A i \in 1..(Len(s) - 1) : Tail(s)[i] = s[i + 1]
    OBVIOUS
  <1>3. \A i \in 1..(Len(s) - 1) : i + 1 \in 1..Len(s)
    BY <1>1
  <1>4. DOMAIN Tail(s) = 1..(Len(s) - 1) /\ DOMAIN s = 1..Len(s)
    BY <1>1
  <1>5. Tail(s) # <<>> => Len(s) - 1 \in 1..(Len(s) - 1) /\ 1 \in 1..(Len(s) - 1)
    BY <1>1
  <1> QED
    BY <1>1, <1>2, <1>3, <1>4, <1>5

(* A wanted event is put on the wire, another is left out.                  *)
LEMMA Sent ==
    ASSUME TypeInv, NEW x \in Event, writeWebSocketEvent(x)
    PROVE  \/ x.kind # "wanted" /\ wire' = wire
           \/ /\ x.kind = "wanted" /\ wire' = Append(wire, x) /\ wire' \in Seq(Event)
              /\ Len(wire') = Len(wire) + 1 /\ DOMAIN wire' = 1..(Len(wire) + 1)
              /\ wire'[Len(wire) + 1] = x
              /\ \A i \in 1..Len(wire) : wire'[i] = wire[i] /\ i \in DOMAIN wire
  <1>1. wire \in Seq(Event) /\ Len(wire) \in Nat
    BY Types
  <1>2. Append(wire, x) \in Seq(Event) /\ Len(Append(wire, x)) = Len(wire) + 1
        /\ Append(wire, x)[Len(wire) + 1] = x
        /\ \A i \in 1..Len(wire) : Append(wire, x)[i] = wire[i]
    BY <1>1
  <1> QED
    BY <1>1, <1>2 DEF writeWebSocketEvent

(* The wire holds wanted events of the log.                                 *)
LEMMA WireHolds ==
    ASSUME TypeInv, FeedInv, NEW x \in Event, Logged(x), writeWebSocketEvent(x)
    PROVE  \A i \in DOMAIN wire' : wire'[i].kind = "wanted" /\ Logged(wire'[i])
  <1>1. wire \in Seq(Event) /\ Len(wire) \in Nat
    BY Types
  <1>2. \A i \in DOMAIN wire : wire[i].kind = "wanted" /\ Logged(wire[i])
    BY DEF FeedInv
  <1>3. CASE wire' = wire
    BY <1>2, <1>3
  <1>4. CASE /\ x.kind = "wanted" /\ DOMAIN wire' = 1..(Len(wire) + 1)
             /\ wire'[Len(wire) + 1] = x
             /\ \A i \in 1..Len(wire) : wire'[i] = wire[i] /\ i \in DOMAIN wire
    <2> TAKE i \in DOMAIN wire'
    <2>1. i = Len(wire) + 1 \/ i \in 1..Len(wire)
      BY <1>1, <1>4
    <2> QED
      BY <1>2, <1>4, <2>1
  <1> QED
    BY <1>3, <1>4, Sent

(* SendCatchUp and SendLive.                                                *)
LEMMA FeedSends ==
    ASSUME FlowInv, SendCatchUp \/ SendLive, UNCHANGED clientVars
    PROVE  FeedInv' /\ PagingInv'
  <1>0. TypeInv /\ LogInv /\ FeedInv /\ PagingInv
    BY DEF FlowInv
  <1>1. /\ wire \in Seq(Event) /\ Len(wire) \in Nat
        /\ handler \in [pc : {"closed", "paging", "sending", "live"},
                    cursor : Cursors, catchUp : Seq(Event), ids : SUBSET (1..MaxSerial)]
        /\ handler.catchUp \in Seq(Event)
        /\ sub \in [on : BOOLEAN, events : Seq(Event), overflowed : BOOLEAN, signal : BOOLEAN]
        /\ sub.events \in Seq(Event) /\ Len(sub.events) \in Nat
        /\ \A e \in Event : e.id \in Nat
    BY <1>0, Types
  <1>2. UNCHANGED <<log, client>>
    BY DEF SendCatchUp, SendLive, storeVars, clientVars
  <1>3. handler.pc \in {"sending", "live"} /\ handler'.pc \in {"sending", "live"}
    BY <1>1 DEF SendCatchUp, SendLive
  <1>4. client.state = "open" /\ sub.on
    BY <1>0, <1>3 DEF FeedInv
  <1>5. CASE SendCatchUp /\ handler.catchUp = <<>>
    <2>1. handler' = [handler EXCEPT !.pc = "live"] /\ UNCHANGED <<wire, sub>>
      BY <1>5 DEF SendCatchUp
    <2>2. handler'.catchUp = <<>> /\ handler'.ids = handler.ids
      BY <1>1, <1>5, <2>1
    <2> QED
      BY <1>0, <1>2, <1>3, <1>4, <2>1, <2>2 DEF FeedInv, PagingInv, Logged
  <1>6. CASE SendCatchUp /\ handler.catchUp # <<>>
    <2>1. /\ writeWebSocketEvent(Head(handler.catchUp)) /\ UNCHANGED sub
          /\ handler' = [handler EXCEPT !.catchUp = Tail(@)] /\ handler.pc = "sending"
      BY <1>6 DEF SendCatchUp
    <2>2. handler'.catchUp = Tail(handler.catchUp) /\ handler'.ids = handler.ids
          /\ handler'.pc = "sending"
      BY <1>1, <2>1
    <2>3. Head(handler.catchUp) \in Event /\ Logged(Head(handler.catchUp))
          /\ \A i \in DOMAIN Tail(handler.catchUp) : Logged(Tail(handler.catchUp)[i])
      BY <1>0, <1>1, <1>6, Shifted DEF FeedInv
    <2>4. \A i \in DOMAIN wire' : wire'[i].kind = "wanted" /\ Logged(wire'[i])
      BY <1>0, <2>1, <2>3, WireHolds
    <2> QED
      BY <1>0, <1>2, <1>3, <1>4, <2>1, <2>2, <2>3, <2>4 DEF FeedInv, PagingInv, Logged
  <1>7. CASE SendLive
    <2>1. /\ sub.events # <<>> /\ sub' = [sub EXCEPT !.events = Tail(@)] /\ handler.pc = "live"
          /\ \/ UNCHANGED wire /\ handler' = [handler EXCEPT !.ids = @ \ {Head(sub.events).id}]
             \/ writeWebSocketEvent(Head(sub.events)) /\ UNCHANGED handler
      BY <1>7 DEF SendLive
    <2>2. /\ sub'.events = Tail(sub.events) /\ sub'.overflowed = sub.overflowed /\ sub'.on = sub.on
          /\ handler'.ids \subseteq handler.ids /\ handler'.catchUp = handler.catchUp
          /\ handler'.pc = "live"
      BY <1>1, <2>1
    <2>3. Head(sub.events) = sub.events[1] /\ sub.events[1] \in Event /\ Logged(sub.events[1])
      BY <1>0, <1>1, <2>1, Shifted DEF FeedInv
    <2>4. \A i \in DOMAIN wire' : wire'[i].kind = "wanted" /\ Logged(wire'[i])
      <3>1. CASE wire' = wire
        BY <1>0, <3>1 DEF FeedInv
      <3>2. CASE writeWebSocketEvent(Head(sub.events))
        BY <1>0, <2>3, <3>2, WireHolds
      <3> QED
        BY <2>1, <3>1, <3>2
    <2>5. ASSUME NEW i \in DOMAIN Tail(sub.events)
          PROVE  /\ Logged(Tail(sub.events)[i])
                 /\ Tail(sub.events)[i].id = Tail(sub.events)[1].id + i - 1
      <3>1. /\ Tail(sub.events)[i] = sub.events[i + 1] /\ i + 1 \in DOMAIN sub.events
            /\ Tail(sub.events)[1] = sub.events[2] /\ 2 \in DOMAIN sub.events /\ 1 \in DOMAIN sub.events
            /\ i \in Nat
        <4>1. Tail(sub.events) # <<>>
          OBVIOUS
        <4>2. Tail(sub.events) \in Seq(Event)
          BY <1>1, <2>1, Shifted
        <4> QED
          BY <1>1, <2>1, <4>1, <4>2, Shifted
      <3>2. /\ sub.events[i + 1].id = sub.events[1].id + (i + 1) - 1
            /\ sub.events[2].id = sub.events[1].id + 2 - 1 /\ Logged(sub.events[i + 1])
        BY <1>0, <3>1 DEF FeedInv
      <3>3. sub.events[1].id \in Nat
        BY <1>1, <2>3
      <3> DEFINE n == sub.events[1].id
                 m == Tail(sub.events)[i].id
                 l == Tail(sub.events)[1].id
      <3>4. n \in Nat /\ i \in Nat /\ m = n + (i + 1) - 1 /\ l = n + 2 - 1
        BY <3>1, <3>2, <3>3
      <3> HIDE DEF n, m, l
      <3>5. m = l + i - 1
        BY <3>4
      <3>6. Logged(Tail(sub.events)[i])
        BY <3>1, <3>2
      <3> QED
        BY <3>5, <3>6 DEF m, l
    <2>6. ~sub.overflowed /\ Tail(sub.events) # <<>> =>
             Tail(sub.events)[Len(Tail(sub.events))].id = Len(log)
      BY <1>0, <1>1, <2>1, Shifted DEF FeedInv
    <2>7. handler.catchUp = <<>>
      BY <1>0, <2>1 DEF FeedInv
    <2>8. \A x : Logged(x)' <=> Logged(x)
      BY <1>2 DEF Logged
    <2> QED
      BY <1>0, <1>2, <1>3, <1>4, <2>1, <2>2, <2>4, <2>5, <2>6, <2>7, <2>8 DEF FeedInv, PagingInv
  <1> QED
    BY <1>5, <1>6, <1>7

(* The end of a connection.                                                 *)
LEMMA FeedCloses ==
    ASSUME FlowInv, handler' = NoConn, sub' = NoSub, log' = log,
           wire' = <<>> \/ (wire' = wire /\ client'.state = "open")
    PROVE  FeedInv' /\ PagingInv'
  <1>1. wire = <<>> => DOMAIN wire = {}
    OBVIOUS
  <1> QED
    BY <1>1 DEF FlowInv, FeedInv, PagingInv, NoConn, NoSub, Logged

(* handleSocketMessage.                                                     *)
LEMMA FeedReceives ==
    ASSUME FlowInv, handleSocketMessage
    PROVE  FeedInv' /\ PagingInv'
  <1>0. TypeInv /\ LogInv /\ FeedInv /\ PagingInv
    BY DEF FlowInv
  <1>1. /\ wire # <<>> /\ wire' = Tail(wire) /\ client.state = "open"
        /\ client' = [client EXCEPT !.cursor = Head(wire).id]
        /\ UNCHANGED <<log, sub, handler>>
    BY DEF handleSocketMessage, storeVars
  <1>2. wire \in Seq(Event) /\ client \in Client
    BY <1>0, Types
  <1>3. client'.state = "open"
    BY <1>1, <1>2 DEF Client
  <1>4. handler.pc # "paging"
    BY <1>0, <1>1 DEF PagingInv
  <1>5. \A i \in DOMAIN wire' : wire'[i].kind = "wanted" /\ Logged(wire'[i])
    BY <1>0, <1>1, <1>2, Shifted DEF FeedInv
  <1> QED
    BY <1>0, <1>1, <1>3, <1>4, <1>5 DEF FeedInv, PagingInv, Logged

(* openWebSocket.                                                           *)
LEMMA FeedOpens ==
    ASSUME FlowInv, openWebSocket
    PROVE  FeedInv' /\ PagingInv'
  <1>0. TypeInv /\ LogInv /\ FeedInv /\ PagingInv /\ CursorInv
    BY DEF FlowInv
  <1>1. /\ sub' = [NoSub EXCEPT !.on = TRUE] /\ wire = <<>>
        /\ \/ handler' = [NoConn EXCEPT !.pc = "sending"]
           \/ handler' = [NoConn EXCEPT !.pc = "paging", !.cursor = client.cursor]
        /\ client' = [client EXCEPT !.state = "open"]
        /\ UNCHANGED <<log, wire>>
    BY DEF openWebSocket, Accept, storeVars
  <1>2. client \in Client /\ client.cursor \in Nat /\ client.cursor <= Len(log)
    BY <1>0, Types DEF CursorInv
  <1>3. client'.state = "open" /\ client'.cursor = client.cursor
    BY <1>1, <1>2 DEF Client
  <1>4. /\ sub'.on /\ sub'.events = <<>>
        /\ handler'.pc \in {"sending", "paging"} /\ handler'.catchUp = <<>> /\ handler'.ids = {}
        /\ handler'.pc = "paging" => handler'.cursor = client.cursor
    BY <1>1 DEF NoSub, NoConn
  <1> QED
    BY <1>0, <1>1, <1>2, <1>3, <1>4 DEF FeedInv, PagingInv

(* Steps that leave the connection alone.                                   *)
LEMMA FeedSame ==
    ASSUME FlowInv, UNCHANGED <<log, feedVars>>, handler.pc = "closed",
           client.state # "open" \/ wire = <<>>
    PROVE  FeedInv' /\ PagingInv'
  BY DEF FlowInv, FeedInv, PagingInv, feedVars, Logged, NoConn, NoSub

(* Every step preserves the connection's part.                              *)
LEMMA FeedStep ==
    ASSUME CleanStops, FlowInv, [SyncNext]_syncVars
    PROVE  FeedInv' /\ PagingInv'
  <1>0. TypeInv /\ LogInv /\ FeedInv /\ PagingInv
    BY DEF FlowInv
  <1>1. CASE FeedNext /\ UNCHANGED clientVars
    <2>1. CASE \E k \in Kinds : appendWorkspaceEvent(k)
      BY <1>1, <2>1, FeedAppends
    <2>2. CASE SaveAndUnlock
      BY <1>0, <1>1, <2>2 DEF SaveAndUnlock, FeedInv, PagingInv, feedVars, clientVars, Logged
    <2>3. CASE webSocketCatchUpPage
      BY <1>1, <2>3, FeedPages
    <2>4. CASE SendCatchUp \/ SendLive
      BY <1>1, <2>4, FeedSends
    <2>5. CASE CloseOnOverflow
      <3>1. client.state = "open"
        BY <1>0, <2>5 DEF CloseOnOverflow, FeedInv
      <3> QED
        BY <1>1, <2>5, <3>1, FeedCloses DEF CloseOnOverflow, storeVars, clientVars
    <2> QED
      BY <1>1, <2>1, <2>2, <2>3, <2>4, <2>5 DEF FeedNext
  <1>2. CASE openWebSocket
    BY <1>2, FeedOpens
  <1>3. CASE handleSocketMessage
    BY <1>3, FeedReceives
  <1>4. CASE SocketClosed
    BY <1>4, FeedSame DEF SocketClosed, storeVars, feedVars
  <1>5. CASE forceReconnect
    <2>1. handler' = NoConn /\ sub' = NoSub /\ log' = log /\ wire' = <<>>
      BY <1>5 DEF forceReconnect, Disconnect, storeVars
    <2> QED
      BY <2>1, FeedCloses
  <1>6. CASE startPolling \/ pollLoop \/ pollFails \/ pollLoopYields
    <2>1. client.state # "open" /\ UNCHANGED <<log, feedVars>>
      BY <1>6 DEF startPolling, pollLoop, pollFails, pollLoopYields, storeVars, feedVars
    <2> QED
      BY <1>0, <2>1, FeedSame DEF FeedInv
  <1>7. CASE Restart /\ UNCHANGED clientVars
    <2>1. log' = log
      BY <1>0, <1>7 DEF Restart, LogInv
    <2> QED
      <3>1. handler' = NoConn /\ sub' = NoSub /\ wire' = <<>>
        BY <1>7 DEF Restart, Disconnect
      <3> QED
        BY <2>1, <3>1, FeedCloses
  <1>8. CASE UNCHANGED syncVars
    BY <1>0, <1>8 DEF syncVars, storeVars, feedVars, clientVars, FeedInv, PagingInv, Logged
  <1> QED
    BY <1>1, <1>2, <1>3, <1>4, <1>5, <1>6, <1>7, <1>8 DEF SyncNext, ClientNext

-----------------------------------------------------------------------------
(* Polling, and the client's side of the invariant *)

(* What a request sees: the events after its cursor that may be read, in    *)
(* the order of the log.                                                    *)
LEMMA Visible ==
    ASSUME TypeInv, LogInv, NEW c \in 0..Len(log)
    PROVE  /\ visibleEvents(c) \in Seq(Event) /\ Len(visibleEvents(c)) \in Nat
           /\ \A x : (\E a \in DOMAIN visibleEvents(c) : visibleEvents(c)[a] = x)
                       <=> (Logged(x) /\ x.kind # "hidden" /\ c < x.id)
           /\ \A a, b \in DOMAIN visibleEvents(c) :
                a < b => visibleEvents(c)[a].id < visibleEvents(c)[b].id
  <1> DEFINE rest == SubSeq(log, c + 1, Len(log))
             seen == {e \in Range(log) : e.kind # "hidden"}
  <1>1. log \in Seq(Event) /\ Len(log) \in Nat /\ IndexOf(c) = c
    BY Types, IndexIs
  <1>2. /\ rest \in Seq(Event) /\ Len(rest) = Len(log) - c
        /\ \A i \in 1..Len(rest) : rest[i] = log[c + i]
    <2>1. c + 1 \in Nat \ {0} /\ Len(log) \in 0..Len(log) /\ c \in Nat
      BY <1>1
    <2>2. /\ rest \in Seq(Event) /\ Len(rest) = IF c + 1 <= Len(log) THEN Len(log) - (c + 1) + 1 ELSE 0
          /\ \A i \in 1..Len(rest) : rest[i] = log[c + 1 + i - 1]
      BY <1>1, <2>1, Part
    <2>3. Len(rest) = Len(log) - c
      BY <1>1, <2>1, <2>2
    <2>4. \A i \in 1..(Len(log) - c) : c + 1 + i - 1 = c + i
      BY <1>1, <2>1
    <2> HIDE DEF rest
    <2> QED
      BY <2>2, <2>3, <2>4
  <1>3. visibleEvents(c) = Keep(rest, seen)
    BY <1>1 DEF visibleEvents
  <1>4. Keep(rest, seen) \in Seq(Event) /\ KeptSo(Keep(rest, seen), rest, seen, Len(rest))
    BY <1>2, KeepKeeps
  <1> HIDE DEF rest
  <1>5. ASSUME NEW i \in 1..Len(rest)
        PROVE  /\ c + i \in DOMAIN log /\ rest[i] = log[c + i] /\ rest[i].id = c + i
               /\ Logged(rest[i]) /\ c < rest[i].id
    <2>1. c + i \in DOMAIN log
      BY <1>1, <1>2
    <2>2. log[c + i].id = c + i /\ Logged(log[c + i])
      BY <2>1, EventsLogged DEF LogInv
    <2> QED
      BY <1>1, <1>2, <2>1, <2>2
  <1>6. ASSUME NEW x, Logged(x), x.kind # "hidden", c < x.id
        PROVE  x \in seen /\ \E i \in 1..Len(rest) : rest[i] = x
    <2>1. x \in Range(log) /\ x.id \in 1..Len(log) /\ log[x.id] = x
      BY <1>1, <1>6, EventsLogged DEF Logged
    <2>2. x.id - c \in 1..Len(rest) /\ c + (x.id - c) = x.id
      BY <1>1, <1>2, <1>6, <2>1
    <2> QED
      BY <1>2, <1>6, <2>1, <2>2
  <1>7. \A x : (\E a \in DOMAIN Keep(rest, seen) : Keep(rest, seen)[a] = x)
                       <=> (Logged(x) /\ x.kind # "hidden" /\ c < x.id)
    <2> TAKE x
    <2>1. (\E a \in DOMAIN Keep(rest, seen) : Keep(rest, seen)[a] = x)
             <=> (x \in seen /\ \E i \in 1..Len(rest) : rest[i] = x)
      BY <1>4 DEF KeptSo
    <2>2. ASSUME x \in seen, NEW i \in 1..Len(rest), rest[i] = x
          PROVE  Logged(x) /\ x.kind # "hidden" /\ c < x.id
      BY <1>5, <2>2
    <2> HIDE DEF seen
    <2> QED
      BY <1>6, <2>1, <2>2
  <1>8. ASSUME NEW a \in DOMAIN Keep(rest, seen), NEW b \in DOMAIN Keep(rest, seen), a < b
        PROVE  Keep(rest, seen)[a].id < Keep(rest, seen)[b].id
    <2>1. PICK i, j \in 1..Len(rest) :
             i < j /\ rest[i] = Keep(rest, seen)[a] /\ rest[j] = Keep(rest, seen)[b]
      BY <1>4, <1>8 DEF KeptSo
    <2>2. rest[i].id = c + i /\ rest[j].id = c + j
      BY <1>5
    <2> QED
      BY <1>1, <1>2, <2>1, <2>2
  <1>9. Keep(rest, seen) \in Seq(Event) /\ Len(Keep(rest, seen)) \in Nat
    BY <1>4
  <1> HIDE DEF seen
  <1> QED
    BY <1>3, <1>7, <1>8, <1>9

(* The elements of two sequences, one after the other.                      *)
LEMMA Joined ==
    ASSUME NEW X, NEW s \in Seq(X), NEW t \in Seq(X)
    PROVE  Range(s \o t) = Range(s) \cup Range(t)
  <1>1. /\ Len(s) \in Nat /\ Len(t) \in Nat /\ DOMAIN s = 1..Len(s) /\ DOMAIN t = 1..Len(t)
        /\ DOMAIN (s \o t) = 1..(Len(s) + Len(t))
        /\ \A i \in 1..(Len(s) + Len(t)) :
             (s \o t)[i] = IF i <= Len(s) THEN s[i] ELSE t[i - Len(s)]
    OBVIOUS
  <1>2. ASSUME NEW x \in Range(s) PROVE x \in Range(s \o t)
    <2>1. PICK i \in 1..Len(s) : s[i] = x
      BY <1>1 DEF Range
    <2>2. i \in 1..(Len(s) + Len(t)) /\ i <= Len(s)
      BY <1>1
    <2> QED
      BY <1>1, <2>1, <2>2 DEF Range
  <1>3. ASSUME NEW x \in Range(t) PROVE x \in Range(s \o t)
    <2>1. PICK i \in 1..Len(t) : t[i] = x
      BY <1>1 DEF Range
    <2>2. Len(s) + i \in 1..(Len(s) + Len(t)) /\ ~(Len(s) + i <= Len(s)) /\ (Len(s) + i) - Len(s) = i
      BY <1>1
    <2> QED
      BY <1>1, <2>1, <2>2 DEF Range
  <1>4. ASSUME NEW x \in Range(s \o t) PROVE x \in Range(s) \cup Range(t)
    <2>1. PICK i \in 1..(Len(s) + Len(t)) : (s \o t)[i] = x
      BY <1>1 DEF Range
    <2>2. i \in 1..Len(s) \/ (~(i <= Len(s)) /\ i - Len(s) \in 1..Len(t))
      BY <1>1
    <2> QED
      BY <1>1, <2>1, <2>2 DEF Range
  <1> QED
    BY <1>2, <1>3, <1>4

(* What the request brings.                                                 *)
PollGives(more, events, fresh, latest, pending) ==
    /\ \A x \in Range(events) : Logged(x) /\ x.kind # "hidden" /\ x.id <= latest
    /\ \A x \in Range(log) :
         x.kind # "hidden" /\ client.polledCursor < x.id /\ (more => x.id <= latest)
           => x \in Range(events)
    /\ client.polledCursor <= latest /\ latest <= Len(log) /\ latest \in Nat
    /\ more => client.polledCursor < latest
    /\ \A x \in Range(events) :
         x.id \notin Range(client.polledEventOrder) => x \in Range(fresh)
    /\ pending \in Seq(Event)
    /\ client.firstPollComplete => Range(pending) = Range(client.pending) \cup Range(fresh)
    /\ \A x : x \in Range(WantedOf(pending)) <=> x \in Range(pending) /\ x.kind = "wanted"

(* A request brings what comes after the cursor, up to its last event.      *)
LEMMA PollSees ==
    ASSUME FlowInv, client.state = "polling", NEW visible, NEW more \in BOOLEAN, NEW events,
           NEW fresh, NEW latest, NEW pending, NEW polled,
           PollOf(visible, more, events, fresh, latest, pending, polled)
    PROVE  PollGives(more, events, fresh, latest, pending)
  <1>0. TypeInv /\ LogInv /\ PollInv
    BY DEF FlowInv
  <1>1. /\ visible \in Seq(Event) /\ events \in Seq(Event) /\ fresh \in Seq(Event)
        /\ pending \in Seq(Event) /\ latest \in Cursors
    BY <1>0, PollTyped
  <1>2. /\ client \in Client /\ client.polledCursor \in 0..Len(log) /\ Len(log) \in Nat
        /\ client.polledLatest = client.polledCursor /\ client.pending \in Seq(Event)
        /\ latest \in Nat /\ PollLimit \in Nat \ {0}
    <2>1. client \in Client /\ Cursors \subseteq Nat
      BY <1>0, Types, FeedAssumption DEF Cursors
    <2>2. client.polledCursor \in Cursors /\ client.cursor \in Cursors
          /\ client.pending \in Seq(Event)
      BY <2>1 DEF Client
    <2>3. /\ client.polledLatest = client.polledCursor /\ client.cursor <= client.polledCursor
          /\ client.polledCursor <= Len(log)
      BY <1>0 DEF PollInv
    <2>4. Len(log) \in Nat /\ PollLimit \in Nat \ {0}
      BY <1>0, Types, ClientAssumption
    <2>5. client.polledCursor \in Nat /\ latest \in Nat
      BY <1>1, <2>1, <2>2
    <2>6. client.polledCursor \in 0..Len(log)
      BY <2>3, <2>4, <2>5
    <2> QED
      BY <2>1, <2>2, <2>3, <2>4, <2>5, <2>6
  <1>3. /\ \A x : (\E a \in DOMAIN visible : visible[a] = x)
                       <=> (Logged(x) /\ x.kind # "hidden" /\ client.polledCursor < x.id)
        /\ \A a, b \in DOMAIN visible : a < b => visible[a].id < visible[b].id
        /\ Len(visible) \in Nat /\ DOMAIN visible = 1..Len(visible)
    BY <1>0, <1>1, <1>2, Visible DEF PollOf
  <1>4. /\ Len(events) \in Nat /\ DOMAIN events = 1..Len(events) /\ Len(events) <= Len(visible)
        /\ \A i \in 1..Len(events) : events[i] = visible[i] /\ i \in DOMAIN visible
        /\ more => events # <<>>
        /\ ~more => events = visible
    <2>1. CASE more
      <3>1. Len(visible) > PollLimit /\ events = SubSeq(visible, 1, PollLimit)
        BY <2>1 DEF PollOf
      <3>2. PollLimit \in 0..Len(visible) /\ 1 \in Nat \ {0}
        BY <1>2, <1>3, <3>1
      <3>3. /\ Len(events) = IF 1 <= PollLimit THEN PollLimit - 1 + 1 ELSE 0
            /\ \A i \in 1..Len(events) : events[i] = visible[1 + i - 1]
        BY <1>1, <3>1, <3>2, Part
      <3>4. Len(events) = PollLimit /\ \A i \in 1..PollLimit : 1 + i - 1 = i /\ i \in 1..Len(visible)
        BY <1>2, <1>3, <3>1, <3>3
      <3>5. Len(events) = PollLimit /\ events # <<>>
        BY <1>1, <1>2, <3>4
      <3>6. \A i \in 1..Len(events) : events[i] = visible[i] /\ i \in DOMAIN visible
        BY <1>3, <3>3, <3>4, <3>5
      <3>7. Len(events) \in Nat /\ DOMAIN events = 1..Len(events)
        BY <1>1
      <3>8. Len(events) <= Len(visible)
        BY <1>2, <1>3, <3>1, <3>5
      <3> QED
        BY <2>1, <3>5, <3>6, <3>7, <3>8
    <2>2. CASE ~more
      BY <1>1, <1>3, <2>2 DEF PollOf
    <2> QED
      BY <2>1, <2>2
  <1>5. \A x \in Range(events) : Logged(x) /\ x.kind # "hidden" /\ client.polledCursor < x.id
    BY <1>3, <1>4 DEF Range
  <1>6. latest = IF events = <<>> THEN client.polledCursor ELSE events[Len(events)].id
    BY <1>2 DEF PollOf
  <1>7. events # <<>> => /\ events[Len(events)] \in Range(events)
                         /\ Len(events) \in DOMAIN events /\ Len(events) >= 1
    BY <1>1, <1>4 DEF Range
  <1>8. client.polledCursor <= latest /\ latest <= Len(log) /\ (more => client.polledCursor < latest)
    <2>1. CASE events = <<>>
      BY <1>2, <1>4, <1>6, <2>1
    <2>2. CASE events # <<>>
      <3>1. Logged(events[Len(events)]) /\ client.polledCursor < events[Len(events)].id
        BY <1>5, <1>7, <2>2
      <3> QED
        BY <1>0, <1>2, <1>6, <2>2, <3>1, Types DEF Logged
    <2> QED
      BY <2>1, <2>2
  <1>9. ASSUME NEW x \in Range(events) PROVE x.id <= latest
    <2>1. PICK i \in DOMAIN events : events[i] = x
      BY DEF Range
    <2>2. events # <<>> /\ Len(events) \in DOMAIN events
      BY <1>1, <1>7, <2>1
    <2>3. CASE i = Len(events)
      <3>1. latest = x.id
        BY <1>6, <2>1, <2>2, <2>3
      <3> QED
        BY <1>2, <3>1
    <2>4. CASE i < Len(events)
      <3>1. visible[i].id < visible[Len(events)].id
        BY <1>3, <1>4, <2>1, <2>2, <2>4
      <3>2. visible[i] = x /\ visible[Len(events)].id = latest
        BY <1>4, <1>6, <2>1, <2>2
      <3>3. x.id \in Nat
        BY <1>0, <1>5, Types DEF Logged
      <3> QED
        BY <1>2, <3>1, <3>2, <3>3
    <2> QED
      BY <1>4, <2>1, <2>3, <2>4
  <1>10. ASSUME NEW x \in Range(log), x.kind # "hidden", client.polledCursor < x.id,
                more => x.id <= latest
         PROVE  x \in Range(events)
    <2>1. Logged(x) /\ x.id \in Nat
      BY <1>0, <1>2, EventsLogged
    <2>2. PICK a \in DOMAIN visible : visible[a] = x
      BY <1>3, <1>10, <2>1
    <2>3. CASE a <= Len(events)
      <3>1. a \in DOMAIN events /\ events[a] = x
        BY <1>3, <1>4, <2>2, <2>3
      <3> QED
        BY <3>1 DEF Range
    <2>4. CASE a > Len(events)
      <3>1. more
        BY <1>3, <1>4, <2>4
      <3>2. events # <<>> /\ Len(events) \in DOMAIN visible /\ Len(events) \in DOMAIN events
        BY <1>4, <1>7, <3>1
      <3>3. visible[Len(events)].id < visible[a].id /\ visible[Len(events)].id = latest
        BY <1>3, <1>4, <1>6, <2>2, <2>4, <3>2
      <3> QED
        BY <1>2, <1>10, <2>1, <2>2, <3>1, <3>3
    <2> QED
      BY <1>3, <1>4, <2>2, <2>3, <2>4
  <1>11. ASSUME NEW x \in Range(events), x.id \notin Range(client.polledEventOrder)
         PROVE  x \in Range(fresh)
    <2>1. client.polledEventOrder \in Seq(1..MaxSerial)
      BY <1>2 DEF Client
    <2>2. \A i \in 1..Len(events) : events[i].id \in 1..MaxSerial
      <3>1. \A i \in 1..Len(events) : events[i] \in Event
        BY <1>1
      <3>2. \A e \in Event : e.id \in 1..MaxSerial
        BY DEF Event
      <3> QED
        BY <3>1, <3>2
    <2>3. ASSUME NEW i \in 1..Len(events), NEW j \in 1..Len(events), i < j
          PROVE  events[i].id # events[j].id
      <3>1. visible[i].id < visible[j].id /\ visible[i] = events[i] /\ visible[j] = events[j]
        BY <1>3, <1>4, <2>3
      <3>2. events[i].id \in Nat
        BY <2>2
      <3> QED
        BY <3>1, <3>2
    <2>4. fresh = NotPolled(client.polledEventOrder, events)
      BY DEF PollOf
    <2> QED
      BY <1>1, <1>11, <2>1, <2>2, <2>3, <2>4, NotPolledTakes
  <1>12. client.firstPollComplete => Range(pending) = Range(client.pending) \cup Range(fresh)
    <2>1. SUFFICES ASSUME client.firstPollComplete
                   PROVE  Range(client.pending \o fresh) = Range(client.pending) \cup Range(fresh)
      BY DEF PollOf
    <2> QED
      BY <1>1, <1>2, Joined
  <1>13. \A x : x \in Range(WantedOf(pending)) <=> x \in Range(pending) /\ x.kind = "wanted"
    BY <1>1, KeptRange DEF WantedOf
  <1> QED
    BY <1>1, <1>2, <1>5, <1>8, <1>9, <1>10, <1>11, <1>12, <1>13 DEF PollGives

(* What has been settled stays so.                                          *)
LEMMA SettledStays ==
    ASSUME TypeInv, [SyncNext]_syncVars
    PROVE  /\ \A e : Settled(e) => Settled(e)'
           /\ handleSocketMessage => \A e : e = Head(wire) => Settled(e)'
  <1>0. emitted \in Seq(Event) /\ wire \in Seq(Event)
    BY Types
  <1>1. CASE UNCHANGED <<emitted, silenced, dropped>> /\ ~handleSocketMessage
    BY <1>1 DEF Settled, Emitted
  <1>2. CASE handleSocketMessage
    <2>1. emitted' = Append(emitted, Head(wire)) /\ UNCHANGED <<silenced, dropped>>
          /\ Head(wire) \in Event
      BY <1>0, <1>2 DEF handleSocketMessage
    <2>2. emitted' = emitted \o <<Head(wire)>> /\ <<Head(wire)>> \in Seq(Event)
      BY <1>0, <2>1
    <2>3. Range(emitted') = Range(emitted) \cup Range(<<Head(wire)>>)
      <3> DEFINE t == <<Head(wire)>>
      <3>0. t \in Seq(Event)
        BY <2>2
      <3> HIDE DEF t
      <3>1. Range(emitted \o t) = Range(emitted) \cup Range(t)
        BY <1>0, <3>0, Joined
      <3> QED
        BY <2>2, <3>1 DEF t
    <2>4. Head(wire) \in Range(<<Head(wire)>>)
      BY DEF Range
    <2> QED
      <3>1. Head(wire) \in Range(emitted') /\ Range(emitted) \subseteq Range(emitted')
        BY <2>3, <2>4
      <3>2. UNCHANGED <<silenced, dropped>>
        BY <2>1
      <3> QED
        BY <3>1, <3>2 DEF Settled, Emitted
  <1>3. CASE pollLoop
    <2>1. PICK visible, more, events, fresh, latest, pending, polled :
              /\ PollOf(visible, more, events, fresh, latest, pending, polled)
              /\ more \in BOOLEAN
              /\ PollActs(more, events, latest, pending, polled)
      BY <1>3, PollTaken
    <2>2. WantedOf(pending) \in Seq(Event)
      BY <2>1, PollTyped
    <2>3. Range(emitted) \subseteq Range(emitted') /\ silenced \subseteq silenced'
          /\ dropped' = dropped
      <3>1. emitted' = emitted \/ emitted' = emitted \o WantedOf(pending)
        BY <2>1 DEF PollActs
      <3>2. Range(emitted \o WantedOf(pending)) = Range(emitted) \cup Range(WantedOf(pending))
        BY <1>0, <2>2, Joined
      <3>3. silenced \subseteq silenced' /\ dropped' = dropped
        BY <2>1 DEF PollActs
      <3> QED
        BY <3>1, <3>2, <3>3
    <2>4. ~handleSocketMessage
      BY <1>3 DEF pollLoop, handleSocketMessage
    <2> QED
      BY <2>3, <2>4 DEF Settled, Emitted
  <1> QED
    <2>1. \/ UNCHANGED <<emitted, silenced, dropped>>
          \/ handleSocketMessage
          \/ pollLoop
          \/ pollFails
      BY DEF SyncNext, ClientNext, openWebSocket, SocketClosed, forceReconnect, startPolling,
         pollLoopYields, syncVars, clientVars
    <2>2. CASE pollFails
      <3>1. UNCHANGED <<emitted, silenced>> /\ dropped \subseteq dropped'
        BY <2>2 DEF pollFails
      <3>2. ~handleSocketMessage
        BY <2>2 DEF pollFails, handleSocketMessage
      <3> QED
        BY <3>1, <3>2 DEF Settled, Emitted
    <2> QED
      BY <1>1, <1>2, <1>3, <2>1, <2>2

(* After a request what is wanted up to the poll's cursor, or skipped as    *)
(* polled, is held or settled; after the last page all is settled.          *)
LEMMA PollCovers ==
    ASSUME FlowInv, [SyncNext]_syncVars, client.state = "polling",
           NEW visible, NEW more \in BOOLEAN, NEW events, NEW fresh, NEW latest, NEW pending,
           NEW polled, PollOf(visible, more, events, fresh, latest, pending, polled),
           PollActs(more, events, latest, pending, polled),
           NEW e \in Range(log), e.kind = "wanted"
    PROVE  /\ client.cursor < e.id /\ e.id <= latest =>
                \/ Settled(e)'
                \/ since < 0 \/ e.id <= since
                \/ e \in Range(pending)
           /\ client.firstPollComplete
              /\ (e.id \in Range(client.polledEventOrder) \/ e \in Range(events)) =>
                \/ Settled(e)'
                \/ since >= 0 /\ e.id <= since
                \/ e \in Range(pending)
           /\ ~more => Settled(e)' \/ (since' >= 0 /\ e.id <= since')
  <1>0. TypeInv /\ LogInv /\ PollInv /\ CursorInv /\ DueInv
    BY DEF FlowInv
  <1>1. /\ client \in Client /\ since \in Nat \cup {-1} /\ client.cursor \in Nat
        /\ Logged(e) /\ e.id \in Nat \ {0} /\ e \in Event
    <2>1. client \in Client
      BY <1>0, Types
    <2> QED
      BY <1>0, <2>1, Types, EventsLogged DEF Client
  <1>2. /\ \A x \in Range(log) :
             x.kind # "hidden" /\ client.polledCursor < x.id /\ (more => x.id <= latest)
               => x \in Range(events)
        /\ client.polledCursor <= latest /\ latest \in Nat
        /\ \A x \in Range(events) : x.id <= latest
        /\ \A x \in Range(events) :
             x.id \notin Range(client.polledEventOrder) => x \in Range(fresh)
        /\ pending \in Seq(Event)
        /\ client.firstPollComplete => Range(pending) = Range(client.pending) \cup Range(fresh)
        /\ \A x : x \in Range(WantedOf(pending)) <=> x \in Range(pending) /\ x.kind = "wanted"
    <2>1. PollGives(more, events, fresh, latest, pending)
      BY PollSees
    <2> QED
      BY <2>1 DEF PollGives
  <1>3. client.polledCursor \in Nat /\ client.cursor <= client.polledCursor
        /\ (~client.firstPollComplete => client.pending = <<>>)
    <2>1. client.polledCursor \in Cursors /\ Cursors \subseteq Nat
      BY <1>1, FeedAssumption DEF Client, Cursors
    <2> QED
      BY <1>0, <2>1 DEF PollInv
  <1>4. Settled(e) => Settled(e)'
    BY <1>0, SettledStays
  <1>5. ASSUME e \in Range(client.pending) PROVE e \in Range(pending)
    <2>1. client.pending # <<>>
      BY <1>5 DEF Range
    <2> QED
      BY <1>2, <1>3, <1>5, <2>1
  <1>6. ASSUME client.firstPollComplete,
               e.id \in Range(client.polledEventOrder) \/ e \in Range(events)
        PROVE  Settled(e)' \/ (since >= 0 /\ e.id <= since) \/ e \in Range(pending)
    <2>1. CASE e.id \in Range(client.polledEventOrder)
      <3>1. Settled(e) \/ (since >= 0 /\ e.id <= since) \/ e \in Range(client.pending)
        BY <1>0, <1>6, <2>1 DEF PollInv
      <3> QED
        BY <1>4, <1>5, <3>1
    <2>2. CASE e.id \notin Range(client.polledEventOrder)
      BY <1>2, <1>6, <2>2
    <2> QED
      BY <2>1, <2>2
  <1>7. ASSUME e \in Range(events)
        PROVE  Settled(e)' \/ since < 0 \/ e.id <= since \/ e \in Range(pending)
    <2>1. CASE client.firstPollComplete
      BY <1>6, <1>7, <2>1
    <2>2. CASE ~client.firstPollComplete /\ since >= 0
      <3>1. silenced' = silenced \cup Silent(events)
        BY <2>2 DEF PollActs
      <3> QED
        BY <1>7, <2>2, <3>1 DEF Silent, Settled
    <2>3. CASE since < 0
      BY <2>3
    <2> QED
      BY <1>1, <2>1, <2>2, <2>3
  <1>8. ASSUME client.cursor < e.id, e.id <= latest
        PROVE  Settled(e)' \/ since < 0 \/ e.id <= since \/ e \in Range(pending)
    <2>1. CASE e.id <= client.polledCursor
      <3>1. Settled(e) \/ since < 0 \/ e.id <= since \/ e \in Range(client.pending)
        BY <1>0, <1>8, <2>1 DEF PollInv
      <3> QED
        BY <1>4, <1>5, <3>1
    <2>2. CASE client.polledCursor < e.id
      BY <1>2, <1>7, <1>8, <2>2
    <2> QED
      BY <1>1, <1>3, <2>1, <2>2
  <1>9. ASSUME ~more PROVE Settled(e)' \/ (since' >= 0 /\ e.id <= since')
    <2>1. /\ emitted' = emitted \o WantedOf(pending)
          /\ since' = IF since = -1 /\ latest # NoCursor THEN latest ELSE since
      BY <1>9 DEF PollActs, SetCursor
    <2>2. e.id <= latest
      <3>1. e.id <= client.polledCursor \/ e \in Range(events)
        BY <1>1, <1>2, <1>3, <1>9
      <3> QED
        BY <1>1, <1>2, <1>3, <3>1
    <2>3. CASE since < 0
      <3>1. since = -1 /\ latest # 0
        BY <1>1, <1>2, <2>2, <2>3
      <3>2. since' = latest
        BY <2>1, <3>1 DEF NoCursor
      <3> QED
        BY <1>2, <2>2, <3>2
    <2>4. CASE since >= 0 /\ e.id <= since
      <3>1. since' = since
        BY <1>1, <2>1, <2>4
      <3> QED
        BY <2>4, <3>1
    <2>5. CASE e \in Range(pending)
      <3>1. e \in Range(WantedOf(pending)) /\ WantedOf(pending) \in Seq(Event)
            /\ emitted \in Seq(Event)
        <4>1. WantedOf(pending) \in Seq(Event)
          BY <1>0, PollTyped
        <4>2. emitted \in Seq(Event)
          BY <1>0, Types
        <4> QED
          BY <1>2, <2>5, <4>1, <4>2
      <3>2. e \in Range(emitted')
        BY <2>1, <3>1, Joined
      <3> QED
        BY <3>2 DEF Settled, Emitted
    <2>6. CASE client.cursor < e.id
      BY <1>1, <1>8, <2>2, <2>3, <2>4, <2>5, <2>6
    <2>7. CASE since >= 0 /\ since < e.id /\ ~(client.cursor < e.id)
      <3>1. ~Due(e)
        BY <1>0, <2>7 DEF DueInv
      <3>2. Settled(e)
        BY <1>1, <2>7, <3>1 DEF Due
      <3> QED
        BY <1>4, <3>2
    <2> QED
      BY <1>1, <2>3, <2>4, <2>6, <2>7
  <1> QED
    BY <1>6, <1>8, <1>9

(* pollLoop preserves the client's part.                                    *)
LEMMA PollPolls ==
    ASSUME FlowInv, [SyncNext]_syncVars, pollLoop
    PROVE  CursorInv' /\ PollInv'
  <1>0. TypeInv /\ LogInv /\ PollInv /\ CursorInv /\ client.state = "polling" /\ log' = log
    BY DEF FlowInv, pollLoop, storeVars
  <1>1. PICK visible, more, events, fresh, latest, pending, polled :
              /\ PollOf(visible, more, events, fresh, latest, pending, polled)
              /\ more \in BOOLEAN
              /\ PollActs(more, events, latest, pending, polled)
    BY PollTaken
  <1>2. /\ \A x \in Range(events) : Logged(x) /\ x.kind # "hidden" /\ x.id <= latest
        /\ client.polledCursor <= latest /\ latest <= Len(log) /\ latest \in Nat
        /\ more => client.polledCursor < latest
    <2>1. PollGives(more, events, fresh, latest, pending)
      BY <1>0, <1>1, PollSees
    <2> QED
      BY <2>1 DEF PollGives
  <1>3. /\ client \in Client /\ client.cursor \in Nat /\ client.polledCursor \in Nat
        /\ since \in Nat \cup {-1} /\ client.cursor <= client.polledCursor
        /\ (since = -1 <=> client.cursor = 0)
        /\ polled \in Client
    <2>1. client \in Client /\ Cursors \subseteq Nat
      BY <1>0, Types, FeedAssumption DEF Cursors
    <2>2. client.polledCursor \in Nat
      BY <2>1 DEF Client
    <2>3. polled \in Client
      BY <1>0, <1>1, PollTyped
    <2>4. client.cursor \in Nat /\ since \in Nat \cup {-1}
      BY <1>0, Types
    <2>5. client.cursor <= client.polledCursor /\ (since = -1 <=> client.cursor = 0)
      BY <1>0, <1>1 DEF PollInv, CursorInv
    <2> QED
      BY <2>1, <2>2, <2>3, <2>4, <2>5
  <1>4. /\ polled.state = "polling" /\ polled.cursor = client.cursor
        /\ polled.firstPollComplete = client.firstPollComplete
        /\ polled.polledEventOrder = Remembered(client.polledEventOrder, events)[Len(events)]
    <2>1. polled = [client EXCEPT
                      !.polledEventOrder = Remembered(@, events)[Len(events)]]
      BY <1>1 DEF PollOf
    <2> QED
      BY <1>0, <1>3, <2>1 DEF Client
  <1>5. ASSUME NEW i \in Range(polled.polledEventOrder)
        PROVE  i \in Range(client.polledEventOrder) \/ \E y \in Range(events) : y.id = i
    <2>1. events \in Seq(Event) /\ client.polledEventOrder \in Seq(1..MaxSerial)
      <3>1. events \in Seq(Event)
        BY <1>0, <1>1, PollTyped
      <3> QED
        BY <1>3, <3>1 DEF Client
    <2>2. /\ Len(events) \in Nat /\ Len(events) \in 0..Len(events)
          /\ DOMAIN events = 1..Len(events)
          /\ \A k \in 1..Len(events) : events[k] \in Event
      BY <2>1
    <2>3. \A e \in Event : e.id \in 1..MaxSerial
      BY DEF Event
    <2>4. RemembersOnly(1..MaxSerial, client.polledEventOrder, events,
                        Remembered(client.polledEventOrder, events))
      BY <2>1, <2>2, <2>3, RememberAll
    <2>5. i \in Range(client.polledEventOrder) \/ \E k \in 1..Len(events) : events[k].id = i
      BY <1>4, <1>5, <2>2, <2>4 DEF RemembersOnly
    <2> QED
      BY <2>2, <2>5 DEF Range
  <1>6. Range(polled.polledEventOrder) \subseteq DOMAIN log
    BY <1>0, <1>2, <1>5 DEF CursorInv, Logged
  <1>7. ASSUME NEW x \in Range(log), x.id \in Range(polled.polledEventOrder)
        PROVE  x.id \in Range(client.polledEventOrder) \/ x \in Range(events)
    <2>1. CASE x.id \notin Range(client.polledEventOrder)
      <3>1. PICK y \in Range(events) : y.id = x.id
        BY <1>5, <1>7, <2>1
      <3>2. Logged(x) /\ Logged(y)
        BY <1>0, <1>2, EventsLogged
      <3> QED
        BY <3>1, <3>2 DEF Logged
    <2> QED
      BY <2>1
  <1>8. CASE more
    <2>1. /\ client' = [polled EXCEPT !.polledCursor = latest, !.polledLatest = latest,
                                      !.pending = pending]
          /\ since' = since
      BY <1>1, <1>8 DEF PollActs
    <2>2. /\ client'.state = "polling" /\ client'.cursor = client.cursor
          /\ client'.polledCursor = latest /\ client'.polledLatest = latest
          /\ client'.pending = pending /\ client'.firstPollComplete = client.firstPollComplete
          /\ client'.polledEventOrder = polled.polledEventOrder
      BY <1>3, <1>4, <2>1 DEF Client
    <2>3. client.cursor <= latest /\ client.cursor # latest /\ client.cursor <= Len(log)
      BY <1>0, <1>2, <1>3, <1>8 DEF CursorInv
    <2>4. ~client.firstPollComplete => pending = <<>>
      BY <1>1 DEF PollOf
    <2>5. ASSUME NEW x \in Range(log), x.kind = "wanted", client.cursor < x.id, x.id <= latest
          PROVE  Settled(x)' \/ since < 0 \/ x.id <= since \/ x \in Range(pending)
      BY <1>0, <1>1, <2>5, PollCovers
    <2>6. ASSUME client.firstPollComplete, NEW x \in Range(log), x.kind = "wanted",
                 x.id \in Range(polled.polledEventOrder)
          PROVE  Settled(x)' \/ (since >= 0 /\ x.id <= since) \/ x \in Range(pending)
      BY <1>0, <1>1, <1>7, <2>6, PollCovers
    <2>7. CursorInv'
      BY <1>0, <1>3, <1>6, <2>1, <2>2, <2>3 DEF CursorInv
    <2>8. PollInv'
      BY <1>0, <1>2, <2>1, <2>2, <2>3, <2>4, <2>5, <2>6 DEF PollInv
    <2> QED
      BY <2>7, <2>8
  <1>9. CASE ~more
    <2>1. /\ client' = NewPoll([polled EXCEPT !.cursor = latest, !.firstPollComplete = TRUE])
          /\ since' = IF since = -1 /\ latest # NoCursor THEN latest ELSE since
      BY <1>1, <1>9 DEF PollActs, SetCursor
    <2>2. /\ client'.state = "polling" /\ client'.cursor = latest
          /\ client'.polledCursor = latest /\ client'.polledLatest = latest
          /\ client'.pending = <<>> /\ client'.firstPollComplete
          /\ client'.polledEventOrder = polled.polledEventOrder
      BY <1>3, <1>4, <2>1 DEF NewPoll, Client
    <2>3. ASSUME NEW x \in Range(log), x.kind = "wanted"
          PROVE  Settled(x)' \/ (since' >= 0 /\ x.id <= since')
      BY <1>0, <1>1, <1>9, <2>3, PollCovers
    <2>4. since' = -1 <=> latest = 0
      BY <1>2, <1>3, <2>1 DEF NoCursor
    <2>5. CursorInv'
      BY <1>0, <1>2, <1>6, <2>2, <2>4 DEF CursorInv
    <2>6. \A x \in Range(log)' : ~(client'.cursor < x.id /\ x.id <= client'.polledCursor)
      <3> TAKE x \in Range(log)'
      <3>1. x.id \in Nat
        BY <1>0, Types, EventsLogged
      <3> QED
        BY <1>2, <2>2, <3>1
    <2>7. PollInv'
      BY <1>0, <1>2, <2>2, <2>3, <2>6 DEF PollInv
    <2> QED
      BY <2>5, <2>7
  <1> QED
    BY <1>1, <1>8, <1>9

(* A request that fails: what the poll held is let go.                      *)
LEMMA PollLetsGo ==
    ASSUME FlowInv, [SyncNext]_syncVars, pollFails
    PROVE  CursorInv' /\ PollInv' /\ client'.cursor = client.cursor
  <1>0. TypeInv /\ LogInv /\ PollInv /\ CursorInv /\ client \in Client
    BY Types DEF FlowInv
  <1>1. /\ UNCHANGED <<log, since>> /\ client.state = "polling"
        /\ dropped' = dropped \cup {x.serial : x \in Wanted(client.pending)}
    BY DEF pollFails, storeVars
  <1>2. /\ client'.cursor = client.cursor /\ client'.polledEventOrder = client.polledEventOrder
        /\ client'.firstPollComplete = client.firstPollComplete
        /\ client'.polledCursor = client.cursor /\ client'.polledLatest = client.cursor
        /\ client'.pending = <<>>
    <2>1. PICK state \in {"polling", "reconnecting"} :
             client' = NewPoll([client EXCEPT !.state = state])
      BY DEF pollFails
    <2> QED
      BY <1>0, <2>1 DEF NewPoll, Client
  <1>3. CursorInv'
    BY <1>0, <1>1, <1>2 DEF CursorInv
  <1>4. client.cursor \in Nat /\ client.cursor <= Len(log)
        /\ \A e \in Range(log) : e.id \in Nat \ {0}
    BY <1>0, Types, EventsLogged DEF CursorInv
  <1>5. ASSUME client.firstPollComplete, NEW e \in Range(log), e.kind = "wanted",
               e.id \in Range(client.polledEventOrder)
        PROVE  Settled(e)' \/ (since >= 0 /\ e.id <= since)
    <2>1. Settled(e) \/ (since >= 0 /\ e.id <= since) \/ e \in Range(client.pending)
      BY <1>0, <1>5 DEF PollInv
    <2>2. Settled(e) => Settled(e)'
      BY <1>0, SettledStays
    <2>3. CASE e \in Range(client.pending)
      BY <1>1, <1>5, <2>3 DEF Wanted, Settled
    <2> QED
      BY <2>1, <2>2, <2>3
  <1>6. \A e \in Range(log) : ~(client.cursor < e.id /\ e.id <= client.cursor)
    BY <1>4
  <1>7. PollInv'
    BY <1>0, <1>1, <1>2, <1>4, <1>5, <1>6 DEF PollInv
  <1> QED
    BY <1>2, <1>3, <1>7

(* The client's side of the invariant when it neither polls nor begins to.  *)
LEMMA CursorSame ==
    ASSUME CleanStops, FlowInv, [SyncNext]_syncVars, UNCHANGED <<client, since>>
    PROVE  CursorInv' /\ PollInv'
  <1>0. TypeInv /\ LogInv /\ PollInv /\ CursorInv
    BY DEF FlowInv
  <1>1. /\ Len(log) <= Len(log') /\ Len(log') \in Nat /\ Len(log) \in Nat
        /\ DOMAIN log' = 1..Len(log')
        /\ DOMAIN log \subseteq DOMAIN log' /\ \A i \in DOMAIN log : log'[i] = log[i]
        /\ DOMAIN log = 1..Len(log)
    BY <1>0, LoggedStays, Types
  <1>2. client.cursor \in Nat /\ client.polledCursor \in Nat
    <2>1. client \in Client /\ Cursors \subseteq Nat
      BY <1>0, Types, FeedAssumption DEF Cursors
    <2> QED
      BY <2>1 DEF Client
  <1>3. CursorInv'
    BY <1>0, <1>1, <1>2 DEF CursorInv
  <1>4. ASSUME NEW e \in Range(log') PROVE e.id \in 1..Len(log') /\ log'[e.id] = e
    <2>1. PICK i \in 1..Len(log') : log'[i] = e
      BY <1>1 DEF Range
    <2>2. LogInv'
      BY <1>0, LogStep
    <2> QED
      BY <1>1, <2>1, <2>2 DEF LogInv
  <1>5. ASSUME NEW e \in Range(log'), e.id <= Len(log) PROVE e \in Range(log)
    BY <1>1, <1>4, <1>5 DEF Range
  <1>6. \A e : Settled(e) => Settled(e)'
    BY <1>0, SettledStays
  <1>7. Range(client.polledEventOrder) \subseteq DOMAIN log
    BY <1>0 DEF CursorInv
  <1>8. ASSUME client.firstPollComplete, NEW e \in Range(log'), e.kind = "wanted",
               e.id \in Range(client.polledEventOrder)
        PROVE  \/ Settled(e)'
               \/ since >= 0 /\ e.id <= since
               \/ client.state = "polling" /\ e \in Range(client.pending)
    <2>1. e \in Range(log)
      BY <1>1, <1>4, <1>5, <1>7, <1>8
    <2> QED
      BY <1>0, <1>6, <1>8, <2>1 DEF PollInv
  <1>9. ASSUME client.state = "polling", NEW e \in Range(log'), e.kind = "wanted",
               client.cursor < e.id, e.id <= client.polledCursor
        PROVE  Settled(e)' \/ since < 0 \/ e.id <= since \/ e \in Range(client.pending)
    <2>1. client.polledCursor <= Len(log) /\ e.id \in Nat
      BY <1>0, <1>1, <1>4, <1>9 DEF PollInv
    <2>2. e \in Range(log)
      BY <1>1, <1>2, <1>5, <1>9, <2>1
    <2> QED
      BY <1>0, <1>6, <1>9, <2>2 DEF PollInv
  <1>10. client.state = "polling" => client.polledCursor <= Len(log')
    BY <1>0, <1>1, <1>2 DEF PollInv
  <1>11. PollInv'
    BY <1>0, <1>8, <1>9, <1>10 DEF PollInv
  <1> QED
    BY <1>3, <1>11

(* Connections and polls that begin or end.                                 *)
LEMMA CursorMoves ==
    ASSUME FlowInv, [SyncNext]_syncVars,
           openWebSocket \/ SocketClosed \/ forceReconnect \/ startPolling \/ pollLoopYields
    PROVE  CursorInv' /\ PollInv'
  <1>0. TypeInv /\ LogInv /\ PollInv /\ CursorInv /\ client \in Client
    BY Types DEF FlowInv
  <1>1. /\ UNCHANGED <<log, since, emitted, silenced, dropped>>
        /\ client'.cursor = client.cursor /\ client'.polledEventOrder = client.polledEventOrder
        /\ client'.firstPollComplete = client.firstPollComplete
        /\ client'.state = "polling" =>
             /\ client'.polledCursor = client.cursor /\ client'.polledLatest = client.cursor
             /\ client'.pending = <<>>
        /\ client'.pending \in {client.pending, <<>>}
        /\ client.state = "polling" => client.polledCursor = client.cursor
    <2>1. CASE openWebSocket
      <3>1. client' = [client EXCEPT !.state = "open"] /\ UNCHANGED <<log, since, emitted, silenced, dropped>>
            /\ client.state = "reconnecting"
        BY <2>1 DEF openWebSocket, storeVars
      <3> QED
        BY <1>0, <3>1 DEF Client
    <2>2. CASE SocketClosed \/ forceReconnect
      <3>1. client' = [client EXCEPT !.state = "reconnecting"] /\ client.state = "open"
            /\ UNCHANGED <<log, since, emitted, silenced, dropped>>
        BY <2>2 DEF SocketClosed, forceReconnect, storeVars
      <3> QED
        BY <1>0, <3>1 DEF Client
    <2>3. CASE startPolling
      <3>1. client' = NewPoll([client EXCEPT !.state = "polling"]) /\ client.state = "reconnecting"
            /\ UNCHANGED <<log, since, emitted, silenced, dropped>>
        BY <2>3 DEF startPolling, storeVars
      <3> QED
        BY <1>0, <3>1 DEF NewPoll, Client
    <2>4. CASE pollLoopYields
      <3>1. client' = [client EXCEPT !.state = "reconnecting"]
            /\ client.polledCursor = client.cursor
            /\ UNCHANGED <<log, since, emitted, silenced, dropped>>
        BY <2>4 DEF pollLoopYields, storeVars
      <3> QED
        BY <1>0, <3>1 DEF Client
    <2> QED
      BY <2>1, <2>2, <2>3, <2>4
  <1>2. CursorInv'
    BY <1>0, <1>1 DEF CursorInv
  <1>3. client.cursor \in Nat /\ client.cursor <= Len(log)
        /\ \A e \in Range(log) : e.id \in Nat \ {0}
    BY <1>0, Types, EventsLogged DEF CursorInv
  <1>4. ASSUME client.firstPollComplete, NEW e \in Range(log), e.kind = "wanted",
               e.id \in Range(client.polledEventOrder)
        PROVE  Settled(e)' \/ (since >= 0 /\ e.id <= since)
    <2>1. \/ Settled(e)
          \/ since >= 0 /\ e.id <= since
          \/ client.state = "polling" /\ e \in Range(client.pending)
      BY <1>0, <1>4 DEF PollInv
    <2>2. ~(client.state = "polling" /\ e \in Range(client.pending))
      <3>1. client.state = "polling" => client.pending = <<>>
        BY <1>0, <1>1 DEF PollInv
      <3> QED
        BY <3>1 DEF Range
    <2>3. Settled(e) => Settled(e)'
      BY <1>1 DEF Settled, Emitted
    <2> QED
      BY <2>1, <2>2, <2>3
  <1>5. \A e \in Range(log) : ~(client.cursor < e.id /\ e.id <= client.cursor)
    BY <1>3
  <1>6. ~client'.firstPollComplete => client'.pending = <<>>
    BY <1>0, <1>1 DEF PollInv
  <1>7. PollInv'
    BY <1>1, <1>3, <1>4, <1>5, <1>6 DEF PollInv
  <1> QED
    BY <1>2, <1>7

(* handleSocketMessage moves the cursor to the first event on the wire.     *)
LEMMA CursorReceives ==
    ASSUME FlowInv, [SyncNext]_syncVars, handleSocketMessage
    PROVE  CursorInv' /\ PollInv'
  <1>0. TypeInv /\ LogInv /\ PollInv /\ CursorInv /\ FeedInv /\ client \in Client
    BY Types DEF FlowInv
  <1>1. /\ wire # <<>> /\ log' = log /\ client.state = "open"
        /\ client' = [client EXCEPT !.cursor = Head(wire).id]
        /\ since' = IF since = -1 /\ Head(wire).id # NoCursor THEN Head(wire).id ELSE since
    BY DEF handleSocketMessage, storeVars, SetCursor
  <1>2. /\ client'.cursor = Head(wire).id /\ client'.state = "open"
        /\ client'.polledEventOrder = client.polledEventOrder /\ client'.pending = client.pending
        /\ client'.firstPollComplete = client.firstPollComplete
    BY <1>0, <1>1 DEF Client
  <1>3. wire \in Seq(Event) /\ Head(wire) = wire[1] /\ 1 \in DOMAIN wire
    BY <1>0, <1>1, Types, Shifted
  <1>4. Head(wire).id \in 1..Len(log) /\ Len(log) \in Nat
    BY <1>0, <1>3, Types DEF FeedInv, Logged
  <1>5. since \in Nat \cup {-1} /\ (since = -1 <=> client.cursor = 0)
    BY <1>0, Types DEF CursorInv
  <1>6. since' # -1 /\ (since >= 0 => since' = since)
    BY <1>1, <1>4, <1>5 DEF NoCursor
  <1>7. CursorInv'
    BY <1>0, <1>1, <1>2, <1>4, <1>6 DEF CursorInv
  <1>8. \A e : Settled(e) => Settled(e)'
    BY <1>0, SettledStays
  <1>9. PollInv'
    BY <1>0, <1>1, <1>2, <1>6, <1>8 DEF PollInv
  <1> QED
    BY <1>7, <1>9

(* Every step preserves the client's part.                                  *)
LEMMA CursorStep ==
    ASSUME CleanStops, FlowInv, [SyncNext]_syncVars
    PROVE  CursorInv' /\ PollInv'
  <1>1. CASE UNCHANGED clientVars
    BY <1>1, CursorSame DEF clientVars
  <1>2. CASE ClientNext
    BY <1>2, CursorMoves, CursorReceives, PollPolls, PollLetsGo DEF ClientNext
  <1> QED
    BY <1>1, <1>2 DEF SyncNext, syncVars

-----------------------------------------------------------------------------
(* What is owed is on its way: the wire, the catch-up and the subscription  *)
(* as one queue *)

(* Of three sequences, one after the other.                                 *)
InTurn(p, s, t, u) ==
    /\ Len(p) = Len(s) + Len(t) + Len(u)
    /\ Len(p) \in Nat /\ Len(s) \in Nat /\ Len(t) \in Nat /\ Len(u) \in Nat
    /\ \A i \in 1..Len(s) : p[i] = s[i] /\ i \in 1..Len(p)
    /\ \A i \in 1..Len(t) : p[Len(s) + i] = t[i] /\ Len(s) + i \in 1..Len(p)
    /\ \A i \in 1..Len(u) : p[(Len(s) + Len(t)) + i] = u[i]
                            /\ (Len(s) + Len(t)) + i \in 1..Len(p)
    /\ \A i \in 1..Len(p) :
         \/ i \in 1..Len(s)
         \/ i > Len(s) /\ i - Len(s) \in 1..Len(t)
         \/ i > Len(s) + Len(t) /\ i - (Len(s) + Len(t)) \in 1..Len(u)

(* Concatenation puts three sequences one after the other.                  *)
LEMMA ThreeJoined ==
    ASSUME NEW X, NEW s \in Seq(X), NEW t \in Seq(X), NEW u \in Seq(X)
    PROVE  (s \o t) \o u \in Seq(X) /\ InTurn((s \o t) \o u, s, t, u)
  <1> DEFINE q == s \o t
  <1>1. Len(s) \in Nat /\ Len(t) \in Nat /\ Len(u) \in Nat
    OBVIOUS
  <1>2. /\ q \in Seq(X) /\ Len(q) = Len(s) + Len(t)
        /\ \A i \in 1..Len(q) : q[i] = IF i <= Len(s) THEN s[i] ELSE t[i - Len(s)]
    OBVIOUS
  <1>20. q \in Seq(X)
    BY <1>2
  <1> HIDE DEF q
  <1> DEFINE p == q \o u
  <1>3. /\ p \in Seq(X) /\ Len(p) = Len(q) + Len(u)
        /\ \A i \in 1..Len(p) : p[i] = IF i <= Len(q) THEN q[i] ELSE u[i - Len(q)]
    BY <1>20
  <1> HIDE DEF p
  <1>4. Len(p) = Len(s) + Len(t) + Len(u) /\ Len(p) \in Nat /\ Len(q) \in Nat
    BY <1>1, <1>2, <1>3
  <1>5. ASSUME NEW i \in 1..Len(s) PROVE p[i] = s[i] /\ i \in 1..Len(p)
    BY <1>1, <1>2, <1>3, <1>4
  <1>6. ASSUME NEW i \in 1..Len(t) PROVE p[Len(s) + i] = t[i] /\ Len(s) + i \in 1..Len(p)
    <2>1. /\ Len(s) + i \in 1..Len(p) /\ Len(s) + i \in 1..Len(q) /\ Len(s) + i <= Len(q)
          /\ ~(Len(s) + i <= Len(s)) /\ (Len(s) + i) - Len(s) = i
      BY <1>1, <1>2, <1>4
    <2> QED
      BY <1>2, <1>3, <2>1
  <1>7. ASSUME NEW i \in 1..Len(u)
        PROVE  p[(Len(s) + Len(t)) + i] = u[i] /\ (Len(s) + Len(t)) + i \in 1..Len(p)
    <2>1. /\ Len(q) + i \in 1..Len(p) /\ ~(Len(q) + i <= Len(q)) /\ (Len(q) + i) - Len(q) = i
      BY <1>1, <1>2, <1>3, <1>4
    <2> QED
      BY <1>2, <1>3, <2>1
  <1>8. ASSUME NEW i \in 1..Len(p)
        PROVE  \/ i \in 1..Len(s)
               \/ i > Len(s) /\ i - Len(s) \in 1..Len(t)
               \/ i > Len(s) + Len(t) /\ i - (Len(s) + Len(t)) \in 1..Len(u)
    BY <1>1, <1>4
  <1> QED
    <2>1. p \in Seq(X) /\ InTurn(p, s, t, u)
      BY <1>1, <1>3, <1>4, <1>5, <1>6, <1>7, <1>8 DEF InTurn
    <2> QED
      BY <2>1 DEF p, q

(* What is passed on from the second to the first leaves the whole as it is.*)
LEMMA PassedOn ==
    ASSUME NEW X, NEW s \in Seq(X), NEW t \in Seq(X), t # <<>>
    PROVE  Append(s, Head(t)) \o Tail(t) = s \o t
  <1>1. /\ Tail(t) \in Seq(X) /\ Len(t) \in Nat \ {0} /\ Len(Tail(t)) = Len(t) - 1
        /\ Head(t) = t[1] /\ Head(t) \in X
        /\ \A i \in 1..(Len(t) - 1) : Tail(t)[i] = t[i + 1]
    OBVIOUS
  <1> DEFINE a == Append(s, Head(t))
             r == Tail(t)
  <1>2. /\ a \in Seq(X) /\ Len(a) = Len(s) + 1 /\ Len(s) \in Nat /\ a[Len(s) + 1] = t[1]
        /\ \A i \in 1..Len(s) : a[i] = s[i]
    BY <1>1
  <1> HIDE DEF a
  <1>3. /\ r \in Seq(X) /\ Len(r) = Len(t) - 1 /\ \A i \in 1..(Len(t) - 1) : r[i] = t[i + 1]
    BY <1>1
  <1> HIDE DEF r
  <1>4. /\ a \o r \in Seq(X) /\ Len(a \o r) = Len(a) + Len(r)
        /\ \A i \in 1..Len(a \o r) : (a \o r)[i] = IF i <= Len(a) THEN a[i] ELSE r[i - Len(a)]
    <2>1. a \in Seq(X) /\ r \in Seq(X)
      BY <1>2, <1>3
    <2> QED
      BY <2>1
  <1>5. /\ s \o t \in Seq(X) /\ Len(s \o t) = Len(s) + Len(t)
        /\ \A i \in 1..Len(s \o t) : (s \o t)[i] = IF i <= Len(s) THEN s[i] ELSE t[i - Len(s)]
    OBVIOUS
  <1>6. Len(a \o r) = Len(s \o t) /\ Len(s \o t) \in Nat
    BY <1>1, <1>2, <1>3, <1>4, <1>5
  <1>7. ASSUME NEW i \in 1..Len(s \o t) PROVE (a \o r)[i] = (s \o t)[i]
    <2>1. CASE i <= Len(s)
      <3>1. i \in 1..Len(s) /\ i <= Len(a)
        BY <1>2, <2>1
      <3> QED
        BY <1>2, <1>4, <1>5, <1>6, <2>1, <3>1
    <2>2. CASE i = Len(s) + 1
      <3>1. i <= Len(a) /\ ~(i <= Len(s)) /\ i - Len(s) = 1
        BY <1>2, <2>2
      <3> QED
        BY <1>2, <1>4, <1>5, <1>6, <2>2, <3>1
    <2>3. CASE i > Len(s) + 1
      <3>1. ~(i <= Len(a)) /\ ~(i <= Len(s)) /\ i - Len(a) \in 1..(Len(t) - 1)
            /\ (i - Len(a)) + 1 = i - Len(s)
        BY <1>1, <1>2, <1>5, <2>3
      <3> QED
        BY <1>3, <1>4, <1>5, <1>6, <3>1
    <2> QED
      BY <1>2, <1>6, <2>1, <2>2, <2>3
  <1> QED
    BY <1>4, <1>5, <1>6, <1>7 DEF a, r

(* One at a place is taken out of a sequence.                               *)
TakenOut(p, q, m, x) ==
    /\ Len(p) \in Nat /\ Len(q) = Len(p) - 1 /\ m \in 1..Len(p) /\ p[m] = x
    /\ \A i \in 1..Len(q) : i < m => q[i] = p[i]
    /\ \A i \in 1..Len(q) : i >= m => q[i] = p[i + 1]

(* What the second sequence begins with is taken out of the whole.          *)
LEMMA MiddleShortened ==
    ASSUME NEW X, NEW s \in Seq(X), NEW t \in Seq(X), NEW u \in Seq(X), t # <<>>
    PROVE  TakenOut((s \o t) \o u, (s \o Tail(t)) \o u, Len(s) + 1, t[1])
  <1> DEFINE r == Tail(t)
             p == (s \o t) \o u
             q == (s \o r) \o u
  <1>1. /\ r \in Seq(X) /\ Len(t) \in Nat \ {0} /\ Len(r) = Len(t) - 1
        /\ \A i \in 1..Len(r) : r[i] = t[i + 1] /\ i + 1 \in 1..Len(t)
    <2>1. DOMAIN Tail(t) = 1..Len(Tail(t)) /\ DOMAIN t = 1..Len(t)
      BY Shifted
    <2> QED
      BY <2>1, Shifted
  <1> HIDE DEF r
  <1>2. /\ Len(p) = Len(s) + Len(t) + Len(u)
        /\ Len(p) \in Nat /\ Len(s) \in Nat /\ Len(u) \in Nat
        /\ \A i \in 1..Len(s) : p[i] = s[i]
        /\ \A i \in 1..Len(t) : p[Len(s) + i] = t[i]
        /\ \A i \in 1..Len(u) : p[(Len(s) + Len(t)) + i] = u[i]
    <2>1. InTurn(p, s, t, u)
      BY ThreeJoined
    <2> HIDE DEF p
    <2> QED
      BY <2>1 DEF InTurn
  <1>3. /\ Len(q) = Len(s) + Len(r) + Len(u)
        /\ \A i \in 1..Len(s) : q[i] = s[i]
        /\ \A i \in 1..Len(r) : q[Len(s) + i] = r[i]
        /\ \A i \in 1..Len(u) : q[(Len(s) + Len(r)) + i] = u[i]
    <2>1. InTurn(q, s, r, u)
      BY <1>1, ThreeJoined
    <2> HIDE DEF q
    <2> QED
      BY <2>1 DEF InTurn
  <1> HIDE DEF p, q
  <1>4. Len(q) = Len(p) - 1 /\ Len(s) + 1 \in 1..Len(p)
    BY <1>1, <1>2, <1>3
  <1>5. p[Len(s) + 1] = t[1]
    BY <1>1, <1>2
  <1>6. ASSUME NEW i \in 1..Len(q), i < Len(s) + 1 PROVE q[i] = p[i]
    <2>1. i \in 1..Len(s)
      BY <1>2, <1>6
    <2> QED
      BY <1>2, <1>3, <2>1
  <1>7. ASSUME NEW i \in 1..Len(q), i >= Len(s) + 1 PROVE q[i] = p[i + 1]
    <2>1. CASE i <= Len(s) + Len(r)
      <3>1. /\ i - Len(s) \in 1..Len(r) /\ (i - Len(s)) + 1 \in 1..Len(t)
            /\ Len(s) + (i - Len(s)) = i /\ Len(s) + ((i - Len(s)) + 1) = i + 1
        BY <1>1, <1>2, <1>7, <2>1
      <3> DEFINE j == i - Len(s)
      <3>2. q[Len(s) + j] = r[j] /\ r[j] = t[j + 1] /\ p[Len(s) + (j + 1)] = t[j + 1]
        BY <1>1, <1>2, <1>3, <3>1
      <3> QED
        BY <3>1, <3>2
    <2>2. CASE i > Len(s) + Len(r)
      <3>1. /\ i - (Len(s) + Len(r)) \in 1..Len(u)
            /\ (Len(s) + Len(r)) + (i - (Len(s) + Len(r))) = i
            /\ (Len(s) + Len(t)) + (i - (Len(s) + Len(r))) = i + 1
        BY <1>1, <1>2, <1>3, <2>2
      <3> DEFINE j == i - (Len(s) + Len(r))
      <3>2. q[(Len(s) + Len(r)) + j] = u[j] /\ p[(Len(s) + Len(t)) + j] = u[j]
        BY <1>2, <1>3, <3>1
      <3> QED
        BY <3>1, <3>2
    <2> QED
      BY <1>1, <1>2, <2>1, <2>2
  <1> QED
    <2>1. TakenOut(p, q, Len(s) + 1, t[1])
      BY <1>2, <1>4, <1>5, <1>6, <1>7 DEF TakenOut
    <2> QED
      BY <2>1 DEF p, q, r

(* The places of what is on its way.                                        *)
LEMMA PipeIs ==
    ASSUME TypeInv
    PROVE  /\ Pipe \in Seq(Event) /\ Len(Pipe) = Direct + Len(Live) /\ Len(Pipe) \in Nat
           /\ Direct = Len(wire) + Len(handler.catchUp) /\ Direct \in Nat
           /\ Live \in Seq(Event) /\ Len(Live) \in Nat /\ Coming \subseteq 1..Len(Pipe)
           /\ \A i \in 1..Len(wire) : Pipe[i] = wire[i] /\ i \in 1..Len(Pipe)
           /\ \A i \in 1..Len(handler.catchUp) :
                Pipe[Len(wire) + i] = handler.catchUp[i] /\ Len(wire) + i \in 1..Len(Pipe)
           /\ \A i \in 1..Len(Live) : Pipe[Direct + i] = Live[i] /\ Direct + i \in 1..Len(Pipe)
           /\ \A i \in 1..Len(Pipe) :
                \/ i \in 1..Len(wire)
                \/ i > Len(wire) /\ i - Len(wire) \in 1..Len(handler.catchUp)
                \/ i > Direct /\ i - Direct \in 1..Len(Live)
  <1>1. wire \in Seq(Event) /\ handler.catchUp \in Seq(Event) /\ sub.events \in Seq(Event)
    BY Types
  <1>2. Live \in Seq(Event)
    BY <1>1 DEF Live
  <1>3. Coming \subseteq 1..Len(Pipe)
    BY DEF Coming
  <1> QED
    <2>1. Pipe \in Seq(Event) /\ InTurn(Pipe, wire, handler.catchUp, Live)
      BY <1>1, <1>2, ThreeJoined DEF Pipe
    <2>2. Direct = Len(wire) + Len(handler.catchUp)
      BY DEF Direct
    <2>3. Direct \in Nat
      BY <2>1, <2>2 DEF InTurn
    <2> QED
      BY <1>2, <1>3, <2>1, <2>2, <2>3 DEF InTurn

(* What is on its way is in the log.                                        *)
LEMMA PipeLogged ==
    ASSUME TypeInv, FeedInv, NEW i \in 1..Len(Pipe)
    PROVE  Logged(Pipe[i])
  <1>0. DOMAIN wire = 1..Len(wire) /\ DOMAIN handler.catchUp = 1..Len(handler.catchUp)
        /\ DOMAIN sub.events = 1..Len(sub.events) /\ Len(<<>>) = 0
    BY Types
  <1>1. CASE i \in 1..Len(wire)
    BY <1>0, <1>1, PipeIs DEF FeedInv
  <1>2. CASE i > Len(wire) /\ i - Len(wire) \in 1..Len(handler.catchUp)
    <2>1. Len(wire) + (i - Len(wire)) = i
      BY PipeIs, Types
    <2>2. Pipe[i] = handler.catchUp[i - Len(wire)]
      BY <1>2, <2>1, PipeIs
    <2> QED
      BY <1>0, <1>2, <2>2 DEF FeedInv
  <1>3. CASE i > Direct /\ i - Direct \in 1..Len(Live)
    <2>1. Direct + (i - Direct) = i
      BY PipeIs
    <2>2. Pipe[i] = Live[i - Direct]
      BY <1>3, <2>1, PipeIs
    <2>3. Live = sub.events
      BY <1>0, <1>3 DEF Live
    <2> QED
      BY <1>0, <1>3, <2>2, <2>3 DEF FeedInv
  <1> QED
    BY <1>1, <1>2, <1>3, PipeIs

(* Everything is newer than nothing.                                        *)
LEMMA NoPipe ==
    ASSUME NEW e
    PROVE  ~Begun(e, <<>>, {}) /\ Later(e, <<>>, {})
  <1>1. Len(<<>>) = 0 /\ 1 \in 1..(Len(<<>>) + 1) /\ Turn(e, <<>>, {}, 1)
    BY DEF Turn
  <1> QED
    BY <1>1 DEF Begun, Later

(* What comes in its turn is newer than what comes before it.               *)
LEMMA ComesLater ==
    ASSUME NEW e, NEW P, NEW C, Len(P) \in Nat, Comes(e, P, C)
    PROVE  Later(e, P, C)
  <1>1. PICK k \in 1..Len(P) : Turn(e, P, C, k)
    BY DEF Comes
  <1>2. k \in 1..(Len(P) + 1)
    OBVIOUS
  <1> QED
    BY <1>1, <1>2 DEF Later

(* Steps that leave the log, the connection and the cursor alone.           *)
LEMMA DueSame ==
    ASSUME FlowInv, UNCHANGED <<log, wire, sub, handler, since, emitted, silenced>>,
           dropped \subseteq dropped', client'.cursor = client.cursor
    PROVE  DueInv'
  <1>1. Pipe' = Pipe /\ Coming' = Coming
    BY DEF Pipe, Coming, Live, Direct
  <1>2. \A e : Settled(e) => Settled(e)'
    BY DEF Settled, Emitted
  <1>3. \A e : Due(e)' => Due(e)
    BY <1>1, <1>2 DEF Due
  <1> QED
    BY <1>1, <1>3 DEF FlowInv, DueInv

(* A connection ends: what was on its way is after the client's cursor.     *)
LEMMA DueCloses ==
    ASSUME FlowInv, handler' = NoConn, sub' = NoSub, wire' = wire \/ wire' = <<>>,
           UNCHANGED <<log, since, emitted, silenced, dropped>>, client'.cursor = client.cursor
    PROVE  DueInv'
  <1>0. TypeInv /\ FeedInv /\ PagingInv /\ DueInv /\ since \in Nat \cup {-1}
    BY Types DEF FlowInv
  <1>1. wire \in Seq(Event) /\ wire' \in Seq(Event) /\ Len(wire') \in Nat /\ Len(wire) \in Nat
    <2>1. wire \in Seq(Event) /\ <<>> \in Seq(Event)
      BY <1>0, Types
    <2>2. wire' \in Seq(Event)
      BY <2>1
    <2> QED
      BY <2>1, <2>2
  <1>2. Pipe' = wire' /\ Direct' = Len(wire')
    <2>1. handler'.catchUp = <<>> /\ Live' = <<>> /\ Len(<<>>) = 0
      BY DEF Live, NoConn, NoSub
    <2>2. wire' \o <<>> = wire'
      BY <1>1
    <2> QED
      BY <1>1, <2>1, <2>2 DEF Pipe, Direct
  <1>3. Coming' = {i \in 1..Len(wire') : wire'[i].kind = "wanted"}
    BY <1>1, <1>2 DEF Coming
  <1>4. ASSUME NEW e, TRUE
        PROVE  /\ handler.pc # "paging" /\ Later(e, Pipe, Coming) => Later(e, Pipe', Coming')
               /\ handler.pc = "paging" => Later(e, Pipe', Coming')
               /\ Begun(e, Pipe', Coming') => Begun(e, Pipe, Coming)
    <2>1. CASE wire' = <<>>
      <3>1. Pipe' = <<>> /\ Coming' = {}
        BY <1>2, <1>3, <2>1
      <3> QED
        BY <3>1, NoPipe
    <2>2. CASE wire' = wire /\ wire # <<>>
      <3>1. handler.pc # "paging"
        BY <1>0, <2>2 DEF PagingInv
      <3>2. /\ Len(Pipe) \in Nat /\ Len(wire) \in 0..Len(Pipe) /\ Coming \subseteq 1..Len(Pipe)
            /\ \A i \in 1..Len(wire) : Pipe[i] = wire[i] /\ i <= Direct /\ i \in 1..Len(Pipe)
        <4>1. /\ Len(Pipe) = Direct + Len(Live) /\ Direct = Len(wire) + Len(handler.catchUp)
              /\ Len(Live) \in Nat /\ Len(handler.catchUp) \in Nat
          BY <1>0, PipeIs, Types
        <4>2. Len(wire) <= Direct /\ Len(wire) <= Len(Pipe) /\ Direct \in Nat
          BY <1>1, <4>1
        <4>3. \A i \in 1..Len(wire) : i <= Direct
          BY <1>1, <4>2
        <4> QED
          BY <1>0, <1>1, <4>2, <4>3, PipeIs
      <3>3. \A i \in 1..Len(wire) : i \in Coming' <=> i \in Coming
        <4> TAKE i \in 1..Len(wire)
        <4>1. Pipe[i] = wire[i] /\ ~(i > Direct) /\ i \in 1..Len(Pipe)
          BY <1>0, <3>2, PipeIs
        <4> QED
          BY <1>3, <2>2, <4>1 DEF Coming
      <3>4. Coming' \subseteq 1..Len(wire)
        BY <1>3, <2>2
      <3>5. /\ Later(e, Pipe, Coming) => Later(e, wire, Coming')
            /\ Begun(e, wire, Coming') => Begun(e, Pipe, Coming)
        BY <3>2, <3>3, <3>4, CutShort
      <3> QED
        BY <1>2, <2>2, <3>1, <3>5
    <2> QED
      BY <2>1, <2>2
  <1>5. \A e : Due(e)' => Due(e)
    BY <1>4 DEF Due, Settled, Emitted
  <1>6. handler'.pc = "closed"
    BY DEF NoConn
  <1> QED
    BY <1>0, <1>4, <1>5, <1>6 DEF DueInv

(* openWebSocket: the handler begins to page at the client's cursor.        *)
LEMMA DueOpens ==
    ASSUME FlowInv, openWebSocket
    PROVE  DueInv'
  <1>0. TypeInv /\ DueInv /\ CursorInv /\ client \in Client /\ since \in Nat \cup {-1}
    BY Types DEF FlowInv
  <1>1. /\ sub' = [NoSub EXCEPT !.on = TRUE] /\ wire = <<>>
        /\ \/ client.cursor = NoCursor /\ handler' = [NoConn EXCEPT !.pc = "sending"]
           \/ handler' = [NoConn EXCEPT !.pc = "paging", !.cursor = client.cursor]
        /\ client' = [client EXCEPT !.state = "open"]
        /\ UNCHANGED <<log, wire, since, emitted, silenced, dropped>>
    BY DEF openWebSocket, Accept, storeVars
  <1>2. client'.cursor = client.cursor
    BY <1>0, <1>1 DEF Client
  <1>3. /\ sub'.events = <<>> /\ handler'.catchUp = <<>>
        /\ \/ client.cursor = 0 /\ handler'.pc = "sending"
           \/ handler'.pc = "paging"
    BY <1>1 DEF NoSub, NoConn, NoCursor
  <1>4. Pipe' = <<>> /\ Coming' = {}
    <2>1. Pipe' = <<>>
      BY <1>1, <1>3 DEF Pipe, Live
    <2>2. Len(<<>>) = 0 /\ 1..0 = {}
      OBVIOUS
    <2> QED
      BY <2>1, <2>2 DEF Coming
  <1>5. ASSUME NEW e, Due(e)' PROVE Due(e) /\ since >= 0
    <2>1. ~Begun(e, Pipe', Coming')
      BY <1>4, NoPipe
    <2> QED
      BY <1>0, <1>1, <1>5, <2>1 DEF Due, Settled, Emitted
  <1>6. since >= 0 => client.cursor # 0
    BY <1>0 DEF CursorInv
  <1> QED
    BY <1>0, <1>1, <1>2, <1>3, <1>5, <1>6 DEF DueInv

(* A publication: the new event comes last, and the subscription takes it or *)
(* overflows for good.                                                      *)
LEMMA DueAppends ==
    ASSUME CleanStops, FlowInv, NEW k \in Kinds, appendWorkspaceEvent(k), UNCHANGED clientVars,
           [SyncNext]_syncVars
    PROVE  DueInv'
  <1>0. TypeInv /\ LogInv /\ FeedInv /\ PagingInv /\ DueInv /\ CursorInv /\ since \in Nat \cup {-1}
        /\ client.cursor \in Nat /\ Len(log) \in Nat /\ log \in Seq(Event)
    BY Types DEF FlowInv
  <1>1. PICK x : /\ log' = Append(log, x) /\ sub' = publishEvent(x)
                 /\ UNCHANGED <<handler, wire, client, since, emitted, silenced, dropped>>
                 /\ x.id = Len(log) + 1
    BY DEF appendWorkspaceEvent, clientVars
  <1>2. ASSUME NEW e \in Range(log'), e # x PROVE e \in Range(log) /\ e.id <= Len(log)
    <2>1. Len(log') = Len(log) + 1 /\ log'[Len(log) + 1] = x /\ \A i \in 1..Len(log) : log'[i] = log[i]
          /\ DOMAIN log' = 1..(Len(log) + 1) /\ DOMAIN log = 1..Len(log)
      <3>1. log' \in Seq(Event)
        BY <1>0, TypeStep DEF TypeInv, SyncTypeOK, FeedTypeOK
      <3> QED
        BY <1>0, <1>1, <3>1
    <2>2. e \in Range(log)
      BY <1>0, <1>2, <2>1 DEF Range
    <2> QED
      BY <1>0, <2>2, EventsLogged
  <1>3. \A i \in 1..Len(Pipe) : Pipe[i].id < x.id
    <2> TAKE i \in 1..Len(Pipe)
    <2>1. Pipe[i].id \in 1..Len(log)
      BY <1>0, PipeLogged, Types DEF Logged
    <2> QED
      BY <1>0, <1>1, <2>1
  <1>4. Len(Pipe) \in Nat /\ Coming \subseteq 1..Len(Pipe)
    BY <1>0, PipeIs
  <1>5. Later(x, Pipe, Coming)
    <2>1. Len(Pipe) + 1 \in 1..(Len(Pipe) + 1) /\ Turn(x, Pipe, Coming, Len(Pipe) + 1)
      BY <1>3, <1>4 DEF Turn
    <2> QED
      BY <2>1 DEF Later
  <1>6. client.cursor < x.id
    BY <1>0, <1>1 DEF CursorInv
  <1>7. \A e : Settled(e)' <=> Settled(e)
    BY <1>1 DEF Settled, Emitted
  <1>8. /\ sub \in [on : BOOLEAN, events : Seq(Event), overflowed : BOOLEAN, signal : BOOLEAN]
        /\ sub.events \in Seq(Event) /\ Len(sub.events) \in Nat
    BY <1>0, Types
  <1>9. CASE handler.pc = "paging" \/ (sub'.events = sub.events /\ (sub'.overflowed \/ handler.pc = "closed"))
    <2>1. Pipe' = Pipe /\ Coming' = Coming
      BY <1>1, <1>9 DEF Pipe, Coming, Live, Direct
    <2>2. \A e : Due(e)' <=> Due(e)
      BY <1>1, <1>7, <2>1 DEF Due
    <2>3. sub.overflowed => sub'.overflowed
      BY <1>1, <1>8 DEF publishEvent
    <2>4. ASSUME NEW e \in Range(log'), Due(e)'
          PROVE  /\ client.cursor < e.id
                 /\ handler.pc # "paging" => Later(e, Pipe, Coming)
      <3>1. CASE e = x
        BY <1>5, <1>6, <3>1
      <3>2. CASE e # x
        BY <1>0, <1>2, <2>2, <2>4, <3>2 DEF DueInv
      <3> QED
        BY <3>1, <3>2
    <2>5. handler.pc \in {"paging", "closed"} \/ sub'.overflowed
      BY <1>9
    <2> QED
      BY <1>1, <2>1, <2>4, <2>5 DEF DueInv
  <1>10. CASE /\ handler.pc # "paging" /\ ~sub.overflowed /\ ~sub'.overflowed
              /\ sub'.events = Append(sub.events, x)
    <2>1. /\ Live = sub.events /\ Live' = Append(sub.events, x)
      BY <1>1, <1>10 DEF Live
    <2>2. x \in Event
      <3>1. log' \in Seq(Event) /\ Len(log') = Len(log) + 1 /\ log'[Len(log) + 1] = x
        BY <1>0, <1>1, TypeStep DEF TypeInv, SyncTypeOK, FeedTypeOK
      <3> QED
        BY <1>0, <3>1
    <2>3. /\ Len(Live') = Len(Live) + 1 /\ Live'[Len(Live) + 1] = x
          /\ \A i \in 1..Len(Live) : Live'[i] = Live[i]
      BY <1>8, <2>1, <2>2
    <2>4. TypeInv'
      BY <1>0, TypeStep
    <2>5. Direct' = Direct
      BY <1>1 DEF Direct
    <2>6. /\ Len(Pipe') = Direct + (Len(Live) + 1) /\ Direct \in Nat /\ Len(Live) \in Nat
          /\ Len(Pipe) = Direct + Len(Live)
          /\ \A i \in 1..Len(wire) : Pipe'[i] = wire[i] /\ Pipe[i] = wire[i]
          /\ \A i \in 1..Len(handler.catchUp) :
                Pipe'[Len(wire) + i] = handler.catchUp[i] /\ Pipe[Len(wire) + i] = handler.catchUp[i]
          /\ \A i \in 1..(Len(Live) + 1) : Pipe'[Direct + i] = Live'[i]
          /\ \A i \in 1..Len(Live) : Pipe[Direct + i] = Live[i]
          /\ Coming' \subseteq 1..Len(Pipe')
      <3>1. InTurn(Pipe, wire, handler.catchUp, Live)
        BY <1>0, Types, ThreeJoined, <2>1 DEF Pipe
      <3>2. InTurn(Pipe', wire, handler.catchUp, Live')
        <4>1. /\ wire \in Seq(Event) /\ handler.catchUp \in Seq(Event)
              /\ Append(sub.events, x) \in Seq(Event)
          BY <1>0, <2>2, Types
        <4>2. Pipe' = (wire \o handler.catchUp) \o Append(sub.events, x)
          BY <1>1, <2>1 DEF Pipe
        <4> QED
          BY <2>1, <4>1, <4>2, ThreeJoined
      <3>3. Direct = Len(wire) + Len(handler.catchUp) /\ Direct \in Nat
        BY <3>1 DEF Direct, InTurn
      <3>4. /\ Len(Pipe') = Direct + (Len(Live) + 1)
            /\ \A i \in 1..Len(wire) : Pipe'[i] = wire[i]
            /\ \A i \in 1..Len(handler.catchUp) : Pipe'[Len(wire) + i] = handler.catchUp[i]
            /\ \A i \in 1..(Len(Live) + 1) : Pipe'[Direct + i] = Live'[i]
        BY <2>3, <3>2, <3>3 DEF InTurn
      <3>5. /\ Len(Pipe) = Direct + Len(Live) /\ Len(Live) \in Nat
            /\ \A i \in 1..Len(wire) : Pipe[i] = wire[i]
            /\ \A i \in 1..Len(handler.catchUp) : Pipe[Len(wire) + i] = handler.catchUp[i]
            /\ \A i \in 1..Len(Live) : Pipe[Direct + i] = Live[i]
        BY <3>1, <3>3 DEF InTurn
      <3>6. Coming' \subseteq 1..Len(Pipe')
        BY DEF Coming
      <3> QED
        BY <3>3, <3>4, <3>5, <3>6
    <2>7. Len(Pipe') = Len(Pipe) + 1 /\ Pipe'[Len(Pipe')] = x
      <3>1. Len(Live) + 1 \in 1..(Len(Live) + 1) /\ Direct + (Len(Live) + 1) = Len(Pipe')
        BY <2>6
      <3> QED
        BY <2>3, <2>6, <3>1
    <2>8. ASSUME NEW i \in 1..Len(Pipe)
          PROVE  Pipe'[i] = Pipe[i] /\ (i \in Coming' <=> i \in Coming)
      <3>1. Pipe'[i] = Pipe[i]
        <4>1. CASE i \in 1..Len(wire)
          BY <2>6, <4>1
        <4>2. CASE i > Len(wire) /\ i - Len(wire) \in 1..Len(handler.catchUp)
          <5>1. Len(wire) + (i - Len(wire)) = i
            BY <1>0, Types
          <5> DEFINE j == i - Len(wire)
          <5>2. /\ Pipe'[Len(wire) + j] = handler.catchUp[j]
                /\ Pipe[Len(wire) + j] = handler.catchUp[j]
            BY <2>6, <4>2
          <5> QED
            BY <5>1, <5>2
        <4>3. CASE i > Direct /\ i - Direct \in 1..Len(Live)
          <5>1. Direct + (i - Direct) = i /\ i - Direct \in 1..(Len(Live) + 1)
            BY <2>6, <4>3
          <5> DEFINE j == i - Direct
          <5>2. Pipe'[Direct + j] = Live'[j] /\ Live'[j] = Live[j] /\ Pipe[Direct + j] = Live[j]
            BY <2>3, <2>6, <4>3, <5>1
          <5> QED
            BY <5>1, <5>2
        <4> QED
          BY <1>0, <4>1, <4>2, <4>3, PipeIs
      <3>2. i \in 1..Len(Pipe')
        BY <1>4, <2>7
      <3> QED
        BY <1>1, <2>5, <3>1, <3>2 DEF Coming
    <2>9. x.id \notin handler.ids
      BY <1>0, <1>1, Types DEF FeedInv
    <2>10. x.kind = "wanted" => Len(Pipe') \in Coming'
      <3>1. Len(Pipe') \in 1..Len(Pipe')
        BY <1>4, <2>7
      <3> QED
        BY <1>1, <2>7, <2>9, <3>1 DEF Coming
    <2>11. /\ \A e : Comes(e, Pipe, Coming) => Comes(e, Pipe', Coming')
           /\ \A e : Begun(e, Pipe', Coming') =>
                Begun(e, Pipe, Coming) \/ (Nothing(Coming) /\ Len(Pipe') \in Coming' /\ x.id <= e.id)
           /\ Len(Pipe') \in Coming' /\ (\A i \in 1..Len(Pipe) : Pipe[i].id < x.id)
                => Comes(x, Pipe', Coming')
      BY <1>4, <2>6, <2>7, <2>8, Appended
    <2>12. ASSUME NEW e \in Range(log'), Due(e)'
           PROVE  /\ client.cursor < e.id
                  /\ handler.pc # "closed" => Comes(e, Pipe', Coming')
                  /\ handler.pc = "closed" => e = x \/ Later(e, Pipe, Coming)
      <3>1. CASE e = x
        <4>1. x.kind = "wanted"
          BY <2>12, <3>1 DEF Due
        <4> QED
          BY <1>3, <1>6, <2>10, <2>11, <3>1, <4>1
      <3>2. CASE e # x
        <4>1. e \in Range(log) /\ e.id <= Len(log) /\ e.id \in Nat
          BY <1>0, <1>2, <3>2, EventsLogged
        <4>2. ~(x.id <= e.id)
          BY <1>0, <1>1, <4>1
        <4>3. Due(e)
          BY <1>1, <1>7, <2>11, <2>12, <4>2 DEF Due
        <4> QED
          BY <1>0, <1>10, <2>11, <4>1, <4>3 DEF DueInv
      <3> QED
        BY <3>1, <3>2
    <2>13. handler.pc # "closed"
      <3>1. sub.events # sub'.events
        BY <1>8, <1>10, <2>2
      <3>2. ~sub.on => sub' = sub
        BY <1>1 DEF publishEvent
      <3> QED
        BY <1>0, <3>1, <3>2 DEF FeedInv, NoSub
    <2>14. Len(Pipe') \in Nat
      BY <1>4, <2>7
    <2> QED
      BY <1>1, <2>12, <2>13, <2>14, ComesLater DEF DueInv
  <1>11. \/ sub' = sub /\ (~sub.on \/ sub.overflowed)
         \/ sub'.events = Append(sub.events, x) /\ sub'.overflowed = sub.overflowed /\ ~sub.overflowed
         \/ sub'.events = sub.events /\ sub'.overflowed
    BY <1>1, <1>8 DEF publishEvent
  <1>12. ~sub.on => handler.pc = "closed"
    BY <1>0 DEF FeedInv
  <1> QED
    BY <1>9, <1>10, <1>11, <1>12

(* When what comes stays the same, so does what is owed.                    *)
LEMMA DueFollows ==
    ASSUME FlowInv, UNCHANGED <<log, client, since, emitted, silenced, dropped>>,
           handler.pc \in {"sending", "live"}, handler'.pc \in {"sending", "live"},
           sub'.overflowed = sub.overflowed,
           \A e : /\ Later(e, Pipe, Coming) => Later(e, Pipe', Coming')
                  /\ Comes(e, Pipe, Coming) => Comes(e, Pipe', Coming')
                  /\ Begun(e, Pipe', Coming') => Begun(e, Pipe, Coming)
    PROVE  DueInv'
  <1>1. \A e : Due(e)' => Due(e)
    BY DEF Due, Settled, Emitted
  <1> QED
    BY <1>1 DEF FlowInv, DueInv

(* SendCatchUp puts the first event of the catch-up on the wire,            *)
(* or leaves it out.                                                        *)
LEMMA DueSendsCatchUp ==
    ASSUME FlowInv, SendCatchUp, UNCHANGED clientVars
    PROVE  DueInv'
  <1>0. TypeInv /\ FeedInv
    BY DEF FlowInv
  <1>1. /\ wire \in Seq(Event) /\ handler.catchUp \in Seq(Event) /\ Len(wire) \in Nat
        /\ handler \in [pc : {"closed", "paging", "sending", "live"},
                    cursor : Cursors, catchUp : Seq(Event), ids : SUBSET (1..MaxSerial)]
        /\ sub.events \in Seq(Event) /\ Len(handler.catchUp) \in Nat
    BY <1>0, Types
  <1>2. /\ UNCHANGED <<log, sub, client, since, emitted, silenced, dropped>> /\ handler.pc = "sending"
    BY DEF SendCatchUp, storeVars, clientVars
  <1>3. CASE handler.catchUp = <<>>
    <2>1. handler' = [handler EXCEPT !.pc = "live"] /\ UNCHANGED wire
      BY <1>3 DEF SendCatchUp
    <2>2. handler'.pc = "live" /\ handler'.catchUp = handler.catchUp /\ handler'.ids = handler.ids
      BY <1>1, <2>1
    <2>3. Pipe' = Pipe /\ Coming' = Coming
      BY <1>2, <2>1, <2>2 DEF Pipe, Coming, Live, Direct
    <2> QED
      BY <1>2, <2>2, <2>3, DueFollows
  <1>4. CASE handler.catchUp # <<>>
    <2> DEFINE h == Head(handler.catchUp)
               r == Tail(handler.catchUp)
    <2>1. /\ handler' = [handler EXCEPT !.catchUp = Tail(@)] /\ writeWebSocketEvent(h)
      BY <1>4 DEF SendCatchUp
    <2>2. /\ handler'.pc = "sending" /\ handler'.catchUp = r /\ handler'.ids = handler.ids
          /\ Live' = Live /\ Live = sub.events
      BY <1>1, <1>2, <2>1 DEF Live
    <2>3. /\ h \in Event /\ r \in Seq(Event) /\ Len(r) = Len(handler.catchUp) - 1
          /\ h = handler.catchUp[1]
      BY <1>1, <1>4, Shifted
    <2>4. CASE wire' = Append(wire, h)
      <3>1. Len(wire') = Len(wire) + 1
        BY <1>1, <2>3, <2>4
      <3>2. wire' \o r = wire \o handler.catchUp
        BY <1>1, <1>4, <2>4, PassedOn
      <3>3. Pipe' = Pipe
        BY <2>2, <3>2 DEF Pipe
      <3>4. Direct' = Direct
        BY <1>1, <2>2, <2>3, <3>1 DEF Direct
      <3>5. Coming' = Coming
        BY <2>2, <3>3, <3>4 DEF Coming
      <3> QED
        BY <1>2, <2>2, <3>3, <3>5, DueFollows
    <2>5. CASE wire' = wire /\ h.kind # "wanted"
      <3> DEFINE m == Len(wire) + 1
      <3>1. Pipe' = (wire \o r) \o sub.events /\ Pipe = (wire \o handler.catchUp) \o sub.events
        BY <2>2, <2>5 DEF Pipe
      <3>2. /\ Len(Pipe) \in Nat /\ Len(Pipe') = Len(Pipe) - 1 /\ m \in 1..Len(Pipe)
            /\ Pipe[m] = h
            /\ \A i \in 1..Len(Pipe') : i < m => Pipe'[i] = Pipe[i]
            /\ \A i \in 1..Len(Pipe') : i >= m => Pipe'[i] = Pipe[i + 1]
        <4>1. TakenOut(Pipe, Pipe', m, handler.catchUp[1])
          BY <1>1, <1>4, <3>1, MiddleShortened
        <4> QED
          BY <2>3, <4>1 DEF TakenOut
      <3>3. /\ Direct' = Direct - 1 /\ Direct \in Nat /\ Direct >= m
        <4>1. Len(handler.catchUp) >= 1
          BY <1>1, <1>4
        <4> QED
          BY <1>1, <2>2, <2>3, <2>5, <4>1 DEF Direct
      <3>4. Coming \subseteq 1..Len(Pipe) /\ Coming' \subseteq 1..Len(Pipe')
        BY DEF Coming
      <3>5. m \notin Coming
        BY <2>5, <3>2 DEF Coming
      <3>6. ASSUME NEW i \in 1..Len(Pipe'), i < m PROVE i \in Coming' <=> i \in Coming
        <4>1. i \in 1..Len(Pipe) /\ ~(i > Direct) /\ ~(i > Direct')
          BY <1>1, <3>2, <3>3, <3>6
        <4> QED
          BY <3>2, <3>6, <4>1 DEF Coming
      <3>7. ASSUME NEW i \in 1..Len(Pipe'), i >= m PROVE i \in Coming' <=> i + 1 \in Coming
        <4>1. i + 1 \in 1..Len(Pipe) /\ (i > Direct' <=> i + 1 > Direct)
          BY <1>1, <3>2, <3>3, <3>7
        <4> QED
          BY <2>2, <3>2, <3>7, <4>1 DEF Coming
      <3>8. \A e : /\ Later(e, Pipe, Coming) => Later(e, Pipe', Coming')
                   /\ Comes(e, Pipe, Coming) => Comes(e, Pipe', Coming')
                   /\ Begun(e, Pipe', Coming') => Begun(e, Pipe, Coming)
        <4> HIDE DEF m
        <4> QED
          BY <3>2, <3>4, <3>5, <3>6, <3>7, LeftOut
      <3> QED
        BY <1>2, <2>2, <3>8, DueFollows
    <2> QED
      BY <1>0, <2>1, <2>3, <2>4, <2>5, Sent
  <1> QED
    BY <1>3, <1>4

(* No number lies between one and the next.                                 *)
LEMMA NothingBetween ==
    ASSUME NEW X, NEW s \in Seq(X), NEW t \in Seq(X)
    PROVE  (s \o <<>>) \o t = s \o t /\ (s \o t) \o <<>> = s \o t
  <1>1. s \o t \in Seq(X)
    OBVIOUS
  <1>2. \A q \in Seq(X) : q \o <<>> = q
    OBVIOUS
  <1> QED
    BY <1>1, <1>2

(* SendLive does so with the subscription's first event, unless it was sent *)
(* in the catch-up.                                                         *)
LEMMA DueSendsLive ==
    ASSUME FlowInv, SendLive, UNCHANGED clientVars
    PROVE  DueInv'
  <1>0. TypeInv /\ FeedInv
    BY DEF FlowInv
  <1>1. /\ wire \in Seq(Event) /\ handler.catchUp \in Seq(Event) /\ Len(wire) \in Nat
        /\ handler \in [pc : {"closed", "paging", "sending", "live"},
                    cursor : Cursors, catchUp : Seq(Event), ids : SUBSET (1..MaxSerial)]
        /\ sub \in [on : BOOLEAN, events : Seq(Event), overflowed : BOOLEAN, signal : BOOLEAN]
        /\ sub.events \in Seq(Event) /\ Len(sub.events) \in Nat
    BY <1>0, Types
  <1> DEFINE h == Head(sub.events)
             r == Tail(sub.events)
  <1>2. /\ UNCHANGED <<log, client, since, emitted, silenced, dropped>> /\ handler.pc = "live"
        /\ sub.events # <<>> /\ sub' = [sub EXCEPT !.events = Tail(@)]
        /\ \/ /\ h.id \in handler.ids
              /\ handler' = [handler EXCEPT !.ids = @ \ {h.id}]
              /\ UNCHANGED wire
           \/ /\ h.kind = "unwanted" \/ h.id \notin handler.ids
              /\ writeWebSocketEvent(h)
              /\ UNCHANGED handler
    BY DEF SendLive, storeVars, clientVars
  <1>3. /\ sub'.events = r /\ sub'.overflowed = sub.overflowed
        /\ handler'.pc = "live" /\ handler'.catchUp = handler.catchUp /\ handler.catchUp = <<>>
        /\ handler'.ids \in {handler.ids, handler.ids \ {h.id}}
        /\ Live' = r /\ Live = sub.events
    BY <1>0, <1>1, <1>2 DEF FeedInv, Live
  <1>4. /\ h \in Event /\ r \in Seq(Event) /\ h = sub.events[1] /\ 1 \in DOMAIN sub.events
        /\ Len(sub.events) \in Nat \ {0} /\ Len(r) = Len(sub.events) - 1
    BY <1>1, <1>2, Shifted
  <1>5. Pipe = wire \o sub.events /\ Direct = Len(wire)
    <2>1. Len(<<>>) = 0
      OBVIOUS
    <2> QED
      BY <1>1, <1>3, <2>1, NothingBetween DEF Pipe, Direct
  <1>6. CASE wire' = Append(wire, h) /\ h.kind = "wanted" /\ h.id \notin handler.ids
             /\ handler' = handler
    <2>1. Len(wire') = Len(wire) + 1 /\ wire' \in Seq(Event)
      BY <1>1, <1>4, <1>6
    <2>2. wire' \o r = wire \o sub.events
      BY <1>1, <1>2, <1>6, PassedOn
    <2>3. Pipe' = wire' \o r
      BY <1>3, <1>4, <2>1, NothingBetween DEF Pipe
    <2>4. Direct' = Direct + 1
      <3>1. Len(<<>>) = 0
        OBVIOUS
      <3> QED
        BY <1>1, <1>3, <1>5, <2>1, <3>1 DEF Direct
    <2>5. Pipe' = Pipe
      BY <1>5, <2>2, <2>3
    <2>6. ASSUME NEW i \in 1..Len(Pipe)
          PROVE  (i > Direct' => Pipe[i].id \notin handler.ids)
                   <=> (i > Direct => Pipe[i].id \notin handler.ids)
      <3>1. CASE i = Direct + 1
        <4>1. Pipe[Direct + 1] = Live[1]
          BY <1>0, <1>3, <1>4, PipeIs
        <4>2. ~(i > Direct')
          BY <1>1, <1>5, <2>4, <3>1
        <4> QED
          BY <1>3, <1>4, <1>6, <3>1, <4>1, <4>2
      <3>2. CASE i # Direct + 1
        <4>1. i > Direct' <=> i > Direct
          BY <1>1, <1>5, <2>4, <3>2
        <4> QED
          BY <4>1
      <3> QED
        BY <3>1, <3>2
    <2>7. Coming' = Coming
      BY <1>6, <2>5, <2>6 DEF Coming
    <2> QED
      BY <1>2, <1>3, <2>5, <2>7, DueFollows
  <1>7. CASE wire' = wire /\ (h.kind # "wanted" \/ h.id \in handler.ids)
    <2> DEFINE m == Len(wire) + 1
    <2>1. Pipe' = (wire \o r) \o <<>> /\ Pipe = (wire \o sub.events) \o <<>>
      BY <1>1, <1>3, <1>4, <1>5, <1>7, NothingBetween DEF Pipe
    <2>2. /\ Len(Pipe) \in Nat /\ Len(Pipe') = Len(Pipe) - 1 /\ m \in 1..Len(Pipe)
          /\ Pipe[m] = h
          /\ \A i \in 1..Len(Pipe') : i < m => Pipe'[i] = Pipe[i]
          /\ \A i \in 1..Len(Pipe') : i >= m => Pipe'[i] = Pipe[i + 1]
      <3>1. <<>> \in Seq(Event)
        OBVIOUS
      <3>2. TakenOut(Pipe, Pipe', m, sub.events[1])
        BY <1>1, <1>2, <2>1, <3>1, MiddleShortened
      <3> QED
        BY <1>4, <3>2 DEF TakenOut
    <2>3. Direct' = Direct
      BY <1>3, <1>7 DEF Direct
    <2>4. Coming \subseteq 1..Len(Pipe) /\ Coming' \subseteq 1..Len(Pipe')
      BY DEF Coming
    <2>5. m \notin Coming
      <3>1. m > Direct
        BY <1>1, <1>5
      <3> QED
        BY <1>7, <2>2, <3>1 DEF Coming
    <2>6. ASSUME NEW i \in 1..Len(Pipe'), i < m PROVE i \in Coming' <=> i \in Coming
      <3>1. i \in 1..Len(Pipe) /\ ~(i > Direct)
        BY <1>1, <1>5, <2>2, <2>6
      <3> QED
        BY <2>2, <2>3, <2>6, <3>1 DEF Coming
    <2>7. ASSUME NEW i \in 1..Len(Pipe'), i >= m PROVE i \in Coming' <=> i + 1 \in Coming
      <3>1. i + 1 \in 1..Len(Pipe) /\ i > Direct /\ i + 1 > Direct
        BY <1>1, <1>5, <2>2, <2>7
      <3>2. Pipe[i + 1].id # h.id
        <4> DEFINE j == (i + 1) - Direct
        <4>1. j \in 1..Len(sub.events) /\ j > 1 /\ Direct + j = i + 1
          <5>1. Len(Pipe) = Direct + Len(sub.events)
            BY <1>0, <1>3, PipeIs
          <5> QED
            BY <1>1, <1>5, <2>7, <3>1, <5>1
        <4>2. Pipe[Direct + j] = sub.events[j]
          BY <1>0, <1>3, <4>1, PipeIs
        <4>3. sub.events[j].id = sub.events[1].id + j - 1
          BY <1>0, <1>1, <4>1 DEF FeedInv
        <4>4. sub.events[1].id \in Nat /\ j \in Nat
          BY <1>0, <1>4, <4>1, Types
        <4>5. sub.events[1].id + j - 1 # sub.events[1].id
          BY <4>1, <4>4
        <4> QED
          BY <1>4, <4>1, <4>2, <4>3, <4>5
      <3>3. Pipe[i + 1].id \in handler'.ids <=> Pipe[i + 1].id \in handler.ids
        BY <1>3, <3>2
      <3> QED
        BY <2>2, <2>3, <2>7, <3>1, <3>3 DEF Coming
    <2>8. \A e : /\ Later(e, Pipe, Coming) => Later(e, Pipe', Coming')
                 /\ Comes(e, Pipe, Coming) => Comes(e, Pipe', Coming')
                 /\ Begun(e, Pipe', Coming') => Begun(e, Pipe, Coming)
      <3> HIDE DEF m
      <3> QED
        BY <2>2, <2>4, <2>5, <2>6, <2>7, LeftOut
    <2> QED
      BY <1>2, <1>3, <2>8, DueFollows
  <1> QED
    BY <1>0, <1>2, <1>4, <1>6, <1>7, Sent

(* handleSocketMessage: the first event on the wire is the next one owed.   *)
LEMMA DueReceives ==
    ASSUME FlowInv, [SyncNext]_syncVars, handleSocketMessage
    PROVE  DueInv'
  <1>0. TypeInv /\ LogInv /\ FeedInv /\ PagingInv /\ DueInv /\ client \in Client
        /\ since \in Nat \cup {-1}
    BY Types DEF FlowInv
  <1>1. /\ wire \in Seq(Event) /\ handler.catchUp \in Seq(Event) /\ Len(wire) \in Nat
        /\ sub.events \in Seq(Event) /\ Len(sub.events) \in Nat /\ Len(handler.catchUp) \in Nat
    BY <1>0, Types
  <1> DEFINE h == Head(wire)
             r == Tail(wire)
  <1>2. /\ wire # <<>> /\ wire' = r /\ UNCHANGED <<log, sub, handler>>
        /\ client' = [client EXCEPT !.cursor = h.id]
        /\ since' = IF since = -1 /\ h.id # NoCursor THEN h.id ELSE since
    BY DEF handleSocketMessage, storeVars, SetCursor
  <1>3. client'.cursor = h.id
    BY <1>0, <1>2 DEF Client
  <1>4. handler.pc # "paging" /\ Live = sub.events /\ Live' = sub.events
    BY <1>0, <1>2 DEF PagingInv, Live
  <1>5. /\ h = wire[1] /\ 1 \in DOMAIN wire /\ r \in Seq(Event) /\ Len(r) = Len(wire) - 1
        /\ h \in Event /\ Len(wire) >= 1
    BY <1>1, <1>2, Shifted
  <1>6. h.kind = "wanted" /\ h.id \in Nat \ {0}
    BY <1>0, <1>5, Types DEF FeedInv
  <1> DEFINE t == handler.catchUp \o sub.events
  <1>7. t \in Seq(Event)
    BY <1>1
  <1>8. /\ Pipe = (<<>> \o wire) \o t /\ Pipe' = (<<>> \o r) \o t
    <2>1. \A q \in Seq(Event) : <<>> \o q = q
      OBVIOUS
    <2>2. \A q \in Seq(Event) : (q \o handler.catchUp) \o sub.events = q \o t
      <3> TAKE q \in Seq(Event)
      <3> QED
        <4>1. q \in Seq(Event) /\ handler.catchUp \in Seq(Event) /\ sub.events \in Seq(Event)
          BY <1>1
        <4>2. (q \o handler.catchUp) \o sub.events = q \o (handler.catchUp \o sub.events)
          <5>1. \A a, b \in Seq(Event) : (q \o a) \o b = q \o (a \o b)
            BY ConcatAssociative
          <5> QED
            BY <4>1, <5>1
        <4> QED
          BY <4>2
    <2> QED
      BY <1>1, <1>2, <1>4, <1>5, <2>1, <2>2 DEF Pipe
  <1>9. /\ Len(Pipe) \in Nat \ {0} /\ Len(Pipe') = Len(Pipe) - 1 /\ Pipe[1] = h
        /\ \A i \in 1..Len(Pipe') : Pipe'[i] = Pipe[i + 1]
    <2>1. <<>> \in Seq(Event) /\ Len(<<>>) + 1 = 1
      OBVIOUS
    <2>2. /\ Len(Pipe) \in Nat /\ Len(Pipe') = Len(Pipe) - 1 /\ 1 \in 1..Len(Pipe)
          /\ Pipe[1] = wire[1]
          /\ \A i \in 1..Len(Pipe') : i >= 1 => Pipe'[i] = Pipe[i + 1]
      <3> HIDE DEF t
      <3>1. TakenOut(Pipe, Pipe', Len(<<>>) + 1, wire[1])
        BY <1>1, <1>2, <1>7, <1>8, <2>1, MiddleShortened
      <3> QED
        BY <2>1, <3>1 DEF TakenOut
    <2> QED
      BY <1>5, <2>2
  <1>10. Direct' = Direct - 1 /\ Direct \in Nat /\ Direct >= 1
    BY <1>1, <1>2, <1>5 DEF Direct
  <1>11. Coming \subseteq 1..Len(Pipe) /\ Coming' \subseteq 1..Len(Pipe')
    BY DEF Coming
  <1>12. 1 \in Coming
    BY <1>6, <1>9, <1>10 DEF Coming
  <1>13. ASSUME NEW i \in 1..Len(Pipe') PROVE i \in Coming' <=> i + 1 \in Coming
    <2>1. i + 1 \in 1..Len(Pipe) /\ (i > Direct' <=> i + 1 > Direct)
      BY <1>9, <1>10
    <2> QED
      BY <1>2, <1>9, <2>1 DEF Coming
  <1>14. ASSUME NEW e, e # h
         PROVE  /\ Later(e, Pipe, Coming) => Later(e, Pipe', Coming') /\ h.id < e.id
                /\ Comes(e, Pipe, Coming) => Comes(e, Pipe', Coming')
    <2> HIDE DEF h
    <2>1. e # Pipe[1]
      BY <1>9, <1>14
    <2>2. /\ Later(e, Pipe, Coming) => Later(e, Pipe', Coming') /\ Pipe[1].id < e.id
          /\ Comes(e, Pipe, Coming) => Comes(e, Pipe', Coming')
      BY <1>9, <1>11, <1>12, <1>13, <2>1, Taken
    <2> QED
      BY <1>9, <2>2
  <1>15. ASSUME NEW e \in Range(log), Due(e)' PROVE e # h /\ Due(e)
    <2>1. \A x : x = h => Settled(x)'
      BY <1>0, SettledStays
    <2>2. Settled(e) => Settled(e)'
      BY <1>0, SettledStays
    <2>3. e.kind = "wanted" /\ ~Settled(e) /\ e # h
      BY <1>15, <2>1, <2>2 DEF Due
    <2>4. CASE since >= 0
      <3>1. since' = since
        BY <1>0, <1>2, <2>4
      <3> QED
        BY <1>0, <1>15, <2>3, <2>4, <3>1 DEF Due
    <2>5. CASE since < 0
      <3>1. since' = h.id
        BY <1>0, <1>2, <1>6, <2>5 DEF NoCursor
      <3>2. h.id < e.id
        BY <1>6, <1>15, <3>1 DEF Due
      <3>3. h.id <= e.id
        <4>1. e.id \in Nat
          BY <1>0, EventsLogged, Types
        <4> QED
          BY <1>6, <3>2, <4>1
      <3>4. \A j \in 1..(1 - 1) : j \notin Coming
        OBVIOUS
      <3>5. Begun(e, Pipe, Coming)
        BY <1>9, <1>12, <3>3, <3>4 DEF Begun
      <3> QED
        BY <1>0, <2>3, <2>5, <3>5 DEF Due
    <2> QED
      BY <1>0, <2>3, <2>4, <2>5
  <1> QED
    BY <1>0, <1>2, <1>3, <1>4, <1>14, <1>15 DEF DueInv

(* pollLoop: no connection, and the last page covers what the cursor passes. *)
LEMMA DuePolls ==
    ASSUME FlowInv, [SyncNext]_syncVars, pollLoop
    PROVE  DueInv'
  <1>0. TypeInv /\ LogInv /\ FeedInv /\ DueInv /\ PollInv /\ CursorInv /\ client.state = "polling"
        /\ log' = log /\ UNCHANGED <<sub, handler, wire>>
    BY DEF FlowInv, pollLoop, storeVars, feedVars
  <1>1. handler = NoConn /\ sub = NoSub /\ wire = <<>>
    BY <1>0 DEF FeedInv
  <1>2. Pipe' = <<>> /\ Coming' = {} /\ handler'.pc = "closed"
    <2>1. handler'.catchUp = <<>> /\ Live' = <<>> /\ handler'.pc = "closed"
      BY <1>0, <1>1 DEF Live, NoConn, NoSub
    <2>2. Pipe' = <<>>
      BY <1>0, <1>1, <2>1 DEF Pipe
    <2>3. Len(<<>>) = 0 /\ 1..0 = {}
      OBVIOUS
    <2> QED
      BY <2>1, <2>2, <2>3 DEF Coming
  <1>3. PICK visible, more, events, fresh, latest, pending, polled :
              /\ PollOf(visible, more, events, fresh, latest, pending, polled)
              /\ more \in BOOLEAN
              /\ PollActs(more, events, latest, pending, polled)
    BY PollTaken
  <1>4. PollGives(more, events, fresh, latest, pending)
    BY <1>0, <1>3, PollSees
  <1>5. client \in Client /\ polled \in Client /\ since \in Nat \cup {-1} /\ client.cursor \in Nat
        /\ polled.cursor = client.cursor
    <2>1. client \in Client /\ polled \in Client
      <3>1. client \in Client
        BY <1>0, Types
      <3>2. polled \in Client
        BY <1>0, <1>3, PollTyped
      <3> QED
        BY <3>1, <3>2
    <2>2. polled = [client EXCEPT
                      !.polledEventOrder = Remembered(@, events)[Len(events)]]
      BY <1>3 DEF PollOf
    <2> QED
      BY <1>0, <2>1, <2>2, Types DEF Client
  <1>6. ASSUME NEW e \in Range(log), Due(e)' PROVE client'.cursor < e.id
    <2>1. e.kind = "wanted" /\ ~Settled(e)' /\ since' >= 0 /\ since' < e.id
          /\ e.id \in Nat \ {0}
      <3>1. ~Begun(e, Pipe', Coming')
        BY <1>2, NoPipe
      <3>2. since' \in Nat \cup {-1}
        <4>1. TypeInv'
          BY <1>0, TypeStep
        <4>2. since' \in Cursors \cup {-1}
          BY <4>1 DEF TypeInv, SyncTypeOK
        <4> QED
          BY <4>2, FeedAssumption DEF Cursors
      <3> QED
        BY <1>0, <1>6, <3>1, <3>2, EventsLogged, Types DEF Due
    <2>2. ~Settled(e)
      BY <1>0, <2>1, SettledStays
    <2>3. client.cursor < e.id
      <3>1. CASE since >= 0
        <4>1. since' = since
          BY <1>3, <1>5, <3>1 DEF PollActs, SetCursor
        <4>2. Due(e)
          BY <1>5, <2>1, <2>2, <3>1, <4>1 DEF Due
        <4> QED
          BY <1>0, <4>2 DEF DueInv
      <3>2. CASE since < 0
        <4>1. client.cursor = 0
          BY <1>0, <1>5, <3>2 DEF CursorInv
        <4> QED
          BY <2>1, <4>1
      <3> QED
        BY <1>5, <3>1, <3>2
    <2>4. CASE more
      <3>1. client' = [polled EXCEPT !.polledCursor = latest, !.polledLatest = latest,
                                      !.pending = pending]
        BY <1>3, <2>4 DEF PollActs
      <3>2. client'.cursor = client.cursor
        BY <1>5, <3>1 DEF Client
      <3> QED
        BY <2>3, <3>2
    <2>5. CASE ~more
      <3>1. client' = NewPoll([polled EXCEPT !.cursor = latest, !.firstPollComplete = TRUE])
        BY <1>3, <2>5 DEF PollActs
      <3>2. client'.cursor = latest /\ latest \in Nat
        BY <1>4, <1>5, <3>1 DEF NewPoll, Client, PollGives
      <3>3. ASSUME e.id <= latest PROVE FALSE
        <4>1. Settled(e)' \/ (since' >= 0 /\ e.id <= since')
          BY <1>0, <1>3, <2>1, <2>5, PollCovers
        <4>2. since' \in Nat \cup {-1}
          BY <1>3, <1>5, <2>5, <3>2 DEF PollActs, SetCursor
        <4> QED
          BY <2>1, <4>1, <4>2
      <3> QED
        BY <2>1, <3>2, <3>3
    <2> QED
      BY <1>3, <2>4, <2>5
  <1>7. \A e : Later(e, Pipe', Coming')
    BY <1>2, NoPipe
  <1> QED
    BY <1>0, <1>2, <1>6, <1>7 DEF DueInv

(* What the log ends with is to be delivered first.                         *)
LEMMA InCatchUp ==
    ASSUME TypeInv, LogInv, NEW P, NEW C, NEW b \in Nat, NEW n \in Nat, Len(P) \in Nat, n <= Len(P),
           b + n = Len(log),
           \A i \in 1..n : P[i] = log[b + i] /\ (P[i].kind = "wanted" => i \in C),
           NEW e \in Range(log), e.kind = "wanted", b < e.id
    PROVE  Comes(e, P, C) /\ \E i \in 1..n : P[i] = e /\ i \in C
  <1>1. e.id \in 1..Len(log) /\ log[e.id] = e /\ Len(log) \in Nat /\ DOMAIN log = 1..Len(log)
    BY EventsLogged, Types DEF Logged
  <1> DEFINE k == e.id - b
  <1>2. k \in 1..n /\ b + k = e.id
    BY <1>1
  <1>3. P[k] = e /\ k \in C
    <2>1. P[k] = log[b + k] /\ (P[k].kind = "wanted" => k \in C)
      BY <1>2
    <2>2. P[k] = e
      BY <1>1, <1>2, <2>1
    <2> QED
      BY <2>1, <2>2
  <1>4. ASSUME NEW i \in 1..(k - 1) PROVE P[i].id < e.id
    <2>1. i \in 1..n /\ b + i \in 1..Len(log) /\ b + i < e.id
      <3> HIDE DEF k
      <3>1. k \in Nat /\ k <= n
        BY <1>2
      <3>2. e.id \in Nat /\ e.id <= Len(log)
        BY <1>1
      <3> QED
        BY <1>1, <1>2, <3>1, <3>2
    <2>2. log[b + i].id = b + i
      BY <1>1, <2>1 DEF LogInv
    <2> QED
      BY <2>1, <2>2
  <1>5. k \in 1..Len(P)
    BY <1>2
  <1>6. Turn(e, P, C, k)
    <2> HIDE DEF k
    <2> QED
      BY <1>3, <1>4 DEF Turn
  <1> QED
    <2> HIDE DEF k
    <2> QED
      BY <1>2, <1>3, <1>5, <1>6 DEF Comes

(* The page and what was collected before it follow the client's cursor.    *)
FollowOn(events, n) ==
    /\ client.cursor + Len(events) = handler.cursor + n
    /\ n < PageSize => client.cursor + Len(events) = Len(log)
    /\ \A i \in 1..Len(events) : events[i] = log[client.cursor + i]
    /\ events \in Seq(Event) /\ Len(events) \in Nat

(* webSocketCatchUpPage reads what follows the client's cursor.             *)
LEMMA PageFollows ==
    ASSUME FlowInv, handler.pc = "paging", handler.cursor # 0
    PROVE  FollowOn(handler.catchUp \o GetEventsAfterCursor(handler.cursor, PageSize),
                    Len(GetEventsAfterCursor(handler.cursor, PageSize)))
  <1> DEFINE page == GetEventsAfterCursor(handler.cursor, PageSize)
             events == handler.catchUp \o page
  <1>0. TypeInv /\ LogInv /\ PagingInv
    BY DEF FlowInv
  <1>1. /\ handler.cursor = client.cursor + Len(handler.catchUp)
        /\ \A i \in DOMAIN handler.catchUp : handler.catchUp[i] = log[client.cursor + i]
        /\ PageSize \in Nat \ {0} /\ Len(log) \in Nat /\ client.cursor \in Nat
        /\ handler.cursor \in 1..Len(log)
        /\ handler.catchUp \in Seq(Event) /\ Len(handler.catchUp) \in Nat
    BY <1>0, Types, FeedAssumption DEF PagingInv
  <1>2. /\ page \in Seq(Event) /\ Len(page) \in Nat
        /\ Len(page) = IF handler.cursor + PageSize < Len(log) THEN PageSize
                       ELSE Len(log) - handler.cursor
        /\ \A i \in 1..Len(page) : page[i] = log[handler.cursor + i]
    BY <1>0, <1>1, CursorPage
  <1> HIDE DEF page
  <1>3. /\ events \in Seq(Event) /\ Len(events) = Len(handler.catchUp) + Len(page)
        /\ \A i \in 1..Len(handler.catchUp) : events[i] = handler.catchUp[i]
        /\ \A i \in (Len(handler.catchUp) + 1)..Len(events) :
              events[i] = page[i - Len(handler.catchUp)]
    <2>1. handler.catchUp \in Seq(Event) /\ page \in Seq(Event)
      BY <1>1, <1>2
    <2> QED
      BY <2>1
  <1> HIDE DEF events
  <1>4. ASSUME NEW i \in 1..Len(events) PROVE events[i] = log[client.cursor + i]
    <2>1. CASE i \in 1..Len(handler.catchUp)
      BY <1>1, <1>3, <2>1
    <2>2. CASE i > Len(handler.catchUp)
      <3> DEFINE j == i - Len(handler.catchUp)
      <3>1. j \in 1..Len(page) /\ i \in (Len(handler.catchUp) + 1)..Len(events)
        BY SMTT(30), <1>1, <1>2, <1>3, <2>2
      <3>2. handler.cursor + j = client.cursor + i
        <4>1. i \in Nat
          OBVIOUS
        <4> QED
          BY <1>1, <4>1
      <3>3. events[i] = page[j] /\ page[j] = log[handler.cursor + j]
        BY <1>2, <1>3, <3>1
      <3> QED
        BY <3>2, <3>3
    <2> QED
      BY <1>1, <1>3, <2>1, <2>2
  <1>5. client.cursor + Len(events) = handler.cursor + Len(page)
    <2>1. client.cursor \in Nat /\ Len(handler.catchUp) \in Nat /\ Len(page) \in Nat
      BY <1>1, <1>2
    <2> QED
      BY <1>1, <1>3, <2>1
  <1>6. Len(page) < PageSize => handler.cursor + Len(page) = Len(log)
    <2>1. Len(page) \in Nat /\ Len(log) \in Nat /\ handler.cursor \in Nat /\ PageSize \in Nat
      BY <1>1, <1>2
    <2>2. Len(page) < PageSize => Len(page) = Len(log) - handler.cursor
      BY <1>2, <2>1
    <2> QED
      BY <2>1, <2>2
  <1>7. Len(events) \in Nat
    BY <1>3
  <1> QED
    <2>1. FollowOn(events, Len(page))
      BY <1>1, <1>3, <1>4, <1>5, <1>6, <1>7 DEF FollowOn
    <2> QED
      BY <2>1 DEF events, page

(* After the last page.                                                     *)
LEMMA PipeSent ==
    ASSUME TypeInv, wire' = <<>>, handler'.pc = "sending", NEW events \in Seq(Event),
           handler'.catchUp = events, sub' = sub
    PROVE  /\ Direct' = Len(events) /\ Len(events) \in Nat
           /\ Len(Pipe') = Len(events) + Len(sub.events) /\ Len(Pipe') \in Nat
           /\ \A i \in 1..Len(events) : Pipe'[i] = events[i] /\ ~(i > Direct') /\ i \in 1..Len(Pipe')
           /\ \A i \in 1..Len(sub.events) :
                Pipe'[Len(events) + i] = sub.events[i] /\ Len(events) + i > Direct'
                /\ Len(events) + i \in 1..Len(Pipe')
           /\ \A i \in 1..Len(Pipe') :
                i \in 1..Len(events) \/ (i > Len(events) /\ i - Len(events) \in 1..Len(sub.events))
  <1>1. sub.events \in Seq(Event) /\ <<>> \in Seq(Event) /\ Len(<<>>) = 0
    BY Types
  <1>2. Pipe' = (<<>> \o events) \o sub.events
    BY DEF Pipe, Live
  <1>3. InTurn(Pipe', <<>>, events, sub.events)
    BY <1>1, <1>2, ThreeJoined
  <1>4. Len(events) \in Nat /\ Len(sub.events) \in Nat
    BY <1>3 DEF InTurn
  <1>5. Direct' = Len(events)
    BY <1>1, <1>4 DEF Direct
  <1>6. /\ Len(Pipe') = 0 + Len(events) + Len(sub.events) /\ Len(Pipe') \in Nat
        /\ \A i \in 1..Len(events) : Pipe'[0 + i] = events[i] /\ 0 + i \in 1..Len(Pipe')
        /\ \A i \in 1..Len(sub.events) : Pipe'[(0 + Len(events)) + i] = sub.events[i]
                            /\ (0 + Len(events)) + i \in 1..Len(Pipe')
    BY <1>1, <1>3 DEF InTurn
  <1>7. /\ \A i \in 1..Len(events) : 0 + i = i /\ ~(i > Len(events))
        /\ 0 + Len(events) = Len(events)
        /\ \A i \in 1..Len(sub.events) : Len(events) + i > Len(events)
    BY <1>4
  <1>8. ASSUME NEW i \in 1..Len(Pipe')
        PROVE  i \in 1..Len(events) \/ (i > Len(events) /\ i - Len(events) \in 1..Len(sub.events))
    BY <1>4, <1>6
  <1>9. Len(Pipe') = Len(events) + Len(sub.events)
    BY <1>4, <1>6
  <1> QED
    BY <1>4, <1>5, <1>6, <1>7, <1>8, <1>9

(* webSocketCatchUpPage: with the last page, what is owed comes in its turn. *)
LEMMA DuePages ==
    ASSUME FlowInv, webSocketCatchUpPage, UNCHANGED clientVars
    PROVE  DueInv'
  <1> DEFINE page == IF handler.cursor = NoCursor THEN GetRecentEvents(Recent)
                     ELSE GetEventsAfterCursor(handler.cursor, PageSize)
             last == handler.cursor = NoCursor \/ Len(page) < PageSize
             events == handler.catchUp \o page
  <1>0. TypeInv /\ LogInv /\ FeedInv /\ PagingInv /\ DueInv /\ CursorInv /\ since \in Nat \cup {-1}
        /\ client.cursor \in Nat
    BY Types DEF FlowInv
  <1>1. /\ handler.pc = "paging" /\ wire' = wire /\ wire = <<>>
        /\ handler' = [handler EXCEPT
             !.catchUp = events,
             !.pc = IF last THEN "sending" ELSE "paging",
             !.cursor = IF last THEN @ ELSE page[Len(page)].id,
             !.ids = IF last THEN {x.id : x \in Range(events)} ELSE {}]
        /\ UNCHANGED <<log, sub, client, since, emitted, silenced, dropped>>
    BY <1>0 DEF webSocketCatchUpPage, storeVars, clientVars, PagingInv
  <1>2. handler \in [pc : {"closed", "paging", "sending", "live"},
                    cursor : Cursors, catchUp : Seq(Event), ids : SUBSET (1..MaxSerial)]
        /\ Len(log) \in Nat /\ DOMAIN log = 1..Len(log)
    BY <1>0, Types
  <1>3. \A e : Settled(e)' <=> Settled(e)
    BY <1>1 DEF Settled, Emitted
  <1>4. CASE handler.cursor # 0
    <2>1. since >= 0
      BY <1>0, <1>1, <1>4 DEF PagingInv, CursorInv
    <2>2. \A e \in Range(log) : Due(e)' => client.cursor < e.id
      BY <1>0, <1>1, <1>3, <2>1 DEF Due, DueInv
    <2>3. page = GetEventsAfterCursor(handler.cursor, PageSize)
      BY <1>4 DEF NoCursor
    <2> HIDE DEF page
    <2>4. CASE ~last
      <3>1. handler'.pc = "paging"
        BY <1>1, <1>2, <2>4
      <3> QED
        BY <1>1, <2>2, <3>1 DEF DueInv
    <2>5. CASE last
      <3>1. handler'.pc = "sending" /\ handler'.catchUp = events
        BY <1>1, <1>2, <2>5
      <3>2. Len(page) < PageSize
        BY <1>4, <2>5 DEF NoCursor
      <3>3. /\ client.cursor + Len(events) = Len(log)
            /\ \A i \in 1..Len(events) : events[i] = log[client.cursor + i]
            /\ events \in Seq(Event) /\ Len(events) \in Nat
        <4>1. FollowOn(handler.catchUp \o GetEventsAfterCursor(handler.cursor, PageSize),
                       Len(GetEventsAfterCursor(handler.cursor, PageSize)))
          BY <1>1, <1>4, PageFollows
        <4>2. FollowOn(events, Len(page))
          BY <2>3, <4>1
        <4> HIDE DEF events
        <4> QED
          BY <3>2, <4>2 DEF FollowOn
      <3> HIDE DEF events, last
      <3>4. /\ Len(events) <= Len(Pipe') /\ Len(Pipe') \in Nat
            /\ \A i \in 1..Len(events) : Pipe'[i] = events[i] /\ ~(i > Direct') /\ i \in 1..Len(Pipe')
        <4>1. /\ Len(Pipe') = Len(events) + Len(sub.events) /\ Len(Pipe') \in Nat
              /\ \A i \in 1..Len(events) : Pipe'[i] = events[i] /\ ~(i > Direct') /\ i \in 1..Len(Pipe')
          BY <1>0, <1>1, <3>1, <3>3, PipeSent
        <4>2. Len(sub.events) \in Nat
          BY <1>0, Types
        <4> QED
          BY <3>3, <4>1, <4>2
      <3>5. \A i \in 1..Len(events) :
               Pipe'[i] = log[client.cursor + i] /\ (Pipe'[i].kind = "wanted" => i \in Coming')
        BY <3>3, <3>4 DEF Coming
      <3>6. ASSUME NEW e \in Range(log), Due(e)' PROVE Comes(e, Pipe', Coming')
        <4>1. e.kind = "wanted" /\ client.cursor < e.id
          BY <2>2, <3>6 DEF Due
        <4> QED
          BY <1>0, <3>3, <3>4, <3>5, <4>1, InCatchUp
      <3> QED
        BY <1>1, <2>2, <3>4, <3>6, ComesLater DEF DueInv
    <2> QED
      BY <2>4, <2>5
  <1>5. CASE handler.cursor = 0
    <2>1. client.cursor = 0 /\ handler.catchUp = <<>> /\ since = -1
      BY <1>0, <1>1, <1>5 DEF PagingInv, CursorInv
    <2>2. page = GetRecentEvents(Recent) /\ last
      BY <1>5 DEF NoCursor
    <2>3. /\ page \in Seq(Event) /\ Len(page) \in 1..Len(log) /\ Len(page) \in Nat
          /\ \A i \in 1..Len(page) : page[i] = log[Len(log) - Len(page) + i]
      <3>1. /\ GetRecentEvents(Recent) \in Seq(Event) /\ Len(GetRecentEvents(Recent)) \in 1..Len(log)
            /\ \A i \in 1..Len(GetRecentEvents(Recent)) :
                 GetRecentEvents(Recent)[i] = log[Len(log) - Len(GetRecentEvents(Recent)) + i]
        BY <1>0, RecentPage
      <3> HIDE DEF page
      <3> QED
        BY <2>2, <3>1
    <2> HIDE DEF page
    <2>4. events = page
      BY <2>1, <2>3
    <2>5. /\ handler'.pc = "sending" /\ handler'.catchUp = page
          /\ handler'.ids = {x.id : x \in Range(page)}
      <3> HIDE DEF events, last
      <3> QED
        BY <1>1, <1>2, <2>2, <2>4
    <2> HIDE DEF events, last
    <2> DEFINE n == Len(page)
               lo == Len(log) - Len(page)
    <2>6. /\ Direct' = n /\ n \in Nat /\ n >= 1 /\ lo \in Nat /\ lo + n = Len(log)
          /\ Len(Pipe') = n + Len(sub.events) /\ Len(Pipe') \in Nat /\ Len(sub.events) \in Nat
          /\ n <= Len(Pipe')
      <3>1. Direct' = Len(page) /\ Len(Pipe') = Len(page) + Len(sub.events) /\ Len(Pipe') \in Nat
        BY <1>0, <1>1, <2>3, <2>5, PipeSent
      <3> QED
        BY <1>0, <1>2, <2>3, <3>1, Types
    <2>7. /\ \A i \in 1..n : Pipe'[i] = page[i] /\ ~(i > Direct') /\ i \in 1..Len(Pipe')
          /\ \A i \in 1..Len(sub.events) :
                Pipe'[n + i] = sub.events[i] /\ n + i > Direct' /\ n + i \in 1..Len(Pipe')
          /\ \A i \in 1..Len(Pipe') : i \in 1..n \/ (i > n /\ i - n \in 1..Len(sub.events))
      BY <1>0, <1>1, <2>3, <2>5, PipeSent
    <2>8. \A i \in 1..n : page[i] = log[lo + i] /\ page[i].id = lo + i /\ lo + i \in 1..Len(log)
      <3> TAKE i \in 1..n
      <3>1. lo + i \in 1..Len(log)
        BY <1>2, <2>6
      <3>2. page[i] = log[lo + i]
        BY <2>3
      <3> QED
        BY <1>0, <1>2, <3>1, <3>2 DEF LogInv
    <2>9. \A i \in 1..n :
             Pipe'[i] = log[lo + i] /\ (Pipe'[i].kind = "wanted" => i \in Coming')
      BY <2>7, <2>8 DEF Coming
    <2>10. ASSUME NEW j \in 1..Len(sub.events)
           PROVE  /\ sub.events[j].id \in 1..Len(log) /\ log[sub.events[j].id] = sub.events[j]
                  /\ sub.events[j].id = sub.events[1].id + j - 1
                  /\ sub.events[j].id \in handler'.ids <=> lo < sub.events[j].id
                  /\ (n + j \in Coming') <=> (sub.events[j].kind = "wanted" /\ sub.events[j].id <= lo)
      <3>1. j \in DOMAIN sub.events
        BY <1>0, Types
      <3>2. sub.events[j].id \in 1..Len(log) /\ log[sub.events[j].id] = sub.events[j]
            /\ sub.events[j].id = sub.events[1].id + j - 1
        BY <1>0, <1>2, <3>1 DEF FeedInv, Logged
      <3>3. sub.events[j].id \in handler'.ids => lo < sub.events[j].id
        <4> SUFFICES ASSUME NEW x \in Range(page), x.id = sub.events[j].id
                     PROVE  lo < x.id
          BY <2>5
        <4>1. PICK i \in 1..n : page[i] = x
          BY <2>3 DEF Range
        <4> QED
          BY <2>6, <2>8, <4>1
      <3>4. lo < sub.events[j].id => sub.events[j].id \in handler'.ids
        <4> SUFFICES ASSUME lo < sub.events[j].id
                     PROVE  sub.events[j].id \in handler'.ids
          OBVIOUS
        <4>1. sub.events[j].id - lo \in 1..n /\ lo + (sub.events[j].id - lo) = sub.events[j].id
          BY <1>2, <2>6, <3>2
        <4>2. page[sub.events[j].id - lo].id = sub.events[j].id
          BY <2>8, <4>1
        <4>3. page[sub.events[j].id - lo] \in Range(page)
          BY <2>3, <4>1 DEF Range
        <4> QED
          BY <2>5, <4>2, <4>3
      <3>5. sub.events[j].id \notin handler'.ids <=> sub.events[j].id <= lo
        BY <1>2, <2>6, <3>2, <3>3, <3>4
      <3>6. Pipe'[n + j] = sub.events[j] /\ n + j > Direct' /\ n + j \in 1..Len(Pipe')
        BY <2>7
      <3> QED
        BY <3>2, <3>3, <3>4, <3>5, <3>6 DEF Coming
    <2>11. Coming' \subseteq 1..Len(Pipe')
      BY DEF Coming
    <2> HIDE DEF n, lo
    <2>12. ASSUME NEW e \in Range(log), Due(e)'
           PROVE  /\ Later(e, Pipe', Coming')
                  /\ ~sub.overflowed => Comes(e, Pipe', Coming')
      <3>1. /\ e.kind = "wanted" /\ e.id \in 1..Len(log) /\ log[e.id] = e
            /\ Begun(e, Pipe', Coming')
        BY <1>0, <1>1, <2>1, <2>12, EventsLogged DEF Due, Logged
      <3>2. PICK i \in Coming' : Pipe'[i].id <= e.id /\ \A j \in 1..(i - 1) : j \notin Coming'
        BY <3>1 DEF Begun
      <3>3. CASE lo < e.id
        <4>1. Comes(e, Pipe', Coming')
          BY <1>0, <2>6, <2>9, <3>1, <3>3, InCatchUp
        <4> QED
          BY <2>6, <4>1, ComesLater
      <3>4. CASE e.id <= lo
        <4>1. i \notin 1..n
          <5>1. ASSUME i \in 1..n PROVE FALSE
            <6>1. Pipe'[i].id = lo + i
              BY <2>7, <2>8, <5>1
            <6> QED
              BY <1>2, <2>6, <3>1, <3>2, <3>4, <5>1, <6>1
          <5> QED
            BY <5>1
        <4> DEFINE g == i - n
        <4>2. g \in 1..Len(sub.events) /\ n + g = i /\ i > n
          <5>1. i \in 1..Len(Pipe')
            BY <2>11
          <5> QED
            BY <2>6, <2>7, <4>1, <5>1
        <4>3. Pipe'[i] = sub.events[g]
          BY <2>7, <4>2
        <4> HIDE DEF g
        <4> DEFINE a == sub.events[1].id
                   m == e.id - a + 1
        <4>4. /\ a \in Nat /\ a + g - 1 <= e.id /\ e.id \in Nat /\ m \in Nat /\ m >= g /\ m >= 1
              /\ a + m - 1 = e.id
          <5>1. 1 \in 1..Len(sub.events) /\ sub.events[g].id = a + g - 1 /\ a \in 1..Len(log)
            BY SMTT(30), <2>6, <2>10, <4>2
          <5>2. a \in Nat /\ g \in Nat /\ g >= 1 /\ e.id \in Nat /\ a + g - 1 <= e.id
            BY <3>1, <3>2, <4>2, <4>3, <5>1
          <5> HIDE DEF a
          <5> QED
            BY <5>2
        <4> HIDE DEF m
        <4>5. ASSUME NEW j \in 1..n PROVE j \notin Coming'
          <5>1. j \in 1..(i - 1)
            BY <2>6, <2>11, <4>2
          <5> QED
            BY <3>2, <5>1
        <4>6. CASE m <= Len(sub.events)
          <5>1. m \in 1..Len(sub.events)
            BY <4>4, <4>6
          <5>2. sub.events[m].id = e.id /\ sub.events[m] = e
            BY <2>10, <3>1, <4>4, <5>1
          <5>3. n + m \in Coming' /\ Pipe'[n + m] = e /\ n + m \in 1..Len(Pipe')
            BY <2>7, <2>10, <3>1, <3>4, <5>1, <5>2
          <5>4. ASSUME NEW j \in 1..((n + m) - 1), j \in Coming' PROVE Pipe'[j].id < e.id
            <6>1. j \in 1..Len(Pipe') /\ j \notin 1..n
              BY <2>11, <4>5, <5>4
            <6>2. j - n \in 1..Len(sub.events) /\ n + (j - n) = j /\ j - n < m
              BY <2>6, <2>7, <4>4, <6>1
            <6>3. Pipe'[j] = sub.events[j - n] /\ sub.events[j - n].id = a + (j - n) - 1
              BY <2>7, <2>10, <6>2
            <6>4. a + (j - n) - 1 < e.id
              <7> HIDE DEF a
              <7> QED
                BY <4>4, <6>2
            <6> QED
              BY <6>3, <6>4
          <5>5. Turn(e, Pipe', Coming', n + m)
            BY <5>3, <5>4 DEF Turn
          <5>6. Comes(e, Pipe', Coming')
            BY <5>3, <5>5 DEF Comes
          <5> QED
            BY <2>6, <5>6, ComesLater
        <4>7. CASE m > Len(sub.events)
          <5>1. ASSUME NEW j \in 1..Len(Pipe'), j \in Coming' PROVE Pipe'[j].id < e.id
            <6>1. j - n \in 1..Len(sub.events) /\ n + (j - n) = j
              BY <2>6, <2>7, <4>5, <5>1
            <6>2. j - n < m
              BY <2>6, <4>4, <4>7, <6>1
            <6>3. Pipe'[j] = sub.events[j - n] /\ sub.events[j - n].id = a + (j - n) - 1
              BY <2>7, <2>10, <6>1
            <6>4. a + (j - n) - 1 < e.id
              <7> HIDE DEF a
              <7> QED
                BY <4>4, <6>1, <6>2
            <6> QED
              BY <6>3, <6>4
          <5>2. Turn(e, Pipe', Coming', Len(Pipe') + 1)
            BY <2>6, <5>1 DEF Turn
          <5>3. Later(e, Pipe', Coming')
            BY <2>6, <5>2 DEF Later
          <5>4. sub.overflowed
            <6> SUFFICES ASSUME ~sub.overflowed PROVE FALSE
              OBVIOUS
            <6>1. Len(sub.events) \in 1..Len(sub.events) /\ sub.events # <<>>
              BY <2>6, <4>2
            <6>2. sub.events[Len(sub.events)].id = Len(log)
              BY <1>0, <6>1 DEF FeedInv
            <6>3. sub.events[Len(sub.events)].id = a + Len(sub.events) - 1
              BY <2>10, <6>1
            <6> HIDE DEF a
            <6> QED
              BY <1>2, <2>6, <3>1, <4>4, <4>7, <6>2, <6>3
          <5> QED
            BY <5>3, <5>4
        <4> QED
          BY <2>6, <4>4, <4>6, <4>7
      <3> QED
        BY <1>2, <2>6, <3>1, <3>3, <3>4
    <2>13. \A e \in Range(log) : client.cursor < e.id
      BY <1>0, <2>1, EventsLogged
    <2> QED
      BY <1>1, <2>12, <2>13 DEF DueInv
  <1> QED
    BY <1>4, <1>5

(* Every step keeps what is owed on its way.                                *)
LEMMA DueStep ==
    ASSUME CleanStops, FlowInv, [SyncNext]_syncVars
    PROVE  DueInv'
  <1>0. TypeInv /\ LogInv /\ FeedInv /\ DueInv /\ client \in Client
    BY Types DEF FlowInv
  <1>1. CASE FeedNext /\ UNCHANGED clientVars
    <2>1. CASE \E k \in Kinds : appendWorkspaceEvent(k)
      BY <1>1, <2>1, DueAppends
    <2>2. CASE SaveAndUnlock
      BY <1>1, <2>2, DueSame DEF SaveAndUnlock, feedVars, clientVars
    <2>3. CASE webSocketCatchUpPage
      BY <1>1, <2>3, DuePages
    <2>4. CASE SendCatchUp
      BY <1>1, <2>4, DueSendsCatchUp
    <2>5. CASE SendLive
      BY <1>1, <2>5, DueSendsLive
    <2>6. CASE CloseOnOverflow
      BY <1>1, <2>6, DueCloses DEF CloseOnOverflow, storeVars, clientVars
    <2> QED
      BY <1>1, <2>1, <2>2, <2>3, <2>4, <2>5, <2>6 DEF FeedNext
  <1>2. CASE openWebSocket
    BY <1>2, DueOpens
  <1>3. CASE handleSocketMessage
    BY <1>3, DueReceives
  <1>4. CASE SocketClosed \/ startPolling \/ pollLoopYields
    <2>1. UNCHANGED <<log, wire, sub, handler, since, emitted, silenced, dropped>>
          /\ dropped \subseteq dropped'
      BY <1>4 DEF SocketClosed, startPolling, pollLoopYields, storeVars, feedVars
    <2>2. client'.cursor = client.cursor
      <3>1. CASE SocketClosed \/ pollLoopYields
        <4>1. client' = [client EXCEPT !.state = "reconnecting"]
          BY <3>1 DEF SocketClosed, pollLoopYields
        <4> QED
          BY <1>0, <4>1 DEF Client
      <3>2. CASE startPolling
        <4>1. client' = NewPoll([client EXCEPT !.state = "polling"])
          BY <3>2 DEF startPolling
        <4> QED
          BY <1>0, <4>1 DEF NewPoll, Client
      <3> QED
        BY <1>4, <3>1, <3>2
    <2> QED
      BY <2>1, <2>2, DueSame
  <1>5. CASE forceReconnect
    <2>1. /\ handler' = NoConn /\ sub' = NoSub /\ wire' = <<>>
          /\ UNCHANGED <<log, since, emitted, silenced, dropped>>
          /\ client' = [client EXCEPT !.state = "reconnecting"]
      BY <1>5 DEF forceReconnect, Disconnect, storeVars
    <2>2. client'.cursor = client.cursor
      BY <1>0, <2>1 DEF Client
    <2> QED
      BY <2>1, <2>2, DueCloses
  <1>6. CASE pollLoop
    BY <1>6, DuePolls
  <1>7. CASE Restart /\ UNCHANGED clientVars
    <2>1. /\ handler' = NoConn /\ sub' = NoSub /\ wire' = <<>> /\ log' = log
          /\ UNCHANGED <<since, emitted, silenced, dropped, client>>
      BY <1>0, <1>7 DEF Restart, Disconnect, LogInv, clientVars
    <2> QED
      BY <2>1, DueCloses
  <1>8. CASE UNCHANGED syncVars
    BY <1>8, DueSame DEF syncVars, storeVars, feedVars, clientVars
  <1>9. CASE pollFails
    <2>1. UNCHANGED <<log, wire, sub, handler, since, emitted, silenced>>
          /\ dropped \subseteq dropped'
      BY <1>9 DEF pollFails, storeVars, feedVars
    <2> QED
      BY <1>9, <2>1, PollLetsGo, DueSame
  <1> QED
    BY <1>1, <1>2, <1>3, <1>4, <1>5, <1>6, <1>7, <1>8, <1>9 DEF SyncNext, ClientNext

(* The invariant holds to begin with, and every step preserves it.          *)
LEMMA FlowInit ==
    ASSUME SyncInit
    PROVE  FlowInv
  <1>0. TypeInv
    BY TypeInit
  <1>1. PICK k \in Kinds : log = <<[id |-> 1, serial |-> 1, kind |-> k]>>
    BY DEF SyncInit, FeedInit
  <1>2. /\ Len(log) = 1 /\ DOMAIN log = {1} /\ log[1].id = 1 /\ disk = log
        /\ sub = NoSub /\ handler = NoConn /\ wire = <<>>
    BY <1>1 DEF SyncInit, FeedInit
  <1>3. PICK from \in Starts :
         /\ client = [state |-> "reconnecting", from |-> from,
                      cursor |-> IF from = "cursor" THEN 1 ELSE NoCursor,
                      firstPollComplete |-> FALSE, polledEventOrder |-> <<>>,
                      polledCursor |-> NoCursor, polledLatest |-> NoCursor,
                      pending |-> <<>>]
         /\ since = IF from = "cursor" THEN 1 ELSE -1
    BY DEF SyncInit
  <1>4. /\ client.state = "reconnecting" /\ client.polledEventOrder = <<>> /\ client.pending = <<>>
        /\ ~client.firstPollComplete
        /\ \/ client.cursor = 1 /\ since = 1
           \/ client.cursor = 0 /\ since = -1
    BY <1>3 DEF NoCursor
  <1>5. LogInv
    BY <1>2 DEF LogInv
  <1>6. FeedInv
    <2>1. wire = <<>> /\ handler.catchUp = <<>> /\ sub.events = <<>> /\ handler.pc = "closed"
          /\ handler.ids = {} /\ DOMAIN <<>> = {}
      BY <1>2 DEF NoConn, NoSub
    <2> QED
      BY <1>2, <1>4, <2>1 DEF FeedInv, NoConn, NoSub
  <1>7. PagingInv
    BY <1>2 DEF PagingInv, NoConn
  <1>8. CursorInv /\ PollInv
    BY <1>2, <1>4 DEF CursorInv, PollInv, Range
  <1>9. DueInv
    <2>1. handler.catchUp = <<>> /\ Live = <<>> /\ handler.pc = "closed"
      BY <1>2 DEF NoConn, NoSub, Live
    <2>2. Pipe = <<>> /\ Len(<<>>) = 0
      BY <1>2, <2>1 DEF Pipe
    <2>3. Coming = {}
      BY <2>2 DEF Coming
    <2>4. \A e \in Range(log) : e.id = 1
      BY <1>2 DEF Range
    <2>5. \A e \in Range(log) : Due(e) => client.cursor < e.id
      <3> SUFFICES ASSUME NEW e \in Range(log), Due(e) PROVE client.cursor < e.id
        OBVIOUS
      <3>1. ~(since < 0)
        BY <2>2, <2>3, NoPipe DEF Due
      <3>2. since = 1
        BY <1>4, <3>1
      <3> QED
        BY <2>4, <3>2 DEF Due
    <2> QED
      BY <2>1, <2>2, <2>3, <2>5, NoPipe DEF DueInv
  <1> QED
    BY <1>0, <1>5, <1>6, <1>7, <1>8, <1>9 DEF FlowInv

LEMMA FlowStep ==
    ASSUME CleanStops, FlowInv, [SyncNext]_syncVars
    PROVE  FlowInv'
  <1>1. TypeInv' /\ LogInv'
    BY TypeStep, LogStep DEF FlowInv
  <1>2. FeedInv' /\ PagingInv'
    BY FeedStep
  <1>3. CursorInv' /\ PollInv'
    BY CursorStep
  <1>4. DueInv'
    BY DueStep
  <1> QED
    BY <1>1, <1>2, <1>3, <1>4 DEF FlowInv

(* What the client's cursor has passed is not owed any more.                *)
LEMMA NothingLeft ==
    ASSUME FlowInv
    PROVE  NothingSkipped
  <1> SUFFICES ASSUME NEW e \in Range(log), e.kind = "wanted", since >= 0, since < e.id,
                      e.id <= client.cursor, ~Settled(e)
               PROVE  FALSE
    BY DEF NothingSkipped, Settled
  <1>1. Due(e)
    BY Types DEF Due, FlowInv
  <1>2. client.cursor < e.id
    BY <1>1 DEF FlowInv, DueInv
  <1>3. client.cursor \in Nat /\ e.id \in Nat
    BY Types, EventsLogged DEF FlowInv
  <1> QED
    BY <1>2, <1>3

(* SyncClient: a cursor passes no wanted event that the handlers have not   *)
(* seen, but for what a first poll has passed and what a poll had read when *)
(* a later request of it failed, whatever catch-up, live delivery,          *)
(* overflow, reconnects, failing polls and restarts overlap, for every size *)
(* of the pages, of the subscription, of the wire and of the cache of       *)
(* polled events.  The server saves the log before it stops; otherwise      *)
(* cursors are given out twice.                                             *)
THEOREM NothingEverSkipped ==
    ASSUME CleanStops
    PROVE  SyncSpec => []NothingSkipped
  <1>1. SyncInit => FlowInv
    BY FlowInit
  <1>2. FlowInv /\ [SyncNext]_syncVars => FlowInv'
    BY FlowStep
  <1>3. FlowInv => NothingSkipped
    BY NothingLeft
  <1> QED
    BY <1>1, <1>2, <1>3, PTL DEF SyncSpec

(* SyncClient and EventFeed: no more events are published, sent or pending  *)
(* than there is room for, whether the server is stopped or killed.         *)
THEOREM FeedTypesHold ==
    SyncSpec => []SyncTypeOK
  <1>1. SyncInit => TypeInv
    BY TypeInit
  <1>2. TypeInv /\ [SyncNext]_syncVars => TypeInv'
    BY TypeStep
  <1>3. TypeInv => SyncTypeOK
    BY DEF TypeInv
  <1> QED
    BY <1>1, <1>2, <1>3, PTL DEF SyncSpec
=============================================================================
