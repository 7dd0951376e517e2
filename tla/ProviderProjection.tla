------------------------- MODULE ProviderProjection -------------------------
(***************************************************************************)
(* How provider deliveries become files (applyProviderUpsertLocked and     *)
(* applyProviderDeleteLocked of internal/relayfile/store.go), and what     *)
(* happens to an agent's draft when its writeback is acknowledged with the *)
(* provider's id (internal/relayfile/draft_reconcile.go).                  *)
(*                                                                         *)
(* Every operation is one block under s.mu that ends in a save, so each is *)
(* one action and a crash falls between two of them.  One workspace, one   *)
(* provider; paths are canonical already.  Revisions and the control       *)
(* events without a path (sync.stale, sync.reconcile, sync.ignored) are    *)
(* left out.                                                               *)
(***************************************************************************)
EXTENDS Integers, Sequences, Functions

CONSTANTS
    Paths,        \* file paths
    Objects,      \* provider object ids
    Values,       \* file contents
    Absent,       \* no file
    NoPath,       \* a delivery without path, an object that is not indexed
    NoObject,     \* a delivery or a file without provider object id
    Never,        \* no delivery so far
    Fallbacks,    \* per object, the paths a pathless upsert tries
    Legacy,       \* the first boot loads any files with any index
    MaxTime,      \* bound on ReceivedAt
    MaxOps        \* bound on writeback operations

OpIds == 1..MaxOps
Times == 1..MaxTime
Keys  == Objects \cup Paths

ASSUME ProjectionAssumption ==
    /\ Objects \cap Paths = {}
    /\ NoPath \notin Paths /\ NoObject \notin Objects
    /\ Fallbacks \in [Objects -> Seq(Paths)]
    /\ Legacy \in BOOLEAN
    /\ MaxTime \in Nat /\ MaxOps \in Nat
    /\ Absent \notin Values \cup [content : Values, obj : Objects \cup {NoObject}]

VARIABLES
    files,       \* ws.Files
    index,       \* ws.ProviderIndex
    watermarks,  \* ws.ProviderWatermarks
    ops,         \* ws.Ops
    view,        \* the contents a reader of ws.Events believes in
    newest,      \* history: the newest delivery about an object so far
    disturbed    \* history: objects changed by others since that delivery

vars == <<files, index, watermarks, ops, view, newest, disturbed>>

-----------------------------------------------------------------------------
File == [content : Values, obj : Objects \cup {NoObject}]
FileOrAbsent == File \cup {Absent}

Op == [path : Paths, action : {"file_upsert", "file_delete"}, armed : BOOLEAN]
NoOp == [armed |-> FALSE]

(* What ParseGenericEnvelope lets through: a path or an object id. *)
Delivery ==
    {d \in [type : {"file_upsert", "file_delete"}, path : Paths \cup {NoPath},
            obj : Objects \cup {NoObject}, t : Times, content : Values] :
       d.path # NoPath \/ d.obj # NoObject}

ASSUME NeverAssumption == Never \notin Delivery

TypeOK ==
    /\ files \in [Paths -> FileOrAbsent]
    /\ index \in [Objects -> Paths \cup {NoPath}]
    /\ watermarks \in [Keys -> 0..MaxTime]
    /\ ops \in Seq(Op)
    /\ view \in [Paths -> Values \cup {Absent}]
    /\ newest \in [Objects -> Delivery \cup {Never}]
    /\ disturbed \subseteq Objects

ContentOf(file) == IF file = Absent THEN Absent ELSE file.content

(* The operation's events: what each says is at its path now.              *)
appendWorkspaceEvents(said) ==
    view' = [p \in Paths |-> IF p \in DOMAIN said THEN said[p] ELSE view[p]]

(* The other objects whose file an operation for `key' changes. *)
Others(key) ==
    {o \in Objects \ {key} : \E p \in Paths :
       /\ files'[p] # files[p]
       /\ \/ files[p] # Absent /\ files[p].obj = o
          \/ files'[p] # Absent /\ files'[p].obj = o}

-----------------------------------------------------------------------------
(* Deliveries *)

(* providerObjectMatchesFile *)
Matches(o) == {p \in Paths : files[p] # Absent /\ files[p].obj = o}

(* Mutant: the index is believed. *)
resolveProviderObjectPathUnverified(o) ==
    IF index[o] # NoPath THEN index[o]
    ELSE IF \E p \in Paths : Matches(o) = {p}
         THEN CHOOSE p \in Paths : Matches(o) = {p}
    ELSE NoPath

(* The indexed path if its file is the object's, else the only file that   *)
(* is.  (The index entry it repairs is rewritten or deleted by the caller.) *)
resolveProviderObjectPath(o) ==
    IF index[o] \in Matches(o) THEN index[o]
    ELSE IF \E p \in Paths : Matches(o) = {p}
         THEN CHOOSE p \in Paths : Matches(o) = {p}
    ELSE NoPath

(* The first fallback that is free, if no file claims the object.          *)
FreeFallbacks(o) == {i \in DOMAIN Fallbacks[o] : files[Fallbacks[o][i]] = Absent}
resolveProviderObjectUpsertPath(o) ==
    IF resolveProviderObjectPath(o) # NoPath THEN resolveProviderObjectPath(o)
    ELSE IF Matches(o) # {} \/ FreeFallbacks(o) = {} THEN NoPath
    ELSE Fallbacks[o][CHOOSE i \in FreeFallbacks(o) :
                        \A j \in FreeFallbacks(o) : i <= j]

(* Mutant: the move is not announced at the path the object leaves. *)
applyProviderUpsertSilentMove(d, path) ==
    LET left == IF d.obj = NoObject THEN {}
                ELSE {index[d.obj]} \cap (Matches(d.obj) \ {path})
    IN  /\ files' = [p \in Paths |->
             IF p = path THEN [content |-> d.content, obj |-> d.obj]
             ELSE IF p \in left THEN Absent ELSE files[p]]
        /\ index' = IF d.obj = NoObject THEN index
                    ELSE [index EXCEPT ![d.obj] = path]
        /\ appendWorkspaceEvents([p \in {path} |-> d.content])

(* The object's earlier projection goes if the index names it and the file *)
(* is the object's; the file at the new path is replaced, whosever it is.  *)
applyProviderUpsert(d, path) ==
    LET left == IF d.obj = NoObject THEN {}
                ELSE {index[d.obj]} \cap (Matches(d.obj) \ {path})
    IN  /\ files' = [p \in Paths |->
             IF p = path THEN [content |-> d.content, obj |-> d.obj]
             ELSE IF p \in left THEN Absent ELSE files[p]]
        /\ index' = IF d.obj = NoObject THEN index
                    ELSE [index EXCEPT ![d.obj] = path]
        /\ appendWorkspaceEvents([p \in left \cup {path} |->
             IF p = path THEN d.content ELSE Absent])

applyProviderDelete(d, path) ==
    /\ files' = [files EXCEPT ![path] = Absent]
    /\ index' = IF d.obj = NoObject THEN index
                ELSE [index EXCEPT ![d.obj] = NoPath]
    /\ appendWorkspaceEvents([p \in {path} |-> Absent])

(* The path a delivery is about, NoPath if it names no file: with an       *)
(* object id, a delete trusts its own path only if the file there is the   *)
(* object's.                                                               *)
TargetPath(d) ==
    IF d.type = "file_upsert"
    THEN IF d.path # NoPath THEN d.path ELSE resolveProviderObjectUpsertPath(d.obj)
    ELSE IF d.obj = NoObject \/ d.path \in Matches(d.obj) THEN d.path
    ELSE resolveProviderObjectPath(d.obj)

WatermarkKey(d) == IF d.obj # NoObject THEN d.obj ELSE d.path

(* Mutant: nothing is stale. *)
isStaleNever(d) == FALSE

isStaleProviderAction(d) == d.t < watermarks[WatermarkKey(d)]

(* Mutant: the watermark is one past the delivery. *)
RaiseWatermarkOffByOne(d) ==
    watermarks' = [watermarks EXCEPT ![WatermarkKey(d)] = d.t + 1]

RaiseWatermark(d) ==
    watermarks' = [watermarks EXCEPT ![WatermarkKey(d)] = d.t]

(* What the provider has told about the object, whatever the code made of  *)
(* it; where a deleted object was does not matter.  A pathless upsert that *)
(* finds no place is not held against the code.                            *)
Said(d) == IF d.type = "file_delete" THEN [d EXCEPT !.path = NoPath] ELSE d

News(d) ==
    LET o == d.obj
        news == o # NoObject /\ (newest[o] = Never \/ newest[o].t <= d.t)
        lost == news /\ d.type = "file_upsert" /\ TargetPath(d) = NoPath
    IN  /\ newest' = IF news THEN [newest EXCEPT ![o] = Said(d)] ELSE newest
        /\ disturbed' = ((disturbed \ (IF news THEN {o} ELSE {}))
                           \cup Others(o)) \cup (IF lost THEN {o} ELSE {})

(* A delete of a file that is not there, or that cannot be told, has none. *)
HasEffect(d) ==
    /\ TargetPath(d) # NoPath
    /\ d.type = "file_upsert" \/ files[TargetPath(d)] # Absent

(* processEnvelope's loop body for one action. *)
Deliver(d) ==
    /\ \/ /\ isStaleProviderAction(d)
          /\ UNCHANGED <<files, index, watermarks, view>>
       \/ /\ ~isStaleProviderAction(d)
          /\ RaiseWatermark(d)
          /\ \/ /\ HasEffect(d) /\ d.type = "file_upsert"
                /\ applyProviderUpsert(d, TargetPath(d))
             \/ /\ HasEffect(d) /\ d.type = "file_delete"
                /\ applyProviderDelete(d, TargetPath(d))
             \/ /\ ~HasEffect(d)
                /\ UNCHANGED <<files, index, view>>
    /\ News(d)
    /\ UNCHANGED ops

-----------------------------------------------------------------------------
(* Agents *)

recordWrite(p, a) ==
    /\ Len(ops) < MaxOps
    /\ ops' = Append(ops, [path |-> p, action |-> a, armed |-> TRUE])
    /\ disturbed' = disturbed \cup Others(NoObject)
    /\ UNCHANGED <<index, watermarks, newest>>

(* A write keeps the file's provider object id. *)
WriteFile(p, c) ==
    /\ files' = [files EXCEPT ![p] =
         [content |-> c, obj |-> IF @ = Absent THEN NoObject ELSE @.obj]]
    /\ appendWorkspaceEvents([q \in {p} |-> c])
    /\ recordWrite(p, "file_upsert")

(* A delete leaves the index alone. *)
DeleteFile(p) ==
    /\ files[p] # Absent
    /\ files' = [files EXCEPT ![p] = Absent]
    /\ appendWorkspaceEvents([q \in {p} |-> Absent])
    /\ recordWrite(p, "file_delete")

-----------------------------------------------------------------------------
(* Drafts *)

removeDraft(draft) ==
    /\ files' = [files EXCEPT ![draft] = Absent]
    /\ appendWorkspaceEvents([p \in {draft} |-> Absent])
    /\ UNCHANGED index

(* Something is at the path the index or the target names; whose file it   *)
(* is, is not looked at.                                                   *)
Materialized(draft, ext, target) ==
    \/ index[ext] \notin {NoPath, draft} /\ files[index[ext]] # Absent
    \/ target # draft /\ files[target] # Absent

(* Mutant: the index does not learn the new path. *)
renameDraftUnindexed(draft, ext, target) ==
    /\ files' = [files EXCEPT ![draft] = Absent,
                              ![target] = [files[draft] EXCEPT !.obj = ext]]
    /\ appendWorkspaceEvents([p \in {draft, target} |->
         IF p = target THEN files[draft].content ELSE Absent])
    /\ UNCHANGED index

renameDraft(draft, ext, target) ==
    /\ files' = [files EXCEPT ![draft] = Absent,
                              ![target] = [files[draft] EXCEPT !.obj = ext]]
    /\ appendWorkspaceEvents([p \in {draft, target} |->
         IF p = target THEN files[draft].content ELSE Absent])
    /\ index' = [index EXCEPT ![ext] = target]

(* reconcileAckedDraftLocked: `target' is the consumer's canonical path or *)
(* the name made of the external id.                                       *)
reconcileAckedDraft(op, ext, target) ==
    LET draft == op.path
        isDraft == /\ op.action = "file_upsert"
                   /\ files[draft] # Absent
                   /\ files[draft].obj = NoObject
        linked == /\ op.action = "file_upsert"
                  /\ files[draft] # Absent
                  /\ files[draft].obj = ext
    IN  \/ /\ isDraft /\ Materialized(draft, ext, target)
           /\ removeDraft(draft)
        \/ /\ isDraft /\ ~Materialized(draft, ext, target) /\ target # draft
           /\ renameDraft(draft, ext, target)
        \/ /\ linked
           /\ index' = [index EXCEPT ![ext] = IF @ = NoPath THEN draft ELSE @]
           /\ UNCHANGED <<files, view>>
        \/ /\ ~linked
           /\ ~isDraft \/ (target = draft /\ ~Materialized(draft, ext, target))
           /\ UNCHANGED <<files, index, view>>

(* A successful ack with an external id, of any operation at any time. *)
AcknowledgeWriteback(i, ext, target) ==
    /\ i \in DOMAIN ops
    /\ ops' = [ops EXCEPT ![i].armed = FALSE]
    /\ reconcileAckedDraft(ops[i], ext, target)
    /\ disturbed' = disturbed \cup Others(NoObject)
    /\ UNCHANGED <<watermarks, newest>>

(* A failed ack, or one without an external id. *)
AcknowledgePlainly(i) ==
    /\ i \in DOMAIN ops
    /\ ops' = [ops EXCEPT ![i].armed = FALSE]
    /\ UNCHANGED <<files, index, watermarks, view, newest, disturbed>>

(* SweepWritebackDrafts with Apply, over the paths that look like drafts   *)
(* under the request's prefix and patterns.                                *)
SweepWritebackDrafts(draftLike) ==
    LET swept == {p \in draftLike :
                    /\ files[p] # Absent /\ files[p].obj = NoObject
                    /\ p \notin Range(index)
                    /\ \A i \in DOMAIN ops : ~(ops[i].armed /\ ops[i].path = p)}
    IN  /\ swept # {}
        /\ files' = [p \in Paths |-> IF p \in swept THEN Absent ELSE files[p]]
        /\ appendWorkspaceEvents([p \in swept |-> Absent])
        /\ UNCHANGED <<index, watermarks, ops, newest, disturbed>>

-----------------------------------------------------------------------------
Init ==
    /\ files \in [Paths -> FileOrAbsent]
    /\ index \in [Objects -> Paths \cup {NoPath}]
    /\ ~Legacy => /\ \A p \in Paths : files[p] = Absent
                  /\ \A o \in Objects : index[o] = NoPath
    /\ watermarks = [k \in Keys |-> 0]
    /\ ops = <<>>
    /\ view = [p \in Paths |-> ContentOf(files[p])]
    /\ newest = [o \in Objects |-> Never]
    /\ disturbed = {}

Next ==
    \/ \E d \in Delivery : Deliver(d)
    \/ \E p \in Paths : DeleteFile(p) \/ \E c \in Values : WriteFile(p, c)
    \/ \E i \in OpIds :
         \/ AcknowledgePlainly(i)
         \/ \E o \in Objects, p \in Paths : AcknowledgeWriteback(i, o, p)
    \/ \E S \in SUBSET Paths : SweepWritebackDrafts(S)

Spec == Init /\ [][Next]_vars

-----------------------------------------------------------------------------
(* Properties *)

(* "Canonical identity: object ID is authoritative, path is projection":   *)
(* an object has at most one file, and the index names it, whatever moves, *)
(* path-only deliveries, agents' deletes, draft renames and stale index    *)
(* entries come together.                                                  *)
IndexedProjection ==
    \A o \in Objects, p \in Paths : p \in Matches(o) => index[o] = p

(* Out-of-order convergence: what the newest delivery about an object said *)
(* is what is there, an upsert's content or a delete's absence, in         *)
(* whatever order the deliveries came, as long as no agent, ack or other   *)
(* delivery has changed the object's file since.                           *)
ProjectionCurrent ==
    \A o \in Objects \ disturbed :
      newest[o] # Never =>
        IF newest[o].type = "file_delete" THEN Matches(o) = {}
        ELSE \E p \in Paths :
               /\ Matches(o) = {p}
               /\ files[p].content = newest[o].content
               /\ newest[o].path \in {NoPath, p}

(* A reader of the event feed knows the tree: the events of every provider *)
(* move, delete, draft rename and sweep together say what each path holds. *)
ViewMirrorsFiles == \A p \in Paths : view[p] = ContentOf(files[p])

(* "A pathless provider action must never overwrite a path whose ownership *)
(* cannot be proven", and a delete by object id removes that object's file *)
(* or nothing, from any files and any index an older binary may have left. *)
IdentityRespected ==
    [][\A p \in Paths :
         (files'[p] # files[p] /\ files[p] # Absent) =>
           \A d \in Delivery :
             (/\ d.obj # NoObject
              /\ d.path = NoPath \/ d.type = "file_delete"
              /\ p \notin Matches(d.obj)) => ~Deliver(d)]_vars

(* draft_reconcile.go: "Canonical record already lives at the target: drop *)
(* the draft".  What an ack removes a draft for is not some other object's *)
(* file: the object has a file, or the one in the way has no object id.    *)
RemovedDraftsRedundant ==
    [][\A i \in DOMAIN ops, o \in Objects, p \in Paths :
         (/\ AcknowledgeWriteback(i, o, p)
          /\ files[ops[i].path] # Absent
          /\ files'[ops[i].path] = Absent)
         => \/ \E q \in Paths : files'[q] # Absent /\ files'[q].obj = o
            \/ \E q \in {index[o], p} \cap Paths :
                 files[q] # Absent /\ files[q].obj = NoObject]_vars
=============================================================================
