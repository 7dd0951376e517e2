--------------------------- MODULE WorkspaceForks ---------------------------
(***************************************************************************)
(* The live tree of a relayfile workspace and the proposal forks over it   *)
(* (internal/relayfile/store.go).                                          *)
(*                                                                         *)
(* Every mutation runs under the store mutex and ends in saveLocked, which *)
(* writes one snapshot of the whole store.  Operations with a single       *)
(* mutation are one action.  The loops of BulkWrite, BulkWriteFork and     *)
(* CommitFork take one action per iteration while `lock' holds the mutex,  *)
(* because each iteration already changes the memory state and appends     *)
(* events, and a crash inside the loop loses all of it.                    *)
(*                                                                         *)
(* A live revision "rev_n" is the number n, "0" is 0.  A fork's overlay    *)
(* revision "fork:f:n" never equals a live one; an If-Match value is Star   *)
(* ("*") or a record that tells the two kinds apart.                       *)
(***************************************************************************)
EXTENDS Integers, Sequences, FiniteSets

CONSTANTS
    Workspaces,   \* workspace ids
    Paths,        \* file paths
    Values,       \* file contents
    ForkIds,      \* ids newForkID can return; each is returned once
    Proposals,    \* proposal ids
    LegacyForks,  \* forks the first boot loads that an older binary wrote
    Absent,       \* no file at a path
    NoEntry,      \* a fork's overlay does not touch the path
    NoFork,       \* no fork
    Committed,    \* what is left of a fork whose commit was answered
    Star,          \* the If-Match value "*"
    Live,         \* tag of a live revision, as opposed to a fork's overlay one
    Unknown,      \* BaseRevision == "" of an entry written by an older binary
    MaxRev,       \* bound on revCounter
    MaxOverlay    \* bound on a fork's OverlayRevisionCounter

VARIABLES
    files,            \* ws.Files, per workspace and path
    wsRevision,       \* ws.Revision
    revCounter,       \* s.revCounter, shared by all workspaces
    events,           \* ws.Events
    forks,            \* s.forks
    forkByWorkspaceProposal,
    forkByProposal,
    forkTimers,       \* forks whose expiry timer is armed
    unscheduled,      \* created forks whose scheduleForkExpiry call is due
    past,             \* forks whose ExpiresAt is in the past
    used,             \* fork ids handed out so far
    committed,        \* history: forks whose commit was answered
    lock,             \* the handler inside a loop under s.mu, if any
    disk              \* the last snapshot saveLocked wrote

vars == <<files, wsRevision, revCounter, events, forks,
          forkByWorkspaceProposal, forkByProposal, forkTimers, unscheduled,
          past, used, committed, lock, disk>>

liveVars  == <<files, wsRevision, revCounter, events>>
indexVars == <<forkByWorkspaceProposal, forkByProposal>>
timeVars  == <<forkTimers, unscheduled, past, used, committed>>

-----------------------------------------------------------------------------
(* Types *)

File == [rev : Nat, content : Values]
FileOrAbsent == File \cup {Absent}

Revision == [src : {Live} \cup ForkIds, n : Nat]
LiveR(n) == [src |-> Live, n |-> n]

(* `seen' is a history field: the live file the fork's author was looking   *)
(* at when BaseRevision was pinned.                                         *)
Entry == [type : {"write"}, content : Values,
          rev : Nat, base : Nat \cup {Unknown}, seen : FileOrAbsent]
         \cup [type : {"delete"}, content : {Absent},
               rev : Nat, base : Nat \cup {Unknown}, seen : FileOrAbsent]
Fork == [ws : Workspaces, proposal : Proposals, parent : Nat,
         overlay : [Paths -> Entry \cup {NoEntry}], counter : Nat]

(* What a fork is to ForkTransactions. *)
Edit == [new : Values \cup {Absent}, seen : FileOrAbsent]
Transaction == [ws : Workspaces, edits : [Paths -> Edit \cup {NoEntry}]]

(* The stand-ins for "nothing" and for "*" are none of the real things. *)
ASSUME ForksAssumption ==
    /\ LegacyForks \subseteq ForkIds
    /\ Live \notin ForkIds
    /\ NoFork \notin ForkIds \cup Fork \cup Transaction
    /\ Committed \notin Transaction \cup {NoFork}
    /\ Absent \notin Values \cup File
    /\ NoEntry \notin Entry \cup Edit
    /\ Star \notin Revision
    /\ Unknown \notin Nat
    /\ MaxRev \in Nat
    /\ MaxOverlay \in Nat

Event == [type : {"file.created", "file.updated", "file.deleted"},
          path : Paths, file : FileOrAbsent, rev : Nat]

Free == [kind |-> "free"]
Lock == {Free}
        \cup [kind : {"bulk"}, ws : Workspaces]
        \cup [kind : {"bulkFork"}, fork : ForkIds]
        \cup [kind : {"commit"}, fork : ForkIds, todo : SUBSET Paths]

Tree    == [Workspaces -> [Paths -> FileOrAbsent]]
ForkMap == [ForkIds -> Fork \cup {NoFork}]

Snapshot == [files |-> files, wsRevision |-> wsRevision,
             revCounter |-> revCounter, events |-> events, forks |-> forks]
Snapshots == [files : Tree, wsRevision : [Workspaces -> Nat],
              revCounter : Nat, events : [Workspaces -> Seq(Event)],
              forks : ForkMap]

TypeOK ==
    /\ files \in Tree
    /\ wsRevision \in [Workspaces -> Nat]
    /\ revCounter \in Nat
    /\ events \in [Workspaces -> Seq(Event)]
    /\ forks \in ForkMap
    /\ forkByWorkspaceProposal \in
         [Workspaces \X Proposals -> ForkIds \cup {NoFork}]
    /\ forkByProposal \in [Proposals -> ForkIds \cup {NoFork}]
    /\ forkTimers \subseteq ForkIds
    /\ unscheduled \subseteq ForkIds
    /\ past \subseteq ForkIds
    /\ used \subseteq ForkIds
    /\ committed \subseteq ForkIds
    /\ lock \in Lock
    /\ disk \in Snapshots

-----------------------------------------------------------------------------
(* Live tree *)

LiveRev(w, p) == IF files[w][p] = Absent THEN 0 ELSE files[w][p].rev

Save == disk' = Snapshot'

(* recordWriteLocked / appendWorkspaceEventLocked: one event per mutation. *)
recordWrite(w, p, type, file, rev) ==
    events' = [events EXCEPT ![w] =
        Append(@, [type |-> type, path |-> p, file |-> file, rev |-> rev])]

(* Mutant: the assignment to ws.Revision is missing. *)
PutFileKeepsRevision(w, p, c) ==
    LET rev  == revCounter + 1
        file == [rev |-> rev, content |-> c]
    IN  /\ revCounter < MaxRev
        /\ revCounter' = rev
        /\ wsRevision' = wsRevision
        /\ recordWrite(w, p, "file.updated", file, rev)
        /\ files' = [files EXCEPT ![w][p] = file]

PutFile(w, p, c) ==
    LET rev  == revCounter + 1
        file == [rev |-> rev, content |-> c]
    IN  /\ revCounter < MaxRev
        /\ revCounter' = rev
        /\ wsRevision' = [wsRevision EXCEPT ![w] = rev]
        /\ recordWrite(w, p,
             IF files[w][p] = Absent THEN "file.created" ELSE "file.updated",
             file, rev)
        /\ files' = [files EXCEPT ![w][p] = file]

(* Mutant: the file goes without an event. *)
RemoveFileSilently(w, p) ==
    /\ revCounter < MaxRev
    /\ files' = [files EXCEPT ![w][p] = Absent]
    /\ UNCHANGED <<wsRevision, revCounter, events>>

RemoveFile(w, p) ==
    LET rev == revCounter + 1
    IN  /\ revCounter < MaxRev
        /\ revCounter' = rev
        /\ wsRevision' = [wsRevision EXCEPT ![w] = rev]
        /\ recordWrite(w, p, "file.deleted", Absent, rev)
        /\ files' = [files EXCEPT ![w][p] = Absent]

(* An absent file accepts "0" and "*", an existing one "*" and its own     *)
(* revision.                                                               *)
Precondition(w, p, m) ==
    IF files[w][p] = Absent THEN m \in {Star, LiveR(0)}
                            ELSE m \in {Star, LiveR(files[w][p].rev)}

WriteFile(w, p, m, c) ==
    /\ lock = Free
    /\ Precondition(w, p, m)
    /\ PutFile(w, p, c)
    /\ UNCHANGED <<forks, indexVars, timeVars, lock>>
    /\ Save

DeleteFile(w, p, m) ==
    /\ lock = Free
    /\ files[w][p] # Absent
    /\ m \in {Star, LiveR(files[w][p].rev)}
    /\ RemoveFile(w, p)
    /\ UNCHANGED <<forks, indexVars, timeVars, lock>>
    /\ Save

(* BulkWrite: a per-item precondition, one save for the whole batch.  An   *)
(* item without If-Match behaves as "*"; a conflicting item is skipped.    *)
BulkWriteBegin(w) ==
    /\ lock = Free
    /\ lock' = [kind |-> "bulk", ws |-> w]
    /\ UNCHANGED <<liveVars, forks, indexVars, timeVars, disk>>

BulkWriteItem(p, m, c) ==
    /\ lock.kind = "bulk"
    /\ Precondition(lock.ws, p, m)
    /\ PutFile(lock.ws, p, c)
    /\ UNCHANGED <<forks, indexVars, timeVars, lock, disk>>

BulkWriteEnd ==
    /\ lock.kind = "bulk"
    /\ lock' = Free
    /\ UNCHANGED <<liveVars, forks, indexVars, timeVars>>
    /\ Save

-----------------------------------------------------------------------------
(* Forks *)

(* Mutant: the second index keeps its entry. *)
deleteForksKeepIndex(S) ==
    /\ forks' = [f \in ForkIds |-> IF f \in S THEN NoFork ELSE forks[f]]
    /\ forkByWorkspaceProposal' =
         [k \in Workspaces \X Proposals |->
            IF \E f \in S : forks[f].ws = k[1] /\ forks[f].proposal = k[2]
            THEN NoFork ELSE forkByWorkspaceProposal[k]]
    /\ forkByProposal' = forkByProposal
    /\ forkTimers' = forkTimers \ S

(* deleteForkLocked on every fork of S: the fork, its timer and both index *)
(* entries go.                                                             *)
deleteForks(S) ==
    /\ forks' = [f \in ForkIds |-> IF f \in S THEN NoFork ELSE forks[f]]
    /\ forkByWorkspaceProposal' =
         [k \in Workspaces \X Proposals |->
            IF \E f \in S : forks[f].ws = k[1] /\ forks[f].proposal = k[2]
            THEN NoFork ELSE forkByWorkspaceProposal[k]]
    /\ forkByProposal' =
         [q \in Proposals |->
            IF \E f \in S : forks[f].proposal = q
            THEN NoFork ELSE forkByProposal[q]]
    /\ forkTimers' = forkTimers \ S

LiveForks    == {f \in ForkIds : forks[f] # NoFork}
ExpiredForks == LiveForks \cap past

(* getLiveForkLocked lets the operation go on. *)
UsableFork(f) == lock = Free /\ f \in LiveForks \ past

(* getLiveForkLocked meets an expired fork: every fork operation deletes   *)
(* it, saves and answers ErrForkExpired.                                   *)
getLiveForkExpired(f) ==
    /\ lock = Free
    /\ f \in ExpiredForks
    /\ deleteForks({f})
    /\ UNCHANGED <<liveVars, unscheduled, past, used, committed, lock>>
    /\ Save

NewFork(w, q) == [ws |-> w, proposal |-> q, parent |-> wsRevision[w],
                  overlay |-> [p \in Paths |-> NoEntry], counter |-> 0]

(* The fork CreateFork finds for the proposal once the expired ones are    *)
(* gone: its own workspace's (returned again) or another's (refused).      *)
ProposalTaken(w, q) ==
    \/ forkByWorkspaceProposal[<<w, q>>] \in LiveForks \ past
    \/ /\ forkByProposal[q] \in LiveForks \ past
       /\ forks[forkByProposal[q]].ws # w

(* CreateFork first expires every fork that is due.  scheduleForkExpiry    *)
(* follows after the unlock.                                               *)
CreateFork(w, q, f) ==
    /\ lock = Free
    /\ f \notin used
    /\ ~ProposalTaken(w, q)
    /\ LET S == ExpiredForks IN
       /\ forks' = [g \in ForkIds |->
            IF g = f THEN NewFork(w, q)
            ELSE IF g \in S THEN NoFork ELSE forks[g]]
       /\ forkByWorkspaceProposal' =
            [k \in Workspaces \X Proposals |->
               IF k = <<w, q>> THEN f
               ELSE IF \E g \in S : forks[g].ws = k[1]
                                    /\ forks[g].proposal = k[2]
               THEN NoFork ELSE forkByWorkspaceProposal[k]]
       /\ forkByProposal' =
            [r \in Proposals |->
               IF r = q THEN f
               ELSE IF \E g \in S : forks[g].proposal = r
               THEN NoFork ELSE forkByProposal[r]]
       /\ forkTimers' = forkTimers \ S
    /\ used' = used \cup {f}
    /\ unscheduled' = unscheduled \cup {f}
    /\ UNCHANGED <<liveVars, past, committed, lock>>
    /\ Save

(* CreateFork that returns the existing fork or ErrForkProposalConflict:   *)
(* the expired forks are gone from memory, nothing is saved.               *)
CreateForkTaken(w, q) ==
    /\ lock = Free
    /\ ProposalTaken(w, q)
    /\ ExpiredForks # {}
    /\ deleteForks(ExpiredForks)
    /\ UNCHANGED <<liveVars, unscheduled, past, used, committed, lock, disk>>

DiscardFork(f) ==
    /\ lock = Free
    /\ f \in LiveForks
    /\ deleteForks({f})
    /\ UNCHANGED <<liveVars, unscheduled, past, used, committed, lock>>
    /\ Save

(* readForkFileLocked: the overlay entry, or the live file below it. *)
Touched(f, p)    == forks[f].overlay[p] # NoEntry
ForkLiveRev(f, p) == LiveRev(forks[f].ws, p)
ForkExists(f, p) ==
    IF Touched(f, p) THEN forks[f].overlay[p].type = "write"
                     ELSE files[forks[f].ws][p] # Absent
ForkRev(f, p) ==
    IF Touched(f, p) THEN [src |-> f, n |-> forks[f].overlay[p].rev]
                     ELSE LiveR(ForkLiveRev(f, p))

(* The If-Match of a caller resolving a rebase conflict: not the overlay's *)
(* revision but the live one, on a path this fork already touched.         *)
Resolves(f, p, m) ==
    /\ ForkExists(f, p)
    /\ m \notin {Star, ForkRev(f, p)}
    /\ Touched(f, p)
    /\ m = LiveR(ForkLiveRev(f, p))

AcceptsWrite(f, p, m) ==
    IF ForkExists(f, p) THEN m \in {Star, ForkRev(f, p)} \/ Resolves(f, p, m)
                        ELSE m \in {Star, LiveR(0)}
AcceptsDelete(f, p, m) ==
    ForkExists(f, p) /\ (m \in {Star, ForkRev(f, p)} \/ Resolves(f, p, m))

(* BaseRevision is pinned at the first touch and re-pinned only by a       *)
(* resolution (repin).                                                     *)
PutOverlay(f, p, type, c, repin) ==
    LET k    == forks[f].counter + 1
        keep == Touched(f, p) /\ ~repin
    IN  /\ forks[f].counter < MaxOverlay
        /\ forks' = [forks EXCEPT
             ![f].counter = k,
             ![f].overlay[p] =
               [type |-> type, content |-> c, rev |-> k,
                base |-> IF keep THEN forks[f].overlay[p].base
                                 ELSE ForkLiveRev(f, p),
                seen |-> IF keep THEN forks[f].overlay[p].seen
                                 ELSE files[forks[f].ws][p]]]

WriteForkFile(f, p, m, c) ==
    /\ UsableFork(f)
    /\ AcceptsWrite(f, p, m)
    /\ PutOverlay(f, p, "write", c, Resolves(f, p, m))
    /\ UNCHANGED <<liveVars, indexVars, timeVars, lock>>
    /\ Save

(* Mutant: the delete entry keeps a file. *)
DeleteForkFileKeepsFile(f, p, m) ==
    /\ UsableFork(f)
    /\ AcceptsDelete(f, p, m)
    /\ \E c \in Values : PutOverlay(f, p, "delete", c, Resolves(f, p, m))
    /\ UNCHANGED <<liveVars, indexVars, timeVars, lock>>
    /\ Save

DeleteForkFile(f, p, m) ==
    /\ UsableFork(f)
    /\ AcceptsDelete(f, p, m)
    /\ PutOverlay(f, p, "delete", Absent, Resolves(f, p, m))
    /\ UNCHANGED <<liveVars, indexVars, timeVars, lock>>
    /\ Save

(* BulkWriteFork: as WriteForkFile per item, without the resolution.       *)
BulkWriteForkBegin(f) ==
    /\ UsableFork(f)
    /\ lock' = [kind |-> "bulkFork", fork |-> f]
    /\ UNCHANGED <<liveVars, forks, indexVars, timeVars, disk>>

BulkWriteForkItem(p, m, c) ==
    /\ lock.kind = "bulkFork"
    /\ IF ForkExists(lock.fork, p) THEN m \in {Star, ForkRev(lock.fork, p)}
                                   ELSE m \in {Star, LiveR(0)}
    /\ PutOverlay(lock.fork, p, "write", c, FALSE)
    /\ UNCHANGED <<liveVars, indexVars, timeVars, lock, disk>>

BulkWriteForkEnd ==
    /\ lock.kind = "bulkFork"
    /\ lock' = Free
    /\ UNCHANGED <<liveVars, forks, indexVars, timeVars>>
    /\ Save

(* RebaseFork reports the paths whose base differs from the live revision  *)
(* and moves ParentRevision, whatever it reports.                          *)
RebaseConflict(f, p) ==
    Touched(f, p) /\ forks[f].overlay[p].base # ForkLiveRev(f, p)

RebaseFork(f) ==
    /\ UsableFork(f)
    /\ forks' = [forks EXCEPT ![f].parent = wsRevision[forks[f].ws]]
    /\ UNCHANGED <<liveVars, indexVars, timeVars, lock>>
    /\ Save

(* Mutant: a file that was absent at first touch is never compared. *)
EntryUnmovedUnlessNew(f, p) ==
    forks[f].overlay[p].base \in {0, ForkLiveRev(f, p)}

(* CommitFork's check of one overlay entry; an entry of an older binary    *)
(* falls back to the whole-workspace revision.                             *)
EntryUnmoved(f, p) ==
    LET base == forks[f].overlay[p].base IN
    IF base = Unknown THEN wsRevision[forks[f].ws] = forks[f].parent
                      ELSE base = ForkLiveRev(f, p)

CommitForkBegin(f) ==
    /\ UsableFork(f)
    /\ \A p \in Paths : Touched(f, p) => EntryUnmoved(f, p)
    /\ revCounter + Cardinality({p \in Paths : Touched(f, p)}) <= MaxRev
    /\ lock' = [kind |-> "commit", fork |-> f,
                todo |-> {p \in Paths : Touched(f, p)}]
    /\ UNCHANGED <<liveVars, forks, indexVars, timeVars, disk>>

(* Mutant: every iteration of the loop saves. *)
CommitForkApplySaves(p) ==
    /\ lock.kind = "commit"
    /\ p \in lock.todo
    /\ LET f == lock.fork
           w == forks[f].ws
           e == forks[f].overlay[p]
       IN  \/ e.type = "write" /\ PutFile(w, p, e.content)
           \/ e.type = "delete" /\ files[w][p] # Absent /\ RemoveFile(w, p)
           \/ /\ e.type = "delete"
              /\ files[w][p] = Absent
              /\ UNCHANGED liveVars
    /\ lock' = [lock EXCEPT !.todo = @ \ {p}]
    /\ UNCHANGED <<forks, indexVars, timeVars>>
    /\ Save

(* One overlay entry becomes a live mutation.  (The code takes the paths   *)
(* in sorted order; the model takes them in any order.)                    *)
CommitForkApply(p) ==
    /\ lock.kind = "commit"
    /\ p \in lock.todo
    /\ LET f == lock.fork
           w == forks[f].ws
           e == forks[f].overlay[p]
       IN  \/ e.type = "write" /\ PutFile(w, p, e.content)
           \/ /\ e.type = "delete"
              /\ files[w][p] # Absent
              /\ RemoveFile(w, p)
           \/ /\ e.type = "delete"
              /\ files[w][p] = Absent
              /\ UNCHANGED liveVars
    /\ lock' = [lock EXCEPT !.todo = @ \ {p}]
    /\ UNCHANGED <<forks, indexVars, timeVars, disk>>

CommitForkEnd ==
    /\ lock.kind = "commit"
    /\ lock.todo = {}
    /\ deleteForks({lock.fork})
    /\ lock' = Free
    /\ committed' = committed \cup {lock.fork}
    /\ UNCHANGED <<liveVars, unscheduled, past, used>>
    /\ Save

-----------------------------------------------------------------------------
(* Time and restarts *)

ExpiresAtPasses(f) ==
    /\ f \in used \ past
    /\ past' = past \cup {f}
    /\ UNCHANGED <<liveVars, forks, indexVars, forkTimers, unscheduled, used,
                   committed, lock, disk>>

(* Mutant: the timer is not armed when its time has already come. *)
scheduleForkExpiryLate(f) ==
    /\ lock = Free
    /\ f \in unscheduled
    /\ unscheduled' = unscheduled \ {f}
    /\ forkTimers' = IF f \in past THEN forkTimers ELSE forkTimers \cup {f}
    /\ UNCHANGED <<liveVars, forks, indexVars, past, used, committed, lock, disk>>

(* scheduleForkExpiry takes the mutex again: the fork may be gone by now,  *)
(* and the timer is armed all the same.                                    *)
scheduleForkExpiry(f) ==
    /\ lock = Free
    /\ f \in unscheduled
    /\ unscheduled' = unscheduled \ {f}
    /\ forkTimers' = forkTimers \cup {f}
    /\ UNCHANGED <<liveVars, forks, indexVars, past, used, committed, lock, disk>>

(* The timer fires when ExpiresAt is past; a fork that is gone is ignored. *)
expireForkByTimer(f) ==
    /\ lock = Free
    /\ f \in forkTimers \cap past
    /\ UNCHANGED <<liveVars, unscheduled, past, used, committed, lock>>
    /\ \/ f \in LiveForks /\ deleteForks({f}) /\ Save
       \/ /\ f \notin LiveForks
          /\ forkTimers' = forkTimers \ {f}
          /\ UNCHANGED <<forks, indexVars, disk>>

(* A crash at any point, then NewStoreWithOptions: loadFromDisk,           *)
(* rebuildForkIndexesLocked (drops the expired forks, in memory only) and  *)
(* scheduleForkExpiryTimers.                                               *)
Restart ==
    LET kept == {f \in ForkIds : disk.forks[f] # NoFork /\ f \notin past}
    IN  /\ files' = disk.files
        /\ wsRevision' = disk.wsRevision
        /\ revCounter' = disk.revCounter
        /\ events' = disk.events
        /\ forks' = [f \in ForkIds |->
                       IF f \in kept THEN disk.forks[f] ELSE NoFork]
        /\ forkByWorkspaceProposal' \in
             {idx \in [Workspaces \X Proposals -> ForkIds \cup {NoFork}] :
                \A k \in Workspaces \X Proposals :
                  LET fs == {f \in kept : disk.forks[f].ws = k[1]
                                          /\ disk.forks[f].proposal = k[2]}
                  IN  IF fs = {} THEN idx[k] = NoFork ELSE idx[k] \in fs}
        /\ forkByProposal' \in
             {idx \in [Proposals -> ForkIds \cup {NoFork}] :
                \A q \in Proposals :
                  LET fs == {f \in kept : disk.forks[f].proposal = q}
                  IN  IF fs = {} THEN idx[q] = NoFork ELSE idx[q] \in fs}
        /\ forkTimers' = kept
        /\ unscheduled' = {}
        /\ lock' = Free
        /\ UNCHANGED <<past, used, committed, disk>>

-----------------------------------------------------------------------------
(* The first boot: an empty store, or one whose snapshot holds forks that  *)
(* an older binary wrote over it, with new files and no BaseRevision.      *)
LegacyFork(w, q, S, c) ==
    [ws |-> w, proposal |-> q, parent |-> 0, counter |-> 1,
     overlay |-> [p \in Paths |->
        IF p \in S THEN [type |-> "write", content |-> c, rev |-> 1,
                         base |-> Unknown, seen |-> Absent]
                   ELSE NoEntry]]

Init ==
    /\ files = [w \in Workspaces |-> [p \in Paths |-> Absent]]
    /\ wsRevision = [w \in Workspaces |-> 0]
    /\ revCounter = 0
    /\ events = [w \in Workspaces |-> <<>>]
    /\ forks \in [ForkIds -> {NoFork} \cup
         {LegacyFork(w, q, S, c) : w \in Workspaces, q \in Proposals,
                                   S \in SUBSET Paths, c \in Values}]
    /\ \A f \in ForkIds : forks[f] # NoFork <=> f \in LegacyForks
    /\ \A f, g \in LegacyForks : forks[f].proposal = forks[g].proposal => f = g
    /\ forkByWorkspaceProposal \in
         [Workspaces \X Proposals -> ForkIds \cup {NoFork}]
    /\ \A k \in Workspaces \X Proposals, f \in ForkIds :
         forkByWorkspaceProposal[k] = f <=>
           /\ forks[f] # NoFork
           /\ forks[f].ws = k[1]
           /\ forks[f].proposal = k[2]
    /\ forkByProposal \in [Proposals -> ForkIds \cup {NoFork}]
    /\ \A q \in Proposals, f \in ForkIds :
         forkByProposal[q] = f <=> forks[f] # NoFork /\ forks[f].proposal = q
    /\ forkTimers = LegacyForks
    /\ unscheduled = {}
    /\ past = {}
    /\ used = LegacyForks
    /\ committed = {}
    /\ lock = Free
    /\ disk = Snapshot

(* The If-Match values a caller can have been told, and "*". *)
Known == {Star} \cup {LiveR(n) : n \in 0..MaxRev}
               \cup [src : ForkIds, n : 1..MaxOverlay]

LiveNext ==
    \/ \E w \in Workspaces, p \in Paths, m \in Known :
         \/ \E c \in Values : WriteFile(w, p, m, c)
         \/ DeleteFile(w, p, m)
    \/ \E w \in Workspaces : BulkWriteBegin(w)
    \/ \E p \in Paths, m \in Known, c \in Values : BulkWriteItem(p, m, c)
    \/ BulkWriteEnd

ForkNext ==
    \/ \E w \in Workspaces, q \in Proposals :
         \/ \E f \in ForkIds : CreateFork(w, q, f)
         \/ CreateForkTaken(w, q)
    \/ \E f \in ForkIds :
         \/ getLiveForkExpired(f)
         \/ DiscardFork(f)
         \/ RebaseFork(f)
         \/ CommitForkBegin(f)
         \/ BulkWriteForkBegin(f)
         \/ \E p \in Paths, m \in Known :
              \/ \E c \in Values : WriteForkFile(f, p, m, c)
              \/ DeleteForkFile(f, p, m)
    \/ \E p \in Paths, m \in Known, c \in Values : BulkWriteForkItem(p, m, c)
    \/ BulkWriteForkEnd
    \/ \E p \in Paths : CommitForkApply(p)
    \/ CommitForkEnd

TimeNext ==
    \/ \E f \in ForkIds :
         \/ ExpiresAtPasses(f)
         \/ scheduleForkExpiry(f)
         \/ expireForkByTimer(f)
    \/ Restart

Next == LiveNext \/ ForkNext \/ TimeNext

Spec == Init /\ [][Next]_vars

(* The mutex holder runs to its end, ExpiresAt passes, the goroutine that  *)
(* created a fork goes on to arm its timer, and an armed timer fires.      *)
Fairness ==
    /\ WF_vars(BulkWriteEnd)
    /\ WF_vars(BulkWriteForkEnd)
    /\ WF_vars(CommitForkEnd \/ \E p \in Paths : CommitForkApply(p))
    /\ \A f \in ForkIds : WF_vars(ExpiresAtPasses(f))
    /\ \A f \in ForkIds : SF_vars(scheduleForkExpiry(f))
    /\ \A f \in ForkIds : SF_vars(expireForkByTimer(f))

FairSpec == Spec /\ Fairness

-----------------------------------------------------------------------------
(* Properties *)

(* A fork commit replaces exactly the live file its author was looking at  *)
(* when BaseRevision was pinned: no write that reached the live tree in    *)
(* between is overwritten, whatever was written, deleted, rebased, rolled  *)
(* back by a crash or committed by another fork (CommitForkWithValidator). *)
CommitsOnlyOverSeen ==
    [][\A p \in Paths : CommitForkApply(p) =>
         LET f == lock.fork
         IN  files[forks[f].ws][p] = forks[f].overlay[p].seen]_vars

(* Replaying ws.Events gives the live tree: the last event of a path says  *)
(* exactly which file is there, and a file is there only if some event     *)
(* said so (recordWriteLocked in every mutation, snapshot and crash).      *)
EventsMirrorTree ==
    \A w \in Workspaces :
      /\ \A i \in DOMAIN events[w] :
           (\A j \in DOMAIN events[w] :
              j > i => events[w][j].path # events[w][i].path)
           => files[w][events[w][i].path] = events[w][i].file
      /\ \A p \in Paths : files[w][p] # Absent =>
           \E i \in DOMAIN events[w] : events[w][i].path = p

(* Revisions order the history: each event of a workspace carries a larger *)
(* revision than the one before, no two workspaces share one, and          *)
(* ws.Revision is the last event's.  Fork base checks rest on it.  (The    *)
(* rename of a draft when its writeback is acknowledged, which logs two    *)
(* events under one revision, is outside this module.)                     *)
RevisionsOrdered ==
    \A w \in Workspaces :
      /\ \A i \in DOMAIN events[w] :
           /\ events[w][i].rev \in 1..wsRevision[w]
           /\ \A j \in DOMAIN events[w] :
                i < j => events[w][i].rev < events[w][j].rev
      /\ wsRevision[w] <= revCounter
      /\ wsRevision[w] > 0 =>
           /\ events[w] # <<>>
           /\ events[w][Len(events[w])].rev = wsRevision[w]
           /\ \A v \in Workspaces \ {w} : wsRevision[v] # wsRevision[w]

(* The two proposal indexes and the fork table agree, so a proposal has at *)
(* most one live fork in the whole store (CreateFork, deleteForkLocked,    *)
(* rebuildForkIndexesLocked).                                              *)
ForkIndexesAgree ==
    /\ \A f \in LiveForks :
         /\ forkByProposal[forks[f].proposal] = f
         /\ forkByWorkspaceProposal[<<forks[f].ws, forks[f].proposal>>] = f
    /\ \A q \in Proposals :
         forkByProposal[q] # NoFork =>
           /\ forkByProposal[q] \in LiveForks
           /\ forks[forkByProposal[q]].proposal = q
    /\ \A w \in Workspaces, q \in Proposals :
         LET f == forkByWorkspaceProposal[<<w, q>>] IN
         f # NoFork => /\ f \in LiveForks
                       /\ forks[f].ws = w
                       /\ forks[f].proposal = q

(* Every fork is gone in the end: its timer is armed after CreateFork and  *)
(* after every restart, so an abandoned fork does not stay for ever.       *)
ForksExpire == \A f \in ForkIds : (f \in LiveForks) ~> (f \notin LiveForks)

(* The store implements atomic optimistic transactions: what counts is the *)
(* snapshot on disk, so the steps of a loop under the mutex are invisible, *)
(* and a crash inside a commit aborts nothing and applies nothing.         *)
EditOf(e) == IF e = NoEntry THEN NoEntry
             ELSE [new |-> e.content, seen |-> e.seen]
TxnOf(f) == IF f \in committed THEN Committed
            ELSE IF forks[f] = NoFork THEN NoFork
            ELSE [ws |-> disk.forks[f].ws,
                  edits |-> [p \in Paths |-> EditOf(disk.forks[f].overlay[p])]]
Txns == INSTANCE ForkTransactions
          WITH tree <- disk.files, txns <- [f \in ForkIds |-> TxnOf(f)]
ImplementsTransactions == Txns!Spec

(* RebaseFork's comment: a reported conflict is resolved by WriteForkFile  *)
(* or DeleteForkFile citing the reported live revision.                    *)
ConflictsResolvable ==
    \A f \in ForkIds, p \in Paths :
      (UsableFork(f) /\ RebaseConflict(f, p)) =>
        \/ AcceptsWrite(f, p, LiveR(ForkLiveRev(f, p)))
        \/ AcceptsDelete(f, p, LiveR(ForkLiveRev(f, p)))

(* RebaseFork's comment: an entry of an older binary "can't be silently    *)
(* cleared": a rebase alone does not make a refused entry committable.     *)
LegacyEntriesNotCleared ==
    [][\A f \in ForkIds, p \in Paths :
         (/\ RebaseFork(f)
          /\ Touched(f, p)
          /\ forks[f].overlay[p].base = Unknown
          /\ ~EntryUnmoved(f, p))
         => ~EntryUnmoved(f, p)']_vars
=============================================================================
