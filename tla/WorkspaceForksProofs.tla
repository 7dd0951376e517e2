------------------------ MODULE WorkspaceForksProofs ------------------------
(***************************************************************************)
(* Theorems about WorkspaceForks, for every set of workspaces, paths,      *)
(* values, forks and proposals and every bound.                            *)
(***************************************************************************)
EXTENDS WorkspaceForks, TLAPS

-----------------------------------------------------------------------------
(* Type correctness *)

(* A loop over a fork runs on a fork that is there: getLiveForkLocked      *)
(* returned it and the mutex has been held since.  A commit only has       *)
(* touched paths ahead of it.                                              *)
LockOwnsFork ==
    /\ lock.kind \in {"bulkFork", "commit"} => lock.fork \in LiveForks
    /\ lock.kind = "commit" => \A p \in lock.todo : Touched(lock.fork, p)

TypeInv == TypeOK /\ LockOwnsFork

(* The kind of a lock value tells its fields. *)
LEMMA LockKinds ==
    ASSUME lock \in Lock
    PROVE  /\ lock.kind = "bulk" => lock \in [kind : {"bulk"}, ws : Workspaces]
           /\ lock.kind = "bulkFork" =>
                lock \in [kind : {"bulkFork"}, fork : ForkIds]
           /\ lock.kind = "commit" =>
                lock \in [kind : {"commit"}, fork : ForkIds, todo : SUBSET Paths]
           /\ lock.kind = "free" => lock = Free
  BY DEF Lock, Free

(* What a snapshot of well-typed variables is. *)
LEMMA SnapshotType ==
    ASSUME files \in Tree, wsRevision \in [Workspaces -> Nat],
           revCounter \in Nat, events \in [Workspaces -> Seq(Event)],
           forks \in ForkMap
    PROVE  Snapshot \in Snapshots
  BY DEF Snapshot, Snapshots

(* PutFile keeps the types of the live tree. *)
LEMMA PutFileType ==
    ASSUME TypeOK, NEW w \in Workspaces, NEW p \in Paths, NEW c \in Values,
           PutFile(w, p, c)
    PROVE  /\ files' \in Tree
           /\ wsRevision' \in [Workspaces -> Nat]
           /\ revCounter' \in Nat
           /\ events' \in [Workspaces -> Seq(Event)]
  <1> DEFINE rev  == revCounter + 1
             file == [rev |-> rev, content |-> c]
             type == IF files[w][p] = Absent THEN "file.created"
                                             ELSE "file.updated"
             e    == [type |-> type, path |-> p, file |-> file, rev |-> rev]
  <1>1. rev \in Nat
    BY DEF TypeOK
  <1>2. file \in FileOrAbsent
    BY <1>1 DEF FileOrAbsent, File
  <1>3. e \in Event
    BY <1>1, <1>2 DEF Event
  <1>4. files' \in Tree
    BY <1>2 DEF PutFile, TypeOK, Tree
  <1>5. events' = [events EXCEPT ![w] = Append(@, e)]
    BY DEF PutFile, recordWrite
  <1>6. events' \in [Workspaces -> Seq(Event)]
    BY <1>3, <1>5 DEF TypeOK
  <1> QED
    BY <1>1, <1>4, <1>6 DEF PutFile, TypeOK

(* RemoveFile keeps the types of the live tree. *)
LEMMA RemoveFileType ==
    ASSUME TypeOK, NEW w \in Workspaces, NEW p \in Paths, RemoveFile(w, p)
    PROVE  /\ files' \in Tree
           /\ wsRevision' \in [Workspaces -> Nat]
           /\ revCounter' \in Nat
           /\ events' \in [Workspaces -> Seq(Event)]
  <1> DEFINE rev == revCounter + 1
             e   == [type |-> "file.deleted", path |-> p, file |-> Absent,
                     rev |-> rev]
  <1>1. rev \in Nat
    BY DEF TypeOK
  <1>2. e \in Event
    BY <1>1 DEF Event, FileOrAbsent
  <1>3. files' \in Tree
    BY DEF RemoveFile, TypeOK, Tree, FileOrAbsent
  <1>4. events' = [events EXCEPT ![w] = Append(@, e)]
    BY DEF RemoveFile, recordWrite
  <1>5. events' \in [Workspaces -> Seq(Event)]
    BY <1>2, <1>4 DEF TypeOK
  <1> QED
    BY <1>1, <1>3, <1>5 DEF RemoveFile, TypeOK

(* PutOverlay keeps the type of the fork table, and changes one fork's     *)
(* counter and one of its entries.                                         *)
LEMMA PutOverlayType ==
    ASSUME TypeOK, NEW f \in LiveForks, NEW p \in Paths,
           NEW type, NEW c,
           \/ type = "write" /\ c \in Values
           \/ type = "delete" /\ c = Absent,
           NEW repin \in BOOLEAN, PutOverlay(f, p, type, c, repin)
    PROVE  /\ forks' \in ForkMap
           /\ forks'[f] \in Fork
           /\ LiveForks' = LiveForks
           /\ forks'[f].overlay[p] # NoEntry
           /\ \A g \in ForkIds \ {f} : forks'[g] = forks[g]
  <1> DEFINE k    == forks[f].counter + 1
             keep == Touched(f, p) /\ ~repin
             e    == [type |-> type, content |-> c, rev |-> k,
                      base |-> IF keep THEN forks[f].overlay[p].base
                                       ELSE ForkLiveRev(f, p),
                      seen |-> IF keep THEN forks[f].overlay[p].seen
                                       ELSE files[forks[f].ws][p]]
  <1>1. f \in ForkIds /\ forks[f] \in Fork
    BY DEF TypeOK, ForkMap, LiveForks
  <1>2. files[forks[f].ws][p] \in FileOrAbsent
    BY <1>1 DEF TypeOK, Tree, Fork
  <1>3. ForkLiveRev(f, p) \in Nat
    BY <1>2 DEF ForkLiveRev, LiveRev, FileOrAbsent, File
  <1>4. Touched(f, p) => forks[f].overlay[p] \in Entry
    BY <1>1 DEF Touched, Fork
  <1>5. k \in Nat
    BY <1>1 DEF Fork
  <1>6. e \in Entry
    BY <1>2, <1>3, <1>4, <1>5 DEF Entry
  <1>7. forks' = [forks EXCEPT ![f].counter = k, ![f].overlay[p] = e]
    BY DEF PutOverlay
  <1>8. forks'[f] \in Fork
    <2>1. forks'[f] = [forks[f] EXCEPT !.counter = k, !.overlay[p] = e]
      BY <1>1, <1>7 DEF TypeOK, ForkMap
    <2> HIDE DEF k, e
    <2>2. [forks[f].overlay EXCEPT ![p] = e] \in [Paths -> Entry \cup {NoEntry}]
      BY <1>1, <1>6 DEF Fork
    <2>3. forks'[f] = [forks[f] EXCEPT
             !.counter = k, !.overlay = [forks[f].overlay EXCEPT ![p] = e]]
      BY <1>1, <2>1 DEF Fork
    <2> QED
      BY <1>1, <1>5, <2>2, <2>3 DEF Fork
  <1>9. forks' \in ForkMap /\ \A g \in ForkIds \ {f} : forks'[g] = forks[g]
    BY <1>1, <1>7, <1>8 DEF TypeOK, ForkMap
  <1>10. forks'[f].overlay[p] # NoEntry
    <2> HIDE DEF k, e
    <2>1. forks'[f].overlay[p] = e
      BY <1>1, <1>7 DEF TypeOK, ForkMap, Fork
    <2> QED
      BY <1>6, <2>1, ForksAssumption
  <1> QED
    BY <1>1, <1>8, <1>9, <1>10, ForksAssumption DEF LiveForks

(* deleteForkLocked removes exactly the forks of S. *)
LEMMA DeleteForksType ==
    ASSUME TypeOK, NEW S \in SUBSET LiveForks, deleteForks(S)
    PROVE  /\ forks' \in ForkMap
           /\ forkByWorkspaceProposal' \in
                [Workspaces \X Proposals -> ForkIds \cup {NoFork}]
           /\ forkByProposal' \in [Proposals -> ForkIds \cup {NoFork}]
           /\ forkTimers' \subseteq ForkIds
           /\ \A g \in ForkIds : forks'[g] = IF g \in S THEN NoFork ELSE forks[g]
           /\ LiveForks' = LiveForks \ S
  <1>1. forks' \in ForkMap
    BY DEF TypeOK, deleteForks, ForkMap
  <1>2. \A g \in ForkIds : forks'[g] = IF g \in S THEN NoFork ELSE forks[g]
    BY DEF deleteForks
  <1>3. LiveForks' = LiveForks \ S
    BY <1>2 DEF LiveForks
  <1>4. forkByWorkspaceProposal' \in
          [Workspaces \X Proposals -> ForkIds \cup {NoFork}]
    BY DEF TypeOK, deleteForks
  <1>5. forkByProposal' \in [Proposals -> ForkIds \cup {NoFork}]
    BY DEF TypeOK, deleteForks
  <1>6. forkTimers' \subseteq ForkIds
    BY DEF TypeOK, deleteForks
  <1> QED
    BY <1>1, <1>2, <1>3, <1>4, <1>5, <1>6

(* The store starts well typed, whatever forks the first boot loads. *)
LEMMA TypeInit == Init => TypeInv
  <1> SUFFICES ASSUME Init PROVE TypeInv
    OBVIOUS
  <1>1. files \in Tree
    BY DEF Init, Tree, FileOrAbsent
  <1>2. events \in [Workspaces -> Seq(Event)]
    BY DEF Init
  <1>3. forks \in ForkMap
    <2>1. ASSUME NEW w \in Workspaces, NEW q \in Proposals,
                 NEW S \in SUBSET Paths, NEW c \in Values
          PROVE  LegacyFork(w, q, S, c) \in Fork
      <3> DEFINE e == [type |-> "write", content |-> c, rev |-> 1,
                       base |-> Unknown, seen |-> Absent]
      <3>1. e \in Entry
        BY DEF Entry, FileOrAbsent
      <3> HIDE DEF e
      <3>2. [p \in Paths |-> IF p \in S THEN e ELSE NoEntry]
              \in [Paths -> Entry \cup {NoEntry}]
        BY <3>1
      <3> QED
        BY <3>2 DEF LegacyFork, Fork, e
    <2> QED
      BY <2>1 DEF Init, ForkMap
  <1>4. wsRevision \in [Workspaces -> Nat] /\ revCounter \in Nat
    BY DEF Init
  <1>5. disk \in Snapshots
    BY <1>1, <1>2, <1>3, <1>4, SnapshotType DEF Init
  <1>6. lock = Free /\ lock \in Lock /\ LockOwnsFork
    BY DEF Init, Lock, LockOwnsFork, Free
  <1>7. /\ forkByWorkspaceProposal \in
             [Workspaces \X Proposals -> ForkIds \cup {NoFork}]
        /\ forkByProposal \in [Proposals -> ForkIds \cup {NoFork}]
    BY DEF Init
  <1>8. forkTimers \subseteq ForkIds /\ unscheduled \subseteq ForkIds
        /\ past \subseteq ForkIds /\ used \subseteq ForkIds
        /\ committed \subseteq ForkIds
    BY ForksAssumption DEF Init
  <1> QED
    BY <1>1, <1>2, <1>3, <1>4, <1>5, <1>6, <1>7, <1>8 DEF TypeInv, TypeOK

(* Each operation on the live tree keeps the types. *)
LEMMA TypeLive == TypeInv /\ LiveNext => TypeInv'
  <1> SUFFICES ASSUME TypeInv, LiveNext PROVE TypeInv'
    OBVIOUS
  <1> USE DEF TypeInv
  <1>1. ASSUME NEW w \in Workspaces, NEW p \in Paths, NEW m \in Known,
               NEW c \in Values, WriteFile(w, p, m, c)
        PROVE  TypeInv'
    <2>1. PutFile(w, p, c) /\ disk' = Snapshot' /\ lock = Free /\ lock' = lock
          /\ UNCHANGED <<forks, indexVars, timeVars>>
      BY <1>1 DEF WriteFile, Save
    <2>2. /\ files' \in Tree /\ wsRevision' \in [Workspaces -> Nat]
          /\ revCounter' \in Nat /\ events' \in [Workspaces -> Seq(Event)]
      BY <2>1, PutFileType
    <2>3. forks' \in ForkMap
      BY <2>1 DEF TypeOK
    <2>4. disk' \in Snapshots
      BY <2>1, <2>2, <2>3 DEF Snapshot, Snapshots
    <2> QED
      BY <2>1, <2>2, <2>3, <2>4
      DEF TypeOK, indexVars, timeVars, LockOwnsFork, Free
  <1>2. ASSUME NEW w \in Workspaces, NEW p \in Paths, NEW m \in Known,
               DeleteFile(w, p, m)
        PROVE  TypeInv'
    <2>1. RemoveFile(w, p) /\ disk' = Snapshot' /\ lock = Free /\ lock' = lock
          /\ UNCHANGED <<forks, indexVars, timeVars>>
      BY <1>2 DEF DeleteFile, Save
    <2>2. /\ files' \in Tree /\ wsRevision' \in [Workspaces -> Nat]
          /\ revCounter' \in Nat /\ events' \in [Workspaces -> Seq(Event)]
      BY <2>1, RemoveFileType
    <2>3. forks' \in ForkMap
      BY <2>1 DEF TypeOK
    <2>4. disk' \in Snapshots
      BY <2>1, <2>2, <2>3 DEF Snapshot, Snapshots
    <2> QED
      BY <2>1, <2>2, <2>3, <2>4
      DEF TypeOK, indexVars, timeVars, LockOwnsFork, Free
  <1>3. ASSUME NEW w \in Workspaces, BulkWriteBegin(w)
        PROVE  TypeInv'
    BY <1>3 DEF BulkWriteBegin, TypeOK, Lock, LockOwnsFork, liveVars,
                indexVars, timeVars
  <1>4. ASSUME NEW p \in Paths, NEW m \in Known, NEW c \in Values,
               BulkWriteItem(p, m, c)
        PROVE  TypeInv'
    <2>1. /\ lock.kind = "bulk" /\ PutFile(lock.ws, p, c)
          /\ UNCHANGED <<forks, indexVars, timeVars, lock, disk>>
      BY <1>4 DEF BulkWriteItem
    <2>2. lock.ws \in Workspaces
      BY <2>1, LockKinds DEF TypeOK
    <2>3. /\ files' \in Tree /\ wsRevision' \in [Workspaces -> Nat]
          /\ revCounter' \in Nat /\ events' \in [Workspaces -> Seq(Event)]
      BY <2>1, <2>2, PutFileType
    <2> QED
      BY <2>1, <2>3 DEF TypeOK, indexVars, timeVars, LockOwnsFork
  <1>5. ASSUME BulkWriteEnd PROVE TypeInv'
    <2>1. /\ lock' = Free /\ disk' = Snapshot'
          /\ UNCHANGED <<liveVars, forks, indexVars, timeVars>>
      BY <1>5 DEF BulkWriteEnd, Save
    <2>2. Snapshot' = Snapshot
      BY <2>1 DEF Snapshot, liveVars
    <2>3. disk' \in Snapshots
      BY <2>1, <2>2, SnapshotType DEF TypeOK
    <2> QED
      BY <2>1, <2>3 DEF TypeOK, liveVars, indexVars, timeVars, Lock,
                        LockOwnsFork, Free
  <1> QED
    BY <1>1, <1>2, <1>3, <1>4, <1>5 DEF LiveNext

(* An operation on forks that leaves the live tree alone and saves. *)
LEMMA TypeForkSave ==
    ASSUME TypeOK, UNCHANGED liveVars, forks' \in ForkMap, Save
    PROVE  /\ disk' \in Snapshots
           /\ files' \in Tree /\ wsRevision' \in [Workspaces -> Nat]
           /\ revCounter' \in Nat /\ events' \in [Workspaces -> Seq(Event)]
  <1>1. /\ files' \in Tree /\ wsRevision' \in [Workspaces -> Nat]
        /\ revCounter' \in Nat /\ events' \in [Workspaces -> Seq(Event)]
    BY DEF TypeOK, liveVars
  <1>2. disk' \in Snapshots
    BY <1>1 DEF Save, Snapshot, Snapshots
  <1> QED
    BY <1>1, <1>2

(* deleteForks followed by a save, with the mutex free again: expiry found *)
(* by an operation, a discard, the end of a commit, a timer.               *)
LEMMA TypeDeleteSave ==
    ASSUME TypeOK, NEW S \in SUBSET LiveForks, deleteForks(S), lock' = Free,
           UNCHANGED <<liveVars, unscheduled, past, used>>,
           committed' \subseteq ForkIds, Save
    PROVE  TypeInv'
  <1>1. /\ forks' \in ForkMap
        /\ forkByWorkspaceProposal' \in
             [Workspaces \X Proposals -> ForkIds \cup {NoFork}]
        /\ forkByProposal' \in [Proposals -> ForkIds \cup {NoFork}]
        /\ forkTimers' \subseteq ForkIds
    BY DeleteForksType
  <1>2. UNCHANGED liveVars
    OBVIOUS
  <1>3. /\ disk' \in Snapshots
        /\ files' \in Tree /\ wsRevision' \in [Workspaces -> Nat]
        /\ revCounter' \in Nat /\ events' \in [Workspaces -> Seq(Event)]
    BY <1>1, <1>2, TypeForkSave
  <1> QED
    BY <1>1, <1>3 DEF TypeInv, TypeOK, Lock, LockOwnsFork, Free

(* Each operation on forks keeps the types. *)
LEMMA TypeFork == TypeInv /\ ForkNext => TypeInv'
  <1> SUFFICES ASSUME TypeInv, ForkNext PROVE TypeInv'
    OBVIOUS
  <1> USE DEF TypeInv
  <1>1. ASSUME NEW w \in Workspaces, NEW q \in Proposals, NEW f \in ForkIds,
               CreateFork(w, q, f)
        PROVE  TypeInv'
    <2>1. NewFork(w, q) \in Fork
      BY DEF NewFork, Fork, TypeOK
    <2>2. forks' \in ForkMap
      BY <1>1, <2>1 DEF CreateFork, ForkMap, TypeOK
    <2>3. /\ forkByWorkspaceProposal' \in
               [Workspaces \X Proposals -> ForkIds \cup {NoFork}]
          /\ forkByProposal' \in [Proposals -> ForkIds \cup {NoFork}]
      BY <1>1 DEF CreateFork, TypeOK
    <2>4. /\ UNCHANGED <<liveVars, past, committed, lock>> /\ Save /\ lock = Free
          /\ forkTimers' \subseteq forkTimers
          /\ used' = used \cup {f} /\ unscheduled' = unscheduled \cup {f}
      BY <1>1 DEF CreateFork
    <2>5. /\ disk' \in Snapshots
          /\ files' \in Tree /\ wsRevision' \in [Workspaces -> Nat]
          /\ revCounter' \in Nat /\ events' \in [Workspaces -> Seq(Event)]
      BY <2>2, <2>4, TypeForkSave
    <2> QED
      BY <2>2, <2>3, <2>4, <2>5 DEF TypeOK, LockOwnsFork, Free
  <1>2. ASSUME NEW w \in Workspaces, NEW q \in Proposals, CreateForkTaken(w, q)
        PROVE  TypeInv'
    <2>1. deleteForks(ExpiredForks) /\ lock = Free
          /\ UNCHANGED <<liveVars, unscheduled, past, used, committed, lock, disk>>
      BY <1>2 DEF CreateForkTaken
    <2>2. ExpiredForks \in SUBSET LiveForks
      BY DEF ExpiredForks
    <2>3. /\ forks' \in ForkMap
          /\ forkByWorkspaceProposal' \in
               [Workspaces \X Proposals -> ForkIds \cup {NoFork}]
          /\ forkByProposal' \in [Proposals -> ForkIds \cup {NoFork}]
          /\ forkTimers' \subseteq ForkIds
      BY <2>1, <2>2, DeleteForksType
    <2> QED
      BY <2>1, <2>3 DEF TypeOK, liveVars, LockOwnsFork, Free
  <1>3. ASSUME NEW f \in ForkIds, getLiveForkExpired(f) \/ DiscardFork(f)
        PROVE  TypeInv'
    <2>1. f \in LiveForks /\ deleteForks({f}) /\ lock' = Free /\ Save
          /\ committed' \subseteq ForkIds
          /\ UNCHANGED <<liveVars, unscheduled, past, used>>
      BY <1>3 DEF getLiveForkExpired, DiscardFork, ExpiredForks, TypeOK
    <2> QED
      BY <2>1, TypeDeleteSave
  <1>4. ASSUME NEW f \in ForkIds, RebaseFork(f) PROVE TypeInv'
    <2>1. /\ f \in LiveForks /\ lock = Free /\ Save
          /\ forks' = [forks EXCEPT ![f].parent = wsRevision[forks[f].ws]]
          /\ UNCHANGED <<liveVars, indexVars, timeVars, lock>>
      BY <1>4 DEF RebaseFork, UsableFork
    <2>2. forks[f] \in Fork
      BY <2>1 DEF TypeOK, ForkMap, LiveForks
    <2>3. wsRevision[forks[f].ws] \in Nat
      BY <2>2 DEF Fork, TypeOK
    <2>4. [forks[f] EXCEPT !.parent = wsRevision[forks[f].ws]] \in Fork
      BY <2>2, <2>3 DEF Fork
    <2>5. forks' \in ForkMap
      BY <2>1, <2>4 DEF TypeOK, ForkMap
    <2>6. /\ disk' \in Snapshots
          /\ files' \in Tree /\ wsRevision' \in [Workspaces -> Nat]
          /\ revCounter' \in Nat /\ events' \in [Workspaces -> Seq(Event)]
      BY <2>1, <2>5, TypeForkSave
    <2> QED
      BY <2>1, <2>5, <2>6 DEF TypeOK, indexVars, timeVars, LockOwnsFork, Free
  <1>5. ASSUME NEW f \in ForkIds, CommitForkBegin(f) \/ BulkWriteForkBegin(f)
        PROVE  TypeInv'
    <2>1. /\ f \in LiveForks
          /\ \/ lock' = [kind |-> "commit", fork |-> f,
                         todo |-> {p \in Paths : Touched(f, p)}]
             \/ lock' = [kind |-> "bulkFork", fork |-> f]
          /\ UNCHANGED <<liveVars, forks, indexVars, timeVars, disk>>
      BY <1>5 DEF CommitForkBegin, BulkWriteForkBegin, UsableFork
    <2>2. lock' \in Lock
      BY <2>1 DEF Lock
    <2>3. LockOwnsFork'
      BY <2>1 DEF LiveForks, LockOwnsFork, Touched
    <2> QED
      BY <2>1, <2>2, <2>3 DEF TypeOK, liveVars, indexVars, timeVars
  <1>6. ASSUME NEW f \in ForkIds, NEW p \in Paths, NEW m \in Known,
               \/ \E c \in Values : WriteForkFile(f, p, m, c)
               \/ DeleteForkFile(f, p, m)
        PROVE  TypeInv'
    <2>1. PICK type \in {"write", "delete"}, c \in Values \cup {Absent} :
            /\ \/ type = "write" /\ c \in Values
               \/ type = "delete" /\ c = Absent
            /\ PutOverlay(f, p, type, c, Resolves(f, p, m))
      <3>1. CASE \E c \in Values : WriteForkFile(f, p, m, c)
        BY <3>1 DEF WriteForkFile
      <3>2. CASE DeleteForkFile(f, p, m)
        BY <3>2 DEF DeleteForkFile
      <3> QED
        BY <1>6, <3>1, <3>2
    <2>2. /\ f \in LiveForks /\ lock = Free /\ Save
          /\ UNCHANGED <<liveVars, indexVars, timeVars, lock>>
      BY <1>6 DEF WriteForkFile, DeleteForkFile, UsableFork
    <2>3. Resolves(f, p, m) \in BOOLEAN
      BY DEF Resolves
    <2>4. forks' \in ForkMap
      BY <2>1, <2>2, <2>3, PutOverlayType
    <2>5. /\ disk' \in Snapshots
          /\ files' \in Tree /\ wsRevision' \in [Workspaces -> Nat]
          /\ revCounter' \in Nat /\ events' \in [Workspaces -> Seq(Event)]
      BY <2>2, <2>4, TypeForkSave
    <2> QED
      BY <2>2, <2>4, <2>5 DEF TypeOK, indexVars, timeVars, LockOwnsFork, Free
  <1>7. ASSUME NEW p \in Paths, NEW m \in Known, NEW c \in Values,
               BulkWriteForkItem(p, m, c)
        PROVE  TypeInv'
    <2>1. /\ lock.kind = "bulkFork"
          /\ PutOverlay(lock.fork, p, "write", c, FALSE)
          /\ UNCHANGED <<liveVars, indexVars, timeVars, lock, disk>>
      BY <1>7 DEF BulkWriteForkItem
    <2>2. lock.fork \in LiveForks
      BY <2>1 DEF LockOwnsFork
    <2>3. forks' \in ForkMap /\ LiveForks' = LiveForks
      BY <2>1, <2>2, PutOverlayType
    <2> QED
      BY <2>1, <2>3 DEF TypeOK, liveVars, indexVars, timeVars, LockOwnsFork
  <1>8. ASSUME BulkWriteForkEnd PROVE TypeInv'
    <2>1. /\ lock' = Free /\ Save
          /\ UNCHANGED <<liveVars, forks, indexVars, timeVars>>
      BY <1>8 DEF BulkWriteForkEnd
    <2>2. forks' \in ForkMap
      BY <2>1 DEF TypeOK
    <2>3. /\ disk' \in Snapshots
          /\ files' \in Tree /\ wsRevision' \in [Workspaces -> Nat]
          /\ revCounter' \in Nat /\ events' \in [Workspaces -> Seq(Event)]
      BY <2>1, <2>2, TypeForkSave
    <2> QED
      BY <2>1, <2>2, <2>3
      DEF TypeOK, indexVars, timeVars, Lock, LockOwnsFork, Free
  <1>9. ASSUME NEW p \in Paths, CommitForkApply(p) PROVE TypeInv'
    <2> DEFINE f == lock.fork
               w == forks[f].ws
               e == forks[f].overlay[p]
    <2>1. /\ lock.kind = "commit" /\ p \in lock.todo
          /\ \/ e.type = "write" /\ PutFile(w, p, e.content)
             \/ RemoveFile(w, p)
             \/ UNCHANGED liveVars
          /\ lock' = [lock EXCEPT !.todo = @ \ {p}]
          /\ UNCHANGED <<forks, indexVars, timeVars, disk>>
      BY <1>9 DEF CommitForkApply
    <2>2. lock \in [kind : {"commit"}, fork : ForkIds, todo : SUBSET Paths]
      BY <2>1, LockKinds DEF TypeOK
    <2>3. lock' \in [kind : {"commit"}, fork : ForkIds, todo : SUBSET Paths]
          /\ lock'.fork = lock.fork
      BY <2>1, <2>2
    <2>4. f \in LiveForks
      BY <2>1 DEF LockOwnsFork
    <2>5. w \in Workspaces
      BY <2>4 DEF LiveForks, TypeOK, ForkMap, Fork
    <2>6. CASE e.type = "write" /\ PutFile(w, p, e.content)
      <3>1. e.content \in Values
        <4>1. e \in Entry \cup {NoEntry}
          BY <2>4 DEF LiveForks, TypeOK, ForkMap, Fork
        <4>2. e # NoEntry
          BY <2>1 DEF LockOwnsFork, Touched
        <4> QED
          BY <2>6, <4>1, <4>2 DEF Entry
      <3>2. /\ files' \in Tree /\ wsRevision' \in [Workspaces -> Nat]
            /\ revCounter' \in Nat /\ events' \in [Workspaces -> Seq(Event)]
        BY <2>5, <2>6, <3>1, PutFileType
      <3> QED
        BY <2>1, <2>3, <2>4, <3>2
        DEF TypeOK, indexVars, timeVars, Lock, LockOwnsFork, LiveForks, Touched
    <2>7. CASE RemoveFile(w, p)
      <3>1. /\ files' \in Tree /\ wsRevision' \in [Workspaces -> Nat]
            /\ revCounter' \in Nat /\ events' \in [Workspaces -> Seq(Event)]
        BY <2>5, <2>7, RemoveFileType
      <3> QED
        BY <2>1, <2>3, <2>4, <3>1
        DEF TypeOK, indexVars, timeVars, Lock, LockOwnsFork, LiveForks, Touched
    <2>8. CASE UNCHANGED liveVars
      BY <2>1, <2>3, <2>4, <2>8
      DEF TypeOK, liveVars, indexVars, timeVars, Lock, LockOwnsFork, LiveForks,
          Touched
    <2> QED
      BY <2>1, <2>6, <2>7, <2>8
  <1>10. ASSUME CommitForkEnd PROVE TypeInv'
    <2>1. /\ lock.fork \in LiveForks /\ deleteForks({lock.fork})
          /\ lock' = Free /\ UNCHANGED <<liveVars, unscheduled, past, used>>
          /\ committed' \subseteq ForkIds /\ Save
      BY <1>10 DEF CommitForkEnd, LockOwnsFork, TypeOK, LiveForks
    <2> QED
      BY <2>1, TypeDeleteSave
  <1> QED
    BY <1>1, <1>2, <1>3, <1>4, <1>5, <1>6, <1>7, <1>8, <1>9, <1>10
    DEF ForkNext

(* Timers, the clock and restarts keep the types. *)
LEMMA TypeTime == TypeInv /\ TimeNext => TypeInv'
  <1> SUFFICES ASSUME TypeInv, TimeNext PROVE TypeInv'
    OBVIOUS
  <1> USE DEF TypeInv
  <1>1. ASSUME NEW f \in ForkIds, ExpiresAtPasses(f) \/ scheduleForkExpiry(f)
        PROVE  TypeInv'
    <2>1. /\ past' \subseteq ForkIds /\ unscheduled' \subseteq ForkIds
          /\ forkTimers' \subseteq ForkIds
          /\ UNCHANGED <<liveVars, forks, indexVars, used, committed, lock, disk>>
      BY <1>1 DEF ExpiresAtPasses, scheduleForkExpiry, TypeOK
    <2> QED
      BY <2>1 DEF TypeOK, liveVars, indexVars, LockOwnsFork, LiveForks, Touched
  <1>2. ASSUME NEW f \in ForkIds, expireForkByTimer(f) PROVE TypeInv'
    <2>1. CASE f \in LiveForks
      <3>1. deleteForks({f}) /\ lock' = Free /\ Save
            /\ committed' \subseteq ForkIds
            /\ UNCHANGED <<liveVars, unscheduled, past, used>>
        BY <1>2, <2>1 DEF expireForkByTimer, TypeOK
      <3> QED
        BY <2>1, <3>1, TypeDeleteSave
    <2>2. CASE f \notin LiveForks
      <3>1. /\ forkTimers' \subseteq ForkIds
            /\ UNCHANGED <<liveVars, forks, indexVars, unscheduled, past, used,
                           committed, lock, disk>>
        BY <1>2, <2>2 DEF expireForkByTimer, TypeOK
      <3> QED
        BY <3>1 DEF TypeOK, liveVars, indexVars, LockOwnsFork, LiveForks, Touched
    <2> QED
      BY <2>1, <2>2
  <1>3. ASSUME Restart PROVE TypeInv'
    <2>1. /\ files' \in Tree /\ wsRevision' \in [Workspaces -> Nat]
          /\ revCounter' \in Nat /\ events' \in [Workspaces -> Seq(Event)]
      BY <1>3 DEF Restart, TypeOK, Snapshots
    <2>2. forks' \in ForkMap
      BY <1>3 DEF Restart, TypeOK, Snapshots, ForkMap
    <2>3. /\ forkByWorkspaceProposal' \in
               [Workspaces \X Proposals -> ForkIds \cup {NoFork}]
          /\ forkByProposal' \in [Proposals -> ForkIds \cup {NoFork}]
      BY <1>3 DEF Restart
    <2>4. /\ forkTimers' \subseteq ForkIds /\ unscheduled' = {} /\ lock' = Free
          /\ UNCHANGED <<past, used, committed, disk>>
      BY <1>3 DEF Restart
    <2> QED
      BY <2>1, <2>2, <2>3, <2>4 DEF TypeOK, Lock, LockOwnsFork, Free
  <1> QED
    BY <1>1, <1>2, <1>3 DEF TimeNext

(* Every step keeps the types and the lock's fork.                          *)
LEMMA TypeStep == TypeInv /\ [Next]_vars => TypeInv'
  <1> SUFFICES ASSUME TypeInv, UNCHANGED vars PROVE TypeInv'
    BY TypeLive, TypeFork, TypeTime DEF Next
  <1> QED
    BY DEF TypeInv, TypeOK, LockOwnsFork, LiveForks, Touched, vars

(* Every reachable state of the store is well typed, crashes included. *)
THEOREM TypeCorrect == Spec => []TypeOK
  <1>1. TypeInv => TypeOK
    BY DEF TypeInv
  <1> QED
    BY <1>1, TypeInit, TypeStep, PTL DEF Spec

-----------------------------------------------------------------------------
(***************************************************************************)
(* No lost update.  The invariant relates three things: the live tree, the *)
(* base revision of an overlay entry and the file its author saw.  It has  *)
(* to hold of the snapshot on disk as well, because a restart puts the     *)
(* snapshot back, with an older revision counter.                          *)
(***************************************************************************)

RevOf(x) == IF x = Absent THEN 0 ELSE x.rev

TreeOK(fs, rc) ==
    \A w \in Workspaces, p \in Paths :
      fs[w][p] # Absent => fs[w][p].rev \in 1..rc

EntryOK(x, rc, e) ==
    /\ e.base \in 0..rc
    /\ e.base = RevOf(e.seen)
    /\ e.seen # Absent => e.seen.rev >= 1
    /\ RevOf(x) = e.base => x = e.seen

ForksOK(fs, rc, fk) ==
    \A f \in ForkIds, p \in Paths :
      fk[f] # NoFork /\ fk[f].overlay[p] # NoEntry =>
        EntryOK(fs[fk[f].ws][p], rc, fk[f].overlay[p])

CommitAhead ==
    lock.kind = "commit" =>
      \A p \in lock.todo :
        files[forks[lock.fork].ws][p] = forks[lock.fork].overlay[p].seen

MemoryOK == TreeOK(files, revCounter) /\ ForksOK(files, revCounter, forks)
DiskOK   == /\ TreeOK(disk.files, disk.revCounter)
            /\ ForksOK(disk.files, disk.revCounter, disk.forks)

SeenInv == TypeInv /\ MemoryOK /\ DiskOK /\ CommitAhead

(* A live mutation takes a fresh revision, so it can only move a path away *)
(* from a base that named another file, or delete it.                      *)
LEMMA MutateOK ==
    ASSUME TypeOK, MemoryOK, NEW w \in Workspaces, NEW p \in Paths,
           NEW x \in FileOrAbsent,
           x # Absent => x.rev = revCounter + 1,
           files' = [files EXCEPT ![w][p] = x],
           revCounter' = revCounter + 1, forks' = forks
    PROVE  MemoryOK'
  <1>1. \A v \in Workspaces, q \in Paths :
          files'[v][q] = IF v = w /\ q = p THEN x ELSE files[v][q]
    BY DEF TypeOK, Tree
  <1>2. revCounter \in Nat
    BY DEF TypeOK
  <1>3. TreeOK(files', revCounter')
    BY <1>1, <1>2 DEF MemoryOK, TreeOK
  <1>4. ASSUME NEW f \in ForkIds, NEW q \in Paths, forks[f] # NoFork,
               forks[f].overlay[q] # NoEntry
        PROVE  EntryOK(files'[forks[f].ws][q], revCounter', forks[f].overlay[q])
    <2> DEFINE e == forks[f].overlay[q]
               v == forks[f].ws
    <2>1. EntryOK(files[v][q], revCounter, e)
      BY <1>4 DEF MemoryOK, ForksOK
    <2>2. v \in Workspaces
      BY <1>4 DEF TypeOK, ForkMap, Fork
    <2>3. files'[v][q] = IF v = w /\ q = p THEN x ELSE files[v][q]
      BY <1>1, <2>2
    <2>4. x # Absent => RevOf(x) = revCounter + 1
      BY DEF RevOf
    <2>5. x = Absent => RevOf(x) = 0
      BY DEF RevOf
    <2>6. e.base = 0 => e.seen = Absent
      BY <1>2, <2>1 DEF EntryOK, RevOf
    <2> HIDE DEF e, v
    <2>7. EntryOK(files'[v][q], revCounter', e)
      BY <1>2, <2>1, <2>3, <2>4, <2>5, <2>6 DEF EntryOK
    <2> QED
      BY <2>7 DEF e, v
  <1>5. ForksOK(files', revCounter', forks')
    BY <1>4 DEF ForksOK
  <1> QED
    BY <1>3, <1>5 DEF MemoryOK

(* A new file carries a revision that no pinned base can name yet.          *)
LEMMA PutFileOK ==
    ASSUME TypeOK, MemoryOK, NEW w \in Workspaces, NEW p \in Paths,
           NEW c \in Values, PutFile(w, p, c), forks' = forks
    PROVE  MemoryOK'
  <1> DEFINE x == [rev |-> revCounter + 1, content |-> c]
  <1>1. x \in FileOrAbsent /\ x.rev = revCounter + 1
    BY DEF TypeOK, FileOrAbsent, File
  <1>2. files' = [files EXCEPT ![w][p] = x] /\ revCounter' = revCounter + 1
    BY DEF PutFile
  <1> HIDE DEF x
  <1> QED
    BY <1>1, <1>2, MutateOK

(* A removal leaves every other file to the pinned bases.                   *)
LEMMA RemoveFileOK ==
    ASSUME TypeOK, MemoryOK, NEW w \in Workspaces, NEW p \in Paths,
           RemoveFile(w, p), forks' = forks
    PROVE  MemoryOK'
  <1>1. files' = [files EXCEPT ![w][p] = Absent] /\ revCounter' = revCounter + 1
    BY DEF RemoveFile
  <1> QED
    BY <1>1, MutateOK DEF FileOrAbsent

(* An overlay edit keeps the pinned base, or pins the file that is live    *)
(* now: in both cases base and seen agree.                                 *)
LEMMA PutOverlayOK ==
    ASSUME TypeOK, MemoryOK, NEW f \in LiveForks, NEW p \in Paths,
           NEW type, NEW c,
           \/ type = "write" /\ c \in Values
           \/ type = "delete" /\ c = Absent,
           NEW repin \in BOOLEAN, PutOverlay(f, p, type, c, repin),
           UNCHANGED liveVars
    PROVE  MemoryOK'
  <1> DEFINE keep == Touched(f, p) /\ ~repin
             old  == forks[f].overlay[p]
             x    == files[forks[f].ws][p]
             new  == forks'[f].overlay[p]
  <1>1. f \in ForkIds /\ forks[f] \in Fork /\ forks[f] # NoFork
    BY DEF TypeOK, ForkMap, LiveForks
  <1>2. /\ forks'[f].ws = forks[f].ws
        /\ \A q \in Paths \ {p} : forks'[f].overlay[q] = forks[f].overlay[q]
        /\ new.base = IF keep THEN old.base ELSE ForkLiveRev(f, p)
        /\ new.seen = IF keep THEN old.seen ELSE x
    BY <1>1 DEF PutOverlay, TypeOK, ForkMap, Fork
  <1>3. \A g \in ForkIds \ {f} : forks'[g] = forks[g]
    BY <1>1, PutOverlayType
  <1>4. files' = files /\ revCounter' = revCounter /\ revCounter \in Nat
    BY DEF liveVars, TypeOK
  <1>5. EntryOK(x, revCounter, new)
    <2>1. CASE keep
      <3>1. EntryOK(x, revCounter, old)
        BY <1>1, <2>1 DEF MemoryOK, ForksOK, Touched
      <3> QED
        BY <1>2, <2>1, <3>1 DEF EntryOK
    <2>2. CASE ~keep
      <3>1. x # Absent => x.rev \in 1..revCounter
        BY <1>1 DEF MemoryOK, TreeOK, Fork
      <3>2. new.base = RevOf(x) /\ new.seen = x
        BY <1>2, <2>2 DEF ForkLiveRev, LiveRev, RevOf
      <3> HIDE DEF new, x
      <3> QED
        BY <1>4, <3>1, <3>2 DEF EntryOK, RevOf
    <2> QED
      BY <2>1, <2>2
  <1>6. ASSUME NEW g \in ForkIds, NEW q \in Paths, forks'[g] # NoFork,
               forks'[g].overlay[q] # NoEntry
        PROVE  EntryOK(files[forks'[g].ws][q], revCounter, forks'[g].overlay[q])
    <2>1. CASE g = f /\ q = p
      BY <1>2, <1>5, <2>1
    <2>2. CASE g = f /\ q # p
      <3>1. forks'[g].overlay[q] = forks[f].overlay[q]
        BY <1>2, <2>2
      <3>2. EntryOK(files[forks[f].ws][q], revCounter, forks[f].overlay[q])
        BY <1>1, <1>6, <3>1 DEF MemoryOK, ForksOK
      <3> QED
        BY <1>2, <2>2, <3>1, <3>2
    <2>3. CASE g # f
      BY <1>3, <1>6, <2>3 DEF MemoryOK, ForksOK
    <2> QED
      BY <2>1, <2>2, <2>3
  <1>7. ForksOK(files', revCounter', forks')
    BY <1>4, <1>6 DEF ForksOK
  <1> QED
    BY <1>4, <1>7 DEF MemoryOK

(* Forks that go away, and new ones without entries, disturb nothing. *)
LEMMA FewerEntriesOK ==
    ASSUME MemoryOK, UNCHANGED <<files, revCounter>>,
           \A f \in ForkIds :
             \/ forks'[f] = forks[f]
             \/ forks'[f] = NoFork
             \/ \A p \in Paths : forks'[f].overlay[p] = NoEntry
             \/ /\ forks[f] # NoFork
                /\ forks'[f].ws = forks[f].ws
                /\ forks'[f].overlay = forks[f].overlay
    PROVE  MemoryOK'
  BY DEF MemoryOK, ForksOK, TreeOK

(* A save makes the disk as good as the memory. *)
LEMMA SaveOK == MemoryOK' /\ Save => DiskOK'
  BY DEF MemoryOK, DiskOK, Save, Snapshot

(* The first boot has no entry that an author could have seen.              *)
LEMMA SeenInit ==
    ASSUME LegacyForks = {}
    PROVE  Init => SeenInv
  <1> SUFFICES ASSUME Init PROVE SeenInv
    OBVIOUS
  <1>1. \A f \in ForkIds : forks[f] = NoFork
    BY DEF Init
  <1>2. \A w \in Workspaces, p \in Paths : files[w][p] = Absent
    BY DEF Init
  <1>3. MemoryOK
    BY <1>1, <1>2 DEF MemoryOK, TreeOK, ForksOK
  <1>4. disk.files = files /\ disk.revCounter = revCounter /\ disk.forks = forks
    BY DEF Init, Snapshot
  <1>5. DiskOK
    BY <1>3, <1>4 DEF MemoryOK, DiskOK
  <1>6. CommitAhead
    BY DEF Init, CommitAhead, Free
  <1> QED
    BY <1>3, <1>5, <1>6, TypeInit DEF SeenInv

(* A change of the live tree moves the revision of what it changes.         *)
LEMMA SeenLive == SeenInv /\ LiveNext => SeenInv'
  <1> SUFFICES ASSUME SeenInv, LiveNext PROVE SeenInv'
    OBVIOUS
  <1> USE DEF SeenInv
  <1>1. TypeInv' /\ TypeOK
    BY TypeLive DEF TypeInv
  <1>2. ASSUME NEW w \in Workspaces, NEW p \in Paths, NEW m \in Known,
               \/ \E c \in Values : WriteFile(w, p, m, c)
               \/ DeleteFile(w, p, m)
        PROVE  SeenInv'
    <2>1. /\ RemoveFile(w, p) \/ \E c \in Values : PutFile(w, p, c)
          /\ forks' = forks /\ Save /\ lock = Free /\ lock' = lock
      BY <1>2 DEF WriteFile, DeleteFile
    <2>2. MemoryOK'
      BY <1>1, <2>1, PutFileOK, RemoveFileOK
    <2>3. DiskOK'
      BY <2>1, <2>2, SaveOK
    <2> QED
      BY <1>1, <2>1, <2>2, <2>3 DEF CommitAhead, Free
  <1>3. ASSUME NEW w \in Workspaces, BulkWriteBegin(w) PROVE SeenInv'
    BY <1>1, <1>3
    DEF BulkWriteBegin, liveVars, MemoryOK, DiskOK, CommitAhead, TreeOK, ForksOK
  <1>4. ASSUME NEW p \in Paths, NEW m \in Known, NEW c \in Values,
               BulkWriteItem(p, m, c)
        PROVE  SeenInv'
    <2>1. lock.kind = "bulk" /\ PutFile(lock.ws, p, c)
          /\ UNCHANGED <<forks, lock, disk>>
      BY <1>4 DEF BulkWriteItem
    <2>2. lock.ws \in Workspaces
      BY <1>1, <2>1, LockKinds DEF TypeOK
    <2>3. MemoryOK'
      BY <1>1, <2>1, <2>2, PutFileOK
    <2> QED
      BY <1>1, <2>1, <2>3 DEF CommitAhead, DiskOK
  <1>5. ASSUME BulkWriteEnd PROVE SeenInv'
    <2>1. lock' = Free /\ Save /\ UNCHANGED <<files, revCounter, forks>>
      BY <1>5 DEF BulkWriteEnd, liveVars
    <2>2. MemoryOK'
      BY <2>1 DEF MemoryOK
    <2> QED
      BY <1>1, <2>1, <2>2, SaveOK DEF CommitAhead, Free
  <1> QED
    BY <1>2, <1>3, <1>4, <1>5 DEF LiveNext

(* An edit pins what its author saw; a commit begins over exactly that.     *)
LEMMA SeenFork == SeenInv /\ ForkNext => SeenInv'
  <1> SUFFICES ASSUME SeenInv, ForkNext PROVE SeenInv'
    OBVIOUS
  <1> USE DEF SeenInv
  <1>1. TypeInv' /\ TypeInv /\ TypeOK
    BY TypeFork DEF TypeInv
  <1>2. ASSUME NEW w \in Workspaces, NEW q \in Proposals, NEW f \in ForkIds,
               CreateFork(w, q, f)
        PROVE  SeenInv'
    <2>1. /\ forks'[f] = NewFork(w, q)
          /\ \A g \in ForkIds \ {f} : forks'[g] = forks[g] \/ forks'[g] = NoFork
          /\ Save /\ lock' = Free /\ UNCHANGED <<files, revCounter>>
      BY <1>2 DEF CreateFork, liveVars
    <2>2. \A p \in Paths : forks'[f].overlay[p] = NoEntry
      BY <2>1 DEF NewFork
    <2>3. MemoryOK'
      BY <2>1, <2>2, FewerEntriesOK
    <2> QED
      BY <1>1, <2>1, <2>3, SaveOK DEF CommitAhead, Free
  <1>3. ASSUME NEW w \in Workspaces, NEW q \in Proposals, CreateForkTaken(w, q)
        PROVE  SeenInv'
    <2>1. /\ \A g \in ForkIds : forks'[g] = forks[g] \/ forks'[g] = NoFork
          /\ lock' = Free /\ UNCHANGED <<files, revCounter, disk>>
      BY <1>3 DEF CreateForkTaken, deleteForks, liveVars
    <2>2. MemoryOK'
      BY <2>1, FewerEntriesOK
    <2> QED
      BY <1>1, <2>1, <2>2 DEF CommitAhead, Free, DiskOK
  <1>4. ASSUME \/ \E f \in ForkIds : getLiveForkExpired(f) \/ DiscardFork(f)
               \/ CommitForkEnd
        PROVE  SeenInv'
    <2>1. /\ \A g \in ForkIds : forks'[g] = forks[g] \/ forks'[g] = NoFork
          /\ lock' = Free /\ Save /\ UNCHANGED <<files, revCounter>>
      BY <1>4
      DEF getLiveForkExpired, DiscardFork, CommitForkEnd, deleteForks, liveVars
    <2>2. MemoryOK'
      BY <2>1, FewerEntriesOK
    <2> QED
      BY <1>1, <2>1, <2>2, SaveOK DEF CommitAhead, Free
  <1>5. ASSUME NEW f \in ForkIds, RebaseFork(f) PROVE SeenInv'
    <2>1. /\ f \in LiveForks /\ lock' = Free /\ Save
          /\ forks' = [forks EXCEPT ![f].parent = wsRevision[forks[f].ws]]
          /\ UNCHANGED <<files, revCounter>>
      BY <1>5 DEF RebaseFork, UsableFork, liveVars
    <2>2. forks[f] \in Fork /\ forks[f] # NoFork
      BY <1>1, <2>1 DEF TypeOK, ForkMap, LiveForks
    <2>3. /\ forks'[f].ws = forks[f].ws /\ forks'[f].overlay = forks[f].overlay
          /\ \A g \in ForkIds \ {f} : forks'[g] = forks[g]
      BY <1>1, <2>1, <2>2 DEF TypeOK, ForkMap, Fork
    <2>4. MemoryOK'
      BY <2>1, <2>2, <2>3, FewerEntriesOK
    <2> QED
      BY <1>1, <2>1, <2>4, SaveOK DEF CommitAhead, Free
  <1>6. ASSUME NEW f \in ForkIds, BulkWriteForkBegin(f) PROVE SeenInv'
    <2>1. UNCHANGED <<files, revCounter, forks, disk>>
          /\ lock' = [kind |-> "bulkFork", fork |-> f]
      BY <1>6 DEF BulkWriteForkBegin, liveVars
    <2> QED
      BY <1>1, <2>1 DEF MemoryOK, DiskOK, CommitAhead
  <1>7. ASSUME NEW f \in ForkIds, CommitForkBegin(f) PROVE SeenInv'
    <2>1. /\ f \in LiveForks
          /\ \A p \in Paths : Touched(f, p) => EntryUnmoved(f, p)
          /\ lock' = [kind |-> "commit", fork |-> f,
                      todo |-> {p \in Paths : Touched(f, p)}]
          /\ UNCHANGED <<files, revCounter, forks, disk>>
      BY <1>7 DEF CommitForkBegin, UsableFork, liveVars
    <2>2. ASSUME NEW p \in Paths, Touched(f, p)
          PROVE  files[forks[f].ws][p] = forks[f].overlay[p].seen
      <3>1. EntryOK(files[forks[f].ws][p], revCounter, forks[f].overlay[p])
        BY <2>1, <2>2 DEF MemoryOK, ForksOK, LiveForks, Touched
      <3>2. forks[f].overlay[p].base # Unknown
        BY <3>1, ForksAssumption DEF EntryOK
      <3>3. forks[f].overlay[p].base = RevOf(files[forks[f].ws][p])
        BY <2>1, <2>2, <3>2 DEF EntryUnmoved, ForkLiveRev, LiveRev, RevOf
      <3> QED
        BY <3>1, <3>3 DEF EntryOK
    <2>3. CommitAhead'
      BY <2>1, <2>2 DEF CommitAhead
    <2> QED
      BY <1>1, <2>1, <2>3 DEF MemoryOK, DiskOK
  <1>8. ASSUME NEW f \in ForkIds, NEW p \in Paths, NEW m \in Known,
               \/ \E c \in Values : WriteForkFile(f, p, m, c)
               \/ DeleteForkFile(f, p, m)
        PROVE  SeenInv'
    <2>1. /\ f \in LiveForks /\ lock' = Free /\ Save /\ UNCHANGED liveVars
          /\ Resolves(f, p, m) \in BOOLEAN
      BY <1>8 DEF WriteForkFile, DeleteForkFile, UsableFork, Resolves
    <2>2. CASE \E c \in Values : WriteForkFile(f, p, m, c)
      <3>1. PICK c \in Values : PutOverlay(f, p, "write", c, Resolves(f, p, m))
        BY <2>2 DEF WriteForkFile
      <3>2. MemoryOK'
        BY <1>1, <2>1, <3>1, PutOverlayOK
      <3> QED
        BY <1>1, <2>1, <3>2, SaveOK DEF CommitAhead, Free
    <2>3. CASE DeleteForkFile(f, p, m)
      <3>1. PutOverlay(f, p, "delete", Absent, Resolves(f, p, m))
        BY <2>3 DEF DeleteForkFile
      <3>2. MemoryOK'
        BY <1>1, <2>1, <3>1, PutOverlayOK
      <3> QED
        BY <1>1, <2>1, <3>2, SaveOK DEF CommitAhead, Free
    <2> QED
      BY <1>8, <2>2, <2>3
  <1>9. ASSUME NEW p \in Paths, NEW m \in Known, NEW c \in Values,
               BulkWriteForkItem(p, m, c)
        PROVE  SeenInv'
    <2>1. /\ lock.kind = "bulkFork"
          /\ PutOverlay(lock.fork, p, "write", c, FALSE)
          /\ UNCHANGED <<liveVars, lock, disk>>
      BY <1>9 DEF BulkWriteForkItem
    <2>2. lock.fork \in LiveForks
      BY <1>1, <2>1 DEF TypeInv, LockOwnsFork
    <2>3. MemoryOK'
      BY <1>1, <2>1, <2>2, PutOverlayOK
    <2> QED
      BY <1>1, <2>1, <2>3 DEF CommitAhead, DiskOK
  <1>10. ASSUME BulkWriteForkEnd PROVE SeenInv'
    <2>1. lock' = Free /\ Save /\ UNCHANGED <<files, revCounter, forks>>
      BY <1>10 DEF BulkWriteForkEnd, liveVars
    <2>2. MemoryOK'
      BY <2>1 DEF MemoryOK
    <2> QED
      BY <1>1, <2>1, <2>2, SaveOK DEF CommitAhead, Free
  <1>11. ASSUME NEW p \in Paths, CommitForkApply(p) PROVE SeenInv'
    <2> DEFINE f == lock.fork
               w == forks[f].ws
               e == forks[f].overlay[p]
    <2>1. /\ lock.kind = "commit" /\ p \in lock.todo
          /\ \/ e.type = "write" /\ PutFile(w, p, e.content)
             \/ RemoveFile(w, p)
             \/ UNCHANGED liveVars
          /\ lock' = [lock EXCEPT !.todo = @ \ {p}]
          /\ UNCHANGED <<forks, disk>>
      BY <1>11 DEF CommitForkApply
    <2>2. lock \in [kind : {"commit"}, fork : ForkIds, todo : SUBSET Paths]
      BY <1>1, <2>1, LockKinds DEF TypeOK
    <2>3. f \in LiveForks /\ e # NoEntry
      BY <1>1, <2>1 DEF TypeInv, LockOwnsFork, Touched
    <2>4. w \in Workspaces /\ e \in Entry
      BY <1>1, <2>3 DEF LiveForks, TypeOK, ForkMap, Fork
    <2>5. \A q \in Paths \ {p} : files'[w][q] = files[w][q]
      BY SMTT(30), <1>1, <2>1, <2>4 DEF PutFile, RemoveFile, TypeOK, Tree, liveVars
    <2>6. MemoryOK'
      <3>1. CASE e.type = "write" /\ PutFile(w, p, e.content)
        <4>1. e.content \in Values
          BY <2>4, <3>1 DEF Entry
        <4> QED
          BY <1>1, <2>1, <2>4, <3>1, <4>1, PutFileOK
      <3>2. CASE RemoveFile(w, p)
        BY <1>1, <2>1, <2>4, <3>2, RemoveFileOK
      <3>3. CASE UNCHANGED liveVars
        BY <2>1, <3>3 DEF liveVars, MemoryOK
      <3> QED
        BY <2>1, <3>1, <3>2, <3>3
    <2>7. /\ lock'.kind = "commit" /\ lock'.fork = f
          /\ lock'.todo = lock.todo \ {p} /\ lock.todo \subseteq Paths
      BY <2>1, <2>2
    <2>8. CommitAhead'
      BY <2>1, <2>5, <2>7 DEF CommitAhead
    <2> QED
      BY <1>1, <2>1, <2>6, <2>8 DEF DiskOK
  <1> QED
    BY <1>2, <1>3, <1>4, <1>5, <1>6, <1>7, <1>8, <1>9, <1>10, <1>11
    DEF ForkNext

(* Time changes no file, and a restart goes back to a saved state.          *)
LEMMA SeenTime == SeenInv /\ TimeNext => SeenInv'
  <1> SUFFICES ASSUME SeenInv, TimeNext PROVE SeenInv'
    OBVIOUS
  <1> USE DEF SeenInv
  <1>1. TypeInv' /\ TypeOK
    BY TypeTime DEF TypeInv
  <1>2. ASSUME NEW f \in ForkIds, ExpiresAtPasses(f) \/ scheduleForkExpiry(f)
        PROVE  SeenInv'
    <2>1. UNCHANGED <<files, revCounter, forks, lock, disk>>
      BY <1>2 DEF ExpiresAtPasses, scheduleForkExpiry, liveVars
    <2> QED
      BY <1>1, <2>1 DEF MemoryOK, DiskOK, CommitAhead
  <1>3. ASSUME NEW f \in ForkIds, expireForkByTimer(f) PROVE SeenInv'
    <2>1. /\ \A g \in ForkIds : forks'[g] = forks[g] \/ forks'[g] = NoFork
          /\ lock' = Free /\ UNCHANGED <<files, revCounter>>
          /\ Save \/ disk' = disk
      BY <1>3 DEF expireForkByTimer, deleteForks, liveVars
    <2>2. MemoryOK'
      BY <2>1, FewerEntriesOK
    <2>3. DiskOK'
      BY <2>1, <2>2, SaveOK DEF DiskOK
    <2> QED
      BY <1>1, <2>1, <2>2, <2>3 DEF CommitAhead, Free
  <1>4. ASSUME Restart PROVE SeenInv'
    <2>1. /\ files' = disk.files /\ revCounter' = disk.revCounter
          /\ \A f \in ForkIds : forks'[f] = disk.forks[f] \/ forks'[f] = NoFork
          /\ lock' = Free /\ disk' = disk
      BY <1>4 DEF Restart
    <2>2. MemoryOK' /\ DiskOK'
      BY <2>1 DEF MemoryOK, DiskOK, TreeOK, ForksOK
    <2> QED
      BY <1>1, <2>1, <2>2 DEF CommitAhead, Free
  <1> QED
    BY <1>2, <1>3, <1>4 DEF TimeNext

(* Every step.                                                              *)
LEMMA SeenStep == SeenInv /\ [Next]_vars => SeenInv'
  <1> SUFFICES ASSUME SeenInv, UNCHANGED vars PROVE SeenInv'
    BY SeenLive, SeenFork, SeenTime DEF Next
  <1>1. TypeInv'
    BY TypeStep DEF SeenInv
  <1> QED
    BY <1>1 DEF SeenInv, MemoryOK, DiskOK, CommitAhead, vars

(* A fork commit replaces exactly the files its author saw, in every       *)
(* behaviour of a store that holds no entries without a base revision.     *)
THEOREM CommitSafe ==
    ASSUME LegacyForks = {}
    PROVE  Spec => CommitsOnlyOverSeen
  <1>1. SeenInv => \A p \in Paths : CommitForkApply(p) =>
          LET f == lock.fork
          IN  files[forks[f].ws][p] = forks[f].overlay[p].seen
    BY DEF SeenInv, CommitAhead, CommitForkApply
  <1> QED
    BY <1>1, SeenInit, SeenStep, PTL DEF Spec, CommitsOnlyOverSeen

-----------------------------------------------------------------------------
(* The proposal indexes *)

(* At most one fork of a table has a given proposal. *)
OneForkPerProposal(fk) ==
    \A f, g \in ForkIds :
      (fk[f] # NoFork /\ fk[g] # NoFork /\ fk[f].proposal = fk[g].proposal)
        => f = g

ForksUsed == \A f \in ForkIds : forks[f] # NoFork \/ disk.forks[f] # NoFork => f \in used

IndexInv ==
    /\ TypeInv
    /\ ForkIndexesAgree
    /\ OneForkPerProposal(disk.forks)
    /\ ForksUsed

(* What the indexes look at: which forks there are, their workspaces and    *)
(* their proposals.                                                         *)
SameForks ==
    \A f \in ForkIds :
      /\ forks'[f] = NoFork <=> forks[f] = NoFork
      /\ forks[f] # NoFork => /\ forks'[f].ws = forks[f].ws
                              /\ forks'[f].proposal = forks[f].proposal

(* Agreement makes a proposal belong to one fork. *)
LEMMA AgreeOne == ForkIndexesAgree => OneForkPerProposal(forks)
  <1> SUFFICES ASSUME ForkIndexesAgree, NEW f \in ForkIds, NEW g \in ForkIds,
                      forks[f] # NoFork, forks[g] # NoFork,
                      forks[f].proposal = forks[g].proposal
               PROVE  f = g
    BY DEF OneForkPerProposal
  <1>1. f \in LiveForks /\ g \in LiveForks
    BY DEF LiveForks
  <1>2. forkByProposal[forks[f].proposal] = f /\ forkByProposal[forks[g].proposal] = g
    BY <1>1 DEF ForkIndexesAgree
  <1> QED
    BY <1>2

(* Indexes that agree go on to agree with the same forks.                   *)
LEMMA IndexSame ==
    ASSUME ForkIndexesAgree, SameForks, UNCHANGED indexVars
    PROVE  ForkIndexesAgree'
  <1>1. LiveForks' = LiveForks
    BY DEF SameForks, LiveForks
  <1> QED
    BY <1>1 DEF ForkIndexesAgree, SameForks, indexVars, LiveForks

(* deleteForkLocked takes the entries of exactly the forks that go: the     *)
(* entries that a fork of another workspace or proposal holds stay.         *)
LEMMA IndexDelete ==
    ASSUME TypeOK, ForkIndexesAgree, NEW S \in SUBSET LiveForks, deleteForks(S)
    PROVE  ForkIndexesAgree'
  <1>1. /\ \A g \in ForkIds : forks'[g] = IF g \in S THEN NoFork ELSE forks[g]
        /\ LiveForks' = LiveForks \ S
    BY DeleteForksType
  <1>2. \A q \in Proposals : forkByProposal'[q] =
           IF \E f \in S : forks[f].proposal = q THEN NoFork ELSE forkByProposal[q]
    BY DEF deleteForks
  <1>3. \A w \in Workspaces, q \in Proposals : forkByWorkspaceProposal'[<<w, q>>] =
           IF \E f \in S : forks[f].ws = w /\ forks[f].proposal = q
           THEN NoFork ELSE forkByWorkspaceProposal[<<w, q>>]
    BY DEF deleteForks
  <1>4. \A f \in LiveForks : f \in ForkIds /\ forks[f].ws \in Workspaces
                             /\ forks[f].proposal \in Proposals
    BY DEF LiveForks, TypeOK, ForkMap, Fork
  <1>5. \A f \in LiveForks' :
          /\ forkByProposal'[forks'[f].proposal] = f
          /\ forkByWorkspaceProposal'[<<forks'[f].ws, forks'[f].proposal>>] = f
    <2> SUFFICES ASSUME NEW f \in LiveForks, f \notin S
                 PROVE  /\ forkByProposal'[forks[f].proposal] = f
                        /\ forkByWorkspaceProposal'[<<forks[f].ws, forks[f].proposal>>] = f
      BY <1>1, <1>4
    <2>1. forkByProposal[forks[f].proposal] = f
          /\ forkByWorkspaceProposal[<<forks[f].ws, forks[f].proposal>>] = f
      BY DEF ForkIndexesAgree
    <2>2. \A g \in S : g \in ForkIds /\ forks[g] # NoFork /\ g # f
      BY DEF LiveForks
    <2>3. \A g \in S : forks[g].proposal # forks[f].proposal
      BY <2>2, AgreeOne DEF OneForkPerProposal, LiveForks
    <2> QED
      BY <1>2, <1>3, <1>4, <2>1, <2>3
  <1>6. ASSUME NEW q \in Proposals, forkByProposal'[q] # NoFork
        PROVE  /\ forkByProposal'[q] \in LiveForks'
               /\ forks'[forkByProposal'[q]].proposal = q
    BY <1>1, <1>2, <1>4, <1>6 DEF ForkIndexesAgree
  <1>7. ASSUME NEW w \in Workspaces, NEW q \in Proposals,
               forkByWorkspaceProposal'[<<w, q>>] # NoFork
        PROVE  /\ forkByWorkspaceProposal'[<<w, q>>] \in LiveForks'
               /\ forks'[forkByWorkspaceProposal'[<<w, q>>]].ws = w
               /\ forks'[forkByWorkspaceProposal'[<<w, q>>]].proposal = q
    BY <1>1, <1>3, <1>4, <1>7 DEF ForkIndexesAgree
  <1> QED
    BY <1>5, <1>6, <1>7 DEF ForkIndexesAgree

(* The first boot rebuilds both indexes.                                    *)
LEMMA IndexInit == Init => IndexInv
  <1> SUFFICES ASSUME Init PROVE IndexInv
    OBVIOUS
  <1>1. TypeInv /\ disk.forks = forks
    BY TypeInit DEF Init, Snapshot
  <1>2. \A f \in LiveForks : f \in ForkIds /\ forks[f].ws \in Workspaces
                             /\ forks[f].proposal \in Proposals
    BY <1>1 DEF LiveForks, TypeInv, TypeOK, ForkMap, Fork
  <1>3. ForkIndexesAgree
    <2>1. \A q \in Proposals, f \in ForkIds :
            forkByProposal[q] = f <=> forks[f] # NoFork /\ forks[f].proposal = q
      BY DEF Init
    <2>2. \A w \in Workspaces, q \in Proposals, f \in ForkIds :
            forkByWorkspaceProposal[<<w, q>>] = f <=>
              forks[f] # NoFork /\ forks[f].ws = w /\ forks[f].proposal = q
      BY DEF Init
    <2>3. /\ \A q \in Proposals : forkByProposal[q] \in ForkIds \cup {NoFork}
          /\ \A w \in Workspaces, q \in Proposals :
               forkByWorkspaceProposal[<<w, q>>] \in ForkIds \cup {NoFork}
      BY DEF Init
    <2> QED
      BY <1>2, <2>1, <2>2, <2>3 DEF ForkIndexesAgree, LiveForks
  <1>4. ForksUsed
    BY <1>1 DEF Init, ForksUsed
  <1> QED
    BY <1>1, <1>3, <1>4, AgreeOne DEF IndexInv

(* A save carries the uniqueness of the indexes to the disk. *)
LEMMA IndexSave ==
    ASSUME ForkIndexesAgree', Save
    PROVE  OneForkPerProposal(disk.forks)' /\ disk'.forks = forks'
  <1>1. disk'.forks = forks'
    BY DEF Save, Snapshot
  <1>2. OneForkPerProposal(forks')
    <2> SUFFICES ASSUME NEW f \in ForkIds, NEW g \in ForkIds,
                        forks'[f] # NoFork, forks'[g] # NoFork,
                        forks'[f].proposal = forks'[g].proposal
                 PROVE  f = g
      BY DEF OneForkPerProposal
    <2>1. f \in LiveForks' /\ g \in LiveForks'
      BY DEF LiveForks
    <2>2. forkByProposal'[forks'[f].proposal] = f
          /\ forkByProposal'[forks'[g].proposal] = g
      BY <2>1 DEF ForkIndexesAgree
    <2> QED
      BY <2>2
  <1> QED
    BY <1>1, <1>2 DEF OneForkPerProposal

(* A save copies a fork table with one fork per proposal.                   *)
LEMMA IndexSaved ==
    ASSUME IndexInv, TypeInv', ForkIndexesAgree', Save, used \subseteq used',
           \A f \in ForkIds : forks'[f] # NoFork => f \in used'
    PROVE  IndexInv'
  <1>1. OneForkPerProposal(disk.forks)' /\ disk'.forks = forks'
    BY IndexSave
  <1> QED
    BY <1>1 DEF IndexInv, ForksUsed

(* Without a save the old snapshot stays good.                              *)
LEMMA IndexUnsaved ==
    ASSUME IndexInv, TypeInv', ForkIndexesAgree', UNCHANGED <<disk, used>>,
           \A f \in ForkIds : forks'[f] # NoFork => f \in used
    PROVE  IndexInv'
  BY DEF IndexInv, ForksUsed, OneForkPerProposal

(* Steps that leave every fork its workspace and its proposal. *)
LEMMA IndexKept ==
    ASSUME IndexInv, TypeInv', SameForks, UNCHANGED <<indexVars, used>>,
           Save \/ UNCHANGED disk
    PROVE  IndexInv'
  <1>1. ForkIndexesAgree'
    BY IndexSame DEF IndexInv
  <1>2. \A f \in ForkIds : forks'[f] # NoFork => f \in used
    BY DEF SameForks, IndexInv, ForksUsed
  <1> QED
    BY <1>1, <1>2, IndexSaved, IndexUnsaved

(* Deleting forks keeps the indexes, with or without a save.                *)
LEMMA IndexDeleted ==
    ASSUME IndexInv, TypeInv', NEW S \in SUBSET LiveForks, deleteForks(S),
           UNCHANGED used, Save \/ UNCHANGED disk
    PROVE  IndexInv'
  <1>1. TypeOK /\ ForkIndexesAgree
    BY DEF IndexInv, TypeInv
  <1>2. ForkIndexesAgree'
    BY <1>1, IndexDelete
  <1>3. \A f \in ForkIds : forks'[f] # NoFork => f \in used
    BY DEF deleteForks, IndexInv, ForksUsed
  <1> QED
    BY <1>2, <1>3, IndexSaved, IndexUnsaved

(* CreateFork: the proposal is free once the expired forks are gone, or it  *)
(* would have been taken by a fork of this workspace, which the index of    *)
(* this workspace would name.                                               *)
LEMMA IndexCreate ==
    ASSUME IndexInv, TypeInv', NEW w \in Workspaces, NEW q \in Proposals,
           NEW f \in ForkIds, CreateFork(w, q, f)
    PROVE  IndexInv'
  <1> DEFINE S == ExpiredForks
  <1>1. TypeOK /\ ForkIndexesAgree /\ f \notin used /\ ~ProposalTaken(w, q)
        /\ Save /\ used' = used \cup {f}
    BY DEF IndexInv, TypeInv, CreateFork
  <1>2. /\ \A g \in ForkIds : forks'[g] = IF g = f THEN NewFork(w, q)
                                          ELSE IF g \in S THEN NoFork ELSE forks[g]
        /\ \A v \in Workspaces, r \in Proposals : forkByWorkspaceProposal'[<<v, r>>] =
             IF <<v, r>> = <<w, q>> THEN f
             ELSE IF \E g \in S : forks[g].ws = v /\ forks[g].proposal = r
             THEN NoFork ELSE forkByWorkspaceProposal[<<v, r>>]
        /\ \A r \in Proposals : forkByProposal'[r] =
             IF r = q THEN f
             ELSE IF \E g \in S : forks[g].proposal = r
             THEN NoFork ELSE forkByProposal[r]
    BY DEF CreateFork
  <1>3. f \notin LiveForks /\ S \subseteq LiveForks /\ S \subseteq past
    BY <1>1 DEF IndexInv, ForksUsed, LiveForks, ExpiredForks
  <1>4. NewFork(w, q) \in Fork /\ NewFork(w, q) # NoFork
        /\ NewFork(w, q).ws = w /\ NewFork(w, q).proposal = q
    <2>1. wsRevision[w] \in Nat
      BY <1>1 DEF TypeOK
    <2>2. NewFork(w, q) \in Fork
      BY <2>1 DEF NewFork, Fork
    <2> QED
      BY <2>2, ForksAssumption DEF NewFork
  <1>5. LiveForks' = (LiveForks \ S) \cup {f}
    BY <1>2, <1>3, <1>4 DEF LiveForks, ExpiredForks
  <1>6. \A g \in LiveForks : g \in ForkIds /\ forks[g] # NoFork
          /\ forks[g].ws \in Workspaces /\ forks[g].proposal \in Proposals
    BY <1>1 DEF LiveForks, TypeOK, ForkMap, Fork
  <1>7. ASSUME NEW g \in LiveForks \ S PROVE forks[g].proposal # q
    <2> SUFFICES ASSUME forks[g].proposal = q PROVE FALSE
      OBVIOUS
    <2>1. forkByProposal[q] = g /\ forkByWorkspaceProposal[<<forks[g].ws, q>>] = g
      BY <1>1 DEF ForkIndexesAgree
    <2>2. g \in LiveForks \ past
      BY DEF ExpiredForks
    <2>3. forks[g].ws = w
      BY <1>1, <2>1, <2>2 DEF ProposalTaken
    <2> QED
      BY <1>1, <2>1, <2>2, <2>3 DEF ProposalTaken
  <1>8. \A g, h \in LiveForks : forks[g].proposal = forks[h].proposal => g = h
    BY <1>1, <1>6, AgreeOne DEF OneForkPerProposal
  <1>9. \A g \in LiveForks \ S : forks'[g] = forks[g] /\ g # f
    BY <1>2, <1>3, <1>6
  <1>10. forks'[f] = NewFork(w, q)
    BY <1>2
  <1>11. \A g \in LiveForks' :
           /\ forkByProposal'[forks'[g].proposal] = g
           /\ forkByWorkspaceProposal'[<<forks'[g].ws, forks'[g].proposal>>] = g
    <2>1. /\ forkByProposal'[forks'[f].proposal] = f
          /\ forkByWorkspaceProposal'[<<forks'[f].ws, forks'[f].proposal>>] = f
      BY <1>2, <1>4, <1>10
    <2>2. ASSUME NEW g \in LiveForks \ S
          PROVE  /\ forkByProposal'[forks'[g].proposal] = g
                 /\ forkByWorkspaceProposal'[<<forks'[g].ws, forks'[g].proposal>>] = g
      <3>1. forks'[g] = forks[g] /\ forks[g].proposal # q
            /\ forks[g].proposal \in Proposals /\ forks[g].ws \in Workspaces
        BY <1>6, <1>7, <1>9
      <3>2. ~\E h \in S : forks[h].proposal = forks[g].proposal
        BY <1>3, <1>8
      <3>3. /\ forkByProposal[forks[g].proposal] = g
            /\ forkByWorkspaceProposal[<<forks[g].ws, forks[g].proposal>>] = g
        BY <1>1 DEF ForkIndexesAgree
      <3> QED
        BY <1>2, <3>1, <3>2, <3>3
    <2> QED
      BY <1>5, <2>1, <2>2
  <1>12. ASSUME NEW r \in Proposals, forkByProposal'[r] # NoFork
         PROVE  /\ forkByProposal'[r] \in LiveForks'
                /\ forks'[forkByProposal'[r]].proposal = r
    <2>1. CASE r = q
      BY <1>2, <1>4, <1>5, <1>10, <2>1
    <2>2. CASE r # q
      <3> DEFINE g == forkByProposal[r]
      <3>1. forkByProposal'[r] = g /\ ~(\E h \in S : forks[h].proposal = r)
        BY <1>2, <1>12, <2>2
      <3>2. g \in LiveForks /\ forks[g].proposal = r
        BY <1>1, <1>12, <3>1 DEF ForkIndexesAgree
      <3>3. g \in LiveForks \ S
        BY <3>1, <3>2
      <3> QED
        BY <1>5, <1>9, <3>1, <3>2, <3>3
    <2> QED
      BY <2>1, <2>2
  <1>13. ASSUME NEW v \in Workspaces, NEW r \in Proposals,
                forkByWorkspaceProposal'[<<v, r>>] # NoFork
         PROVE  LET g == forkByWorkspaceProposal'[<<v, r>>]
                IN  g \in LiveForks' /\ forks'[g].ws = v /\ forks'[g].proposal = r
    <2>1. CASE <<v, r>> = <<w, q>>
      BY <1>2, <1>4, <1>5, <1>10, <2>1
    <2>2. CASE <<v, r>> # <<w, q>>
      <3> DEFINE g == forkByWorkspaceProposal[<<v, r>>]
      <3>1. /\ forkByWorkspaceProposal'[<<v, r>>] = g
            /\ ~(\E h \in S : forks[h].ws = v /\ forks[h].proposal = r)
        BY <1>2, <1>13, <2>2
      <3>2. g \in LiveForks /\ forks[g].ws = v /\ forks[g].proposal = r
        BY <1>1, <1>13, <3>1 DEF ForkIndexesAgree
      <3>3. g \in LiveForks \ S
        BY <3>1, <3>2
      <3> QED
        BY <1>5, <1>9, <3>1, <3>2, <3>3
    <2> QED
      BY <2>1, <2>2
  <1>14. ForkIndexesAgree'
    BY <1>11, <1>12, <1>13 DEF ForkIndexesAgree
  <1>15. \A g \in ForkIds : forks'[g] # NoFork => g \in used'
    BY <1>1, <1>2 DEF IndexInv, ForksUsed
  <1> QED
    BY <1>1, <1>14, <1>15, IndexSaved

(* A restart rebuilds the indexes from the snapshot, in which a proposal    *)
(* has one fork.                                                            *)
LEMMA IndexRestart ==
    ASSUME IndexInv, TypeInv', Restart
    PROVE  IndexInv'
  <1> DEFINE kept == {f \in ForkIds : disk.forks[f] # NoFork /\ f \notin past}
  <1>1. /\ \A f \in ForkIds : forks'[f] = IF f \in kept THEN disk.forks[f] ELSE NoFork
        /\ UNCHANGED <<disk, used>>
    BY DEF Restart
  <1>2. /\ forkByProposal' \in [Proposals -> ForkIds \cup {NoFork}]
        /\ \A q \in Proposals :
             LET fs == {f \in kept : disk.forks[f].proposal = q}
             IN  IF fs = {} THEN forkByProposal'[q] = NoFork
                 ELSE forkByProposal'[q] \in fs
    BY DEF Restart
  <1>3. /\ forkByWorkspaceProposal' \in
             [Workspaces \X Proposals -> ForkIds \cup {NoFork}]
        /\ \A w \in Workspaces, q \in Proposals :
             LET fs == {f \in kept : disk.forks[f].ws = w
                                     /\ disk.forks[f].proposal = q}
             IN  IF fs = {} THEN forkByWorkspaceProposal'[<<w, q>>] = NoFork
                 ELSE forkByWorkspaceProposal'[<<w, q>>] \in fs
    <2>1. \A k \in Workspaces \X Proposals :
             LET fs == {f \in kept : disk.forks[f].ws = k[1]
                                     /\ disk.forks[f].proposal = k[2]}
             IN  IF fs = {} THEN forkByWorkspaceProposal'[k] = NoFork
                 ELSE forkByWorkspaceProposal'[k] \in fs
      BY DEF Restart
    <2>2. forkByWorkspaceProposal' \in
             [Workspaces \X Proposals -> ForkIds \cup {NoFork}]
      BY DEF Restart
    <2> QED
      BY <2>1, <2>2
  <1>4. LiveForks' = kept
    BY <1>1 DEF LiveForks
  <1>5. \A f \in kept : /\ f \in ForkIds /\ disk.forks[f] # NoFork
                        /\ disk.forks[f].ws \in Workspaces
                        /\ disk.forks[f].proposal \in Proposals
    BY DEF IndexInv, TypeInv, TypeOK, Snapshots, ForkMap, Fork
  <1>6. \A f, g \in kept : disk.forks[f].proposal = disk.forks[g].proposal => f = g
    BY DEF IndexInv, OneForkPerProposal
  <1>7. \A f \in kept : forks'[f] = disk.forks[f]
    BY <1>1
  <1> HIDE DEF kept
  <1>8. ASSUME NEW f \in LiveForks'
        PROVE  /\ forkByProposal'[forks'[f].proposal] = f
               /\ forkByWorkspaceProposal'[<<forks'[f].ws, forks'[f].proposal>>] = f
    <2> DEFINE q == disk.forks[f].proposal
               w == disk.forks[f].ws
    <2>1. f \in kept /\ q \in Proposals /\ w \in Workspaces /\ forks'[f] = disk.forks[f]
      BY <1>4, <1>5, <1>7, <1>8
    <2>2. f \in {g \in kept : disk.forks[g].proposal = q}
          /\ f \in {g \in kept : disk.forks[g].ws = w /\ disk.forks[g].proposal = q}
      BY <2>1
    <2>3. forkByProposal'[q] \in {g \in kept : disk.forks[g].proposal = q}
      BY <1>2, <2>1, <2>2
    <2>4. forkByWorkspaceProposal'[<<w, q>>] \in
            {g \in kept : disk.forks[g].ws = w /\ disk.forks[g].proposal = q}
      BY <1>3, <2>1, <2>2
    <2> QED
      BY <1>6, <2>1, <2>3, <2>4
  <1>9. ASSUME NEW q \in Proposals, forkByProposal'[q] # NoFork
        PROVE  /\ forkByProposal'[q] \in LiveForks'
               /\ forks'[forkByProposal'[q]].proposal = q
    BY <1>2, <1>4, <1>7, <1>9
  <1>10. ASSUME NEW w \in Workspaces, NEW q \in Proposals,
                forkByWorkspaceProposal'[<<w, q>>] # NoFork
         PROVE  LET g == forkByWorkspaceProposal'[<<w, q>>]
                IN  g \in LiveForks' /\ forks'[g].ws = w /\ forks'[g].proposal = q
    BY <1>3, <1>4, <1>7, <1>10
  <1>11. ForkIndexesAgree'
    BY <1>8, <1>9, <1>10 DEF ForkIndexesAgree
  <1>12. \A f \in ForkIds : forks'[f] # NoFork => f \in used
    BY <1>1 DEF IndexInv, ForksUsed
  <1> QED
    BY <1>1, <1>11, <1>12, IndexUnsaved

(* Every step keeps the indexes.                                            *)
LEMMA IndexStep == IndexInv /\ [Next]_vars => IndexInv'
  <1> SUFFICES ASSUME IndexInv, [Next]_vars PROVE IndexInv'
    OBVIOUS
  <1>1. TypeInv' /\ TypeInv /\ TypeOK
    BY TypeStep DEF IndexInv, TypeInv
  <1>2. CASE LiveNext
    <2>1. forks' = forks /\ UNCHANGED <<indexVars, used>> /\ (Save \/ UNCHANGED disk)
      BY <1>2 DEF LiveNext, WriteFile, DeleteFile, BulkWriteBegin, BulkWriteItem,
                  BulkWriteEnd, timeVars
    <2>2. SameForks
      BY <2>1 DEF SameForks
    <2> QED
      BY <1>1, <2>1, <2>2, IndexKept
  <1>3. CASE ForkNext
    <2>1. ASSUME NEW w \in Workspaces, NEW q \in Proposals, NEW f \in ForkIds,
                 CreateFork(w, q, f)
          PROVE  IndexInv'
      BY <1>1, <2>1, IndexCreate
    <2>2. ASSUME NEW w \in Workspaces, NEW q \in Proposals, CreateForkTaken(w, q)
          PROVE  IndexInv'
      BY <1>1, <2>2, IndexDeleted DEF CreateForkTaken, ExpiredForks
    <2>3. ASSUME NEW f \in ForkIds, getLiveForkExpired(f) \/ DiscardFork(f)
          PROVE  IndexInv'
      BY <1>1, <2>3, IndexDeleted DEF getLiveForkExpired, DiscardFork, ExpiredForks
    <2>4. CASE CommitForkEnd
      <3>1. lock.fork \in LiveForks
        BY <1>1, <2>4 DEF CommitForkEnd, TypeInv, LockOwnsFork
      <3> QED
        BY <1>1, <2>4, <3>1, IndexDeleted DEF CommitForkEnd
    <2>5. ASSUME NEW f \in ForkIds, RebaseFork(f) PROVE IndexInv'
      <3>1. /\ f \in LiveForks /\ Save /\ UNCHANGED <<indexVars, used>>
            /\ forks' = [forks EXCEPT ![f].parent = wsRevision[forks[f].ws]]
        BY <2>5 DEF RebaseFork, UsableFork, timeVars
      <3>2. forks[f] \in Fork /\ forks[f] # NoFork
        BY <1>1, <3>1 DEF TypeOK, ForkMap, LiveForks
      <3>3. forks'[f] # NoFork
        <4>1. forks'[f] = [forks[f] EXCEPT !.parent = wsRevision[forks[f].ws]]
          BY <1>1, <3>1 DEF TypeOK, ForkMap
        <4>2. wsRevision[forks[f].ws] \in Nat
          BY <1>1, <3>2 DEF TypeOK, Fork
        <4>3. forks'[f] \in Fork
          BY <3>2, <4>1, <4>2 DEF Fork
        <4> QED
          BY <4>3, ForksAssumption
      <3>4. SameForks
        BY <1>1, <3>1, <3>2, <3>3 DEF SameForks, TypeOK, ForkMap, Fork
      <3> QED
        BY <1>1, <3>1, <3>4, IndexKept
    <2>6. ASSUME NEW f \in ForkIds, CommitForkBegin(f) \/ BulkWriteForkBegin(f)
          PROVE  IndexInv'
      <3>1. forks' = forks /\ UNCHANGED <<indexVars, used, disk>>
        BY <2>6 DEF CommitForkBegin, BulkWriteForkBegin, timeVars
      <3>2. SameForks
        BY <3>1 DEF SameForks
      <3> QED
        BY <1>1, <3>1, <3>2, IndexKept
    <2>7. ASSUME NEW f \in LiveForks, NEW p \in Paths, NEW type, NEW c,
                 \/ type = "write" /\ c \in Values
                 \/ type = "delete" /\ c = Absent,
                 NEW repin \in BOOLEAN, PutOverlay(f, p, type, c, repin),
                 UNCHANGED <<indexVars, used>>, Save \/ UNCHANGED disk
          PROVE  IndexInv'
      <3>1. f \in ForkIds /\ forks[f] \in Fork /\ forks[f] # NoFork
        BY <1>1 DEF TypeOK, ForkMap, LiveForks
      <3>2. forks'[f].ws = forks[f].ws /\ forks'[f].proposal = forks[f].proposal
        BY <1>1, <2>7, <3>1 DEF PutOverlay, TypeOK, ForkMap, Fork
      <3>3. LiveForks' = LiveForks /\ \A g \in ForkIds \ {f} : forks'[g] = forks[g]
        BY <1>1, <2>7, PutOverlayType
      <3>4. SameForks
        BY <3>1, <3>2, <3>3 DEF SameForks, LiveForks
      <3> QED
        BY <1>1, <2>7, <3>4, IndexKept
    <2>8. ASSUME NEW f \in ForkIds, NEW p \in Paths, NEW m \in Known,
                 \/ \E c \in Values : WriteForkFile(f, p, m, c)
                 \/ DeleteForkFile(f, p, m)
          PROVE  IndexInv'
      <3>1. /\ f \in LiveForks /\ Save /\ UNCHANGED <<indexVars, used>>
            /\ Resolves(f, p, m) \in BOOLEAN
            /\ \/ \E c \in Values : PutOverlay(f, p, "write", c, Resolves(f, p, m))
               \/ PutOverlay(f, p, "delete", Absent, Resolves(f, p, m))
        BY <2>8 DEF WriteForkFile, DeleteForkFile, UsableFork, Resolves, timeVars
      <3> QED
        BY <2>7, <3>1
    <2>9. ASSUME NEW p \in Paths, NEW m \in Known, NEW c \in Values,
                 BulkWriteForkItem(p, m, c)
          PROVE  IndexInv'
      <3>1. /\ lock.kind = "bulkFork" /\ PutOverlay(lock.fork, p, "write", c, FALSE)
            /\ UNCHANGED <<indexVars, used, disk>>
        BY <2>9 DEF BulkWriteForkItem, timeVars
      <3>2. lock.fork \in LiveForks
        BY <1>1, <3>1 DEF TypeInv, LockOwnsFork
      <3> QED
        BY <2>7, <3>1, <3>2
    <2>10. CASE BulkWriteForkEnd \/ \E p \in Paths : CommitForkApply(p)
      <3>1. forks' = forks /\ UNCHANGED <<indexVars, used>> /\ (Save \/ UNCHANGED disk)
        BY <2>10 DEF BulkWriteForkEnd, CommitForkApply, timeVars
      <3>2. SameForks
        BY <3>1 DEF SameForks
      <3> QED
        BY <1>1, <3>1, <3>2, IndexKept
    <2> QED
      BY <1>3, <2>1, <2>2, <2>3, <2>4, <2>5, <2>6, <2>8, <2>9, <2>10 DEF ForkNext
  <1>4. CASE TimeNext
    <2>1. ASSUME NEW f \in ForkIds, ExpiresAtPasses(f) \/ scheduleForkExpiry(f)
          PROVE  IndexInv'
      <3>1. forks' = forks /\ UNCHANGED <<indexVars, used, disk>>
        BY <2>1 DEF ExpiresAtPasses, scheduleForkExpiry
      <3>2. SameForks
        BY <3>1 DEF SameForks
      <3> QED
        BY <1>1, <3>1, <3>2, IndexKept
    <2>2. ASSUME NEW f \in ForkIds, expireForkByTimer(f) PROVE IndexInv'
      <3>1. CASE f \in LiveForks /\ deleteForks({f}) /\ Save
        BY <1>1, <2>2, <3>1, IndexDeleted DEF expireForkByTimer
      <3>2. CASE UNCHANGED <<forks, indexVars, disk>>
        <4>1. SameForks
          BY <3>2 DEF SameForks
        <4> QED
          BY <1>1, <2>2, <3>2, <4>1, IndexKept DEF expireForkByTimer
      <3> QED
        BY <2>2, <3>1, <3>2 DEF expireForkByTimer
    <2> QED
      BY <1>1, <1>4, <2>1, <2>2, IndexRestart DEF TimeNext
  <1>5. CASE UNCHANGED vars
    <2>1. SameForks
      BY <1>5 DEF SameForks, vars
    <2> QED
      BY <1>1, <1>5, <2>1, IndexKept DEF vars, indexVars
  <1> QED
    BY <1>2, <1>3, <1>4, <1>5 DEF Next

(* The two proposal indexes name exactly the live forks, through expiries   *)
(* found by any operation, timers, commits and rebuilds after a crash.      *)
THEOREM IndexesAgree == Spec => []ForkIndexesAgree
  <1>1. IndexInv => ForkIndexesAgree
    BY DEF IndexInv
  <1> QED
    BY <1>1, IndexInit, IndexStep, PTL DEF Spec

-----------------------------------------------------------------------------
(* The refinement of ForkTransactions *)

(* The snapshot holds every fork in memory; what only the snapshot holds    *)
(* has expired, so a restart does not bring it back, and a committed fork   *)
(* is in neither.                                                           *)
DiskKnowsForks ==
    /\ \A f \in LiveForks : disk.forks[f] # NoFork
    /\ \A f \in ForkIds : disk.forks[f] # NoFork /\ f \notin past => f \in LiveForks
    /\ \A f \in committed : /\ forks[f] = NoFork /\ disk.forks[f] = NoFork
                            /\ f \in used

(* The overlay of a fork is the snapshot's, but for the one that a bulk     *)
(* write under the mutex is editing: what it has touched it has seen in the *)
(* snapshot's tree, or its author had seen before.                          *)
EditFollows(f, p) ==
    LET new == forks[f].overlay[p]
        old == disk.forks[f].overlay[p]
    IN  \/ new = old
        \/ /\ new # NoEntry
           /\ \/ new.seen = disk.files[forks[f].ws][p]
              \/ old # NoEntry /\ new.seen = old.seen

OverlaysFollow ==
    \A f \in LiveForks :
      /\ disk.forks[f].ws = forks[f].ws
      /\ \A p \in Paths : EditFollows(f, p)
      /\ ~(lock.kind = "bulkFork" /\ lock.fork = f) =>
           disk.forks[f].overlay = forks[f].overlay

(* What a commit has done to a path so far. *)
CommitProgress(p) ==
    LET e == forks[lock.fork].overlay[p]
        w == forks[lock.fork].ws
    IN  /\ e # NoEntry => disk.files[w][p] = e.seen
        /\ e = NoEntry \/ p \in lock.todo => files[w][p] = disk.files[w][p]
        /\ e # NoEntry /\ p \notin lock.todo =>
             IF e.content = Absent THEN files[w][p] = Absent
             ELSE files[w][p] # Absent /\ files[w][p].content = e.content

(* The live tree is the snapshot's, but for the workspace that a loop under *)
(* the mutex is changing.                                                   *)
TreeFollows ==
    /\ lock.kind \in {"free", "bulkFork"} => files = disk.files
    /\ lock.kind = "bulk" =>
         \A v \in Workspaces \ {lock.ws} : files[v] = disk.files[v]
    /\ lock.kind = "commit" =>
         /\ \A v \in Workspaces \ {forks[lock.fork].ws} : files[v] = disk.files[v]
         /\ \A p \in Paths : CommitProgress(p)

TxnInv == DiskKnowsForks /\ OverlaysFollow /\ TreeFollows

RefInv == SeenInv /\ IndexInv /\ TxnInv

(* A save outside a loop makes the snapshot equal to the memory. *)
LEMMA TxnSaved ==
    ASSUME Save, lock' = Free,
           \A f \in committed' : forks'[f] = NoFork /\ f \in used',
           committed' \subseteq ForkIds
    PROVE  TxnInv'
  <1>1. disk'.forks = forks' /\ disk'.files = files'
    BY DEF Save, Snapshot
  <1>2. DiskKnowsForks'
    BY <1>1 DEF DiskKnowsForks, LiveForks
  <1>3. OverlaysFollow'
    BY <1>1 DEF OverlaysFollow, EditFollows
  <1>4. TreeFollows'
    BY <1>1 DEF TreeFollows, Free
  <1> QED
    BY <1>2, <1>3, <1>4 DEF TxnInv

(* Without forks of an older binary the first boot is consistent.           *)
LEMMA TxnInit ==
    ASSUME LegacyForks = {}
    PROVE  Init => RefInv
  <1> SUFFICES ASSUME Init PROVE RefInv
    OBVIOUS
  <1>1. SeenInv /\ IndexInv
    BY SeenInit, IndexInit
  <1>2. disk.forks = forks /\ disk.files = files /\ committed = {} /\ lock = Free
    BY DEF Init, Snapshot
  <1>3. DiskKnowsForks /\ OverlaysFollow /\ TreeFollows
    BY <1>2 DEF DiskKnowsForks, OverlaysFollow, TreeFollows, EditFollows, LiveForks, Free
  <1> QED
    BY <1>1, <1>3 DEF RefInv, TxnInv


(* What the refinement needs of a reachable state. *)
LEMMA RefFacts ==
    ASSUME RefInv
    PROVE  /\ TypeInv /\ TypeOK /\ CommitAhead
           /\ DiskKnowsForks /\ OverlaysFollow /\ TreeFollows
           /\ \A f \in LiveForks :
                /\ f \in ForkIds /\ forks[f] \in Fork /\ forks[f] # NoFork
                /\ disk.forks[f] \in Fork /\ disk.forks[f] # NoFork
                /\ forks[f].ws \in Workspaces /\ disk.forks[f].ws = forks[f].ws
                /\ f \notin committed /\ f \in used
  <1>1. /\ TypeInv /\ TypeOK /\ CommitAhead
        /\ DiskKnowsForks /\ OverlaysFollow /\ TreeFollows
    BY DEF RefInv, SeenInv, TypeInv, TxnInv
  <1>2. ASSUME NEW f \in LiveForks
        PROVE  /\ f \in ForkIds /\ forks[f] \in Fork /\ forks[f] # NoFork
               /\ disk.forks[f] \in Fork /\ disk.forks[f] # NoFork
    BY <1>1 DEF LiveForks, TypeOK, ForkMap, Snapshots, DiskKnowsForks
  <1>3. ASSUME NEW f \in LiveForks
        PROVE  /\ forks[f].ws \in Workspaces /\ disk.forks[f].ws = forks[f].ws
               /\ f \notin committed /\ f \in used
    BY <1>1, <1>2 DEF Fork, OverlaysFollow, DiskKnowsForks, RefInv, IndexInv, ForksUsed
  <1> QED
    BY <1>1, <1>2, <1>3

(* A live mutation changes one path of one workspace. *)
LEMMA LiveChange ==
    ASSUME TypeOK, NEW w \in Workspaces, NEW p \in Paths,
           RemoveFile(w, p) \/ \E c \in Values : PutFile(w, p, c)
    PROVE  /\ \A v \in Workspaces \ {w} : files'[v] = files[v]
           /\ \A q \in Paths \ {p} : files'[w][q] = files[w][q]
  <1>1. \E x : files' = [files EXCEPT ![w][p] = x]
    BY DEF RemoveFile, PutFile
  <1> QED
    BY <1>1 DEF TypeOK, Tree

(* A change of the live tree under the mutex stays ahead of the snapshot.   *)
LEMMA TxnLive == RefInv /\ LiveNext => TxnInv'
  <1> SUFFICES ASSUME RefInv, LiveNext PROVE TxnInv'
    OBVIOUS
  <1>1. TypeOK /\ DiskKnowsForks /\ OverlaysFollow /\ TreeFollows
    BY RefFacts
  <1>2. ASSUME NEW w \in Workspaces, NEW p \in Paths, NEW m \in Known,
               \/ \E c \in Values : WriteFile(w, p, m, c)
               \/ DeleteFile(w, p, m)
        PROVE  TxnInv'
    <2>1. Save /\ lock' = Free /\ UNCHANGED <<forks, used, committed>>
      BY <1>2 DEF WriteFile, DeleteFile, timeVars
    <2> QED
      BY <1>1, <2>1, TxnSaved DEF DiskKnowsForks, TypeOK
  <1>3. CASE BulkWriteEnd
    <2>1. Save /\ lock' = Free /\ UNCHANGED <<forks, used, committed>>
      BY <1>3 DEF BulkWriteEnd, timeVars
    <2> QED
      BY <1>1, <2>1, TxnSaved DEF DiskKnowsForks, TypeOK
  <1>4. ASSUME NEW w \in Workspaces, BulkWriteBegin(w) PROVE TxnInv'
    <2>1. /\ lock = Free /\ lock' = [kind |-> "bulk", ws |-> w]
          /\ UNCHANGED <<files, forks, past, used, committed, disk>>
      BY <1>4 DEF BulkWriteBegin, liveVars, timeVars
    <2>2. DiskKnowsForks'
      BY <1>1, <2>1 DEF DiskKnowsForks, LiveForks
    <2>3. OverlaysFollow'
      BY <1>1, <2>1 DEF OverlaysFollow, EditFollows, LiveForks, Free
    <2>4. TreeFollows'
      BY <1>1, <2>1 DEF TreeFollows, Free
    <2> QED
      BY <2>2, <2>3, <2>4 DEF TxnInv
  <1>5. ASSUME NEW p \in Paths, NEW m \in Known, NEW c \in Values,
               BulkWriteItem(p, m, c)
        PROVE  TxnInv'
    <2>1. /\ lock.kind = "bulk" /\ PutFile(lock.ws, p, c)
          /\ UNCHANGED <<forks, lock, past, used, committed, disk>>
      BY <1>5 DEF BulkWriteItem, timeVars
    <2>2. lock.ws \in Workspaces
      BY <1>1, <2>1, LockKinds DEF TypeOK
    <2>3. \A v \in Workspaces \ {lock.ws} : files'[v] = files[v]
      BY <1>1, <2>1, <2>2, LiveChange
    <2>4. DiskKnowsForks'
      BY <1>1, <2>1 DEF DiskKnowsForks, LiveForks
    <2>5. OverlaysFollow'
      BY <1>1, <2>1 DEF OverlaysFollow, EditFollows, LiveForks
    <2>6. TreeFollows'
      BY <1>1, <2>1, <2>3 DEF TreeFollows
    <2> QED
      BY <2>4, <2>5, <2>6 DEF TxnInv
  <1> QED
    BY <1>2, <1>3, <1>4, <1>5 DEF LiveNext

(* One edit of a bulk write: the path now holds what its author had seen    *)
(* before, or the file in the tree, which is the snapshot's.                *)
LEMMA EditFollowsPut ==
    ASSUME RefInv, lock.kind = "bulkFork", NEW p \in Paths, NEW c \in Values,
           PutOverlay(lock.fork, p, "write", c, FALSE),
           UNCHANGED <<files, lock, disk>>
    PROVE  /\ LiveForks' = LiveForks
           /\ \A g \in ForkIds \ {lock.fork} : forks'[g] = forks[g]
           /\ forks'[lock.fork].ws = forks[lock.fork].ws
           /\ \A q \in Paths : EditFollows(lock.fork, q)'
  <1> DEFINE f   == lock.fork
             new == forks'[f].overlay[p]
             was == forks[f].overlay[p]
  <1>1. f \in LiveForks
    BY RefFacts DEF TypeInv, LockOwnsFork
  <1>2. TypeOK /\ f \in ForkIds /\ forks[f] \in Fork /\ forks[f].ws \in Workspaces
    BY <1>1, RefFacts
  <1>3. LiveForks' = LiveForks /\ \A g \in ForkIds \ {f} : forks'[g] = forks[g]
    BY <1>1, <1>2, PutOverlayType
  <1>5. /\ forks'[f].ws = forks[f].ws
        /\ \A q \in Paths \ {p} : forks'[f].overlay[q] = forks[f].overlay[q]
        /\ new.seen = IF was # NoEntry THEN was.seen ELSE files[forks[f].ws][p]
    BY <1>2 DEF PutOverlay, TypeOK, ForkMap, Fork, Touched
  <1>6. EditFollows(f, p) /\ \A q \in Paths : EditFollows(f, q)
    BY <1>1, RefFacts DEF OverlaysFollow
  <1>7. new # NoEntry
    BY <1>1, <1>2, PutOverlayType
  <1>8. files = disk.files
    BY RefFacts DEF TreeFollows
  <1>9. \A q \in Paths : EditFollows(f, q)'
    <2>1. EditFollows(f, p)'
      BY <1>5, <1>6, <1>7, <1>8 DEF EditFollows
    <2>2. ASSUME NEW q \in Paths \ {p} PROVE EditFollows(f, q)'
      BY <1>5, <1>6 DEF EditFollows
    <2> QED
      BY <2>1, <2>2
  <1> QED
    BY <1>3, <1>5, <1>9

(* One iteration of the commit loop does one path.                          *)
LEMMA TxnApply ==
    ASSUME RefInv, NEW p \in Paths, CommitForkApply(p)
    PROVE  TxnInv'
  <1> DEFINE f == lock.fork
             w == forks[f].ws
             e == forks[f].overlay[p]
  <1>1. /\ lock.kind = "commit" /\ p \in lock.todo
        /\ \/ e.type = "write" /\ PutFile(w, p, e.content)
           \/ e.type = "delete" /\ RemoveFile(w, p)
           \/ e.type = "delete" /\ files[w][p] = Absent /\ UNCHANGED files
        /\ lock' = [lock EXCEPT !.todo = @ \ {p}]
        /\ UNCHANGED <<forks, past, used, committed, disk>>
    BY DEF CommitForkApply, timeVars, liveVars
  <1>2. TypeOK /\ TypeInv /\ DiskKnowsForks /\ OverlaysFollow /\ TreeFollows
    BY RefFacts
  <1>3. f \in LiveForks /\ e # NoEntry
    BY <1>1, <1>2 DEF TypeInv, LockOwnsFork, Touched
  <1>4. f \in ForkIds /\ forks[f] \in Fork /\ w \in Workspaces
    BY <1>3, RefFacts
  <1>5. e \in Entry
    BY <1>3, <1>4 DEF Fork
  <1>6. lock \in [kind : {"commit"}, fork : ForkIds, todo : SUBSET Paths]
    BY <1>1, <1>2, LockKinds DEF TypeOK
  <1>7. lock'.kind = "commit" /\ lock'.fork = f /\ lock'.todo = lock.todo \ {p}
    BY <1>1, <1>6
  <1>8. /\ \A v \in Workspaces \ {w} : files'[v] = files[v]
        /\ \A q \in Paths \ {p} : files'[w][q] = files[w][q]
        /\ IF e.content = Absent THEN files'[w][p] = Absent
           ELSE files'[w][p] # Absent /\ files'[w][p].content = e.content
    <2>1. CASE e.type = "write" /\ PutFile(w, p, e.content)
      <3>1. e.content \in Values /\ e.content # Absent
        BY <1>5, <2>1, ForksAssumption DEF Entry
      <3>2. /\ \A v \in Workspaces \ {w} : files'[v] = files[v]
            /\ \A q \in Paths \ {p} : files'[w][q] = files[w][q]
        BY <1>2, <1>4, <2>1, <3>1, LiveChange
      <3>3. files'[w][p] = [rev |-> revCounter + 1, content |-> e.content]
        BY <1>2, <1>4, <2>1 DEF PutFile, TypeOK, Tree
      <3>4. files'[w][p] \in File
        BY <1>2, <3>1, <3>3 DEF File, TypeOK
      <3> QED
        BY <3>1, <3>2, <3>3, <3>4, ForksAssumption
    <2>2. CASE e.type = "delete" /\ RemoveFile(w, p)
      <3>1. e.content = Absent
        BY <1>5, <2>2 DEF Entry
      <3>2. /\ \A v \in Workspaces \ {w} : files'[v] = files[v]
            /\ \A q \in Paths \ {p} : files'[w][q] = files[w][q]
        BY <1>2, <1>4, <2>2, LiveChange
      <3>3. files'[w][p] = Absent
        BY <1>2, <1>4, <2>2 DEF RemoveFile, TypeOK, Tree
      <3> QED
        BY <3>1, <3>2, <3>3
    <2>3. CASE e.type = "delete" /\ files[w][p] = Absent /\ UNCHANGED files
      BY <1>5, <2>3 DEF Entry
    <2> QED
      BY <1>1, <2>1, <2>2, <2>3
  <1>9. DiskKnowsForks'
    BY <1>1, <1>2 DEF DiskKnowsForks, LiveForks
  <1>10. OverlaysFollow'
    BY <1>1, <1>2, <1>7 DEF OverlaysFollow, EditFollows, LiveForks
  <1>11. ASSUME NEW q \in Paths PROVE CommitProgress(q)'
    <2>1. CommitProgress(q)
      BY <1>1, <1>2 DEF TreeFollows
    <2>2. CASE q = p
      BY SMTT(30), <1>1, <1>3, <1>7, <1>8, <2>1, <2>2 DEF CommitProgress
    <2>3. CASE q # p
      <3>1. files'[w][q] = files[w][q] /\ (q \in lock'.todo <=> q \in lock.todo)
        BY <1>7, <1>8, <2>3
      <3> QED
        BY <1>1, <1>7, <2>1, <3>1 DEF CommitProgress
    <2> QED
      BY <2>2, <2>3
  <1>12. \A v \in Workspaces \ {w} : files'[v] = disk'.files[v]
    BY <1>1, <1>2, <1>8 DEF TreeFollows
  <1>13. TreeFollows'
    BY <1>1, <1>7, <1>11, <1>12 DEF TreeFollows
  <1> QED
    BY <1>9, <1>10, <1>13 DEF TxnInv

(* The operations on forks.                                                 *)
LEMMA TxnFork == RefInv /\ ForkNext => TxnInv'
  <1> SUFFICES ASSUME RefInv, ForkNext PROVE TxnInv'
    OBVIOUS
  <1>1. TypeInv /\ TypeOK /\ DiskKnowsForks /\ OverlaysFollow /\ TreeFollows
    BY RefFacts
  <1>2. committed \subseteq ForkIds
        /\ \A f \in committed : forks[f] = NoFork /\ f \in used
    BY <1>1 DEF TypeOK, DiskKnowsForks
  <1>3. ASSUME NEW w \in Workspaces, NEW q \in Proposals, NEW f \in ForkIds,
               CreateFork(w, q, f)
        PROVE  TxnInv'
    <2>1. /\ Save /\ lock' = Free /\ committed' = committed
          /\ used \subseteq used' /\ f \notin used
          /\ \A g \in ForkIds \ {f} : forks'[g] = forks[g] \/ forks'[g] = NoFork
      BY <1>3 DEF CreateFork
    <2> QED
      BY <1>2, <2>1, TxnSaved
  <1>4. ASSUME NEW w \in Workspaces, NEW q \in Proposals, CreateForkTaken(w, q)
        PROVE  TxnInv'
    <2>1. /\ lock = Free /\ lock' = Free
          /\ deleteForks(ExpiredForks)
          /\ UNCHANGED <<files, past, used, committed, disk>>
      BY <1>4 DEF CreateForkTaken, liveVars
    <2>2. /\ \A g \in ForkIds : forks'[g] = IF g \in ExpiredForks THEN NoFork ELSE forks[g]
          /\ LiveForks' = LiveForks \ ExpiredForks
      BY <1>1, <2>1, DeleteForksType DEF ExpiredForks
    <2>3. DiskKnowsForks'
      <3>1. \A f \in LiveForks' : disk'.forks[f] # NoFork
        BY <1>1, <2>1, <2>2 DEF DiskKnowsForks
      <3>2. \A f \in ForkIds : disk'.forks[f] # NoFork /\ f \notin past' => f \in LiveForks'
        BY <1>1, <2>1, <2>2 DEF DiskKnowsForks, ExpiredForks
      <3>3. \A f \in committed : forks'[f] = NoFork
        BY <1>2, <2>2
      <3> QED
        BY <1>1, <2>1, <3>1, <3>2, <3>3 DEF DiskKnowsForks
    <2>4. OverlaysFollow'
      <3>1. \A g \in LiveForks' : g \in LiveForks /\ forks'[g] = forks[g]
        BY <2>2 DEF LiveForks
      <3> QED
        BY <1>1, <2>1, <3>1 DEF OverlaysFollow, EditFollows, Free
    <2>5. TreeFollows'
      BY <1>1, <2>1 DEF TreeFollows, Free
    <2> QED
      BY <2>3, <2>4, <2>5 DEF TxnInv
  <1>5. ASSUME NEW f \in ForkIds, getLiveForkExpired(f) \/ DiscardFork(f)
        PROVE  TxnInv'
    <2>1. /\ Save /\ lock' = Free /\ UNCHANGED <<committed, used>>
          /\ \A g \in ForkIds : forks'[g] = forks[g] \/ forks'[g] = NoFork
      BY <1>5 DEF getLiveForkExpired, DiscardFork, deleteForks
    <2> QED
      BY <1>2, <2>1, TxnSaved
  <1>6. ASSUME NEW f \in ForkIds, RebaseFork(f) PROVE TxnInv'
    <2>1. /\ Save /\ lock' = Free /\ UNCHANGED <<committed, used>> /\ f \in LiveForks
          /\ \A g \in ForkIds \ {f} : forks'[g] = forks[g]
      BY <1>1, <1>6 DEF RebaseFork, UsableFork, timeVars, TypeOK, ForkMap
    <2>2. f \notin committed
      BY <2>1, RefFacts
    <2> QED
      BY <1>2, <2>1, <2>2, TxnSaved
  <1>7. ASSUME NEW f \in ForkIds, CommitForkBegin(f) PROVE TxnInv'
    <2>1. /\ f \in LiveForks /\ lock = Free
          /\ lock' = [kind |-> "commit", fork |-> f,
                      todo |-> {p \in Paths : Touched(f, p)}]
          /\ UNCHANGED <<files, forks, past, used, committed, disk>>
      BY <1>7 DEF CommitForkBegin, UsableFork, liveVars, timeVars
    <2>2. CommitAhead'
      BY SeenFork DEF RefInv, SeenInv
    <2>3. DiskKnowsForks'
      BY <1>1, <2>1 DEF DiskKnowsForks, LiveForks
    <2>4. OverlaysFollow'
      BY <1>1, <2>1 DEF OverlaysFollow, EditFollows, LiveForks, Free
    <2>5. files = disk.files
      BY <1>1, <2>1 DEF TreeFollows, Free
    <2>6. \A p \in Paths : CommitProgress(p)'
      BY <2>1, <2>2, <2>5 DEF CommitProgress, CommitAhead, Touched
    <2>7. TreeFollows'
      BY <2>1, <2>5, <2>6 DEF TreeFollows
    <2> QED
      BY <2>3, <2>4, <2>7 DEF TxnInv
  <1>8. ASSUME NEW f \in ForkIds, BulkWriteForkBegin(f) PROVE TxnInv'
    <2>1. /\ lock = Free /\ lock' = [kind |-> "bulkFork", fork |-> f]
          /\ UNCHANGED <<files, forks, past, used, committed, disk>>
      BY <1>8 DEF BulkWriteForkBegin, UsableFork, liveVars, timeVars
    <2>2. DiskKnowsForks'
      BY <1>1, <2>1 DEF DiskKnowsForks, LiveForks
    <2>3. OverlaysFollow'
      BY <1>1, <2>1 DEF OverlaysFollow, EditFollows, LiveForks, Free
    <2>4. TreeFollows'
      BY <1>1, <2>1 DEF TreeFollows, Free
    <2> QED
      BY <2>2, <2>3, <2>4 DEF TxnInv
  <1>9. ASSUME NEW f \in ForkIds, NEW p \in Paths, NEW m \in Known,
               \/ \E c \in Values : WriteForkFile(f, p, m, c)
               \/ DeleteForkFile(f, p, m)
        PROVE  TxnInv'
    <2>1. /\ f \in LiveForks /\ Save /\ lock' = Free /\ UNCHANGED <<committed, used>>
          /\ \A g \in ForkIds \ {f} : forks'[g] = forks[g]
      BY <1>1, <1>9 DEF WriteForkFile, DeleteForkFile, PutOverlay, UsableFork, timeVars,
                        TypeOK, ForkMap
    <2>2. f \notin committed
      BY <2>1, RefFacts
    <2> QED
      BY <1>2, <2>1, <2>2, TxnSaved
  <1>10. ASSUME NEW p \in Paths, NEW m \in Known, NEW c \in Values,
                BulkWriteForkItem(p, m, c)
         PROVE  TxnInv'
    <2> DEFINE f == lock.fork
    <2>1. /\ lock.kind = "bulkFork" /\ PutOverlay(f, p, "write", c, FALSE)
          /\ UNCHANGED <<files, lock, past, used, committed, disk>>
      BY <1>10 DEF BulkWriteForkItem, liveVars, timeVars
    <2>2. /\ LiveForks' = LiveForks
          /\ \A g \in ForkIds \ {f} : forks'[g] = forks[g]
          /\ forks'[f].ws = forks[f].ws
          /\ \A q \in Paths : EditFollows(f, q)'
      BY <2>1, EditFollowsPut
    <2>3. DiskKnowsForks'
      <3>1. f \in LiveForks
        BY <1>1, <2>1 DEF TypeInv, LockOwnsFork
      <3>2. \A g \in committed : forks'[g] = NoFork
        BY <1>2, <2>2, <3>1, RefFacts
      <3> QED
        BY <1>1, <2>1, <2>2, <3>2 DEF DiskKnowsForks
    <2>4. OverlaysFollow'
      <3>1. ASSUME NEW g \in LiveForks \ {f}
            PROVE  /\ disk.forks[g].ws = forks'[g].ws
                   /\ \A q \in Paths : EditFollows(g, q)'
                   /\ disk.forks[g].overlay = forks'[g].overlay
        <4>1. forks'[g] = forks[g]
          BY <2>2 DEF LiveForks
        <4> QED
          BY <1>1, <2>1, <4>1 DEF OverlaysFollow, EditFollows
      <3>2. f \in LiveForks
        BY <1>1, <2>1 DEF TypeInv, LockOwnsFork
      <3>3. disk.forks[f].ws = forks'[f].ws
        BY <1>1, <2>2, <3>2 DEF OverlaysFollow
      <3>4. \A q \in Paths : EditFollows(f, q)'
        BY <2>2
      <3> QED
        BY <2>1, <2>2, <3>1, <3>3, <3>4 DEF OverlaysFollow
    <2>5. TreeFollows'
      BY <1>1, <2>1 DEF TreeFollows
    <2> QED
      BY <2>3, <2>4, <2>5 DEF TxnInv
  <1>11. CASE BulkWriteForkEnd
    <2>1. /\ Save /\ lock' = Free /\ UNCHANGED <<forks, committed, used>>
      BY <1>11 DEF BulkWriteForkEnd, timeVars
    <2> QED
      BY <1>2, <2>1, TxnSaved
  <1>12. CASE CommitForkEnd
    <2>1. /\ Save /\ lock' = Free /\ committed' = committed \cup {lock.fork}
          /\ used' = used /\ lock.fork \in LiveForks /\ deleteForks({lock.fork})
      BY <1>1, <1>12 DEF CommitForkEnd, TypeInv, LockOwnsFork
    <2>2. \A g \in ForkIds : forks'[g] = IF g = lock.fork THEN NoFork ELSE forks[g]
      BY <2>1 DEF deleteForks
    <2>3. lock.fork \in ForkIds /\ lock.fork \in used
      BY <2>1, RefFacts
    <2> QED
      BY <1>2, <2>1, <2>2, <2>3, TxnSaved
  <1> QED
    BY <1>3, <1>4, <1>5, <1>6, <1>7, <1>8, <1>9, <1>10, <1>11, <1>12, TxnApply
    DEF ForkNext

(* Time and restarts.                                                       *)
LEMMA TxnTime == RefInv /\ TimeNext => TxnInv'
  <1> SUFFICES ASSUME RefInv, TimeNext PROVE TxnInv'
    OBVIOUS
  <1>1. TypeInv /\ TypeOK /\ DiskKnowsForks /\ OverlaysFollow /\ TreeFollows
    BY RefFacts
  <1>2. ASSUME NEW f \in ForkIds, ExpiresAtPasses(f) \/ scheduleForkExpiry(f)
        PROVE  TxnInv'
    <2>1. /\ past \subseteq past'
          /\ UNCHANGED <<files, forks, used, committed, lock, disk>>
      BY <1>2 DEF ExpiresAtPasses, scheduleForkExpiry, liveVars
    <2>2. DiskKnowsForks'
      BY <1>1, <2>1 DEF DiskKnowsForks, LiveForks
    <2>3. OverlaysFollow'
      BY <1>1, <2>1 DEF OverlaysFollow, EditFollows, LiveForks
    <2>4. TreeFollows'
      BY <1>1, <2>1 DEF TreeFollows, CommitProgress
    <2> QED
      BY <2>2, <2>3, <2>4 DEF TxnInv
  <1>3. ASSUME NEW f \in ForkIds, expireForkByTimer(f) PROVE TxnInv'
    <2>1. CASE Save
      <3>1. /\ lock' = Free /\ UNCHANGED <<used, committed>>
            /\ \A g \in ForkIds : forks'[g] = forks[g] \/ forks'[g] = NoFork
        BY <1>3 DEF expireForkByTimer, deleteForks
      <3> QED
        BY <1>1, <2>1, <3>1, TxnSaved DEF DiskKnowsForks, TypeOK
    <2>2. CASE ~Save
      <3>1. UNCHANGED <<files, forks, used, past, committed, lock, disk>>
        BY <1>3, <2>2 DEF expireForkByTimer, liveVars
      <3>2. DiskKnowsForks'
        BY <1>1, <3>1 DEF DiskKnowsForks, LiveForks
      <3>3. OverlaysFollow'
        BY <1>1, <3>1 DEF OverlaysFollow, EditFollows, LiveForks
      <3>4. TreeFollows'
        BY <1>1, <3>1 DEF TreeFollows, CommitProgress
      <3> QED
        BY <3>2, <3>3, <3>4 DEF TxnInv
    <2> QED
      BY <2>1, <2>2
  <1>4. CASE Restart
    <2>1. /\ files' = disk.files /\ lock' = Free
          /\ \A f \in ForkIds : forks'[f] =
               IF disk.forks[f] # NoFork /\ f \notin past THEN disk.forks[f] ELSE NoFork
          /\ UNCHANGED <<past, used, committed, disk>>
      BY <1>4 DEF Restart
    <2>2. DiskKnowsForks'
      BY <1>1, <2>1 DEF DiskKnowsForks, LiveForks, TypeOK
    <2>3. OverlaysFollow'
      BY <2>1 DEF OverlaysFollow, EditFollows, LiveForks
    <2>4. TreeFollows'
      BY <2>1 DEF TreeFollows, Free
    <2> QED
      BY <2>2, <2>3, <2>4 DEF TxnInv
  <1> QED
    BY <1>2, <1>3, <1>4 DEF TimeNext

(* Every step keeps what the refinement needs.                              *)
LEMMA RefStep == RefInv /\ [Next]_vars => RefInv'
  <1> SUFFICES ASSUME RefInv, [Next]_vars PROVE RefInv'
    OBVIOUS
  <1>1. SeenInv' /\ IndexInv'
    BY SeenStep, IndexStep DEF RefInv
  <1>2. CASE UNCHANGED vars
    BY SMTT(30), <1>1, <1>2 DEF RefInv, TxnInv, DiskKnowsForks, OverlaysFollow, EditFollows,
                      TreeFollows, CommitProgress, LiveForks, vars
  <1> QED
    BY <1>1, <1>2, TxnLive, TxnFork, TxnTime DEF Next, RefInv

(* What a fork is to its author, by what the store knows of it. *)
LEMMA TxnCases ==
    ASSUME RefInv, NEW f \in ForkIds
    PROVE  /\ f \in committed => TxnOf(f) = Committed
           /\ f \notin committed /\ f \notin LiveForks => TxnOf(f) = NoFork
           /\ f \in LiveForks =>
                /\ TxnOf(f) = [ws |-> forks[f].ws,
                               edits |-> [p \in Paths |-> EditOf(disk.forks[f].overlay[p])]]
                /\ TxnOf(f) \in Transaction
                /\ TxnOf(f) \notin {NoFork, Committed}
                /\ TxnOf(f).ws = forks[f].ws
                /\ \A p \in Paths : TxnOf(f).edits[p] = EditOf(disk.forks[f].overlay[p])
  <1>1. f \in committed => TxnOf(f) = Committed
    BY DEF TxnOf
  <1>2. f \notin committed /\ f \notin LiveForks => TxnOf(f) = NoFork
    BY DEF TxnOf, LiveForks
  <1>3. ASSUME f \in LiveForks
        PROVE  /\ TxnOf(f) = [ws |-> forks[f].ws,
                              edits |-> [p \in Paths |-> EditOf(disk.forks[f].overlay[p])]]
               /\ TxnOf(f) \in Transaction
               /\ TxnOf(f) \notin {NoFork, Committed}
               /\ TxnOf(f).ws = forks[f].ws
               /\ \A p \in Paths : TxnOf(f).edits[p] = EditOf(disk.forks[f].overlay[p])
    <2>1. /\ forks[f] # NoFork /\ f \notin committed /\ disk.forks[f].ws = forks[f].ws
          /\ forks[f].ws \in Workspaces /\ disk.forks[f] \in Fork
      BY <1>3, RefFacts
    <2>2. TxnOf(f) = [ws |-> forks[f].ws,
                      edits |-> [p \in Paths |-> EditOf(disk.forks[f].overlay[p])]]
      BY <2>1 DEF TxnOf
    <2>3. ASSUME NEW p \in Paths
          PROVE  EditOf(disk.forks[f].overlay[p]) \in Edit \cup {NoEntry}
      BY <2>1 DEF Fork, Entry, EditOf, Edit
    <2>4. TxnOf(f) \in Transaction
      BY <2>1, <2>2, <2>3 DEF Transaction
    <2> QED
      BY <2>2, <2>4, ForksAssumption
  <1> QED
    BY <1>1, <1>2, <1>3

(* A step that does not save, drops no fork and commits none is invisible. *)
LEMMA TxnUnsaved ==
    ASSUME UNCHANGED <<disk, committed>>, LiveForks' = LiveForks
    PROVE  UNCHANGED Txns!vars
  <1>1. \A f \in ForkIds : TxnOf(f)' = TxnOf(f)
    BY DEF TxnOf, LiveForks
  <1> QED
    BY <1>1 DEF Txns!vars

(* A save leaves alone every fork the operation did not change. *)
LEMMA TxnKept ==
    ASSUME RefInv, Save, NEW f \in ForkIds, forks'[f] = forks[f],
           f \in committed' <=> f \in committed,
           ~(lock.kind = "bulkFork" /\ lock.fork = f)
    PROVE  TxnOf(f)' = TxnOf(f)
  <1>1. disk'.forks = forks'
    BY DEF Save, Snapshot
  <1>2. CASE f \in LiveForks
    <2>1. disk'.forks[f].ws = disk.forks[f].ws /\ disk'.forks[f].overlay = disk.forks[f].overlay
      BY <1>1, <1>2, RefFacts DEF OverlaysFollow
    <2> QED
      BY <2>1 DEF TxnOf
  <1>3. CASE f \notin LiveForks
    BY <1>3 DEF TxnOf, LiveForks
  <1> QED
    BY <1>2, <1>3

(* A fork that is gone without a commit was aborted. *)
LEMMA TxnGone ==
    ASSUME RefInv, NEW f \in ForkIds, forks'[f] = NoFork, committed' = committed
    PROVE  TxnOf(f)' = IF TxnOf(f) # Committed THEN NoFork ELSE TxnOf(f)
  <1>1. TxnOf(f)' = IF f \in committed THEN Committed ELSE NoFork
    BY DEF TxnOf
  <1> QED
    BY <1>1, TxnCases, ForksAssumption
    
(* The forks that are dropped together, in memory only or with a save, are  *)
(* one abort.                                                               *)
LEMMA MapsAbort ==
    ASSUME RefInv, committed' = committed,
           \/ /\ disk' = disk
              /\ \A f \in ForkIds : forks'[f] # NoFork => f \in LiveForks
           \/ /\ lock = Free /\ Save /\ files' = files
              /\ \A f \in ForkIds : forks'[f] = forks[f] \/ forks'[f] = NoFork
    PROVE  Txns!Abort
  <1> DEFINE S == {f \in ForkIds : forks'[f] = NoFork}
  <1>1. disk'.files = disk.files
    BY RefFacts DEF Save, Snapshot, TreeFollows, Free
  <1>2. ASSUME NEW f \in S
        PROVE  TxnOf(f)' = IF TxnOf(f) # Committed THEN NoFork ELSE TxnOf(f)
    BY TxnGone
  <1>3. ASSUME NEW f \in ForkIds \ S PROVE TxnOf(f)' = TxnOf(f)
    <2>1. CASE /\ disk' = disk
               /\ \A g \in ForkIds : forks'[g] # NoFork => g \in LiveForks
      BY <1>3, <2>1 DEF TxnOf, LiveForks
    <2>2. CASE /\ lock = Free /\ Save
               /\ \A g \in ForkIds : forks'[g] = forks[g] \/ forks'[g] = NoFork
      BY <1>3, <2>2, TxnKept DEF Free
    <2> QED
      BY <2>1, <2>2
  <1>4. [f \in ForkIds |-> TxnOf(f)]' =
          [f \in ForkIds |-> IF f \in S /\ TxnOf(f) # Committed THEN NoFork ELSE TxnOf(f)]
    BY <1>2, <1>3
  <1>5. S \in SUBSET ForkIds
    OBVIOUS
  <1> QED
    BY <1>1, <1>4, <1>5 DEF Txns!Abort

(* What changes the live tree under one save is one live write. *)
LEMMA MapsLive == RefInv /\ LiveNext => Txns!LiveWrite \/ UNCHANGED Txns!vars
  <1> SUFFICES ASSUME RefInv, LiveNext
               PROVE  Txns!LiveWrite \/ UNCHANGED Txns!vars
    OBVIOUS
  <1>1. TypeOK /\ TreeFollows
    BY RefFacts
  <1>2. ASSUME NEW w \in Workspaces, Save, UNCHANGED <<forks, committed>>,
               lock.kind # "bulkFork",
               \A v \in Workspaces \ {w} : files'[v] = disk.files[v]
        PROVE  Txns!LiveWrite
    <2>1. \A f \in ForkIds : TxnOf(f)' = TxnOf(f)
      BY <1>2, TxnKept
    <2>2. \A v \in Workspaces \ {w} : disk'.files[v] = disk.files[v]
      BY <1>2 DEF Save, Snapshot
    <2> QED
      BY <2>1, <2>2 DEF Txns!LiveWrite
  <1>3. ASSUME NEW w \in Workspaces, NEW p \in Paths, NEW m \in Known,
               \/ \E c \in Values : WriteFile(w, p, m, c)
               \/ DeleteFile(w, p, m)
        PROVE  Txns!LiveWrite
    <2>1. /\ lock = Free /\ Save /\ UNCHANGED <<forks, committed>>
          /\ RemoveFile(w, p) \/ \E c \in Values : PutFile(w, p, c)
      BY <1>3 DEF WriteFile, DeleteFile, timeVars
    <2>2. \A v \in Workspaces \ {w} : files'[v] = disk.files[v]
      BY <1>1, <2>1, LiveChange DEF TreeFollows, Free
    <2> QED
      BY <1>2, <2>1, <2>2 DEF Free
  <1>4. CASE BulkWriteEnd
    <2>1. /\ lock.kind = "bulk" /\ Save /\ UNCHANGED <<files, forks, committed>>
      BY <1>4 DEF BulkWriteEnd, liveVars, timeVars
    <2>2. lock.ws \in Workspaces
      BY <1>1, <2>1, LockKinds DEF TypeOK
    <2>3. \A v \in Workspaces \ {lock.ws} : files'[v] = disk.files[v]
      BY <1>1, <2>1 DEF TreeFollows
    <2> QED
      BY <1>2, <2>1, <2>2, <2>3
  <1>5. ASSUME \/ \E w \in Workspaces : BulkWriteBegin(w)
               \/ \E p \in Paths, m \in Known, c \in Values : BulkWriteItem(p, m, c)
        PROVE  UNCHANGED Txns!vars
    <2>1. UNCHANGED <<disk, committed, forks>>
      BY <1>5 DEF BulkWriteBegin, BulkWriteItem, timeVars
    <2> QED
      BY <2>1, TxnUnsaved DEF LiveForks
  <1> QED
    BY <1>3, <1>4, <1>5 DEF LiveNext

(* A save after edits of one fork is one edit of its transaction: every     *)
(* path holds what it held, or something over a file its author saw.        *)
LEMMA MapsEdit ==
    ASSUME RefInv, NEW f \in ForkIds, f \in LiveForks, Save,
           UNCHANGED <<files, committed>>, lock.kind \in {"free", "bulkFork"},
           lock.kind = "bulkFork" => lock.fork = f,
           \A g \in ForkIds \ {f} : forks'[g] = forks[g],
           forks'[f] \in Fork, forks'[f].ws = forks[f].ws,
           \A p \in Paths :
             LET new == forks'[f].overlay[p]
                 old == disk.forks[f].overlay[p]
             IN  \/ new = old
                 \/ /\ new # NoEntry
                    /\ \/ new.seen = disk.files[forks[f].ws][p]
                       \/ old # NoEntry /\ new.seen = old.seen
    PROVE  Txns!Edit
  <1> DEFINE t == [ws |-> forks[f].ws,
                   edits |-> [p \in Paths |-> EditOf(forks'[f].overlay[p])]]
             txns == [g \in ForkIds |-> TxnOf(g)]
  <1>1. disk'.files = disk.files /\ disk'.forks = forks'
    BY RefFacts DEF Save, Snapshot, TreeFollows
  <1>2. forks[f].ws \in Workspaces /\ f \notin committed /\ forks'[f] # NoFork
    BY RefFacts, ForksAssumption
  <1>3. TxnOf(f)' = t
    BY <1>1, <1>2 DEF TxnOf
  <1>4. \A g \in ForkIds \ {f} : TxnOf(g)' = TxnOf(g)
    BY TxnKept
  <1>5. t \notin {NoFork, Committed}
    <2>1. ASSUME NEW p \in Paths PROVE EditOf(forks'[f].overlay[p]) \in Edit \cup {NoEntry}
      BY DEF Fork, Entry, EditOf, Edit
    <2>2. t \in Transaction
      BY <1>2, <2>1 DEF Transaction
    <2> QED
      BY <2>2, ForksAssumption
  <1>6. /\ txns[f] \notin {NoFork, Committed}
        /\ txns[f].ws = forks[f].ws
        /\ \A p \in Paths : txns[f].edits[p] = EditOf(disk.forks[f].overlay[p])
    BY TxnCases
  <1>7. txns'[f] = t /\ txns' = [txns EXCEPT ![f] = txns'[f]]
    BY <1>3, <1>4
  <1>8. ASSUME NEW p \in Paths
        PROVE  Txns!Edited(f, p, t.edits[p])
    <2> DEFINE new == forks'[f].overlay[p]
               old == disk.forks[f].overlay[p]
    <2>1. t.edits[p] = EditOf(new) /\ txns[f].edits[p] = EditOf(old)
      BY <1>6
    <2>2. CASE new = old
      BY <2>1, <2>2 DEF Txns!Edited
    <2>3. CASE /\ new # NoEntry
               /\ \/ new.seen = disk.files[forks[f].ws][p]
                  \/ old # NoEntry /\ new.seen = old.seen
      <3>1. new \in Entry
        BY <2>3 DEF Fork
      <3>2. EditOf(new) = [new |-> new.content, seen |-> new.seen] /\ EditOf(new) # NoEntry
        <4>1. EditOf(new) = [new |-> new.content, seen |-> new.seen]
          BY <2>3 DEF EditOf
        <4>2. EditOf(new) \in Edit
          BY <3>1, <4>1 DEF Entry, Edit
        <4> QED
          BY <4>1, <4>2, ForksAssumption
      <3>3. CASE new.seen = disk.files[forks[f].ws][p]
        BY <1>6, <2>1, <3>2, <3>3 DEF Txns!Edited
      <3>4. CASE old # NoEntry /\ new.seen = old.seen
        <4>1. old \in Entry
          BY <3>4, RefFacts DEF Fork
        <4>2. EditOf(old) \in Edit /\ EditOf(old).seen = old.seen
          BY <3>4, <4>1 DEF Entry, Edit, EditOf
        <4> QED
          BY SMTT(30), <2>1, <3>2, <3>4, <4>2, ForksAssumption DEF Txns!Edited
      <3> QED
        BY <2>3, <3>3, <3>4
    <2> QED
      BY <2>2, <2>3
  <1>9. /\ txns[f] \notin {NoFork, Committed}
        /\ txns'[f] \notin {NoFork, Committed}
        /\ txns'[f].ws = txns[f].ws
        /\ \A p \in Paths : Txns!Edited(f, p, txns'[f].edits[p])
        /\ txns' = [txns EXCEPT ![f] = txns'[f]]
    <2>1. txns'[f].ws = txns[f].ws /\ txns'[f] \notin {NoFork, Committed}
      BY <1>5, <1>6, <1>7
    <2>2. \A p \in Paths : Txns!Edited(f, p, txns'[f].edits[p])
      BY <1>7, <1>8
    <2> QED
      BY <1>6, <1>7, <2>1, <2>2
  <1> QED
    BY <1>1, <1>9 DEF Txns!Edit

(* The end of a commit: the loop has gone through the whole overlay.        *)
LEMMA MapsCommit == RefInv /\ CommitForkEnd => Txns!Commit
  <1> SUFFICES ASSUME RefInv, CommitForkEnd PROVE Txns!Commit
    OBVIOUS
  <1>1. /\ lock.kind = "commit" /\ lock.todo = {} /\ deleteForks({lock.fork})
        /\ committed' = committed \cup {lock.fork} /\ files' = files /\ Save
    BY DEF CommitForkEnd, liveVars
  <1>2. PICK f \in ForkIds : f = lock.fork /\ f \in LiveForks
    BY <1>1, RefFacts DEF TypeInv, LockOwnsFork
  <1> DEFINE w == forks[f].ws
             txns == [g \in ForkIds |-> TxnOf(g)]
  <1>3. \A g \in ForkIds : forks'[g] = IF g = f THEN NoFork ELSE forks[g]
    BY <1>1, <1>2 DEF deleteForks
  <1>4. disk.forks[f].overlay = forks[f].overlay
    BY <1>1, <1>2, RefFacts DEF OverlaysFollow
  <1>5. /\ w \in Workspaces
        /\ txns[f] \notin {NoFork, Committed} /\ txns[f].ws = w
        /\ \A p \in Paths : txns[f].edits[p] = EditOf(forks[f].overlay[p])
    BY <1>2, <1>4, TxnCases, RefFacts
  <1>6. txns' = [txns EXCEPT ![f] = Committed]
    <2>1. TxnOf(f)' = Committed
      BY <1>1, <1>2 DEF TxnOf
    <2>2. ASSUME NEW g \in ForkIds \ {f} PROVE TxnOf(g)' = TxnOf(g)
      BY <1>1, <1>2, <1>3, TxnKept
    <2> QED
      BY <2>1, <2>2
  <1>7. /\ \A v \in Workspaces \ {w} : disk'.files[v] = disk.files[v]
        /\ disk'.files[w] = files[w]
        /\ \A p \in Paths : CommitProgress(p)
    BY <1>1, <1>2, RefFacts DEF TreeFollows, Save, Snapshot
  <1>8. ASSUME NEW p \in Paths
        PROVE  /\ txns[f].edits[p] # NoEntry => disk.files[w][p] = txns[f].edits[p].seen
               /\ IF txns[f].edits[p] = NoEntry THEN disk'.files[w][p] = disk.files[w][p]
                  ELSE IF txns[f].edits[p].new = Absent THEN disk'.files[w][p] = Absent
                  ELSE /\ disk'.files[w][p] # Absent
                       /\ disk'.files[w][p].content = txns[f].edits[p].new
    <2> DEFINE e == forks[f].overlay[p]
    <2>1. CommitProgress(p) /\ disk'.files[w][p] = files[w][p]
      BY <1>7
    <2>2. CASE e = NoEntry
      BY <1>2, <1>5, <2>1, <2>2 DEF CommitProgress, EditOf
    <2>3. CASE e # NoEntry
      <3>1. e \in Entry
        BY <1>2, <2>3, RefFacts DEF Fork
      <3>2. txns[f].edits[p] = [new |-> e.content, seen |-> e.seen]
        BY <1>5, <2>3 DEF EditOf
      <3>3. txns[f].edits[p] # NoEntry
        <4>1. txns[f].edits[p] \in Edit
          BY <3>1, <3>2 DEF Entry, Edit
        <4> QED
          BY <4>1, ForksAssumption
      <3> QED
        BY SMTT(30), <1>1, <1>2, <2>1, <2>3, <3>2, <3>3 DEF CommitProgress
    <2> QED
      BY <2>2, <2>3
  <1>9. /\ txns[f] \notin {NoFork, Committed}
        /\ \A p \in Paths : txns[f].edits[p] # NoEntry =>
             disk.files[txns[f].ws][p] = txns[f].edits[p].seen
        /\ \A v \in Workspaces \ {txns[f].ws} : disk'.files[v] = disk.files[v]
        /\ \A p \in Paths :
             IF txns[f].edits[p] = NoEntry
             THEN disk'.files[txns[f].ws][p] = disk.files[txns[f].ws][p]
             ELSE IF txns[f].edits[p].new = Absent
             THEN disk'.files[txns[f].ws][p] = Absent
             ELSE /\ disk'.files[txns[f].ws][p] # Absent
                  /\ disk'.files[txns[f].ws][p].content = txns[f].edits[p].new
    <2> HIDE DEF txns
    <2> QED
      BY <1>5, <1>7, <1>8
  <1> QED
    BY <1>6, <1>9 DEF Txns!Commit

(* A created fork is an open transaction without edits; the expired go.     *)
LEMMA MapsCreate ==
    ASSUME RefInv, NEW w \in Workspaces, NEW q \in Proposals, NEW f \in ForkIds,
           CreateFork(w, q, f)
    PROVE  Txns!Begin
  <1> DEFINE txns == [g \in ForkIds |-> TxnOf(g)]
             t == [ws |-> w, edits |-> [p \in Paths |-> NoEntry]]
  <1>1. /\ lock = Free /\ f \notin used /\ Save /\ files' = files /\ committed' = committed
        /\ \A g \in ForkIds : forks'[g] = IF g = f THEN NewFork(w, q)
                                          ELSE IF g \in ExpiredForks THEN NoFork ELSE forks[g]
    BY DEF CreateFork, liveVars
  <1>2. disk'.files = disk.files /\ disk'.forks = forks'
    BY <1>1, RefFacts DEF Save, Snapshot, TreeFollows, Free
  <1>3. f \notin LiveForks /\ f \notin committed
    BY <1>1, RefFacts DEF DiskKnowsForks
  <1>4. txns[f] = NoFork
    BY <1>3, TxnCases
  <1>5. NewFork(w, q) \in Fork /\ NewFork(w, q) # NoFork
    BY RefFacts, ForksAssumption DEF NewFork, Fork, TypeOK
  <1>6. TxnOf(f)' = t
    BY <1>1, <1>2, <1>3, <1>5 DEF TxnOf, NewFork, EditOf
  <1>7. ASSUME NEW g \in ForkIds \ {f}
        PROVE  TxnOf(g)' = IF g \in ExpiredForks /\ TxnOf(g) # Committed
                           THEN NoFork ELSE TxnOf(g)
    <2>1. CASE g \in ExpiredForks
      BY <1>1, <2>1, TxnGone
    <2>2. CASE g \notin ExpiredForks
      BY <1>1, <2>2, TxnKept DEF Free
    <2> QED
      BY <2>1, <2>2
  <1>8. txns' = [g \in ForkIds |->
                   IF g = f THEN t
                   ELSE IF g \in ExpiredForks /\ txns[g] # Committed THEN NoFork ELSE txns[g]]
    BY <1>6, <1>7
  <1>9. ExpiredForks \in SUBSET ForkIds
    BY DEF ExpiredForks, LiveForks
  <1> QED
    BY <1>2, <1>4, <1>8, <1>9 DEF Txns!Begin

(* A single edit of a fork. *)
LEMMA MapsPut ==
    ASSUME RefInv, NEW f \in ForkIds, NEW p \in Paths, NEW type, NEW c,
           NEW repin \in BOOLEAN, PutOverlay(f, p, type, c, repin), UsableFork(f),
           \/ type = "write" /\ c \in Values
           \/ type = "delete" /\ c = Absent,
           UNCHANGED <<files, committed>>, Save
    PROVE  Txns!Edit
  <1> DEFINE new == forks'[f].overlay[p]
             was == forks[f].overlay[p]
  <1>1. TypeOK /\ f \in LiveForks /\ lock = Free
    BY RefFacts DEF UsableFork
  <1>2. /\ forks[f] \in Fork /\ forks[f].ws \in Workspaces /\ files = disk.files
        /\ disk.forks[f].overlay = forks[f].overlay
    BY <1>1, RefFacts DEF OverlaysFollow, TreeFollows, Free
  <1>3. forks'[f] \in Fork /\ \A g \in ForkIds \ {f} : forks'[g] = forks[g]
    BY <1>1, <1>2, PutOverlayType
  <1>4. /\ forks'[f].ws = forks[f].ws
        /\ \A r \in Paths \ {p} : forks'[f].overlay[r] = forks[f].overlay[r]
        /\ new.seen \in {was.seen, files[forks[f].ws][p]}
        /\ was = NoEntry => new.seen = files[forks[f].ws][p]
        /\ new.type = type /\ new.content = c
    BY <1>1, <1>2 DEF PutOverlay, TypeOK, ForkMap, Fork, Touched
  <1>5. new # NoEntry
    BY <1>1, <1>2, PutOverlayType
  <1>6. \A r \in Paths :
             LET n   == forks'[f].overlay[r]
                 old == disk.forks[f].overlay[r]
             IN  \/ n = old
                 \/ /\ n # NoEntry
                    /\ \/ n.seen = disk.files[forks[f].ws][r]
                       \/ old # NoEntry /\ n.seen = old.seen
    <2>1. ASSUME NEW r \in Paths \ {p} PROVE forks'[f].overlay[r] = disk.forks[f].overlay[r]
      BY <1>2, <1>4
    <2>2. \/ new.seen = disk.files[forks[f].ws][p]
          \/ disk.forks[f].overlay[p] # NoEntry /\ new.seen = disk.forks[f].overlay[p].seen
      BY <1>2, <1>4
    <2> QED
      BY <1>5, <2>1, <2>2
  <1> QED
    BY <1>1, <1>3, <1>4, <1>6, MapsEdit DEF Free

(* Every step of a fork operation is a step of its transaction, or none.    *)
LEMMA MapsFork ==
    RefInv /\ ForkNext => Txns!Next \/ UNCHANGED Txns!vars
  <1> SUFFICES ASSUME RefInv, ForkNext PROVE Txns!Next \/ UNCHANGED Txns!vars
    OBVIOUS
  <1>1. TypeOK /\ TypeInv
    BY RefFacts
  <1>2. ASSUME NEW w \in Workspaces, NEW q \in Proposals, CreateForkTaken(w, q)
        PROVE  Txns!Abort
    <2>1. /\ disk' = disk /\ committed' = committed
          /\ \A f \in ForkIds : forks'[f] = forks[f] \/ forks'[f] = NoFork
      BY <1>2 DEF CreateForkTaken, deleteForks
    <2> QED
      BY <2>1, MapsAbort DEF LiveForks
  <1>3. ASSUME NEW f \in ForkIds, getLiveForkExpired(f) \/ DiscardFork(f)
        PROVE  Txns!Abort
    <2>1. /\ lock = Free /\ Save /\ files' = files /\ committed' = committed
          /\ \A g \in ForkIds : forks'[g] = forks[g] \/ forks'[g] = NoFork
      BY <1>3 DEF getLiveForkExpired, DiscardFork, deleteForks, liveVars
    <2> QED
      BY <2>1, MapsAbort
  <1>4. ASSUME NEW f \in ForkIds, RebaseFork(f) PROVE UNCHANGED Txns!vars
    <2>1. /\ lock = Free /\ f \in LiveForks /\ Save /\ UNCHANGED <<files, committed>>
          /\ forks' = [forks EXCEPT ![f].parent = wsRevision[forks[f].ws]]
      BY <1>4 DEF RebaseFork, UsableFork, liveVars, timeVars
    <2>2. /\ forks[f] \in Fork /\ f \notin committed
          /\ disk.forks[f].ws = forks[f].ws
          /\ disk.forks[f].overlay = forks[f].overlay
      BY <2>1, RefFacts DEF OverlaysFollow, Free
    <2>3. /\ \A g \in ForkIds \ {f} : forks'[g] = forks[g]
          /\ forks'[f] = [forks[f] EXCEPT !.parent = wsRevision[forks[f].ws]]
      BY <1>1, <2>1 DEF TypeOK, ForkMap
    <2>4. forks'[f].ws = forks[f].ws /\ forks'[f].overlay = forks[f].overlay
      BY <2>2, <2>3 DEF Fork
    <2>5. forks'[f] # NoFork
      <3>1. wsRevision[forks[f].ws] \in Nat
        BY <1>1, <2>2 DEF TypeOK, Fork
      <3>2. forks'[f] \in Fork
        BY <2>2, <2>3, <3>1 DEF Fork
      <3> QED
        BY <3>2, ForksAssumption
    <2>6. disk'.files = disk.files /\ disk'.forks = forks'
      BY <2>1, RefFacts DEF Save, Snapshot, TreeFollows, Free
    <2>7. TxnOf(f)' = TxnOf(f)
      BY <2>1, <2>2, <2>4, <2>5, <2>6 DEF TxnOf, LiveForks
    <2>8. \A g \in ForkIds : TxnOf(g)' = TxnOf(g)
      BY <2>1, <2>3, <2>7, TxnKept DEF Free
    <2> QED
      BY <2>6, <2>8 DEF Txns!vars
  <1>5. ASSUME NEW f \in ForkIds, CommitForkBegin(f) \/ BulkWriteForkBegin(f)
        PROVE  UNCHANGED Txns!vars
    <2>1. UNCHANGED <<disk, committed, forks>>
      BY <1>5 DEF CommitForkBegin, BulkWriteForkBegin, timeVars
    <2> QED
      BY <2>1, TxnUnsaved DEF LiveForks
  <1>6. ASSUME NEW f \in ForkIds, NEW p \in Paths, NEW m \in Known,
               \/ \E c \in Values : WriteForkFile(f, p, m, c)
               \/ DeleteForkFile(f, p, m)
        PROVE  Txns!Edit
    <2>1. PICK type, c :
            /\ \/ type = "write" /\ c \in Values
               \/ type = "delete" /\ c = Absent
            /\ PutOverlay(f, p, type, c, Resolves(f, p, m))
      BY <1>6 DEF WriteForkFile, DeleteForkFile
    <2>2. UsableFork(f) /\ UNCHANGED <<files, committed>> /\ Save
      BY <1>6 DEF WriteForkFile, DeleteForkFile, liveVars, timeVars
    <2>3. Resolves(f, p, m) \in BOOLEAN
      BY DEF Resolves
    <2> QED
      BY <2>1, <2>2, <2>3, MapsPut
  <1>7. ASSUME NEW p \in Paths, NEW m \in Known, NEW c \in Values,
               BulkWriteForkItem(p, m, c)
        PROVE  UNCHANGED Txns!vars
    <2>1. /\ UNCHANGED <<disk, committed>> /\ lock.kind = "bulkFork"
          /\ PutOverlay(lock.fork, p, "write", c, FALSE)
      BY <1>7 DEF BulkWriteForkItem, timeVars
    <2>2. lock.fork \in LiveForks
      BY <1>1, <2>1 DEF TypeInv, LockOwnsFork
    <2>3. LiveForks' = LiveForks
      BY <1>1, <2>1, <2>2, PutOverlayType
    <2> QED
      BY <2>1, <2>3, TxnUnsaved
  <1>8. CASE BulkWriteForkEnd
    <2>1. /\ lock.kind = "bulkFork" /\ Save /\ UNCHANGED <<files, forks, committed>>
      BY <1>8 DEF BulkWriteForkEnd, liveVars, timeVars
    <2>2. PICK f \in ForkIds : f = lock.fork /\ f \in LiveForks
      BY <1>1, <2>1, RefFacts DEF TypeInv, LockOwnsFork
    <2>3. \A p \in Paths : EditFollows(f, p)
      BY <2>2, RefFacts DEF OverlaysFollow
    <2> QED
      BY <2>1, <2>2, <2>3, RefFacts, MapsEdit DEF EditFollows, Txns!Next
  <1>9. ASSUME NEW p \in Paths, CommitForkApply(p) PROVE UNCHANGED Txns!vars
    <2>1. UNCHANGED <<disk, committed, forks>>
      BY <1>9 DEF CommitForkApply, timeVars
    <2> QED
      BY <2>1, TxnUnsaved DEF LiveForks
  <1> QED
    BY <1>2, <1>3, <1>4, <1>5, <1>6, <1>7, <1>8, <1>9, MapsCreate, MapsCommit
    DEF ForkNext, Txns!Next

(* Expiry and restarts abort.                                               *)
LEMMA MapsTime ==
    RefInv /\ TimeNext => Txns!Next \/ UNCHANGED Txns!vars
  <1> SUFFICES ASSUME RefInv, TimeNext PROVE Txns!Next \/ UNCHANGED Txns!vars
    OBVIOUS
  <1>1. ASSUME NEW f \in ForkIds, ExpiresAtPasses(f) \/ scheduleForkExpiry(f)
        PROVE  UNCHANGED Txns!vars
    <2>1. UNCHANGED <<disk, committed, forks>>
      BY <1>1 DEF ExpiresAtPasses, scheduleForkExpiry
    <2> QED
      BY <2>1, TxnUnsaved DEF LiveForks
  <1>2. ASSUME NEW f \in ForkIds, expireForkByTimer(f) PROVE Txns!Abort
    <2>1. lock = Free /\ files' = files /\ committed' = committed
      BY <1>2 DEF expireForkByTimer, liveVars
    <2>2. CASE deleteForks({f}) /\ Save
      BY <2>1, <2>2, MapsAbort DEF deleteForks
    <2>3. CASE UNCHANGED <<forks, disk>>
      BY <2>1, <2>3, MapsAbort DEF LiveForks
    <2> QED
      BY <1>2, <2>2, <2>3 DEF expireForkByTimer
  <1>3. CASE Restart
    <2>1. disk' = disk /\ committed' = committed
      BY <1>3 DEF Restart
    <2>2. ASSUME NEW f \in ForkIds, forks'[f] # NoFork PROVE f \in LiveForks
      BY <1>3, <2>2, RefFacts DEF Restart, DiskKnowsForks
    <2> QED
      BY <2>1, <2>2, MapsAbort DEF Txns!Next
  <1> QED
    BY <1>1, <1>2, <1>3 DEF TimeNext, Txns!Next

(* The store implements optimistic transactions over the snapshot on disk:  *)
(* a commit, however many steps it takes under the mutex and wherever a     *)
(* crash cuts it, replaces in one save exactly the files its author had     *)
(* seen; every other end of a fork leaves nothing; and no step of a loop    *)
(* under the mutex shows (CommitForkWithValidator, BulkWriteFork,           *)
(* saveLocked, rebuildForkIndexesLocked).  A store without forks of an      *)
(* older binary.                                                            *)
THEOREM Refinement ==
    ASSUME LegacyForks = {}
    PROVE  Spec => ImplementsTransactions
  <1>1. Init => RefInv
    BY TxnInit
  <1>2. Init => Txns!Init
    <2> SUFFICES ASSUME Init PROVE Txns!Init
      OBVIOUS
    <2>1. /\ disk.files = [w \in Workspaces |-> [p \in Paths |-> Absent]]
          /\ committed = {} /\ \A f \in ForkIds : forks[f] = NoFork
      BY DEF Init, Snapshot
    <2> QED
      BY <2>1 DEF Txns!Init, TxnOf
  <1>3. RefInv /\ [Next]_vars => [Txns!Next]_(Txns!vars)
    <2> SUFFICES ASSUME RefInv, [Next]_vars PROVE Txns!Next \/ UNCHANGED Txns!vars
      OBVIOUS
    <2>1. CASE UNCHANGED vars
      BY <2>1, TxnUnsaved DEF vars, LiveForks
    <2> QED
      BY <2>1, MapsLive, MapsFork, MapsTime DEF Next, Txns!Next
  <1> QED
    BY <1>1, <1>2, <1>3, RefStep, PTL DEF Spec, ImplementsTransactions, Txns!Spec
=============================================================================
