--------------------------- MODULE MountBootstrap ---------------------------
(* How a mount's tree is brought in and kept complete (internal/mountsync):   *)
(* the resumable traversal of the first bootstrap and of later audits, the    *)
(* export snapshot, the delete pass with its tombstones, and the incremental  *)
(* pages of the event feed, across lost requests, crashes and restarts.       *)
(*                                                                            *)
(* The agent edits nothing here: MountSync has one file under local work,     *)
(* this module has a tree of files and the state that outlives a cycle.       *)
(* Content is identified by its revision.                                     *)
EXTENDS MountFiles, SequencesExt

CONSTANTS
    Paths,     \* files, numbers in the order of their names
    Root,      \* the directory mounted
    Listing,   \* directory -> its files and directories in order
    PageSize,  \* server: entries of a tree page
    FeedSize,  \* server: events of a feed page
    Configs,   \* the daemons and surroundings to check: see ConfigAssumption
    MaxBound   \* bound on each of the bounds of a config

(* budget, chunk: bootstrapMaxFilesPerCycle (0: none) and                     *)
(* bootstrapCheckpointFiles.  dirs, stalls: bootstrapMaxDirectories and       *)
(* bootstrapStallCycles.  socket: a WebSocket delivers events while a pull    *)
(* runs.  export: the server has the export snapshot.  denied: files the      *)
(* token may not read.  The rest bounds the surroundings: files written and   *)
(* deleted, requests and local writes that fail, listings that come back      *)
(* empty, crashes, operators who raise the limits.                            *)
ASSUME ConfigAssumption ==
    \A c \in Configs :
        /\ DOMAIN c = {"budget", "chunk", "dirs", "stalls", "socket", "export",
                       "denied", "writes", "deletes", "faults", "degraded",
                       "crashes", "raises"}
        /\ {c.socket, c.export} \subseteq BOOLEAN
        /\ c.denied \subseteq Paths
        /\ c.chunk > 0 /\ c.dirs > 0 /\ c.stalls > 0
        /\ {c.budget, c.writes, c.deletes, c.faults, c.degraded, c.crashes,
            c.raises}
               \subseteq 0..MaxBound

VARIABLES
    cfg,       \* the member of Configs this daemon runs with
    remote,    \* server: path -> revision, 0 when there is no file
    log,       \* server: the event feed, <<path, revision or 0>>
    files,     \* mount: path -> MountFiles record
    tomb,      \* mount: path -> observations in .relay/pending-deletes
    st,        \* mount: the rest of mountState
    saved,     \* the saved state file
    limits,    \* mount: the limits this process was started with
    circuit,   \* mount: the cloud-error circuit breaker is open
    sock,      \* mount: events the WebSocket loop has seen (0: not connected)
    cyc,       \* mount: the sync cycle
    used,      \* how often the environment has acted, by kind
    since,     \* history: the feed's length when the traversal began at the root
    mirrored,  \* history: since, of the last pull that went through
    seeded,    \* history: the events between the mirror and the seeded cursor
    gone,      \* history: files the server has deleted
    untrue     \* history: files whose tombstone comes from an untrue listing

history == <<since, mirrored, seeded, gone, untrue>>

vars == <<cfg, remote, log, files, tomb, st, saved, limits, circuit, sock, cyc,
          used, history>>

Dirs == DOMAIN Listing
Tip == Len(log)
File(p) == [rev |-> remote[p], body |-> IF remote[p] = 0 THEN Absent ELSE {remote[p]}]
At(rev) == [rev |-> rev, body |-> {rev}]

Tracked == {p \in Paths : files[p].tracked.known}

(* mountState but for the entries.                                            *)
NoCheckpoint == [from |-> 0, to |-> 0, phase |-> "none", path |-> 0]
Fresh ==
    [complete |-> FALSE, dirs |-> <<>>, cursor |-> 0, offset |-> 0,
     synced |-> 0, total |-> 0, discovered |-> 0, stalls |-> 0,
     error |-> "none", last |-> 0, feed |-> 0, check |-> NoCheckpoint,
     waiting |-> {}, force |-> FALSE, skipped |-> {}]

(* The cycle: `boot' says that this pull is the bootstrap's, `before' is the  *)
(* checkpoint it started from, `lied' (history) the files that an untrue      *)
(* listing of this cycle left out, the others are pullRemoteFullTree's and    *)
(* applyIncrementalChanges' variables.                                        *)
Idle ==
    [pc |-> "idle", boot |-> FALSE, before |-> <<>>, dirs |-> <<>>, cursor |-> 0,
     offset |-> 0, page |-> <<>>, next |-> 0, loaded |-> FALSE, fresh |-> TRUE,
     seen |-> {}, max |-> 0, count |-> 0, restarts |-> 0, expected |-> 0,
     jobs |-> <<>>, got |-> NoFile, found |-> 0, end |-> 0, missing |-> {},
     todo |-> {}, lied |-> {}, observed |-> [p \in Paths |-> Untracked]]

Used(kind) == used' = [used EXCEPT ![kind] = @ + 1]
May(kind) == used[kind] < cfg[kind]

SavedNow == [st |-> st, tracked |-> [p \in Paths |-> files[p].tracked]]
Save == saved' = SavedNow'

----------------------------------------------------------------------------
(* The server: files come and go, tree pages resume after an entry.           *)

RemoteWrite(p) ==
    /\ May("writes") /\ Used("writes")
    /\ remote' = [remote EXCEPT ![p] = Tip + 1]
    /\ log' = Append(log, <<p, Tip + 1>>)
    /\ UNCHANGED <<cfg, files, tomb, st, saved, limits, circuit, sock, cyc, history>>

RemoteDelete(p) ==
    /\ May("deletes") /\ Used("deletes") /\ remote[p] # 0
    /\ remote' = [remote EXCEPT ![p] = 0]
    /\ log' = Append(log, <<p, 0>>)
    /\ gone' = gone \union {p}
    /\ UNCHANGED <<cfg, files, tomb, st, saved, limits, circuit, sock, cyc, since, mirrored,
                   seeded, untrue>>

Below(d) == {p \in Paths : p \in Range(Listing[d])}

Visible(e) ==
    IF e \in Paths THEN remote[e] # 0 ELSE \E p \in Below(e) : remote[p] # 0

Entries(d) == SelectSeq(Listing[d], Visible)

(* handleTree: the cursor is the last entry of the page before, and is        *)
(* refused when that entry is gone.                                           *)
CursorValid(d, c) == c = 0 \/ c \in Range(Entries(d))

After(d, c) ==
    IF c = 0 THEN Entries(d)
    ELSE SubSeq(Entries(d), SelectInSeq(Entries(d), LAMBDA e : e = c) + 1,
                Len(Entries(d)))

Page(d, c) == SubSeq(After(d, c), 1, IF Len(After(d, c)) < PageSize
                                     THEN Len(After(d, c)) ELSE PageSize)

Row(e) == [e |-> e, rev |-> IF e \in Paths THEN remote[e] ELSE 0]

NextCursor(d, c) == IF Len(After(d, c)) > PageSize THEN After(d, c)[PageSize] ELSE 0

(* A request or a local write fails; at MaxBound there is no end of it.       *)
Fault ==
    /\ May("faults")
    /\ IF cfg.faults = MaxBound THEN UNCHANGED used ELSE Used("faults")

----------------------------------------------------------------------------
(* The start and the end of a cycle (syncReserved).                           *)

(* persistedBootstrapTerminalError: a bootstrap that has given up stays given *)
(* up over restarts, until the limit it ran into is raised.                   *)
Terminal ==
    /\ ~st.complete
    /\ \/ st.error = "stall" /\ st.stalls >= limits.stalls
       \/ st.error = "limit" /\ st.discovered >= limits.dirs

checkpoint == <<st.cursor, st.offset, st.dirs>>

(* SyncOnce or Reconcile; one that does not pull, with a socket, is no step.  *)
CycleStart ==
    /\ cyc.pc = "idle" /\ ~Terminal
    /\ cyc' = [Idle EXCEPT !.pc = "retry", !.boot = ~st.complete \/ st.force,
                           !.before = checkpoint, !.todo = st.skipped]
    /\ st' = [st EXCEPT !.error = "none"]
    /\ UNCHANGED <<cfg, remote, log, files, tomb, saved, limits, circuit, sock,
                   used, history>>

(* Mutant of recordBootstrapCycle: a cycle that failed is not counted.        *)
recordBootstrapCycleUncounted(s, before, cause) ==
    [s EXCEPT !.error = cause]

(* recordBootstrapCycle: cycles that leave the checkpoint where it was are    *)
(* counted, and the bootstrap gives up at the limit.                          *)
recordBootstrapCycle(s, before, cause) ==
    LET advanced == <<s.cursor, s.offset, s.dirs>> # before
        stalls == IF s.complete \/ advanced THEN 0 ELSE s.stalls + 1
    IN [s EXCEPT !.stalls = stalls,
                 !.error = IF ~s.complete /\ stalls >= limits.stalls THEN "stall"
                           ELSE cause]

(* Every cycle ends with saveState.                                           *)
EndCycle(s, cause) ==
    /\ st' = IF cyc.boot THEN recordBootstrapCycle(s, cyc.before, cause)
             ELSE [s EXCEPT !.error = cause]
    /\ cyc' = Idle
    /\ Save

(* A pull that returns without an error: a mount that is complete goes on.    *)
Return(s) ==
    IF s.complete
    THEN st' = s /\ cyc' = [cyc EXCEPT !.pc = "pulled"] /\ UNCHANGED saved
    ELSE EndCycle(s, "none")

----------------------------------------------------------------------------
(* pullRemote.                                                                *)

(* What applyRemoteFile and applyRemoteDelete clear for a path in the state.  *)
settled(s, p) == [s EXCEPT !.skipped = @ \ {p}, !.waiting = @ \ {p}]

(* applyRemoteFile on the state `s', with the local errors that set a file    *)
(* aside (skipPathLocalMaterializationError): to its caller both went well.   *)
ApplyTo(s, p, file) ==
    \/ /\ files' = [files EXCEPT ![p] = applyRemoteFile(@, file, TRUE)]
       /\ st' = settled(s, p)
       /\ UNCHANGED used
    \/ /\ Fault
       /\ st' = [s EXCEPT !.skipped = @ \union {p}, !.waiting = @ \ {p}]
       /\ UNCHANGED files

ApplyFile(p, file) == ApplyTo(st, p, file)

(* retrySkippedMaterializations: read again what could not be written.        *)
RetrySkipped ==
    /\ cyc.pc = "retry" /\ cyc.todo # {}
    /\ LET p == CHOOSE q \in cyc.todo : \A r \in cyc.todo : q <= r
       IN /\ IF p \in cfg.denied
             THEN /\ files' = [files EXCEPT ![p] = markReadDenied(@)]
                  /\ st' = [st EXCEPT !.skipped = @ \ {p}]
                  /\ UNCHANGED used
             ELSE IF remote[p] = 0
             THEN st' = [st EXCEPT !.skipped = @ \ {p}] /\ UNCHANGED <<files, used>>
             ELSE ApplyFile(p, File(p))
          /\ cyc' = [cyc EXCEPT !.todo = @ \ {p}]
    /\ UNCHANGED <<cfg, remote, log, tomb, saved, limits, circuit, sock, history>>

Ready == cyc.pc = "retry" /\ cyc.todo = {}

Incremental == st.complete /\ st.feed # 0 /\ ~st.force

(* Nothing after the cursor: the end, or a periodic full pull.                *)
PollQuiet ==
    /\ Ready /\ Incremental /\ st.feed = Tip
    /\ UNCHANGED <<cfg, remote, log, files, tomb, limits, circuit, sock, used,
                   history>>
    /\ \/ EndCycle(st, "none")
       \/ cyc' = [cyc EXCEPT !.pc = "pull"] /\ UNCHANGED <<st, saved>>

PollEvents ==
    /\ Ready /\ Incremental /\ st.feed < Tip
    /\ \E pc \in {"feed", "pull"} : cyc' = [cyc EXCEPT !.pc = pc]
    /\ UNCHANGED <<cfg, remote, log, files, tomb, st, saved, limits, circuit, sock,
                   used, history>>

(* The restart fast path: a complete mirror only needs a cursor.  What        *)
(* happened since it was made is passed unread.  Without an answer the cycle  *)
(* ends, or goes on to a full pull.                                           *)
PollFastPath ==
    /\ Ready /\ st.complete /\ ~st.force /\ st.feed = 0
    /\ Tracked # {} /\ Tip # 0
    /\ UNCHANGED <<cfg, remote, log, files, tomb, limits, circuit, sock, since,
                   mirrored, gone, untrue>>
    /\ \/ /\ seeded' = [from |-> mirrored, to |-> Tip]
          /\ UNCHANGED used
          /\ EndCycle([st EXCEPT !.feed = Tip, !.check = NoCheckpoint], "none")
       \/ Fault /\ EndCycle(st, "none") /\ UNCHANGED seeded
       \/ /\ Fault
          /\ cyc' = [cyc EXCEPT !.pc = "pull"]
          /\ UNCHANGED <<st, saved, seeded>>

PollFull ==
    /\ Ready /\ ~Incremental
    /\ st.force \/ ~st.complete \/ Tracked = {} \/ Tip = 0
    /\ cyc' = [cyc EXCEPT !.pc = "pull"]
    /\ UNCHANGED <<cfg, remote, log, files, tomb, st, saved, limits, circuit, sock,
                   used, history>>

(* pullRemoteFull: an export once the mount is complete, else the tree.       *)
PullExport ==
    /\ cyc.pc = "pull" /\ st.complete /\ cfg.export
    /\ since' = Tip
    /\ LET here == {p \in Paths : remote[p] # 0}
       IN \/ /\ cyc' = [cyc EXCEPT !.pc = "apply", !.jobs = SetToSortSeq(here, <),
                           !.page = SetToSortSeq({Row(p) : p \in here},
                                                 LAMBDA a, b : a.e < b.e)]
             /\ UNCHANGED <<st, saved, used, circuit>>
          \/ /\ cyc' = [cyc EXCEPT !.pc = "tree"]
             /\ UNCHANGED <<st, saved, used, circuit>>
          \/ /\ Fault
             /\ circuit' \in {circuit, TRUE}
             /\ UNCHANGED files
             /\ EndCycle(st, "none")
    /\ UNCHANGED <<cfg, remote, log, files, tomb, limits, sock, mirrored, seeded,
                   gone, untrue>>

PullTree ==
    /\ cyc.pc = "pull" /\ ~(st.complete /\ cfg.export)
    /\ cyc' = [cyc EXCEPT !.pc = "tree"]
    /\ UNCHANGED <<cfg, remote, log, files, tomb, st, saved, limits, circuit, sock,
                   used, history>>

Highest(S) == IF S = {} THEN 0 ELSE CHOOSE x \in S : \A y \in S : y <= x

(* pullRemoteFullExport, one file of the snapshot after another.              *)
ApplyExport ==
    /\ cyc.pc = "apply" /\ cyc.jobs # <<>>
    /\ LET p == Head(cyc.jobs)
           row == CHOOSE r \in Range(cyc.page) : r.e = p
           max == IF revisionAdvances(cyc.max, row.rev) THEN row.rev ELSE cyc.max
       IN \/ /\ files[p].tracked.denied
             /\ cyc' = [cyc EXCEPT !.jobs = Tail(@), !.max = max]
             /\ UNCHANGED <<files, st, used>>
          \/ /\ ~files[p].tracked.denied
             /\ ApplyFile(p, At(row.rev))
             /\ cyc' = [cyc EXCEPT !.jobs = Tail(@), !.max = max,
                                   !.seen = @ \union {p}]
    /\ UNCHANGED <<cfg, remote, log, tomb, saved, limits, circuit, sock, history>>

(* snapshotDeleteUnsafe: nothing listed while files are tracked.              *)
snapshotDeleteUnsafe ==
    /\ {p \in Tracked : ~files[p].tracked.denied} # {}
    /\ cyc.seen = {}

ExportApplied ==
    /\ cyc.pc = "apply" /\ cyc.jobs = <<>>
    /\ cyc' = IF snapshotDeleteUnsafe
              THEN [cyc EXCEPT !.pc = "tree", !.page = <<>>, !.seen = {}, !.max = 0]
              ELSE [cyc EXCEPT !.pc = "deletes", !.page = <<>>]
    /\ UNCHANGED <<cfg, remote, log, files, tomb, st, saved, limits, circuit, sock,
                   used, history>>

----------------------------------------------------------------------------
(* pullRemoteFullTree.                                                        *)

(* A saved frontier is resumed, but not one that is over the limit.           *)
TreeStart ==
    LET resumed == ~st.complete /\ st.dirs # <<>>
        discovered == IF ~resumed THEN 1
                      ELSE IF st.discovered < Len(st.dirs) THEN Len(st.dirs)
                      ELSE st.discovered
        s == [st EXCEPT !.discovered = discovered,
                        !.cursor = IF resumed \/ st.complete THEN @ ELSE 0,
                        !.offset = IF resumed \/ st.complete THEN @ ELSE 0]
    IN /\ cyc.pc = "tree"
       /\ since' = IF resumed THEN since ELSE Tip
       /\ UNCHANGED <<cfg, remote, log, files, tomb, limits, circuit, sock, used,
                      mirrored, seeded, gone, untrue>>
       /\ IF resumed /\ discovered >= limits.dirs
          THEN EndCycle(s, "limit")
          ELSE /\ st' = s
               /\ cyc' = [cyc EXCEPT !.pc = "list",
                            !.dirs = IF resumed THEN st.dirs ELSE <<Root>>,
                            !.cursor = IF resumed THEN st.cursor ELSE 0,
                            !.offset = IF resumed THEN st.offset ELSE 0,
                            !.fresh = ~resumed,
                            !.expected = IF resumed THEN st.total ELSE 0]
               /\ UNCHANGED saved

(* Mutant of persistTraversal: the offset is that of the entry after.         *)
persistTraversalSkips(s, c, found) ==
    IF s.complete THEN s
    ELSE [s EXCEPT !.dirs = c.dirs, !.cursor = c.cursor, !.offset = c.offset + 1,
                   !.synced = @ + found]

(* persistTraversal, with the traversal `c' as the cycle leaves it.           *)
persistTraversal(s, c, found) ==
    IF s.complete THEN s
    ELSE [s EXCEPT !.dirs = c.dirs, !.cursor = c.cursor, !.offset = c.offset,
                   !.synced = @ + found]

(* The files that a page which comes back empty hides: those behind the       *)
(* cursor in its directory and in the directories there.                      *)
Hidden(p, d, c) ==
    \E e \in Range(After(d, c)) : e = p \/ (e \in Dirs /\ p \in Below(e))

TreeList ==
    LET d == Head(cyc.dirs)
        total == Cardinality({p \in Paths : remote[p] # 0})
    IN /\ cyc.pc = "list"
       /\ UNCHANGED <<cfg, remote, log, files, tomb, limits, sock, history>>
       /\ \/ /\ CursorValid(d, cyc.cursor)
             /\ cyc' = [cyc EXCEPT !.pc = "chunk", !.loaded = TRUE,
                          !.page = [i \in DOMAIN Page(d, cyc.cursor) |->
                                       Row(Page(d, cyc.cursor)[i])],
                          !.next = NextCursor(d, cyc.cursor),
                          !.expected = IF d = Root /\ total > 0 THEN total ELSE @]
             /\ st' = [st EXCEPT !.total = IF d = Root /\ total > 0 THEN total ELSE @]
             /\ circuit' = FALSE
             /\ UNCHANGED <<used, saved>>
          \/ /\ ~CursorValid(d, cyc.cursor)
             /\ LET c == [cyc EXCEPT !.cursor = 0, !.offset = 0, !.fresh = FALSE,
                                     !.restarts = @ + 1]
                IN IF cyc.restarts >= 1
                   THEN /\ circuit' \in {circuit, TRUE}
                        /\ EndCycle(persistTraversal(st, c, 0), "none")
                   ELSE /\ st' = persistTraversal(st, c, 0)
                        /\ cyc' = c
                        /\ IF st.complete THEN UNCHANGED saved ELSE Save
                        /\ UNCHANGED circuit
             /\ UNCHANGED used
          \/ /\ Fault
             /\ circuit' \in {circuit, TRUE}
             /\ EndCycle(st, "none")
          \/ (* a degraded server: an empty page, without the files from here on *)
             /\ May("degraded") /\ Used("degraded")
             /\ cyc' = [cyc EXCEPT !.pc = "chunk", !.loaded = TRUE, !.page = <<>>,
                          !.next = 0,
                          !.lied = @ \union {p \in Paths : Hidden(p, d, cyc.cursor)}]
             /\ circuit' = FALSE
             /\ UNCHANGED <<st, saved>>

(* The entries of the page that this chunk takes: up to the budget and the    *)
(* checkpoint interval.                                                       *)
Start == IF cyc.offset > Len(cyc.page) THEN 0 ELSE cyc.offset

FilesIn(a, b) == Cardinality({i \in (a + 1)..b : cyc.page[i].e \in Paths})

Allowance ==
    IF cfg.budget = 0 THEN cfg.chunk
    ELSE LET left == cfg.budget - cyc.count
         IN IF left < cfg.chunk THEN left ELSE cfg.chunk

ChunkEnd ==
    LET over == {i \in (Start + 1)..Len(cyc.page) :
                    cyc.page[i].e \in Paths /\ FilesIn(Start, i) > Allowance}
    IN IF over = {} THEN Len(cyc.page)
       ELSE (CHOOSE i \in over : \A j \in over : i <= j) - 1

OverBudget == cfg.budget > 0 /\ cyc.count >= cfg.budget

Chunk == {cyc.page[i] : i \in (Start + 1)..ChunkEnd}

(* Directories found in the chunk, in order, that are not queued yet.         *)
NewDirs ==
    SelectSeq([i \in 1..(ChunkEnd - Start) |-> cyc.page[Start + i].e],
              LAMBDA e : e \in Dirs /\ e \notin Range(cyc.dirs))

(* A cycle over its budget ends where it is.                                  *)
TreeOverBudget ==
    /\ cyc.pc = "chunk" /\ OverBudget
    /\ UNCHANGED <<cfg, remote, log, files, tomb, limits, circuit, sock, used,
                   history>>
    /\ Return(persistTraversal(st, [cyc EXCEPT !.offset = Start], 0))

(* One directory too many ends the bootstrap.                                 *)
TreeTooManyDirs ==
    /\ cyc.pc = "chunk" /\ ~OverBudget
    /\ st.discovered + Len(NewDirs) > limits.dirs
    /\ UNCHANGED <<cfg, remote, log, files, tomb, limits, circuit, sock, used,
                   history>>
    /\ EndCycle([st EXCEPT !.discovered = limits.dirs,
                   !.dirs = cyc.dirs \o SubSeq(NewDirs, 1, limits.dirs - st.discovered),
                   !.cursor = cyc.cursor, !.offset = Start],
                "limit")

(* Files that are denied are passed, files already there are adopted, the     *)
(* others are read.                                                           *)
Skippable(row) == canSkipRead(files[row.e], {row.rev})

TreeChunk ==
    LET rows == {r \in Chunk : r.e \in Paths}
        open == {r \in rows : ~files[r.e].tracked.denied}
        skip == {r \in open : Skippable(r)}
        same == {r.e : r \in skip}
        read == {r.e : r \in open \ skip}
        revOf(p) == (CHOOSE r \in rows : r.e = p).rev
    IN /\ cyc.pc = "chunk" /\ ~OverBudget
       /\ st.discovered + Len(NewDirs) <= limits.dirs
       /\ files' = [p \in Paths |-> IF p \in same
                                    THEN adoptWithoutRead(files[p], revOf(p), TRUE)
                                    ELSE files[p]]
       /\ st' = [st EXCEPT !.discovered = @ + Len(NewDirs),
                           !.skipped = @ \ same]
       /\ cyc' = [cyc EXCEPT !.pc = "read", !.dirs = @ \o NewDirs,
                    !.offset = Start, !.end = ChunkEnd,
                    !.seen = @ \union same,
                    !.max = Highest({@} \union {r.rev : r \in rows}),
                    !.jobs = SetToSortSeq(read, <), !.found = Cardinality(same)]
       /\ UNCHANGED <<cfg, remote, log, tomb, saved, limits, circuit, sock, used,
                      history>>

(* readBootstrapFilesEach: without the mutex.                                 *)
TreeRead ==
    /\ cyc.pc = "read" /\ cyc.jobs # <<>>
    /\ cyc' = [cyc EXCEPT !.pc = "got", !.got = File(Head(cyc.jobs))]
    /\ UNCHANGED <<cfg, remote, log, files, tomb, st, saved, limits, circuit, sock,
                   used, history>>

(* What was read: denied, unreadable (the page is left for the next cycle),   *)
(* or applied.                                                                *)
TreeApply ==
    LET p == Head(cyc.jobs)
        done == [cyc EXCEPT !.pc = "read", !.jobs = Tail(@), !.found = @ + 1]
    IN /\ cyc.pc = "got"
       /\ UNCHANGED <<cfg, remote, log, tomb, limits, circuit, sock, history>>
       /\ \/ /\ p \in cfg.denied
             /\ files' = [files EXCEPT ![p] = markReadDenied(@)]
             /\ cyc' = done
             /\ UNCHANGED <<st, saved, used>>
          \/ /\ p \notin cfg.denied
             /\ \/ cyc.got = NoFile /\ UNCHANGED used
                \/ Fault
             /\ UNCHANGED files
             /\ Return(persistTraversal(st, cyc, 0))
          \/ /\ p \notin cfg.denied /\ cyc.got # NoFile
             /\ ApplyFile(p, cyc.got)
             /\ cyc' = [done EXCEPT !.seen = @ \union {p}]
             /\ UNCHANGED saved

(* The chunk is done: the checkpoint moves on by an offset, a page or a       *)
(* directory, and the cycle yields when its budget is spent.                  *)
TreeAdvance ==
    LET paged == cyc.end = Len(cyc.page)
        count == cyc.count + FilesIn(cyc.offset, cyc.end)
        yields == ~st.complete /\ cfg.budget > 0 /\ count >= cfg.budget
        moved == IF ~paged THEN [cyc EXCEPT !.offset = cyc.end]
                 ELSE IF cyc.next # 0
                 THEN [cyc EXCEPT !.offset = 0, !.cursor = cyc.next, !.loaded = FALSE]
                 ELSE [cyc EXCEPT !.offset = 0, !.cursor = 0, !.loaded = FALSE,
                                  !.dirs = Tail(@)]
        last == moved.dirs = <<>>
    IN /\ cyc.pc = "read" /\ cyc.jobs = <<>>
       /\ UNCHANGED <<cfg, remote, log, files, tomb, limits, circuit, sock, used,
                      history>>
       /\ IF ~last /\ yields
          THEN EndCycle(persistTraversal(st, moved, cyc.found), "none")
          ELSE /\ st' = IF last THEN st ELSE persistTraversal(st, moved, cyc.found)
               /\ IF last \/ st.complete THEN UNCHANGED saved ELSE Save
               /\ cyc' = [moved EXCEPT
                            !.pc = IF last THEN "walked"
                                   ELSE IF moved.loaded THEN "chunk" ELSE "list",
                            !.count = count, !.found = 0, !.jobs = <<>>]

(* markBootstrapComplete.                                                     *)
markBootstrapComplete(s) ==
    [s EXCEPT !.complete = TRUE, !.dirs = <<>>, !.cursor = 0, !.offset = 0,
              !.synced = 0, !.total = 0, !.discovered = 0, !.stalls = 0,
              !.waiting = {}, !.force = FALSE]

(* The end of the tree.  A listing without files is not believed, and one     *)
(* that began at a saved frontier deletes nothing.                            *)
TreeWalked ==
    /\ cyc.pc = "walked"
    /\ UNCHANGED <<cfg, remote, log, files, tomb, limits, circuit, sock, used,
                   since, seeded, gone, untrue>>
    /\ IF /\ cyc.seen = {} /\ cyc.expected > 0
          /\ cyc.fresh \/ st.synced = 0
       THEN EndCycle(st, "none") /\ UNCHANGED mirrored
       ELSE IF cyc.fresh /\ snapshotDeleteUnsafe
       THEN Return(st) /\ UNCHANGED mirrored
       ELSE IF ~cyc.fresh
       THEN /\ st' = markBootstrapComplete(st)
            /\ mirrored' = since
            /\ cyc' = [cyc EXCEPT !.pc = "pulled"]
            /\ UNCHANGED saved
       ELSE /\ cyc' = [cyc EXCEPT !.pc = "deletes"]
            /\ UNCHANGED <<st, saved, mirrored>>

(* applyRemoteSnapshotDeletesRev: refused by an open circuit breaker and for  *)
(* a listing that is not newer than the last one applied.                     *)
DeletesRefused ==
    \/ circuit
    \/ ~revisionAdvances(st.last, cyc.max)

DeletesStart ==
    /\ cyc.pc = "deletes"
    /\ cyc' = IF DeletesRefused THEN [cyc EXCEPT !.pc = "completed"]
              ELSE [cyc EXCEPT !.pc = "deleting", !.todo = Tracked, !.missing = {}]
    /\ UNCHANGED <<cfg, remote, log, files, tomb, st, saved, limits, circuit, sock,
                   used, history>>

(* One tracked file after another; the second observation deletes.  The       *)
(* mutex is let go between two files.  History: whether the first one came    *)
(* from an untrue listing.                                                    *)
DeletesStep ==
    /\ cyc.pc = "deleting" /\ cyc.todo # {}
    /\ LET p == CHOOSE q \in cyc.todo : \A r \in cyc.todo : q <= r
           rest == [cyc EXCEPT !.todo = @ \ {p}]
       IN IF p \in cyc.seen
          THEN cyc' = rest /\ UNCHANGED <<files, tomb, st, untrue>>
          ELSE IF deleteConfirmed(tomb[p])
          THEN /\ files' = [files EXCEPT ![p] = applyRemoteDelete(@)]
               /\ tomb' = [tomb EXCEPT ![p] = 0]
               /\ untrue' = untrue \ {p}
               /\ cyc' = rest
               /\ st' = settled(st, p)
          ELSE /\ tomb' = [tomb EXCEPT ![p] = observePendingDelete(@)]
               /\ untrue' = IF p \in cyc.lied THEN untrue \union {p} ELSE untrue
               /\ cyc' = [rest EXCEPT !.missing = @ \union {p}]
               /\ UNCHANGED <<files, st>>
    /\ UNCHANGED <<cfg, remote, log, saved, limits, circuit, sock, used, since,
                   mirrored, seeded, gone>>

(* pruneStaleTombstones, and the listing's revision is the last applied.      *)
DeletesEnd ==
    /\ cyc.pc = "deleting" /\ cyc.todo = {}
    /\ tomb' = [p \in Paths |-> IF p \in cyc.missing THEN tomb[p] ELSE 0]
    /\ untrue' = untrue \intersect cyc.missing
    /\ st' = [st EXCEPT !.last = cyc.max]
    /\ cyc' = [cyc EXCEPT !.pc = "completed"]
    /\ UNCHANGED <<cfg, remote, log, files, saved, limits, circuit, sock, used,
                   since, mirrored, seeded, gone>>

PullCompleted ==
    /\ cyc.pc = "completed"
    /\ st' = markBootstrapComplete(st)
    /\ mirrored' = since
    /\ cyc' = [cyc EXCEPT !.pc = "pulled"]
    /\ UNCHANGED <<cfg, remote, log, files, tomb, saved, limits, circuit, sock,
                   used, since, seeded, gone, untrue>>

(* After a full pull: a mount without a socket and without a cursor takes the *)
(* feed's tip, of which the pull has not seen what came while it ran.         *)
PullDone ==
    LET s == [st EXCEPT !.check = NoCheckpoint, !.waiting = {}]
    IN /\ cyc.pc = "pulled"
       /\ UNCHANGED <<cfg, remote, log, files, tomb, limits, circuit, sock, since,
                      mirrored, gone, untrue>>
       /\ IF sock # 0 \/ st.feed # 0
          THEN EndCycle(s, "none") /\ UNCHANGED <<used, seeded>>
          ELSE \/ /\ seeded' = [from |-> mirrored, to |-> Tip]
                  /\ EndCycle([s EXCEPT !.feed = advanceEventCursor(@, Tip)], "none")
                  /\ UNCHANGED used
               \/ Fault /\ EndCycle(s, "none") /\ UNCHANGED seeded

----------------------------------------------------------------------------
(* pullRemoteIncremental: a page of the feed, its changed files in order,     *)
(* then its deleted ones, with a checkpoint after each.                       *)

FeedPage == (st.feed + 1)..(IF st.feed + FeedSize < Tip THEN st.feed + FeedSize
                                                        ELSE Tip)
PageEnd == Highest(FeedPage)
LastIn(page, p) == Highest({i \in page : log[i][1] = p})

InPage(page) ==
    {p \in Paths : LastIn(page, p) # 0 /\ ~files[p].tracked.denied}
Changed(page) == {p \in InPage(page) : log[LastIn(page, p)][2] # 0}
Deleted(page) == {p \in InPage(page) : log[LastIn(page, p)][2] = 0}

(* incrementalCheckpointForPage: only the page it was made in.                *)
Resumes(from, to) == st.check.from = from /\ st.check.to = to

MarkCheckpoint(s, phase, p) ==
    [s EXCEPT !.check = [from |-> cyc.cursor, to |-> cyc.end, phase |-> phase,
                         path |-> p]]

FeedList ==
    /\ cyc.pc = "feed"
    /\ UNCHANGED <<cfg, remote, log, tomb, limits, circuit, sock, history>>
    /\ \/ LET page == FeedPage
              resumed == Resumes(st.feed, PageEnd)
              todo == {p \in Changed(page) :
                         ~(resumed /\ (st.check.phase = "deleted"
                                       \/ p <= st.check.path))}
              body(p) == {log[LastIn(page, p)][2]}
              same == {p \in todo : canSkipRead(files[p], body(p))}
          IN /\ files' = [p \in Paths |->
                  IF p \in same
                  THEN adoptWithoutRead(files[p], log[LastIn(page, p)][2], TRUE)
                  ELSE files[p]]
             /\ cyc' = [cyc EXCEPT !.pc = "changes", !.cursor = st.feed,
                          !.end = PageEnd, !.jobs = SetToSortSeq(todo \ same, <),
                          !.todo = {p \in Deleted(page) :
                             ~(resumed /\ st.check.phase = "deleted"
                               /\ p <= st.check.path)},
                          !.observed = [p \in Paths |-> files'[p].tracked]]
             /\ st' = [st EXCEPT !.waiting = @ \ same, !.skipped = @ \ same]
             /\ UNCHANGED <<used, saved>>
       \/ /\ Fault
          /\ UNCHANGED files
          /\ EndCycle(st, "none")
       \/ (* the server no longer has the cursor *)
          /\ Fault
          /\ st' = [st EXCEPT !.force = TRUE, !.feed = 0, !.check = NoCheckpoint,
                              !.waiting = {}]
          /\ cyc' = [cyc EXCEPT !.pc = "pull"]
          /\ UNCHANGED <<files, saved>>

FeedRead ==
    /\ cyc.pc = "changes" /\ cyc.jobs # <<>>
    /\ cyc' = [cyc EXCEPT !.pc = "change", !.got = File(Head(cyc.jobs))]
    /\ UNCHANGED <<cfg, remote, log, files, tomb, st, saved, limits, circuit, sock,
                   used, history>>

(* Mutant of FeedApply: a read that failed is passed.                         *)
FeedApplyPasses ==
    LET p == Head(cyc.jobs)
    IN /\ cyc.pc = "change"
       /\ UNCHANGED <<cfg, remote, log, tomb, saved, limits, circuit, sock, history>>
       /\ \/ Fault /\ UNCHANGED files
          \/ /\ cyc.got # NoFile /\ UNCHANGED used
             /\ files' = [files EXCEPT ![p] = applyRemoteFile(@, cyc.got, TRUE)]
       /\ st' = MarkCheckpoint(st, "changed", p)
       /\ cyc' = [cyc EXCEPT !.pc = "changes", !.jobs = Tail(@)]

(* A read: dropped when the entry has moved, not ready (the cursor stays; a   *)
(* file that stays unreadable is taken for deleted), denied, failed, applied  *)
(* or set aside.  All but a failure and one not ready pass the event.         *)
FeedApply ==
    LET p == Head(cyc.jobs)
        next == [cyc EXCEPT !.pc = "changes", !.jobs = Tail(@)]
        stale == files[p].tracked # cyc.observed[p]
    IN /\ cyc.pc = "change"
       /\ UNCHANGED <<cfg, remote, log, tomb, limits, circuit, sock, history>>
       /\ \/ /\ stale
             /\ st' = MarkCheckpoint(st, "changed", p)
             /\ cyc' = next
             /\ UNCHANGED <<files, saved, used>>
          \/ /\ ~stale /\ p \notin cfg.denied /\ cyc.got = NoFile
             /\ UNCHANGED used
             /\ \/ /\ p \in st.waiting
                   /\ files' = [files EXCEPT ![p] = applyRemoteDelete(@)]
                   /\ st' = MarkCheckpoint(settled(st, p), "changed", p)
                   /\ cyc' = next
                   /\ UNCHANGED saved
                \/ /\ UNCHANGED files
                   /\ EndCycle([st EXCEPT !.waiting = @ \union {p}], "none")
          \/ /\ ~stale /\ p \in cfg.denied
             /\ files' = [files EXCEPT ![p] = markReadDenied(@)]
             /\ st' = [MarkCheckpoint(st, "changed", p) EXCEPT !.waiting = @ \ {p}]
             /\ cyc' = next
             /\ UNCHANGED <<saved, used>>
          \/ /\ ~stale /\ Fault
             /\ UNCHANGED files
             /\ EndCycle(st, "none")
          \/ /\ ~stale /\ p \notin cfg.denied /\ cyc.got # NoFile
             /\ ApplyTo(MarkCheckpoint(st, "changed", p), p, cyc.got)
             /\ cyc' = next
             /\ UNCHANGED saved

FeedDelete ==
    /\ cyc.pc = "changes" /\ cyc.jobs = <<>> /\ cyc.todo # {}
    /\ LET p == CHOOSE q \in cyc.todo : \A r \in cyc.todo : q <= r
       IN /\ files' = [files EXCEPT ![p] = applyRemoteDelete(@)]
          /\ st' = MarkCheckpoint(settled(st, p), "deleted", p)
          /\ cyc' = [cyc EXCEPT !.todo = @ \ {p}]
    /\ UNCHANGED <<cfg, remote, log, tomb, saved, limits, circuit, sock, used,
                   history>>

(* The page is done: the cursor passes it and the state is saved.             *)
FeedAdvance ==
    /\ cyc.pc = "changes" /\ cyc.jobs = <<>> /\ cyc.todo = {}
    /\ UNCHANGED <<cfg, remote, log, files, tomb, limits, circuit, sock, used,
                   history>>
    /\ LET s == [st EXCEPT !.feed = advanceEventCursor(@, cyc.end),
                           !.check = NoCheckpoint]
       IN IF cyc.end < Tip
          THEN st' = s /\ cyc' = [cyc EXCEPT !.pc = "feed"] /\ Save
          ELSE EndCycle(s, "none")

----------------------------------------------------------------------------
(* The WebSocket loop, crash and restart.                                     *)

MutexFree == cyc.pc \in {"idle", "list", "read", "got", "apply", "deleting",
                         "changes", "change", "pulled"}

SocketConnect ==
    /\ cfg.socket /\ sock = 0 /\ MutexFree /\ Tip # 0
    /\ sock' = IF st.feed = 0 THEN Tip ELSE st.feed
    /\ UNCHANGED <<cfg, remote, log, files, tomb, st, saved, limits, circuit, cyc,
                   used, history>>

SocketEvent ==
    /\ sock # 0 /\ sock < Tip /\ MutexFree
    /\ LET p == log[sock + 1][1]
           rev == log[sock + 1][2]
       IN /\ files' = [files EXCEPT ![p] =
                         IF @.tracked.denied THEN @
                         ELSE IF rev = 0 THEN applyRemoteDelete(@)
                         ELSE applyRemoteFile(@, At(rev), TRUE)]
          /\ st' = [settled(st, p) EXCEPT !.feed = advanceEventCursor(@, sock + 1)]
    /\ sock' = sock + 1
    /\ UNCHANGED <<cfg, remote, log, tomb, saved, limits, circuit, cyc, used, history>>

CircuitCloses ==
    /\ circuit /\ circuit' = FALSE
    /\ UNCHANGED <<cfg, remote, log, files, tomb, st, saved, limits, sock, cyc,
                   used, history>>

(* A daemon ends at any point; the next one loads what was saved, with the    *)
(* limits its operator gives it.                                              *)
Restart(new) ==
    /\ \/ new = limits /\ May("crashes") /\ Used("crashes")
       \/ new # limits /\ Terminal /\ May("raises") /\ Used("raises")
    /\ st' = saved.st
    /\ files' = [p \in Paths |-> [files[p] EXCEPT !.tracked = saved.tracked[p]]]
    /\ limits' = new
    /\ circuit' = FALSE /\ sock' = 0 /\ cyc' = Idle
    /\ UNCHANGED <<cfg, remote, log, tomb, saved, history>>

Raised == [dirs |-> limits.dirs + 1, stalls |-> limits.stalls + 1]

----------------------------------------------------------------------------

(* A new mount of a server that has its files.                                *)
Init ==
    /\ cfg \in Configs
    /\ remote = [p \in Paths |-> p]
    /\ log = [p \in Paths |-> <<p, p>>]
    /\ files = [p \in Paths |-> NewPath]
    /\ tomb = [p \in Paths |-> 0]
    /\ st = Fresh
    /\ saved = SavedNow
    /\ limits = [dirs |-> cfg.dirs, stalls |-> cfg.stalls]
    /\ circuit = FALSE /\ sock = 0 /\ cyc = Idle
    /\ used = [k \in {"writes", "deletes", "faults", "degraded", "crashes",
                       "raises"} |-> 0]
    /\ since = 0 /\ mirrored = 0 /\ seeded = [from |-> 0, to |-> 0]
    /\ gone = {} /\ untrue = {}

Tree ==
    TreeStart \/ TreeList \/ TreeOverBudget \/ TreeTooManyDirs \/ TreeChunk
    \/ TreeRead \/ TreeApply \/ TreeAdvance \/ TreeWalked

Pull ==
    RetrySkipped \/ PollQuiet \/ PollEvents \/ PollFastPath \/ PollFull
    \/ PullExport \/ PullTree \/ ApplyExport \/ ExportApplied \/ DeletesStart
    \/ DeletesStep \/ DeletesEnd \/ PullCompleted \/ PullDone

Feed == FeedList \/ FeedRead \/ FeedApply \/ FeedDelete \/ FeedAdvance

Cycle == CycleStart \/ Tree \/ Pull \/ Feed

Next ==
    \/ \E p \in Paths : RemoteWrite(p) \/ RemoteDelete(p)
    \/ Cycle
    \/ SocketConnect \/ SocketEvent \/ CircuitCloses
    \/ \E new \in {limits, Raised} : Restart(new)

Spec == Init /\ [][Next]_vars

(* The daemon's loop runs a cycle at every interval.                          *)
FairSpec == Spec /\ WF_vars(Cycle)

----------------------------------------------------------------------------
(* Properties.                                                                *)

Checkpoint == [from : Nat, to : Nat, phase : {"none", "changed", "deleted"},
               path : Paths \union {0}]

StateOK(s) ==
    /\ {s.complete, s.force} \subseteq BOOLEAN
    /\ s.dirs \in Seq(Dirs) /\ s.cursor \in Paths \union Dirs \union {0}
    /\ {s.offset, s.synced, s.total, s.discovered, s.stalls, s.last, s.feed}
           \subseteq Nat
    /\ s.error \in {"none", "stall", "limit"}
    /\ s.check \in Checkpoint
    /\ s.waiting \subseteq Paths /\ s.skipped \subseteq Paths

(* Every variable keeps its shape: the state file, live and saved, the files, *)
(* the feed, and the cycle's own variables.                                   *)
TypeOK ==
    /\ cfg \in Configs
    /\ remote \in [Paths -> Nat] /\ log \in Seq(Paths \X Nat)
    /\ \A p \in Paths :
         /\ files[p].local \subseteq Nat
         /\ ~localMutationPending(files[p].tracked)
    /\ tomb \in [Paths -> 0..1]
    /\ StateOK(st) /\ StateOK(saved.st)
    /\ limits.dirs \in Nat /\ limits.stalls \in Nat
    /\ circuit \in BOOLEAN /\ sock \in 0..Tip
    /\ cyc.dirs \in Seq(Dirs) /\ cyc.jobs \in Seq(Paths)
    /\ cyc.seen \subseteq Paths /\ cyc.todo \subseteq Paths
    /\ {since, mirrored, seeded.from, seeded.to} \subseteq 0..Tip
    /\ gone \subseteq Paths /\ untrue \subseteq Paths

LastEvent(p, upTo) == LastIn(1..upTo, p)

(* The mount has what the server has, or has said why not.                    *)
Mirrored(p) ==
    \/ files[p].tracked.known /\ files[p].tracked.rev = remote[p]
       /\ files[p].local = {remote[p]}
    \/ files[p].tracked.denied
    \/ p \in st.skipped

(* When the bootstrap says it is complete, every file that the server had     *)
(* when the traversal began and has left alone since is in the mount, over    *)
(* any number of cycles, failures, budgets, crashes and resumed checkpoints   *)
(* (markBootstrapComplete: a pull that mirrored the whole remote), if the     *)
(* listings were true and the socket is not behind.  Deletes on the server    *)
(* during a traversal that is resumed inside a page break this (the scenario  *)
(* Deleting).                                                                 *)
BootstrapMirrors ==
    [][~st.complete /\ st'.complete /\ used.degraded = 0 =>
         \A p \in Paths :
            /\ remote[p] # 0 /\ LastEvent(p, Tip) <= since
            /\ sock # 0 => LastEvent(p, Tip) <= sock
            => Mirrored(p)']_vars

(* A file leaves the directory only when the server has deleted it or denies  *)
(* it, or when two delete passes one after the other have missed it in        *)
(* listings that were untrue: one truncated or empty listing, a listing       *)
(* resumed half way or an old one takes nothing away                          *)
(* (applyRemoteSnapshotDeletesRev and its guards, #164 and #165 in the code). *)
(* Two listings with newer revisions, truncated at the same place, do.        *)
OnlyRealDeletes ==
    [][\A p \in Paths : files[p].local # Absent /\ files'[p].local = Absent
                        => p \in gone' \union cfg.denied \union
                                (untrue \intersect cyc.lied)]_vars

(* A file that the server has not changed since event i of it, and that the   *)
(* mount has settled: there or gone as the event says, denied or set aside.   *)
Settled(p, i) ==
    \/ files[p].tracked.denied \/ p \in st.skipped
    \/ LastEvent(p, Tip) > i
    \/ files[p].local = IF log[i][2] = 0 THEN Absent ELSE {log[i][2]}

(* The cursor of a mount that polls hides no change but two kinds: pages that *)
(* failed half way, files that could not be read yet or not be written, and   *)
(* crashes lose none (pullRemoteIncremental), nor does the full pull before   *)
(* the cursor was seeded.  The two kinds are what the server changed after    *)
(* that pull began and before resolveLatestEventCursor answered, which is     *)
(* passed unread (a race that pullRemote's comment on a periodic pull avoids),*)
(* and what an untrue listing hid; a deletion from before that pull waits for *)
(* two delete passes.                                                         *)
PassedEventsApplied ==
    ~cfg.socket /\ cyc.pc = "idle" =>
        \A p \in Paths :
            LET i == LastEvent(p, st.feed)
                pulled == i <= seeded.from
            IN i # 0 /\ (pulled \/ i > seeded.to) =>
                 \/ Settled(p, i)
                 \/ pulled /\ log[i][2] = 0
                 \/ used.degraded > IF pulled THEN 0 ELSE 1

(* A bootstrap comes to an end: the mirror is complete, or the daemon gives   *)
(* up and says so (recordBootstrapCycle), whatever keeps failing.             *)
BootstrapEnds == <>(st.complete \/ Terminal)
=============================================================================
