------------------------------ MODULE MountSync ------------------------------
(* The mount synchroniser (internal/mountsync): a daemon that keeps a file    *)
(* of a local directory and the server's the same while an agent edits the    *)
(* one and other clients the other.                                           *)
(*                                                                            *)
(* Three threads share the Syncer's mutex: the watcher's callback, which      *)
(* pushes a changed file and lets go of the mutex while its POST is in        *)
(* flight; the WebSocket loop, which applies events in order; and the sync    *)
(* cycle, which flushes the outbox, pushes what a scan finds and pulls, and   *)
(* lets go of the mutex while a pull waits for the server.  The agent's edits *)
(* take no mutex and fall between any two steps.                              *)
(*                                                                            *)
(* The server is the part of the Store the daemon sees: If-Match checks, one  *)
(* revision counter, an event per change, and the operation that a command's  *)
(* content identity finds again.  The mount holds one file, whose bootstrap   *)
(* is complete; MountBootstrap has the trees.                                 *)
EXTENDS MountFiles, TLC

CONSTANTS
    Configs,      \* the daemons and surroundings to check: see ConfigAssumption
    MaxAttempts,  \* maxOutboxAttempts
    MaxCommands,  \* bound: outbox commands
    MaxActs       \* bound on each of the bounds of a config

(* poll: no watcher, local changes are found by scans.  canWrite: the token's *)
(* scopes.  granted: what the server's ACL allows.  merges: the path is       *)
(* eligible for the server's three-way merge.  refused: the bodies that the   *)
(* adapter's schema does not accept.  The rest bounds the surroundings:       *)
(* changes by the agent and by other clients, lost or refused requests and    *)
(* failed operations, reconcile events and expired cursors, crashes.          *)
ASSUME ConfigAssumption ==
    \A c \in Configs :
        /\ DOMAIN c = {"poll", "canWrite", "granted", "merges", "refused",
                       "edits", "writes", "faults", "gaps", "crashes"}
        /\ {c.poll, c.canWrite, c.granted, c.merges} \subseteq BOOLEAN
        /\ {c.edits, c.writes, c.faults, c.gaps, c.crashes} \subseteq 0..MaxActs
        /\ c.refused \subseteq SUBSET (1..MaxActs)

VARIABLES
    cfg,       \* the member of Configs this daemon runs with
    remote,    \* server: revision and body of the file
    history,   \* server: the body and the author of revision i
    log,       \* server: the event feed
    ops,       \* server: command -> revision (0: not accepted) and status
    f,         \* mount: the file, a MountFiles record
    outbox,    \* mount: pending commands (files under .relay/outbox)
    acked,     \* mount: commands moved to outbox/acked
    failed,    \* mount: commands moved to outbox/failed
    note,      \* mount: a file system notification is to be delivered
    cursor,    \* mount: EventsCursor (0: none)
    force,     \* mount: forceFullReconcile
    drift,     \* mount: recoverStartupDrift
    circuit,   \* mount: the cloud-error circuit breaker is open
    ws,        \* mount: the WebSocket loop
    up,        \* mount: the watcher's upload in flight
    cyc,       \* mount: the sync cycle
    disk,      \* the saved private state
    edits, writes, faults, gaps, crashes, \* how often the environment has acted
    lastEdit,  \* history: the agent's newest save, Absent after a removal
    shown,     \* history: the bodies the file has had
    saw,       \* history: saved body -> what its author could have read
    raced      \* history: the newest save fell where it can be lost

server == <<remote, history, log, ops>>
local == <<f, note, shown>>
memory == <<cursor, force, drift, circuit>>
commands == <<outbox, acked, failed>>
env == <<edits, writes, faults, gaps, crashes>>
ghost == <<lastEdit, saw, raced>>
vars == <<cfg, server, local, commands, memory, ws, up, cyc, disk, env, ghost>>

(* Two initial revisions, one per change, two per command.                    *)
MaxRev == 2 * MaxActs + 2 * MaxCommands + 2

NoCommand == [cmd |-> 0]
NoAnswer == [kind |-> "none", rev |-> 0]
NoUpload == [rec |-> NoCommand, answer |-> NoAnswer]
NoSocket == [on |-> FALSE, pos |-> 0, got |-> "none", seen |-> Untracked,
             file |-> NoFile]

(* The cycle: where it is, the commands still to flush, the POST in flight,   *)
(* `conflicted', fullPullUpPaths, whether it has polled, the scan's bytes,    *)
(* and what a pull has read and observed.                                     *)
Idle == [pc |-> "idle", todo |-> {}, rec |-> NoCommand, answer |-> NoAnswer,
         conflicted |-> FALSE, upPath |-> FALSE, didPoll |-> FALSE,
         scan |-> Absent, file |-> NoFile, seen |-> Untracked, last |-> 0]

(* The cycle holds the mutex but while a pull reads (runFullPullIO,           *)
(* runReservedSyncIO).                                                        *)
MutexFree == cyc.pc \in {"idle", "exporting", "exported", "seeding", "reading",
                         "read"}

fullPullActive == cyc.pc \in {"exporting", "exported"}

(* markFullPullUpPath: an admitted write is newer than a pull in flight.      *)
markFullPullUpPath == [cyc EXCEPT !.upPath = @ \/ fullPullActive]

(* applyRemoteFile asks first whether the path is one of those, whoever       *)
(* calls it.                                                                  *)
applyUnlessUpPath(g, file) ==
    IF fullPullActive /\ cyc.upPath THEN g
    ELSE applyRemoteFile(g, file, cfg.canWrite)

(* A change on disk is followed by a notification when there is a watcher.    *)
SetFile(g) ==
    /\ f' = g
    /\ shown' = shown \union {g.local}
    /\ note' = (note \/ (g.local # f.local /\ ~cfg.poll))

SetFileHandled(g) ==
    /\ f' = g
    /\ shown' = shown \union {g.local}
    /\ note' = (g.local # f.local)

----------------------------------------------------------------------------
(* The server.                                                                *)

Put(body, author) ==
    /\ history' = Append(history, [body |-> body, by |-> author])
    /\ remote' = IF body = Absent THEN NoFile
                 ELSE [rev |-> Len(history) + 1, body |-> body]
    /\ log' = Append(log, [rev |-> Len(history) + 1, body |-> body,
                           kind |-> IF body = Absent THEN "deleted" ELSE "updated"])

(* BulkWrite of one command: a command seen before is answered again, another *)
(* needs the right to write and the revision it was made against.             *)
BulkWriteAnswer(r) ==
    IF ops[r.cmd].rev # 0 THEN [kind |-> "ok", rev |-> ops[r.cmd].rev]
    ELSE IF ~cfg.granted THEN [kind |-> "forbidden", rev |-> 0]
    ELSE IF r.body \in cfg.refused THEN [kind |-> "schema", rev |-> 0]
    ELSE IF r.expected # remote.rev THEN [kind |-> "conflict", rev |-> 0]
    ELSE [kind |-> "ok", rev |-> Len(history) + 1]

BulkWrite(r) ==
    IF BulkWriteAnswer(r).kind = "ok" /\ ops[r.cmd].rev = 0
    THEN /\ Put(r.body, "mount")
         /\ ops' = [ops EXCEPT ![r.cmd] = [rev |-> Len(history) + 1,
                                           status |-> "pending"]]
    ELSE UNCHANGED server

Fault ==
    /\ faults < cfg.faults
    /\ faults' = faults + 1

(* A POST: answered, or lost before or after the server acted.                *)
Post(r, answer) ==
    \/ /\ answer = BulkWriteAnswer(r)
       /\ BulkWrite(r)
       /\ UNCHANGED faults
    \/ /\ answer = [kind |-> "error", rev |-> 0]
       /\ Fault
       /\ (BulkWrite(r) \/ UNCHANGED server)

Answers == [kind : {"ok", "forbidden", "conflict", "error", "schema"},
            rev : 0..MaxRev]

(* DELETE: a missing If-Match is refused before anything else is looked at.   *)
DeleteAnswer(rev) ==
    IF rev = 0 THEN "precondition"
    ELSE IF remote = NoFile THEN "notFound"
    ELSE IF ~cfg.granted THEN "forbidden"
    ELSE IF rev # remote.rev THEN "conflict"
    ELSE "ok"

DeleteFile(rev, answer) ==
    \/ /\ answer = DeleteAnswer(rev)
       /\ IF answer = "ok" THEN Put(Absent, "mount") /\ UNCHANGED ops
                           ELSE UNCHANGED server
       /\ UNCHANGED faults
    \/ /\ answer = "error"
       /\ Fault
       /\ UNCHANGED server

RemoteWrite ==
    /\ writes < cfg.writes
    /\ writes' = writes + 1
    /\ Put({102 + writes}, "other")
    /\ UNCHANGED <<cfg, ops, local, commands, memory, ws, up, cyc, disk, edits,
                   faults, gaps, crashes, ghost>>

RemoteDelete ==
    /\ writes < cfg.writes /\ remote # NoFile
    /\ writes' = writes + 1
    /\ Put(Absent, "other")
    /\ UNCHANGED <<cfg, ops, local, commands, memory, ws, up, cyc, disk, edits,
                   faults, gaps, crashes, ghost>>

(* A change of rights on a hidden path: the feed says only "sync.reconcile".  *)
Reconcile ==
    /\ gaps < cfg.gaps
    /\ gaps' = gaps + 1
    /\ log' = Append(log, [rev |-> 0, body |-> Absent, kind |-> "reconcile"])
    /\ UNCHANGED <<cfg, remote, history, ops, local, commands, memory, ws, up,
                   cyc, disk, edits, writes, faults, crashes, ghost>>

(* The provider settles a command's operation.                                *)
OperationSettles(cmd, status) ==
    /\ ops[cmd].status = "pending"
    /\ IF status = "failed" THEN Fault ELSE UNCHANGED faults
    /\ ops' = [ops EXCEPT ![cmd].status = status]
    /\ UNCHANGED <<cfg, remote, history, log, local, commands, memory, ws, up,
                   cyc, disk, edits, writes, gaps, crashes, ghost>>

----------------------------------------------------------------------------
(* The agent saves a new body or puts an earlier one back, or removes the     *)
(* file.                                                                      *)

InFlight ==
    \/ up # NoUpload
    \/ cyc.rec # NoCommand
    \/ cyc.pc = "scanned"

(* The daemon has an entry or a scan that takes these bytes for settled.      *)
Taken(body) ==
    \/ \E t \in {f.tracked, disk.tracked} : t.known /\ t.hash = body /\ ~t.dirty
    \/ cyc.pc = "missing" /\ cyc.scan = Absent /\ f.tracked.hash = body

EditLocal(body) ==
    /\ edits < cfg.edits /\ body # f.local
    /\ edits' = edits + 1
    /\ f' = [f EXCEPT !.local = body]
    /\ shown' = shown \union {body}
    /\ note' = ~cfg.poll
    /\ lastEdit' = body
    /\ saw' = (body :> shown) @@ saw
    /\ raced' = (InFlight \/ (\E r \in outbox : r.body # body) \/ Taken(body))
    /\ UNCHANGED <<cfg, server, commands, memory, ws, up, cyc, disk, writes,
                   faults, gaps, crashes>>

RemoveLocal ==
    /\ edits < cfg.edits /\ f.local # Absent
    /\ edits' = edits + 1
    /\ f' = [f EXCEPT !.local = Absent]
    /\ note' = ~cfg.poll
    /\ lastEdit' = Absent
    /\ UNCHANGED <<cfg, server, shown, commands, memory, ws, up, cyc, disk,
                   writes, faults, gaps, crashes, saw, raced>>

----------------------------------------------------------------------------
(* The outbox.                                                                *)

HasCommand == \E c \in DOMAIN ops : ops[c].status = "free"

FreeCommand ==
    CHOOSE c \in DOMAIN ops : ops[c].status = "free"

(* ensureOutboxRecord: an identical pending command is used again, any other  *)
(* is superseded.  `g' is the entry before the caller marked it dirty.        *)
ensureOutboxRecord(g, body) ==
    LET same == {r \in outbox : r.body = body}
    IN IF same # {} THEN CHOOSE r \in same : TRUE
       ELSE newOutboxRecord(FreeCommand, g, body, g.tracked.known)

Superseded(r) == {q \in outbox : q.body # r.body}

StoreRecord(r) ==
    /\ outbox' = (outbox \ Superseded(r)) \union {r}
    /\ acked' = acked \union
         {[cmd |-> q.cmd, body |-> q.body, superseded |-> TRUE] : q \in Superseded(r)}
    /\ ops' = [ops EXCEPT ![r.cmd].status = IF @ = "free" THEN "sent" ELSE @]
    /\ UNCHANGED failed

(* saveOutboxRecord writes the pending file whatever has become of it.        *)
saveOutboxRecord(r) == {q \in outbox : q.cmd # r.cmd} \union {r}

ackOutboxRecord(r) ==
    /\ outbox' = {q \in outbox : q.cmd # r.cmd}
    /\ acked' = acked \union {[cmd |-> r.cmd, body |-> r.body, superseded |-> FALSE]}
    /\ UNCHANGED failed

failOutboxRecord(r) ==
    /\ outbox' = {q \in outbox : q.cmd # r.cmd}
    /\ failed' = failed \union {[cmd |-> r.cmd, body |-> r.body]}
    /\ UNCHANGED acked

(* Mutant of retryOutboxRecord: a command whose upload failed is filed as     *)
(* done.                                                                      *)
retryOutboxRecordAcks(r) == ackOutboxRecord(r)

retryOutboxRecord(r) ==
    /\ outbox' = saveOutboxRecord(incrementOutboxAttempt(r, MaxAttempts))
    /\ UNCHANGED <<acked, failed>>

(* handleWriteError for a conflict: our own bytes, a merge by the server, or  *)
(* an artifact.  A merge needs the cached base of the tracked revision, which *)
(* the server checks against what it stored.                                  *)
mergePossible ==
    /\ cfg.merges /\ remote # NoFile
    /\ f.tracked.rev # 0 /\ f.shadow.rev = f.tracked.rev
    /\ history[f.shadow.rev].body = f.shadow.body

handleConflict(r) ==
    \/ /\ writeAlreadyLanded(remote, r.body)
       /\ SetFile(reconcileBulkWrite(f, f.tracked, r.body, remote.rev))
       /\ ackOutboxRecord(r)
       /\ UNCHANGED server
    \/ /\ ~writeAlreadyLanded(remote, r.body) /\ mergePossible
       /\ Put(remote.body \union r.body, "merge") /\ UNCHANGED ops
       /\ SetFile(materializeMerge(f, remote', cfg.canWrite))
       /\ failOutboxRecord(r)
    \/ /\ ~writeAlreadyLanded(remote, r.body)
       /\ SetFile(materializeConflict(f, r.body, remote, cfg.canWrite))
       /\ IF remote = NoFile THEN retryOutboxRecord(r) ELSE failOutboxRecord(r)
       /\ UNCHANGED server

(* applyOutboxChunkResponse for one command.                                  *)
applyOutboxChunkResponse(r, answer) ==
    \/ /\ answer.kind = "error"
       /\ retryOutboxRecord(r)
       /\ UNCHANGED <<server, local>>
    \/ /\ answer.kind = "ok"
       /\ SetFile(reconcileBulkWrite(f, f.tracked, r.body, answer.rev))
       /\ outbox' = saveOutboxRecord([r EXCEPT !.op = TRUE])
       /\ UNCHANGED <<server, acked, failed>>
    \/ /\ answer.kind = "conflict"
       /\ handleConflict(r)
    \/ /\ answer.kind = "schema"
       /\ SetFile(materializeSchemaInvalid(f, r.body, remote, cfg.canWrite))
       /\ failOutboxRecord(r)
       /\ UNCHANGED server
    \/ /\ answer.kind = "forbidden"
       /\ SetFile(IF r.exists THEN revertReadonlyFile(f, remote)
                              ELSE writeDenied(f, r.body))
       /\ failOutboxRecord(r)
       /\ UNCHANGED server

(* recordCloudFailure may open the circuit breaker, recordCloudSuccess closes *)
(* it.                                                                        *)
CloudOutcome(answer) ==
    IF answer.kind = "error" THEN circuit' \in {circuit, TRUE}
                             ELSE circuit' = FALSE

(* applyOutboxOperationResult: the receipt of an accepted command.            *)
applyOutboxOperationResult(r) ==
    \/ /\ ops[r.cmd].status = "pending"
       /\ UNCHANGED <<commands, faults>>
    \/ /\ ops[r.cmd].status = "succeeded"
       /\ ackOutboxRecord(r)
       /\ UNCHANGED faults
    \/ /\ ops[r.cmd].status = "failed"
       /\ failOutboxRecord(r)
       /\ UNCHANGED faults
    \/ /\ Fault
       /\ retryOutboxRecord(r)

(* A receipt worker of scheduleOutboxReceiptSettlements.                      *)
SettleReceipt(r) ==
    /\ MutexFree /\ r.op /\ ops[r.cmd].status # "pending"
    /\ applyOutboxOperationResult(r)
    /\ UNCHANGED <<cfg, server, local, memory, ws, up, cyc, disk, edits, writes,
                   gaps, crashes, ghost>>

----------------------------------------------------------------------------
(* The watcher: HandleLocalChanges for a burst of notifications.              *)

(* pushSingleDelete with the server's answer.                                 *)
DeleteMarked == [f EXCEPT !.tracked.deletePending = TRUE, !.tracked.dirty = FALSE]

pushSingleDelete(answer) ==
    IF answer \in {"ok", "notFound"} THEN [f EXCEPT !.tracked = Untracked]
    ELSE IF answer = "forbidden" THEN
         revertReadonlyFile([f EXCEPT !.tracked.dirty = FALSE,
                                      !.tracked.deletePending = FALSE], remote)
    ELSE IF answer = "conflict" THEN
         applyUnlessUpPath(DeleteMarked, remote)
    ELSE DeleteMarked

(* preparePendingBulkWrite for bytes that need no upload: readonly files,     *)
(* a file the entry already describes, one with an identical pending command, *)
(* one the server already has.                                                *)
pendingIdentical(body) == \E r \in outbox : r.body = body

needsUpload(g, body) ==
    LET t == g.tracked
    IN /\ cfg.canWrite
       /\ ~(t.known /\ ~t.dirty /\ localSnapshotMatchesTracked(body, t))
       /\ ~(t.known /\ t.dirty /\ (pendingIdentical(body) \/ remote.body = body))

preparedWithoutUpload(g, body) ==
    LET t == g.tracked
    IN IF ~cfg.canWrite
       THEN IF t.hash \notin {body, Absent} THEN revertReadonlyFile(g, remote)
            ELSE [g EXCEPT !.tracked.known = TRUE, !.tracked.dirty = FALSE,
                           !.tracked.readOnly = TRUE]
       ELSE IF ~t.dirty
       THEN recordShadowContent([g EXCEPT !.tracked.readOnly = FALSE], body)
       ELSE IF pendingIdentical(body) THEN g
       ELSE [g EXCEPT !.tracked.rev = remote.rev, !.tracked.hash = body,
                      !.tracked.dirty = FALSE, !.tracked.readOnly = FALSE]

(* A missing file.                                                            *)
HandleLocalGone ==
    /\ MutexFree /\ up = NoUpload /\ note /\ f.local = Absent
    /\ \/ /\ ~f.tracked.known
          /\ SetFileHandled(f)
          /\ UNCHANGED <<server, faults, cyc>>
       \/ /\ f.tracked.known /\ (f.tracked.readOnly \/ ~cfg.canWrite)
          /\ SetFileHandled(revertReadonlyFile(f, remote))
          /\ UNCHANGED <<server, faults, cyc>>
       \/ /\ f.tracked.known /\ ~f.tracked.readOnly /\ cfg.canWrite
          /\ \E answer \in {"ok", "notFound", "forbidden", "conflict",
                            "precondition", "error"} :
                /\ DeleteFile(f.tracked.rev, answer)
                /\ SetFileHandled(pushSingleDelete(answer))
                /\ cyc' = IF answer \in {"ok", "notFound"}
                          THEN markFullPullUpPath ELSE cyc
    /\ UNCHANGED <<cfg, commands, memory, ws, up, disk, edits, writes, gaps,
                   crashes, ghost>>

(* A file with nothing to upload.                                             *)
HandleLocalClean ==
    /\ MutexFree /\ up = NoUpload /\ note /\ f.local # Absent
    /\ \/ /\ f.tracked.known /\ f.tracked.readOnly
          /\ SetFileHandled(revertReadonlyFile(f, remote))
       \/ /\ ~(f.tracked.known /\ f.tracked.readOnly)
          /\ ~needsUpload(f, f.local)
          /\ SetFileHandled(preparedWithoutUpload(f, f.local))
    /\ UNCHANGED <<cfg, server, commands, memory, ws, up, cyc, disk, env, ghost>>

(* A file to upload: the entry is marked, and unless the circuit breaker is   *)
(* open the command is stored and its upload begins.                          *)
HandleLocalWrite ==
    /\ MutexFree /\ up = NoUpload /\ note /\ f.local # Absent
    /\ ~(f.tracked.known /\ f.tracked.readOnly)
    /\ needsUpload(f, f.local)
    /\ SetFileHandled(markDirty(f, f.local))
    /\ IF circuit THEN UNCHANGED <<commands, ops, up>>
       ELSE LET r == ensureOutboxRecord(f, f.local)
            IN /\ pendingIdentical(f.local) \/ HasCommand
               /\ StoreRecord(r)
               /\ up' = IF outboxDue(r, MaxAttempts) /\ ~r.op
                        THEN [NoUpload EXCEPT !.rec = r] ELSE NoUpload
    /\ UNCHANGED <<cfg, remote, history, log, memory, ws, cyc, disk, env, ghost>>

WatcherPost ==
    /\ up.rec # NoCommand /\ up.answer = NoAnswer
    /\ \E answer \in Answers :
          /\ Post(up.rec, answer)
          /\ up' = [up EXCEPT !.answer = answer]
    /\ UNCHANGED <<cfg, local, commands, memory, ws, cyc, disk, edits, writes,
                   gaps, crashes, ghost>>

WatcherApply ==
    /\ up.answer # NoAnswer /\ MutexFree
    /\ applyOutboxChunkResponse(up.rec, up.answer)
    /\ CloudOutcome(up.answer)
    /\ up' = NoUpload
    /\ cyc' = IF \/ up.answer.kind = "ok"
                 \/ up.answer.kind = "conflict"
                    /\ writeAlreadyLanded(remote, up.rec.body)
              THEN markFullPullUpPath ELSE cyc
    /\ UNCHANGED <<cfg, cursor, force, drift, ws, disk, env, ghost>>

----------------------------------------------------------------------------
(* The WebSocket loop: events in order from the cursor it connected with.     *)

NextEvent == log[ws.pos + 1]

EventWaits(kind) ==
    /\ ws.on /\ MutexFree /\ ws.got = "none" /\ ws.pos < Len(log)
    /\ NextEvent.kind = kind

(* markWebSocketEventAppliedLocked.                                           *)
EventApplied ==
    /\ ws' = [NoSocket EXCEPT !.on = TRUE, !.pos = ws.pos + 1]
    /\ cursor' = advanceEventCursor(cursor, ws.pos + 1)

connectWebSocket ==
    /\ ~ws.on /\ MutexFree
    /\ ws' = [NoSocket EXCEPT !.on = TRUE,
                              !.pos = IF cursor = 0 THEN Len(log) ELSE cursor]
    /\ UNCHANGED <<cfg, server, local, commands, memory, up, cyc, disk, env,
                   ghost>>

(* A lost connection, or an event that found its file with a local change     *)
(* pending for too long: the event is replayed after the next connect.        *)
handleWebSocketDisconnect ==
    /\ ws.on
    /\ ws' = NoSocket
    /\ UNCHANGED <<cfg, server, local, commands, memory, up, cyc, disk, env,
                   ghost>>

ApplyInlineEvent ==
    /\ EventWaits("updated") /\ ~localMutationPending(f.tracked)
    /\ SetFile(applyUnlessUpPath(f, [rev |-> NextEvent.rev, body |-> NextEvent.body]))
    /\ EventApplied
    /\ UNCHANGED <<cfg, server, commands, force, drift, circuit, up, cyc, disk,
                   env, ghost>>

ReadEventFile ==
    /\ EventWaits("updated") /\ ~localMutationPending(f.tracked)
    /\ ws' = [ws EXCEPT !.got = "file", !.seen = f.tracked, !.file = remote]
    /\ UNCHANGED <<cfg, server, local, commands, memory, up, cyc, disk, env,
                   ghost>>

(* What a read found is dropped when the entry has changed since.             *)
ApplyEventFile ==
    /\ ws.on /\ ws.got = "file" /\ MutexFree /\ ~localMutationPending(f.tracked)
    /\ SetFile(IF f.tracked # ws.seen THEN f
               ELSE IF ws.file = NoFile THEN applyRemoteDelete(f)
               ELSE applyUnlessUpPath(f, ws.file))
    /\ EventApplied
    /\ UNCHANGED <<cfg, server, commands, force, drift, circuit, up, cyc, disk,
                   env, ghost>>

ApplyDeletedEvent ==
    /\ EventWaits("deleted") /\ ~localMutationPending(f.tracked)
    /\ SetFile(applyRemoteDelete(f))
    /\ EventApplied
    /\ UNCHANGED <<cfg, server, commands, force, drift, circuit, up, cyc, disk,
                   env, ghost>>

ApplyReconcileEvent ==
    /\ EventWaits("reconcile")
    /\ force' = TRUE
    /\ EventApplied
    /\ UNCHANGED <<cfg, server, local, commands, drift, circuit, up, cyc, disk,
                   env, ghost>>

----------------------------------------------------------------------------
(* The sync cycle.                                                            *)

(* Mutant of savePrivateState: without PendingFullReconcile.                  *)
savedStateUnforced == [tracked |-> f.tracked, cursor |-> cursor, force |-> FALSE]

(* What savePrivateState writes of this path, cursor and PendingFullReconcile.*)
savedState == [tracked |-> f.tracked, cursor |-> cursor, force |-> force]

(* The end of a cycle, with or without an error, saves the state it leaves    *)
(* (which nothing reads once the bound on crashes is reached).                *)
EndCycle ==
    /\ cyc' = Idle
    /\ disk' = IF crashes < cfg.crashes THEN savedState' ELSE disk

CycleStart ==
    /\ cyc.pc = "idle"
    /\ cyc' = [Idle EXCEPT !.pc = "flush",
                 !.todo = IF circuit THEN {}
                          ELSE {r.cmd : r \in {q \in outbox : outboxDue(q, MaxAttempts)}}]
    /\ UNCHANGED <<cfg, server, local, commands, memory, ws, up, disk, env, ghost>>

Due == {r \in outbox : r.cmd \in cyc.todo}

(* The oldest; a command has one file.                                        *)
FirstDue == {r \in Due : \A q \in Due : r.cmd <= q.cmd}

(* flushDueOutboxRecords, a command with a receipt to settle: a failed        *)
(* operation is an error of the cycle.                                        *)
CycleSettle ==
    /\ cyc.pc = "flush" /\ cyc.rec = NoCommand
    /\ UNCHANGED <<cfg, server, local, memory, ws, up, edits, writes, gaps,
                   crashes, ghost>>
    /\ \E r \in FirstDue :
          /\ r.op
          /\ applyOutboxOperationResult(r)
          /\ IF ops[r.cmd].status = "failed" /\ failed' # failed
             THEN EndCycle
             ELSE /\ cyc' = [cyc EXCEPT !.todo = @ \ {r.cmd}]
                  /\ UNCHANGED disk

CycleSend ==
    /\ cyc.pc = "flush" /\ cyc.rec = NoCommand
    /\ \E r \in FirstDue : ~r.op /\ cyc' = [cyc EXCEPT !.rec = r]
    /\ UNCHANGED <<cfg, server, local, commands, memory, ws, up, disk, env, ghost>>

CyclePost ==
    /\ cyc.rec # NoCommand /\ cyc.answer = NoAnswer
    /\ \E answer \in Answers :
          /\ Post(cyc.rec, answer)
          /\ cyc' = [cyc EXCEPT !.answer = answer]
    /\ UNCHANGED <<cfg, local, commands, memory, ws, up, disk, edits, writes,
                   gaps, crashes, ghost>>

CycleApply ==
    /\ cyc.answer # NoAnswer
    /\ applyOutboxChunkResponse(cyc.rec, cyc.answer)
    /\ CloudOutcome(cyc.answer)
    /\ UNCHANGED <<cfg, cursor, force, drift, ws, up, env, ghost>>
    /\ IF cyc.answer.kind = "error" \/ (cyc.answer.kind = "conflict" /\ remote = NoFile)
       THEN EndCycle
       ELSE /\ cyc' = [cyc EXCEPT
                 !.pc = IF @ = "flush" THEN "flush" ELSE "missing",
                 !.todo = @ \ {cyc.rec.cmd}, !.rec = NoCommand,
                 !.answer = NoAnswer,
                 !.conflicted = @ \/ /\ cyc.answer.kind = "conflict"
                                     /\ f'.artifacts # f.artifacts]
            /\ UNCHANGED disk

CycleFlushed ==
    /\ cyc.pc = "flush" /\ cyc.rec = NoCommand /\ Due = {}
    /\ cyc' = [cyc EXCEPT !.pc = IF force THEN "exporting" ELSE "push",
                          !.didPoll = force]
    /\ UNCHANGED <<cfg, server, local, commands, memory, ws, up, disk, env, ghost>>

(* pushLocal.  After the pass that recovers startup drift only a watcherless  *)
(* mount scans.                                                               *)
CycleScan ==
    /\ cyc.pc = "push"
    /\ cyc' = IF drift \/ cfg.poll
              THEN [cyc EXCEPT !.pc = "scanned", !.scan = f.local,
                               !.conflicted = FALSE]
              ELSE [cyc EXCEPT !.pc = "pull", !.conflicted = FALSE]
    /\ UNCHANGED <<cfg, server, local, commands, memory, ws, up, disk, env, ghost>>

(* What the scan found, with the entry it leads to.                           *)
scanned ==
    LET t == [f.tracked EXCEPT !.missingPolls = 0, !.readOnly = ~cfg.canWrite]
    IN IF t.known /\ cfg.canWrite /\ ~t.dirty /\ t.hash # cyc.scan
       THEN [t EXCEPT !.dirty = TRUE, !.deletePending = FALSE] ELSE t

(* Files the scan leaves alone: not there, readonly, clean, or refused by the *)
(* server before.  A readonly file is put back, but the entry that is stored  *)
(* is the one read before.                                                    *)
scanSettles ==
    \/ cyc.scan = Absent
    \/ scanned.known /\ scanned.readOnly
    \/ scanned.known /\ ~scanned.dirty /\ scanned.hash = cyc.scan
    \/ scanned.known /\ scanned.writeDenied /\ scanned.deniedHash = cyc.scan

afterScan ==
    IF cyc.scan = Absent THEN f
    ELSE IF scanned.readOnly
    THEN [f EXCEPT !.tracked = [scanned EXCEPT !.dirty = FALSE],
                   !.local = IF cyc.scan # f.tracked.hash /\ remote # NoFile
                             THEN remote.body ELSE @]
    ELSE IF scanned.dirty THEN [f EXCEPT !.tracked = scanned]
    ELSE [f EXCEPT !.tracked = scanned,
            !.shadow = IF scanned.rev = 0 \/ @.rev = scanned.rev THEN @
                       ELSE IF f.local = Absent THEN @
                       ELSE [rev |-> scanned.rev, body |-> f.local]]

CycleScanned ==
    /\ cyc.pc = "scanned" /\ scanSettles
    /\ SetFile(afterScan)
    /\ cyc' = [cyc EXCEPT !.pc = "missing"]
    /\ UNCHANGED <<cfg, server, commands, memory, ws, up, disk, env, ghost>>

(* The bytes are read again; a file that has gone meanwhile is an error.      *)
CyclePushGone ==
    /\ cyc.pc = "scanned" /\ ~scanSettles /\ f.local = Absent
    /\ UNCHANGED <<cfg, server, note, shown, commands, memory, ws, up, env, ghost>>
    /\ f' = [f EXCEPT !.tracked = IF @.known THEN scanned ELSE @]
    /\ EndCycle

CyclePush ==
    LET g == [f EXCEPT !.tracked = IF @.known THEN scanned ELSE @]
        r == ensureOutboxRecord(g, f.local)
        sends == outboxDue(r, MaxAttempts) /\ ~r.op
    IN /\ cyc.pc = "scanned" /\ ~scanSettles /\ f.local # Absent
       /\ \/ /\ ~needsUpload(g, f.local)
             /\ SetFile(preparedWithoutUpload(g, f.local))
             /\ cyc' = [cyc EXCEPT !.pc = "missing"]
             /\ UNCHANGED <<commands, ops>>
          \/ /\ needsUpload(g, f.local) /\ circuit
             /\ SetFile(markDirty(g, f.local))
             /\ cyc' = [cyc EXCEPT !.pc = "missing"]
             /\ UNCHANGED <<commands, ops>>
          \/ /\ needsUpload(g, f.local) /\ ~circuit
             /\ pendingIdentical(f.local) \/ HasCommand
             /\ SetFile(markDirty(g, f.local))
             /\ StoreRecord(r)
             /\ cyc' = [cyc EXCEPT !.pc = IF sends THEN "pushing" ELSE "missing",
                                   !.rec = IF sends THEN r ELSE NoCommand]
       /\ UNCHANGED <<cfg, remote, history, log, memory, ws, up, disk, env, ghost>>

(* The pass over tracked files the scan did not find.  A watcherless mount    *)
(* deletes at the second scan, another only what a notification has marked.   *)
CycleMissing ==
    LET t == [f.tracked EXCEPT !.readOnly = ~cfg.canWrite]
        counted == IF cfg.poll /\ ~t.deletePending
                   THEN [t EXCEPT !.missingPolls = @ + 1,
                                  !.deletePending = @ \/ t.missingPolls >= 1,
                                  !.dirty = @ /\ t.missingPolls < 1]
                   ELSE t
        stays == t.denied \/ t.readOnly \/ t.writeDenied
        goes == f.tracked.known /\ ~stays /\ cyc.scan = Absent
        g == [f EXCEPT !.tracked = counted]
    IN /\ cyc.pc = "missing"
       /\ UNCHANGED <<cfg, commands, cursor, force, circuit, ws, up, edits,
                      writes, gaps, crashes, ghost>>
       /\ \/ /\ ~(goes /\ counted.deletePending)
             /\ SetFile(IF ~f.tracked.known \/ (cyc.scan # Absent /\ ~stays) THEN f
                        ELSE IF stays THEN [f EXCEPT !.tracked = t] ELSE g)
             /\ drift' = FALSE
             /\ cyc' = [cyc EXCEPT !.pc = "pull"]
             /\ UNCHANGED <<server, faults, disk>>
          \/ /\ goes /\ counted.deletePending
             /\ \E answer \in {"ok", "notFound", "conflict", "forbidden",
                               "precondition", "error"} :
                   /\ DeleteFile(counted.rev, answer)
                   /\ SetFile(IF answer \in {"ok", "notFound"}
                              THEN [f EXCEPT !.tracked = Untracked]
                              ELSE IF answer = "conflict"
                              THEN applyRemoteFile(
                                     [f EXCEPT !.tracked =
                                        [counted EXCEPT !.deletePending = FALSE,
                                                        !.missingPolls = 0]],
                                     remote, cfg.canWrite)
                              ELSE g)
                   /\ IF answer \in {"forbidden", "precondition", "error"}
                      THEN UNCHANGED drift /\ EndCycle
                      ELSE /\ drift' = FALSE
                           /\ cyc' = [cyc EXCEPT !.pc = "pull"]
                           /\ UNCHANGED disk

(* pullRemote.  With a socket the cycle pulls only when it is told to.        *)
CycleNoPull ==
    /\ cyc.pc = "pull" /\ (cyc.didPoll \/ ws.on)
    /\ UNCHANGED <<cfg, server, local, commands, memory, ws, up, env, ghost>>
    /\ EndCycle

Pulls == cyc.pc = "pull" /\ ~cyc.didPoll

(* Nothing after the cursor: done, or a periodic full pull.                   *)
CycleQuiet ==
    /\ Pulls /\ cursor # 0 /\ ~force /\ cursor = Len(log)
    /\ UNCHANGED <<cfg, server, local, commands, memory, ws, up, env, ghost>>
    /\ \/ EndCycle
       \/ cyc' = [cyc EXCEPT !.pc = "exporting"] /\ UNCHANGED disk

(* The server no longer has the cursor's event: the watermark is dropped and  *)
(* a full pull is owed.                                                       *)
CycleCursorExpired ==
    /\ Pulls /\ cursor # 0 /\ ~force
    /\ gaps < cfg.gaps /\ gaps' = gaps + 1
    /\ cursor' = 0
    /\ force' = TRUE
    /\ cyc' = [cyc EXCEPT !.pc = "exporting"]
    /\ UNCHANGED <<cfg, server, local, commands, drift, circuit, ws, up, disk,
                   edits, writes, faults, crashes, ghost>>

(* The restart fast path: the cursor is set to the tip.                       *)
CycleFastPath ==
    /\ Pulls /\ cursor = 0 /\ ~force /\ f.tracked.known
    /\ UNCHANGED <<cfg, server, local, commands, force, drift, circuit, ws, up,
                   env, ghost>>
    /\ cursor' = Len(log)
    /\ EndCycle

CycleFullPull ==
    /\ Pulls /\ (force \/ (cursor = 0 /\ ~f.tracked.known))
    /\ cyc' = [cyc EXCEPT !.pc = "exporting"]
    /\ UNCHANGED <<cfg, server, local, commands, memory, ws, up, disk, env, ghost>>

(* pullRemoteIncremental: of the events after the cursor the last one of the  *)
(* file counts; a reconcile event among them asks for a full pull.            *)
Missed == {i \in (cursor + 1)..Len(log) : TRUE}

LastOfFile ==
    LET mine == {i \in Missed : log[i].kind # "reconcile"}
    IN IF mine = {} THEN 0 ELSE CHOOSE i \in mine : \A j \in mine : j <= i

AsksReconcile == \E i \in Missed : log[i].kind = "reconcile"

AfterIncremental(tip) ==
    /\ cursor' = advanceEventCursor(cursor, tip)
    /\ IF force' THEN /\ cyc' = [cyc EXCEPT !.pc = "exporting"]
                      /\ UNCHANGED disk
       ELSE EndCycle

(* Events that need no read: a delete, or bytes that are already there.       *)
NeedsRead ==
    /\ LastOfFile # 0 /\ ~cyc.conflicted
    /\ log[LastOfFile].kind = "updated"
    /\ ~canSkipRead(f, log[LastOfFile].body)

CycleIncremental ==
    /\ Pulls /\ cursor # 0 /\ ~force /\ cursor < Len(log) /\ ~NeedsRead
    /\ UNCHANGED <<cfg, server, commands, drift, circuit, ws, up, env, ghost>>
    /\ force' = AsksReconcile
    /\ SetFile(IF LastOfFile = 0 \/ cyc.conflicted THEN f
               ELSE IF log[LastOfFile].kind = "deleted" THEN applyRemoteDelete(f)
               ELSE adoptWithoutRead(f, log[LastOfFile].rev, cfg.canWrite))
    /\ AfterIncremental(Len(log))

CycleIncrementalRead ==
    /\ Pulls /\ cursor # 0 /\ ~force /\ cursor < Len(log) /\ NeedsRead
    /\ force' = AsksReconcile
    /\ cyc' = [cyc EXCEPT !.pc = "reading", !.seen = f.tracked, !.last = Len(log)]
    /\ UNCHANGED <<cfg, server, local, commands, cursor, drift, circuit, ws, up,
                   disk, env, ghost>>

CycleRead ==
    /\ cyc.pc = "reading"
    /\ cyc' = [cyc EXCEPT !.pc = "read", !.file = remote]
    /\ UNCHANGED <<cfg, server, local, commands, memory, ws, up, disk, env, ghost>>

(* Mutant: what was read is applied whatever has happened to the entry.       *)
CycleApplyReadStale ==
    /\ cyc.pc = "read" /\ cyc.file # NoFile
    /\ UNCHANGED <<cfg, server, commands, force, drift, circuit, ws, up, env,
                   ghost>>
    /\ SetFile(applyRemoteFile(f, cyc.file, cfg.canWrite))
    /\ AfterIncremental(cyc.last)

(* A read that came too late is dropped; a file that is not there is waited   *)
(* for with the cursor kept, and in the end taken for deleted.                *)
CycleApplyRead ==
    /\ cyc.pc = "read"
    /\ UNCHANGED <<cfg, server, commands, force, drift, circuit, ws, up, env,
                   ghost>>
    /\ \/ /\ f.tracked # cyc.seen \/ cyc.file # NoFile
          /\ SetFile(IF f.tracked # cyc.seen THEN f
                     ELSE applyRemoteFile(f, cyc.file, cfg.canWrite))
          /\ AfterIncremental(cyc.last)
       \/ /\ f.tracked = cyc.seen /\ cyc.file = NoFile
          /\ SetFile(applyRemoteDelete(f))
          /\ AfterIncremental(cyc.last)
       \/ /\ f.tracked = cyc.seen /\ cyc.file = NoFile
          /\ UNCHANGED <<local, cursor>>
          /\ EndCycle

(* pullRemoteFullExport: the snapshot is read, then applied; an admitted      *)
(* write in between is newer, and an empty snapshot of a mount that tracks    *)
(* a file is not believed.                                                    *)
CycleExport ==
    /\ cyc.pc = "exporting"
    /\ cyc' = [cyc EXCEPT !.pc = "exported", !.file = remote, !.upPath = FALSE]
    /\ UNCHANGED <<cfg, server, local, commands, memory, ws, up, disk, env, ghost>>

snapshotDeleteUnsafe == cyc.file = NoFile /\ f.tracked.known

AfterFullPull ==
    cyc' = [cyc EXCEPT !.pc = IF ~ws.on /\ cursor = 0 THEN "seeding"
                              ELSE IF cyc.didPoll THEN "push" ELSE "pull",
                       !.didPoll = TRUE]

CycleApplyExport ==
    /\ cyc.pc = "exported"
    /\ SetFile(IF cyc.file = NoFile \/ cyc.upPath \/ cyc.conflicted THEN f
               ELSE applyRemoteFile(f, cyc.file, cfg.canWrite))
    /\ force' = (force /\ snapshotDeleteUnsafe)
    /\ AfterFullPull
    /\ UNCHANGED <<cfg, server, commands, cursor, drift, circuit, ws, up, disk,
                   env, ghost>>

CycleSeedCursor ==
    /\ cyc.pc = "seeding"
    /\ cursor' = advanceEventCursor(cursor, Len(log))
    /\ cyc' = [cyc EXCEPT !.pc = "pull"]
    /\ UNCHANGED <<cfg, server, local, commands, force, drift, circuit, ws, up,
                   disk, env, ghost>>

----------------------------------------------------------------------------
(* Saving, the circuit breaker, crash and restart.                            *)

(* savePrivateState: the timers of the watcher and of the WebSocket loop.     *)
savePrivateState ==
    /\ MutexFree /\ disk # savedState /\ crashes < cfg.crashes
    /\ disk' = savedState
    /\ UNCHANGED <<cfg, server, local, commands, memory, ws, up, cyc, env, ghost>>

CircuitCloses ==
    /\ circuit
    /\ circuit' = FALSE
    /\ UNCHANGED <<cfg, server, local, commands, cursor, force, drift, ws, up,
                   cyc, disk, env, ghost>>

(* The process ends at any point; loadState reads what was saved last, and    *)
(* the files of the outbox are as they were.                                  *)
Crash ==
    /\ crashes < cfg.crashes
    /\ crashes' = crashes + 1
    /\ f' = [f EXCEPT !.tracked = disk.tracked]
    /\ cursor' = disk.cursor
    /\ force' = disk.force
    /\ drift' = TRUE
    /\ circuit' = FALSE
    /\ note' = FALSE
    /\ ws' = NoSocket /\ up' = NoUpload /\ cyc' = Idle
    /\ UNCHANGED <<cfg, server, shown, commands, disk, edits, writes, faults,
                   gaps, ghost>>

----------------------------------------------------------------------------

(* A mount with a clean file, or with one that was deleted.                   *)
Init ==
    /\ cfg \in Configs
    /\ \E gone \in BOOLEAN :
          LET created == [rev |-> 1, body |-> {101}, kind |-> "updated"]
              deleted == [rev |-> 2, body |-> Absent, kind |-> "deleted"]
              writer(b) == [body |-> b, by |-> "other"]
          IN /\ remote = IF gone THEN NoFile ELSE [rev |-> 1, body |-> {101}]
             /\ history = IF gone THEN <<writer({101}), writer(Absent)>>
                                  ELSE <<writer({101})>>
             /\ log = IF gone THEN <<created, deleted>> ELSE <<created>>
             /\ f = IF gone THEN NewPath
                    ELSE [NewPath EXCEPT !.local = {101},
                            !.tracked = Clean(1, {101}, cfg.canWrite)]
    /\ ops = [c \in 1..MaxCommands |-> [rev |-> 0, status |-> "free"]]
    /\ outbox = {} /\ acked = {} /\ failed = {}
    /\ note = FALSE
    /\ cursor = Len(log) /\ force = FALSE /\ drift = TRUE /\ circuit = FALSE
    /\ ws = NoSocket /\ up = NoUpload /\ cyc = Idle
    /\ disk = savedState
    /\ edits = 0 /\ writes = 0 /\ faults = 0 /\ gaps = 0 /\ crashes = 0
    /\ lastEdit = Absent
    /\ shown = {f.local}
    /\ saw = (Absent :> {})
    /\ raced = FALSE

Agent ==
    \/ \E body \in {{edits + 1}} \union (shown \ {Absent}) : EditLocal(body)
    \/ RemoveLocal

Server ==
    \/ RemoteWrite \/ RemoteDelete \/ Reconcile
    \/ \E c \in DOMAIN ops, s \in {"succeeded", "failed"} : OperationSettles(c, s)

Watcher ==
    HandleLocalGone \/ HandleLocalClean \/ HandleLocalWrite \/ WatcherPost
    \/ WatcherApply

Socket ==
    connectWebSocket \/ ApplyInlineEvent \/ ReadEventFile \/ ApplyEventFile
    \/ ApplyDeletedEvent \/ ApplyReconcileEvent

Cycle ==
    CycleStart \/ CycleSettle \/ CycleSend \/ CyclePost \/ CycleApply
    \/ CycleFlushed \/ CycleScan \/ CycleScanned \/ CyclePushGone \/ CyclePush
    \/ CycleMissing \/ CycleNoPull \/ CycleQuiet \/ CycleCursorExpired
    \/ CycleFastPath \/ CycleFullPull \/ CycleIncremental
    \/ CycleIncrementalRead \/ CycleRead \/ CycleApplyRead \/ CycleExport
    \/ CycleApplyExport \/ CycleSeedCursor

Next ==
    \/ Agent \/ Server \/ Watcher \/ Socket \/ Cycle
    \/ \E r \in outbox : SettleReceipt(r)
    \/ handleWebSocketDisconnect \/ savePrivateState \/ CircuitCloses \/ Crash

Spec == Init /\ [][Next]_vars

----------------------------------------------------------------------------
(* Properties.                                                                *)

Bodies == SUBSET ((1..MaxActs) \union (101..(101 + MaxActs)))
Revs == 0..MaxRev

(* Type invariant: the entry, the outbox, the cursor and the saved state of   *)
(* the Syncer.                                                                *)
TypeOK ==
    /\ cfg \in Configs
    /\ f.local \in Bodies /\ f.tracked.rev \in Revs /\ f.tracked.hash \in Bodies
    /\ f.shadow.rev \in Revs /\ f.tracked.missingPolls \in 0..3
    /\ \A r \in outbox : r.cmd \in 1..MaxCommands /\ r.attempts \in 0..MaxAttempts
    /\ cursor \in 0..Len(log) /\ disk.cursor \in 0..Len(log)
    /\ note \in BOOLEAN /\ force \in BOOLEAN /\ drift \in BOOLEAN

(* What the agent saved last and has not removed is never lost: it is on disk,*)
(* in a conflict artifact, in a pending or failed command, or the server has  *)
(* taken it.  The exceptions, which `raced' names, are a save over an upload  *)
(* in flight or over a pending command with other bytes, whose answer makes   *)
(* materializeConflict, materializeSchemaInvalid and materializeMerge         *)
(* overwrite the file without a look at it, and a save of bytes that an entry *)
(* takes for settled, which a pull replaces like any clean file.              *)
Holds(body) == lastEdit \subseteq body

LocalWorkKept ==
    (cfg.canWrite /\ cfg.granted /\ lastEdit # Absent /\ ~raced) =>
        \/ Holds(f.local)
        \/ \E a \in f.artifacts : Holds(a)
        \/ \E r \in outbox \union failed : Holds(r.body)
        \/ \E i \in DOMAIN history : Holds(history[i].body)

(* What the author of a saved body could have read before.                    *)
Saw(body) == IF body \in DOMAIN saw THEN saw[body] ELSE {}

SawBefore(i) ==
    history[i - 1].body \in Saw(history[i].body) \union {Absent, history[i].body}

(* "Concurrent changes are detected instead of silently overwritten"          *)
(* (docs/guides/collaboration.md): a write of the mount replaces only a       *)
(* revision its author could have seen.                                       *)
UpdatesDetected ==
    \A i \in 2..Len(history) :
        (history[i].by = "mount" /\ history[i].body # Absent) => SawBefore(i)

(* No change of another client is overwritten unseen: the revision that       *)
(* ensureOutboxRecord puts into a command is never newer than the bytes its   *)
(* author started from, whatever the three threads do in between, as long as  *)
(* the daemon does not crash.  It holds while the socket trails the pulls by  *)
(* one change; MCMountSync's `Trailing' lets it trail by three, and then an   *)
(* answer that comes after an older event joins its revision to older bytes.  *)
NoLostUpdate == crashes = 0 =>
    \A i \in 2..Len(history) :
        (/\ history[i].by = "mount" /\ history[i].body # Absent
         /\ history[i - 1].by = "other") => SawBefore(i)

(* A clean entry describes a revision the server really had: what             *)
(* applyRemoteFile, reconcileBulkWrite and the skipped reads store together   *)
(* belongs together.  (A mount that may not write keeps the hash of a change  *)
(* it could not revert.)                                                      *)
EntryIsServerContent ==
    (/\ cfg.canWrite /\ cfg.granted
     /\ f.tracked.known /\ ~localMutationPending(f.tracked) /\ f.tracked.rev # 0) =>
        history[f.tracked.rev].body = f.tracked.hash

(* A command is acknowledged only after the server has taken it or holds its  *)
(* bytes anyway (applyOutboxChunkResponse, applyOutboxOperationResult).       *)
AckedDelivered ==
    \A a \in acked :
        ~a.superseded => \E i \in DOMAIN history : history[i].body = a.body

(* A reconcile event the saved cursor has passed is owed or done: a crash     *)
(* cannot strand it (PendingFullReconcile), but for the cycle that has itself *)
(* made a full pull, whose clearing of the debt the save records.  A dropped  *)
(* cursor asks for a full pull of everything.                                 *)
ReconcileRemembered ==
    [][(/\ disk.cursor # 0 /\ disk'.cursor > disk.cursor
        /\ \E i \in (disk.cursor + 1)..disk'.cursor : log[i].kind = "reconcile")
       => disk'.force \/ cyc.didPoll]_vars
=============================================================================
