----------------------------- MODULE MountFiles -----------------------------
(* One path of a mount directory as the synchroniser keeps it                *)
(* (internal/mountsync/syncer.go, outbox.go, tombstones.go): the bytes on     *)
(* disk, the entry of the state file, the conflict artifacts and the cached   *)
(* merge base.  Every operator is one function of the code, which runs under  *)
(* the Syncer's mutex; MountSync and MountBootstrap put them in order.        *)
(*                                                                            *)
(* A body is a set of edits: an editor's save is a singleton, a merge of two  *)
(* bodies is their union, and Absent (the empty set) is a missing file.  A    *)
(* hash identifies its body, so it is the body.  Revision 0 is no revision.   *)
EXTENDS Naturals, Sequences, FiniteSets

Absent == {}

NoFile == [rev |-> 0, body |-> Absent]

(* trackedFile: what the state file says of a path.  `known` tells an entry   *)
(* from a missing one; the zero value of a missing one is what the code reads *)
(* from the map.                                                              *)
Untracked ==
    [known |-> FALSE, rev |-> 0, hash |-> Absent, dirty |-> FALSE,
     deletePending |-> FALSE, missingPolls |-> 0, denied |-> FALSE,
     writeDenied |-> FALSE, deniedHash |-> Absent, readOnly |-> FALSE]

Clean(rev, body, canWrite) ==
    [Untracked EXCEPT !.known = TRUE, !.rev = rev, !.hash = body,
                      !.readOnly = ~canWrite]

(* A path: bytes, entry, conflict artifacts (open or resolved), merge base.   *)
NewPath ==
    [local |-> Absent, tracked |-> Untracked, artifacts |-> {},
     shadow |-> NoFile]

localSnapshotMatchesTracked(body, tracked) == tracked.hash = body

localMutationPending(tracked) ==
    tracked.known /\ (tracked.dirty \/ tracked.deletePending)

----------------------------------------------------------------------------
(* Remote state into the directory.                                           *)

(* applyRemoteFile: whether the bytes on disk are work the daemon has not     *)
(* seen, and whether the remote file moved as well.                           *)
localDivergedFromBase(f) ==
    \/ ~f.tracked.known
    \/ f.tracked.hash = Absent
    \/ f.local # f.tracked.hash

remoteDivergedFromBase(f, remote) ==
    \/ ~f.tracked.known
    \/ f.tracked.hash = Absent
    \/ remote.body # f.tracked.hash

unseenLocalWork(f, remote, canWrite) ==
    /\ canWrite
    /\ f.local \notin {Absent, remote.body}
    /\ localDivergedFromBase(f)

(* A conflict that applyRemoteFile settles by an artifact.                    *)
conflictsBeforeApply(f, remote, canWrite) ==
    /\ ~f.tracked.dirty
    /\ unseenLocalWork(f, remote, canWrite)
    /\ remoteDivergedFromBase(f, remote)

(* A deletion candidate of a watcherless mount that is still missing.         *)
awaitsSecondMissingScan(f) == f.tracked.missingPolls > 0 /\ f.local = Absent

(* Mutant of applyRemoteFile: without the artifact of a diverged copy.        *)
applyRemoteFileNoArtifact(f, remote, canWrite) ==
    LET seen == [f.tracked EXCEPT !.known = TRUE, !.readOnly = ~canWrite,
                                  !.denied = FALSE]
    IN IF awaitsSecondMissingScan(f) THEN [f EXCEPT !.tracked = seen]
       ELSE IF f.tracked.dirty
       THEN [f EXCEPT !.tracked = [seen EXCEPT !.missingPolls = 0]]
       ELSE [f EXCEPT !.local = remote.body,
                      !.tracked = Clean(remote.rev, remote.body, canWrite)]

(* Mutant of applyRemoteFile: a dirty file takes over the remote revision.    *)
applyRemoteFileAdoptsRev(f, remote, canWrite) ==
    IF f.tracked.dirty
    THEN [f EXCEPT !.tracked.rev = remote.rev]
    ELSE [f EXCEPT !.local = IF unseenLocalWork(f, remote, canWrite) THEN @
                             ELSE remote.body,
                   !.tracked = Clean(remote.rev, remote.body, canWrite)]

applyRemoteFile(f, remote, canWrite) ==
    LET seen == [f.tracked EXCEPT !.known = TRUE, !.readOnly = ~canWrite,
                                  !.denied = FALSE]
        keep == /\ unseenLocalWork(f, remote, canWrite)
                /\ ~remoteDivergedFromBase(f, remote)
    IN IF awaitsSecondMissingScan(f) THEN [f EXCEPT !.tracked = seen]
       ELSE IF f.tracked.dirty
       THEN [f EXCEPT !.tracked = [seen EXCEPT !.missingPolls = 0]]
       ELSE [f EXCEPT
               !.local = IF keep THEN @ ELSE remote.body,
               !.artifacts = IF conflictsBeforeApply(f, remote, canWrite)
                             THEN @ \union {f.local} ELSE @,
               !.tracked = Clean(remote.rev, remote.body, canWrite)]

(* applyRemoteDelete: the file goes only if it still is what the entry says.  *)
applyRemoteDelete(f) ==
    LET t == f.tracked
    IN IF ~t.known \/ t.dirty \/ t.denied \/ t.writeDenied THEN f
       ELSE [f EXCEPT !.local = IF @ = t.hash THEN Absent ELSE @,
                      !.tracked = Untracked]

markReadDenied(f) ==
    [f EXCEPT !.local = Absent,
              !.tracked = [@ EXCEPT !.known = TRUE, !.denied = TRUE,
                                    !.dirty = FALSE, !.readOnly = FALSE]]

(* revertReadonlyFile: the server's bytes over a local change the scopes do   *)
(* not allow; without a readable remote file only the entry is settled.       *)
revertReadonlyFile(f, remote) ==
    LET t == [f.tracked EXCEPT !.known = TRUE, !.dirty = FALSE,
                               !.denied = FALSE, !.readOnly = TRUE]
    IN IF remote = NoFile THEN [f EXCEPT !.tracked = t]
       ELSE [f EXCEPT !.local = remote.body,
                      !.tracked = [t EXCEPT !.rev = remote.rev,
                                            !.hash = remote.body]]

(* Mutant of canSkipRead: a file that is there is not read again.             *)
canSkipReadByPresence(f, body) == ~f.tracked.dirty /\ f.local # Absent

(* trySkipBootstrapRead, trySkipIncrementalRead: the bytes on disk already    *)
(* are what the listing or the event names.                                   *)
canSkipRead(f, body) ==
    /\ ~(f.tracked.known /\ (f.tracked.dirty \/ f.tracked.denied))
    /\ f.local # Absent
    /\ f.local = body

adoptWithoutRead(f, rev, canWrite) ==
    [f EXCEPT !.tracked = Clean(rev, f.local, canWrite)]

----------------------------------------------------------------------------
(* Local work on its way to the server.                                       *)

(* An outbox command: a file of .relay/outbox.  `expected` is the revision it *)
(* was made against, 0 for create-only; `op` says the server answered with an *)
(* operation whose receipt is still to be settled.                            *)
newOutboxRecord(cmd, f, body, exists) ==
    [cmd |-> cmd, body |-> body, exists |-> exists,
     expected |-> IF exists THEN f.tracked.rev ELSE 0,
     attempts |-> 0, needsAttention |-> FALSE, op |-> FALSE]

incrementOutboxAttempt(r, maxAttempts) ==
    [r EXCEPT !.attempts = @ + 1,
              !.needsAttention = @ \/ r.attempts + 1 >= maxAttempts]

outboxDue(r, maxAttempts) == ~r.needsAttention /\ r.attempts < maxAttempts

(* preparePendingBulkWrite: marks the entry for the snapshot `body`.          *)
markDirty(f, body) ==
    [f EXCEPT !.tracked = [@ EXCEPT
        !.known = TRUE, !.hash = body, !.dirty = TRUE, !.deletePending = FALSE,
        !.denied = FALSE, !.writeDenied = FALSE, !.deniedHash = Absent,
        !.readOnly = FALSE]]

(* recordShadowContent: the merge base of a file confirmed to be clean.       *)
recordShadowContent(f, body) ==
    IF f.tracked.rev = 0 THEN f
    ELSE [f EXCEPT !.shadow = [rev |-> f.tracked.rev, body |-> body]]

(* reconcileBulkWrite: the acknowledgement of an accepted command.  `pending` *)
(* is the entry its caller read before; an entry that has moved to a third    *)
(* revision since is left alone.                                              *)
movedOn(f, pending, rev) ==
    f.tracked.known /\ f.tracked.rev \notin {0, rev, pending.rev}

reconcileBulkWrite(f, pending, body, rev) ==
    IF movedOn(f, pending, rev) THEN f
    ELSE [f EXCEPT !.tracked = Clean(rev, body, TRUE)]

(* handleWriteError, idempotent case: a conflict over our own bytes.          *)
writeAlreadyLanded(remote, body) == remote # NoFile /\ remote.body = body

(* materializeConflict: the uploaded bytes as an artifact, the server's bytes *)
(* on disk; without a readable remote file the entry stays dirty.             *)
materializeConflict(f, body, remote, canWrite) ==
    LET saved == [f EXCEPT !.artifacts = @ \union {body}]
    IN IF remote = NoFile
       THEN [saved EXCEPT !.tracked = [@ EXCEPT !.known = TRUE, !.hash = body,
                                                !.dirty = TRUE]]
       ELSE [saved EXCEPT
               !.local = remote.body,
               !.tracked = Clean(remote.rev, remote.body, canWrite)]

(* materializeSchemaInvalid: the same for a body the adapter's schema         *)
(* rejects, but a file the server does not have is given up.                  *)
materializeSchemaInvalid(f, body, remote, canWrite) ==
    LET saved == [f EXCEPT !.artifacts = @ \union {body}]
    IN IF remote = NoFile
       THEN [saved EXCEPT !.local = Absent, !.tracked = Untracked]
       ELSE [saved EXCEPT
               !.local = remote.body,
               !.tracked = Clean(remote.rev, remote.body, canWrite)]

(* attemptMountRolloutMerge after the server has merged: its result on disk.  *)
materializeMerge(f, remote, canWrite) ==
    [f EXCEPT !.local = remote.body,
              !.tracked = [@ EXCEPT !.known = TRUE, !.rev = remote.rev,
                                    !.hash = remote.body, !.dirty = FALSE,
                                    !.readOnly = ~canWrite],
              !.shadow = remote]

(* A create the server forbids: the file stays, and is not pushed again.      *)
writeDenied(f, body) ==
    [f EXCEPT !.tracked = [Untracked EXCEPT
        !.known = TRUE, !.hash = body, !.writeDenied = TRUE,
        !.deniedHash = body]]

----------------------------------------------------------------------------
(* Snapshot deletes and the feed's cursor.                                    *)

revisionAdvances(last, observed) == observed # 0 /\ observed > last

(* observePendingDelete: a path is deleted at its second observation.         *)
observePendingDelete(attempts) == attempts + 1

(* Mutants of deleteConfirmed: at the first observation, at the third.        *)
deleteConfirmedAtFirst(attempts) == attempts + 1 >= 1

deleteConfirmedAtThird(attempts) == attempts + 1 >= 3

deleteConfirmed(attempts) == attempts + 1 >= 2

(* Mutant of advanceEventCursor: the cursor of the event after.               *)
advanceEventCursorPast(current, candidate) == candidate + 1

advanceEventCursor(current, candidate) ==
    IF candidate = 0 THEN current
    ELSE IF candidate < current THEN current ELSE candidate
=============================================================================
