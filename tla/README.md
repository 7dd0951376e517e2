# A verification project for relayfile

relayfile is a file system for agents: a Go server keeps workspaces of files,
providers (GitHub, Notion, Linear, ...) are projected into them by webhooks,
agents edit the files, and every edit is written back to the provider.  A mount
keeps a local directory and a workspace the same, clients follow a workspace
through an event feed, and a live session can be handed from one host to
another.  This directory holds TLA+ models of these parts, configurations that
check them with TLC, and theorems checked by TLAPS.

Paths below are relative to the repository; `store.go` is
`internal/relayfile/store.go`, `syncer.go` is `internal/mountsync/syncer.go`.
`PROJECT.json` lists, machine-readably, the components, the runs, the lines
each definition models, the hazards the properties are aimed at, and the
theorems.

## 1. Inventory

### 1.1 The server

| Component | State | Operations | Hard behaviour |
|---|---|---|---|
| Workspace files (`store.go`) | `ws.Files`, `ws.Revision`, `s.revCounter`, `ws.Events` | WriteFile, DeleteFile, BulkWrite, If-Match checks | loops that change memory before the one save; a crash inside them; one revision counter for all workspaces |
| Forks (`store.go`) | `s.forks` with overlays and base revisions, two proposal indexes, expiry timers | CreateFork, WriteForkFile, DeleteForkFile, BulkWriteFork, RebaseFork, CommitFork, DiscardFork, expiry | commit against a tree that has moved on; timers armed outside the mutex; restart |
| Writeback (`store.go`, `delete_storm.go`, `file_queue.go`) | `ws.Ops`, the queue, `queuedWritebacks`, retry timers, breaker admissions | recordWrite, enqueue, worker steps, HTTP ack, replay, boot re-enqueue, quarantine | the provider is called outside the mutex; acks, replays, retries and restarts race the workers; the queue is bounded |
| Webhook ingress (`store.go`, `adapters.go`) | envelopes, delivery and coalesce indexes, attempts, dead letters, watermarks | IngestEnvelope, processEnvelope, retry, replay, acknowledge, prune | duplicates, reordering, coalescing into an envelope whose fate is not settled, a full queue |
| Provider projection, drafts (`store.go`, `draft_reconcile.go`) | `ws.Files`, `ws.ProviderIndex`, watermarks | upsert, delete, move, draft rename and removal after an ack, sweep | identity by object id against location by path; stale index entries; name collisions |
| Event feed (`store.go`, `internal/httpapi/websocket.go`) | `ws.Events`, subscriptions with a bounded channel and an overflow latch | append, publish, subscribe, catch-up by cursor, live loop | catch-up overlapping live delivery; overflow; publication before the save |
| MergeFile (`merge*.go`) | provenance of the merges done | read, merge outside the mutex, compare and swap, content identity | racing merges; a repeat of a merge that was done; repeated lines |
| Checkpoint seals (`checkpoint_seal.go`) | one record per seal: token, consumer, handback, resume | issue, consume, recover, verify, hand back, resume, reconcile, purge | two owners of one root; expiry against a late consumer |
| HTTP API (`internal/httpapi/server.go`, `github_tarball.go`) | import jobs, rate-limit buckets | listings, exports, bulk requests, conditional writes, tarball imports | several store operations per request with nothing held in between |
| Authentication and ACL (`auth.go`, `acl.go`) | cached key sets | key lookup, scopes, permission rules | concurrent fetches of a key set; rules that change during a request |

An HTTP handler calls a store method; the method runs under `s.mu`, changes the
maps, appends and publishes events, saves one snapshot of the whole store
(`saveLocked`), releases the mutex, and only then queues the writeback tasks it
recorded.  Workers take tasks from a queue that is in memory or in a file of
its own, call the provider or the parser without the mutex, and come back under
it to record the outcome.  Subscribers get events through a channel while the
writer still holds the mutex.

### 1.2 The clients

| Component | State | Operations | Hard behaviour |
|---|---|---|---|
| TypeScript sync client (`packages/sdk/typescript/src/sync.ts`) | cursor, connection state, seen ids, poll state | connect, receive, reconnect, poll, resume | hand-over between WebSocket and polling |
| Mount synchroniser (`internal/mountsync`) | state file (tracked entries, cursors, checkpoints), outbox, tombstones, circuit | watcher uploads, scan, outbox flush, pulls, bootstrap, audit, export, event pages | three threads that give up one mutex during requests; local edits against remote events; crashes between file and state; listings that are not what they seem |
| Mount processes (`cmd/relayfile-cli/main.go`, `cmd/relayfile-mount`, `internal/mountlease`) | start lock, lease, pid file, flush acknowledgement | start, background, daemon, stop, notify-flush | processes that meet in files only and die anywhere |
| Mount loop (`cmd/relayfile-cli/main.go`) | credential, degraded state, watcher | cycles, callbacks, renewal, recovery | an edit between the watcher and the scan |
| Credentials (`delegatedauth.go`, `cloudauth.go`) | two shared files with refresh tokens that are accepted once | renew, mint again, rotate, revoke | several programs and a lock that is reclaimed |
| `--once` (`cmd/relayfile-mount/main.go`) | checkpoints of several scopes | bootstrap in parallel, judge, exit code | yields, cancellations and failures reported in one number |
| Workspace catalog (`cmd/relayfile-cli/main.go`) | `workspaces.json`, links of views | view add and remove, mount, rehome, delete | load, change and save without a lock |
| Checkpoint lifecycle (`cmd/relayfile-cli/checkpoint_lifecycle.go`) | lifecycle files of source and destination | seal, verify, hand back, resume | every command may be killed between two steps and run again |
| FUSE mount (`internal/mountfuse`) | file and directory cache, handles with buffers | lookup, open, write, flush, create, unlink, invalidation | requests that overlap; a fill racing an invalidation |
| Other (`packages/core`, `packages/durable-actors`, `packages/local-mount`, SDK wrappers, server command) | | | see section 7 |

### 1.3 What makes each part correct

* Forks: a commit changes only what its author saw, all of it or nothing.
* Writeback: no operation is forgotten, none is called twice at once, every one
  ends, quarantined deletes stay quarantined, the provider converges.
* Ingress: what was accepted is kept and applied once; late deliveries do not
  undo newer ones; every envelope is settled.
* Projection: one file per object, found by the index; no object takes
  another's file.
* Feed: a client sees every event it asked for in the end and skips none, but
  where polling passes them (section 5).
* Merge: accepted edits are all in the file, once.
* Requests: a withdrawn key is not trusted for long; rules that deny are
  respected whatever changes during the request; a head is fetched once.
* Mount: nothing the agent saved is lost, nothing unseen is overwritten, no
  single bad listing deletes a file, failures and crashes hide no event,
  "complete" is complete.
* Handover: there is one writer, and the source comes back.
* Commands: one supervisor per directory; an acknowledged flush is a barrier;
  no edit is missed; refresh tokens are not spent twice; the exit code and the
  views tell the truth.
* FUSE: a clean handle is a saved one.

## 2. Modules

| Module | Models | Composition |
|---|---|---|
| `ForkTransactions` | abstract specification: a fork is an optimistic transaction | |
| `WorkspaceForks` | live tree, forks, expiry, snapshot and crash | implements `ForkTransactions` |
| `WorkspaceForksProofs` | theorems about `WorkspaceForks` | extends it |
| `Writeback` | operations, queue, workers, acks, replays, breaker, boot | |
| `WritebackProofs` | theorems about `Writeback` | extends it |
| `Envelopes` | ingress from the HTTP request to the projection | |
| `EnvelopesProofs` | theorems about `Envelopes` | extends it |
| `ProviderProjection` | what one delivery, ack or sweep does to files and index | details what `Envelopes` and `Writeback` abstract |
| `EventFeed` | log, publication, WebSocket handler | |
| `SyncClient` | `RelayFileSync` | extends `EventFeed` |
| `FeedProofs` | theorems about `ProviderProjection`, `EventFeed` and `SyncClient` | extends them |
| `MergeAlgorithms` | the line merge and the Go merge as operators | |
| `MergeFile` | racing editors of one file | extends `MergeAlgorithms` |
| `ApiGate` | key sets, token lifetime, rate limiter | |
| `AccessControl` | scopes and permission rules as operators | |
| `HttpApi` | the file handlers, store operation by store operation | extends `AccessControl` |
| `GithubImport` | tarball jobs | |
| `Server` | the four parts above, one at a time | extends them |
| `ServerProofs` | theorems about `ApiGate`, `HttpApi` and `GithubImport` | extends `Server` |
| `MountFiles` | one path as the synchroniser keeps it, as operators | |
| `MountSync` | watcher, WebSocket loop and cycle over one file | extends `MountFiles` |
| `MountSyncProofs` | theorems about `MountSync` | extends it |
| `MountBootstrap` | bootstrap, audits and event pages over a tree | extends `MountFiles` |
| `CheckpointSeals` | the server's operations on seals, as functions of the record | |
| `CheckpointHandover` | the commands on source and destinations | extends `CheckpointSeals` |
| `CheckpointProofs` | theorem about `CheckpointHandover` | extends it |
| `MountSupervisors` | start, stop and flush requests of the mount processes | |
| `MountLoop` | timer cycles, watcher callback, degraded state | abstracts `MountSync` to what a step looks at |
| `Credentials` | the two shared credential files | |
| `MountOnce` | `--once` over several scopes | abstracts `MountBootstrap` to how a cycle ended |
| `WorkspaceCatalog` | the workspace record and its views | |
| `FuseMount` | handles, caches and requests at one file | |
| `MountCommands` | the six parts above, one at a time | extends them |
| `MountCommandsProofs` | theorems about the six parts of `MountCommands` | extends it |
| `MC*` | model values, scenarios, symmetry and constant functions for TLC | |

Conventions.  A block between Lock and Unlock is one action; where a method
releases the mutex (`enqueueWriteback`, the provider call, the parser, timer
callbacks, an upload) the model takes several.  Definitions carry the names of
the code.  `disk` is the last saved state; a crash or restart replaces memory
by it.  Variables marked "history" or "ghost" exist only for the properties.  A
definition named after another with a suffix that describes a slip
(`EntryUnmovedUnlessNew`, `FlushedWhole`), placed before it and used by
nothing, is a wrong version of it: put in its place it makes a named property
fail.  Some modules take a constant set of scenarios (`Configs`, `Setups`,
`Uses`, `Situations`) and choose one in `Init`; it says what may go wrong in a
behaviour and how often, so that one run covers many small instances.

**WorkspaceForks.**  `files`, `wsRevision`, `revCounter`, `events`, `forks`,
the two indexes and `forkTimers` are the maps of `Store`.  BulkWrite,
BulkWriteFork and CommitFork take one action per iteration while `lock` holds
the mutex, because the memory changes at every iteration and a crash inside the
loop loses all of it.  A fork's overlay entry has the base revision the code
pins and, as history, the file its author was looking at (`seen`).  Deadlines
pass at any time (`ExpiresAtPasses`); a timer is armed by a separate action
after CreateFork has released the mutex, as `scheduleForkExpiry` is.

**Writeback.**  A worker goes through dequeue, mark, capture (step 1), provider
call (step 2), outcome (step 3) and save.  `queue`, `queued` and `blocked` are
the bounded queue, `queuedWritebacks` and the goroutines inside `Enqueue`.
Constants choose the file or the in-memory queue, the batch worker of the no-op
provider, ExternalWritebackMode, the breaker's threshold, and operations that
an older binary left running.

**Envelopes.**  IngestEnvelope has its three ends (duplicate, merged into an
open envelope of the object, stored) and, for the last, the attempt to queue
and the rollback as separate actions, because the mutex is released between
them.  processEnvelope has its two blocks with the parse in between.  Every
stored envelope has an id of its own: a sender that gives one (the internal
endpoint hands the request over as it came, `server.go:505`) is taken to choose
an unused one, for the code overwrites the stored envelope of that id
(`store.go:3657`).

**ProviderProjection.**  One action per delivered action, agent write, agent
delete, ack and sweep; each is one block under the mutex.  `view` is what a
reader of the feed believes each path to hold; `newest` and `disturbed` are
history for the convergence property.

**EventFeed, SyncClient.**  An event has an id, and as history a serial that
tells apart two events with the same id.  A writer holds the mutex from append
and publish to the save.  The handler reads pages, sends them, then takes live
events from a channel of bounded size.  The client runs one callback per
action; heartbeats and back-off are abstracted to "a connection may be lost".
`pollLoop` is one request that is answered, `pollFails` one that fails: what the
poll had read is let go (`dropped`) while its ids stay in `polledEventOrder`,
whose oldest id goes at POLLING_DEDUPE_CACHE_LIMIT.  Handlers are taken not to
throw.

**MergeAlgorithms, MergeFile.**  A text is a sequence of lines.  The alignment
is the code's longest common subsequence with its tie-breaking, the merge walks
the stable runs; the Go merge works on a prologue and keyed functions.
MergeFile's loop reads under the read lock, merges, and commits under the write
lock up to the code's number of attempts; an identical request is recognised by
its content identity or by the provenance of the merge it asked for.

**ApiGate, AccessControl, HttpApi, GithubImport.**  A request's time is taken
when it arrives, the key set is fetched without a lock and stored with that
time.  A path pattern is the set of paths it matches; a rule is an effect, a
kind and a value.  A handler is a little program over the store: each action is
one store operation and everything the handler computes up to the next one.  A
tarball job lives in the registry and in its goroutine, which goes on with its
object when the registry forgets it.

**MountFiles, MountSync, MountBootstrap.**  A body is a set of edits, so that a
merge is a union and a property can ask which edit is where.  The operators of
`MountFiles` are the functions of `syncer.go`, `outbox.go` and `tombstones.go`
on one path: what is on disk, the tracked entry, conflict artifacts, the shadow
base, the pending command.  `MountSync` runs them in three threads with a
program counter for the cycle and one for the upload; the server is what the
daemon sees of the store.  `MountBootstrap` has three files in two directories,
the checkpoint (cursor, directories, page offset), tombstones, the export path
and the incremental pages, and every limit of the code as a field of the
scenario.  `settled` and `ApplyTo` are what `applyRemoteFile` leaves in the state
for its callers, the tree, the export and the feed: the file written, or set
aside when the directory refuses it.  Four variables are history: `mirrored` is the end
of the log when the last pull that went through began, `seeded` the events from
there to the cursor it seeded, `untrue` the files whose tombstone comes from an
untrue listing, `gone` what the server has deleted.

**CheckpointSeals, CheckpointHandover.**  A server operation is a function from
a record to an outcome and a record, with the code's errors by name.  The
commands are programs with a lifecycle file on each host; a fault is a kill, a
timeout or a lost answer at any step, and the controller runs the command again
as its documentation asks.

**MountSupervisors, MountLoop, Credentials, MountOnce, WorkspaceCatalog.**  A
step is one access to one shared file, or one request.  A process may die
between two.  `MountLoop` keeps for every edit whether the watcher holds it,
whether a scan or a callback has pushed it, and whether its batch was let go.

**FuseMount.**  One file in one directory.  A request is a record that says
where it is; reading and listing have the answer and its storing in the cache
as separate steps.  The HTTP client repeats a request whose answer was lost.

## 3. Runs

All bounds are constants of the configurations.  Deadlock checking is off where
a bound (operations, deliveries, events) lets the instance finish; `forks`
keeps it on.

| Run | Checks | Shows |
|---|---|---|
| `forks` | ForkIndexesAgree, CommitsOnlyOverSeen, ImplementsTransactions, ForksExpire | One fork over two paths against live writes, deletes and bulk writes with a crash in every loop; two workspaces with forks of the same and of different proposals, late timers and restarts. |
| `writeback` | ProviderConverges, OperationsSettle, QuarantineHolds | One worker on a durable queue of capacity one with failures, a replay, a crash, and operations an older binary left running, quarantined by the first boot or a later one. |
| `writeback_workers` | NothingLost, ExclusiveAttempts | Two workers, acks, replays, retries, a full queue, bursts, the breaker and restarts. |
| `ingress` | HandledReflected, AppliedOnce, AcceptedKept | Three deliveries of an object in any order, repeated, with two workers, an echo, a failing parse, pruning and a crash. |
| `ingress_queue` | EnvelopesSettle | A queue of capacity one, one provider slot for two workers, and a replay. |
| `projection` | ProjectionCurrent, IndexedProjection, IdentityRespected | Two objects whose names collide, deliveries in any order, agents, acks and sweeps. |
| `sync_client` | NothingSkipped, CatchesUp | Overflow, lost connections, polling and back, failing poll requests, a clean restart. |
| `mount_sync` | LocalWorkKept, NoLostUpdate, AckedDelivered, ReconcileRemembered | Twelve scenarios of one file: lost answers, merges, refused and forbidden writes, reconcile events with crashes, two saves, scanning mounts. |
| `mount_bootstrap` | PassedEventsApplied, BootstrapMirrors, OnlyRealDeletes, BootstrapEnds | Eleven scenarios of a tree: budgets, checkpoints, crashes, denied files, raised limits, sockets, exports, up to two truncated or empty listings in a row. |
| `checkpoint` | OneWriter, SourceReturns | Two handovers with two faults anywhere, contending destinations, stray writes, foreign events, delayed requests. |
| `server` | EditsSurvive, LineMergeSound, KeyTrustBounded, RulesRespected, OneFetchPerHead | Merges of three editors; the line merge on all texts of up to three lines over two words; key rotations; handlers while others change files and rules; overlapping imports. |
| `mount_commands` | OneSupervisor, FlushBarrier, NothingMissed, SessionNeverSpent, ExitCodeTruthful, ViewsFollowMirror, HandlesTruthful | The six parts of `MountCommands`. |

Further invariants are defined in the modules and hold on the same instances
when they are added to the configuration: the `TypeOK` of every module that has
one, `EventsMirrorTree` and `RevisionsOrdered` (forks), `AttemptsBounded`
(writeback), `NothingStranded` and `ProcessingMarked` (ingress, ingress_queue),
`DeadLettersReplayable` (ingress), `ViewMirrorsFiles` (projection),
`EmittedInOrder` (sync_client), `EntryIsServerContent` (mount_sync),
`NothingStranded` and `TurnsKept`
(checkpoint), `AnswersComplete` (server), `RotationKept` (mount_commands).

Why the bounds are enough to be interesting.

* `forks`: two paths make commits and bulk writes loops with a crash between
  two iterations; three revisions allow a write before the fork, one after it
  and a commit.  In the other scope two workspaces and two proposals: one is
  what the shared index needs, the second lets a fork be due while another
  still holds its proposal.
* Writeback: two operations on one path are a retry against a later write; the
  capacity of one makes the second sender wait; two attempts are one retry; one
  crash can fall at every point.  Two restarts are the least that show a later boot
  leaving a quarantined operation alone.  What `writeback` quarantines are
  operations found running for too long; its threshold is off.  The threshold of
  one in `writeback_workers` is the breaker's, over two operations of one path:
  no burst of deletes is quarantined there.  A burst needs two paths with a
  delete each, which does not end in five minutes; `QuarantineKeeps` proves the
  property for every threshold.
* Ingress: three deliveries in at most two envelopes are one applied, one
  merged and one late; a store of one envelope makes pruning happen at once,
  and one replay meets one crash.
* Projection: two paths and two objects with one list of fallback names make
  every collision; two times give older, equal and newer deliveries; one
  operation is a draft and its ack.  The theorems lift these bounds.
* Feed: a channel, a page and a wire of one event make overflow, paging and
  blocking happen with four events, a poll request of one event and a dedupe
  cache of two make a failure between two pages and an id that is forgotten, and
  two losses are a failed WebSocket and a failed poll.  Events are wanted or
  hidden from the subscriber; the third kind, outside the
  subscription's path filters, is left to the theorem, as the run would not end
  in time with it.
* Mount: one save by the agent against one change by another client, or two
  saves, are the least that conflict; every kind of trouble is let in by a
  scenario of its own.  Three files in a page of two and a directory make pages
  that end inside, checkpoints between directories and a cycle that stops in a
  page.
* Handover: two generations are a second handover after the first; two faults
  are a failure of the recovery of a failure.
* Server: three editors make a merge lose its compare and swap to a second one
  and meet a third; two keys, a cache of one tick and a grace of one are a
  rotation during an outage; pages of two over four files end inside the
  directory whose marker carries the rules.
* Mount commands: five processes are two launchers with their children and a
  third contender; four tokens are two rotations of each of two programs; two
  scopes with two checkpoints are one that yields beside one that ends; two
  views and four commands are an addition beside a move.  FUSE: two requests at
  a time of three, two handles, one write into a buffer and three revisions are
  a flush that loses its answer, another writer and a third version.  The
  kernel's requests are mixed in the combinations of `MCUses`.

Fairness.  `ForksExpire`: handlers leave their loops, deadlines pass, and the
Go runtime runs a due timer callback; strong fairness for arming and firing
because the mutex is taken and released by others in between.
`OperationsSettle`, `EnvelopesSettle`: goroutines, timers and workers go on
(weak), and a sender blocked on a full queue, or a worker waiting for a
provider slot, gets its turn (strong: Go channels serve waiters in order).  A
provider call or parse returns; nothing is assumed about its result.
`CatchesUp`: the writer leaves its critical section, the handler takes what its
select offers, the client reconnects, and a poll loop ends when the WebSocket
is due again.  `BootstrapEnds`: the daemon's loop runs a cycle at every
interval (weak).  `SourceReturns`: daemons synchronise and stop, a command that
runs goes on, and the controller repeats what was not answered, hands back and
resumes in the end.  No fairness is assumed for writers, deliveries, acks,
replays, agents, losses, kills or crashes.

## 4. Theorems

The theorems hold for every set of workspaces, paths, values, forks, objects,
operations, workers, processes, users, scopes, views, handles and requests, and
for every bound.  The assumptions on constants are the named `ASSUME`s of the
modules: a stand-in for "none" is none of the real values, and a bound is a
number.  Some theorems have a hypothesis of their own, given below; without it
the property does not hold, and section 5 says so.

Each invariant was strengthened until it was inductive; the strengthened
invariant was first checked by TLC on the run's instance.  Every step proof has
one part per action.  For `Server` and `MountCommands`, whose parts take turns
in one specification, the invariant of a part is kept by its own actions and
untouched by the others.

**WorkspaceForksProofs.**

* `TypeCorrect`: `Spec => []TypeOK`.  The inductive invariant is
  `TypeInv == TypeOK /\ LockOwnsFork`: a handler inside a loop over a fork
  works on a fork that is there, and a commit has only touched paths ahead.
* `CommitSafe`: with no fork from an older binary (`LegacyForks = {}`), `Spec =>
  CommitsOnlyOverSeen`.  `CommitsOnlyOverSeen` is not inductive: whether the
  base revision of an entry identifies the file its author saw depends on
  revisions never being used twice, also on disk.  `SeenInv` adds to `TypeInv`
  that in memory and in the snapshot every revision is at most the counter and
  every entry whose base equals the live revision has seen the live file
  (`MemoryOK`, `DiskOK`), and that a commit in progress has, for the paths
  still ahead of it, entries whose file has not moved (`CommitAhead`).  A live
  mutation takes a fresh revision (`MutateOK`), so it can only move a path away
  from a base.
* `IndexesAgree`: `Spec => []ForkIndexesAgree`.  A restart rebuilds the indexes
  from the snapshot, so `IndexInv` adds that the snapshot has one fork per
  proposal (`OneForkPerProposal(disk.forks)`) and that ids of forks are used
  once (`ForksUsed`).
* `Refinement`: with `LegacyForks = {}`, `Spec => ImplementsTransactions`: the
  store implements `ForkTransactions` over its snapshot.  `RefInv` is `SeenInv`,
  `IndexInv` and `TxnInv`; the last says how far memory may be ahead of the
  snapshot inside a loop: only in the workspace the loop is changing, each path
  either untouched or as the commit leaves it (`CommitProgress`), and overlays
  only by entries that saw the snapshot's tree (`OverlaysFollow`).  Every save
  is then one abstract step, and every other step is a stutter or an abort.

**WritebackProofs.**

* `TypeCorrect`: `TypeOK`, and `Recorded`: every task in a queue, a timer, a
  blocked sender or a worker's burst names an operation that is in memory and
  on disk.
* `TasksKept`: `Spec => []NothingLost`.  `TaskInv` adds that an operation has at
  most one task between enqueueWriteback and markWritebackDequeued (`OneTask`),
  that `queuedWritebacks` is exactly these (`QueuedExact`), and that every
  pending operation is carried somewhere (`ArmedCarried`).  Without the first
  two, a second enqueue could be swallowed by a mark that nobody takes back.
* `QuarantineKeeps`: `Spec => QuarantineHolds`.  A quarantine is on disk as it is
  in memory and no worker is at a quarantined operation (`QuarantineKnown`).
* `OneAttempt`: with `FileQueue = FALSE`, `Spec => []ExclusiveAttempts`.
  `OneCarrier`: an operation that nobody acknowledged is in one place only and
  is armed, in memory and on disk, while it is anywhere.  On the file queue a
  task is loaded again after a restart beside the one the boot scan enqueues.
* `ProviderAlwaysConverges`: with one worker, and without the batches of the
  no-op provider, `Spec => []ProviderConverges`.  `ConvergeInv`: a path that was
  only ever written has its file, and what the provider holds, or a call under
  way carries, is the file's content or an operation other than the one called
  is still open.  A worker reads the file when it calls, not when the operation
  was recorded, so an old operation that is retried last carries the newest
  content; an operation recorded during a call stays open beyond it.

**EnvelopesProofs.**

* `Reflected`: `Spec => []HandledReflected`.  `EnvInv`: what is on disk is what is
  in memory but for the count of attempts (`DiskAgrees`); an envelope stands for
  deliveries of its payload's object that are no newer than it (`EnvelopeFits`);
  a worker that parses is alone at its envelope and parses the payload it still
  has (`ParseFits`), because a merge passes over envelopes being processed; ids
  of envelopes are used once (`IdsUsed`).  The projection then moves with the
  watermark, and the watermark only up.
* `AppliedAtMostOnce`: `Spec => []AppliedOnce`.  `OnceInv`: a delivery that nobody
  replayed and no pruning forgot is indexed exactly where it is held; once
  applied it stays indexed, in an envelope that is processed or gone; and while
  the call that created an envelope runs, nobody carries it, so the rollback of
  a refused call forgets a delivery that was never applied.
* `AcceptedIsKept`: `Spec /\ [](refused = {}) => []AcceptedKept`, over the
  behaviours in which no call meets a full queue.  `KeptInv`: whatever is
  answered, indexed or about to be queued is held or dealt with, and what a
  processed envelope stands for was dealt with, so pruning loses nothing.

**FeedProofs.**

* `TypeCorrect`: from any files and any index.  The content is that a delivery
  resolves to a path or to none (`TargetIsPath`), through the least free
  fallback (`LeastOf`, by well-foundedness of the naturals).
* `ProjectionIndexed`: without legacy state, `Spec => []IndexedProjection`.
  The property is inductive with the types: an upsert removes the file the
  index names and `IndexedProjection` says there is no other; a draft is
  renamed only if the index names nothing, the draft or a path without a file.
* `FeedMirrorsFiles`: `Spec => []ViewMirrorsFiles`, from any start.
* `DeliveriesRespectIdentity`: `Spec => IdentityRespected`, from any start,
  duplicates and wrong index entries included: a pathless upsert resolves to a
  file of the object or to a free path, a delete by object id to a file of the
  object.
* `NewestDeliveryStands`: without legacy state, `Spec => []ProjectionCurrent`.
  `WatermarksTell`: the watermark of an object, in its index entry or its file,
  is the time of its newest delivery, so an older one is recognised wherever it
  arrives; `IndexedProjection` says that a newer one finds the file it replaces.
* `FeedTypesHold`: `SyncSpec => []SyncTypeOK`, the bounds of the stream.
* `NothingEverSkipped`: with `CleanStops`, `SyncSpec => []NothingSkipped`.
  `FlowInv` takes what is on the wire, what the handler collected in catch-up and
  what the subscription holds as one queue, of which some events are to be
  delivered (`Pipe`, `Coming`).  `DueInv`: an event the client is owed is after
  its cursor; once the handler has caught up the event comes in its turn, with
  only older ones before it; and when the subscription has overflowed it is
  newer than all that still comes, so that the client reconnects before it.
  `PagingInv`: while the handler pages it has exactly what follows the client's
  cursor.  `PollInv`: what a poll has seen and not emitted it holds until the
  cursor moves.  `LogInv`: ids are places in the log, which a crash that loses a
  published event would break.  `PollInv` accounts for a failed poll in
  `dropped`: the theorem says that nothing else is lost by it.

**ServerProofs.**

* `KeysBounded`: `Spec => []KeyTrustBounded`.  `GateInv`: a cached entry dates
  its keys no later than they were served, and so does whatever a request holds
  between its load, its fetch and its store; the time a request compares with
  is that of its arrival.
* `OneFetch`: with `FetchIds \cap DirectIds = {}`, `Spec => []OneFetchPerHead`.
  `ImportInv`: a busy fetch stays registered under its id, so that the next
  request for its head finds it.  The ids come from the requests; a direct
  import under a running fetch's id takes its place in the registry.
* `RulesAlwaysRespected`: `Spec => []RulesRespected`.  `ApiInv` follows a request
  through its store operations: an event carries the rules of the moment it
  happened at (`EventsInv`), a bulk read decides on the version it returns, and
  what a conditional write has been allowed is tied to the revision it names
  (`SingleInv`, `BulkWriteInv`), so a file that changed in between refuses it.

**MountSyncProofs.**  The inductive invariant is `SyncInv`: `Shapes` and `Sends`
(what each thread has in hand), `ServerInv` (what is read from the server it has
or had) and the three below.

* `LocalWorkAlwaysKept`: `Spec => []LocalWorkKept`.  `WorkInv`: the newest save is
  in a safe place (a conflict artifact, a failed command, a revision of the
  server), or it is on disk and nobody can take the file for clean: no entry,
  in memory or saved, has its hash as settled, every command that is held has
  its bytes, and a scan under way has read it.
* `AckedAlwaysDelivered`: `Spec => []AckedDelivered`.  `DeliveryInv`: a command
  means the same bytes to everyone who holds it, the server has accepted it with
  these or not at all, and an answer in hand belongs to the command in hand.
* `ReconcileAlwaysRemembered`: `Spec => ReconcileRemembered`.  `CursorInv`: the
  socket is not ahead of the watermark, and a reconcile event between the saved
  cursor and the watermark, or in what a pull is reading, is owed or has been
  paid in this cycle.

**MountCommandsProofs.**

* `OneSupervises`: `Spec => []OneSupervisor`.  `LeaseInv`: every process is at a
  place of its kind, and from the lease to its last deferred call it has the
  lease.
* `FlushesAreBarriers`: `Spec => []FlushBarrier`.  `FlushInv`: until its signal a
  request that is alone finds nothing to be served; from then on what is
  pending, being served or answered covers it.
* `EditsAccounted`: `Spec => []NothingMissed`.  `LoopInv`: the loop scans exactly
  when it knows the watcher is off, and otherwise every edit made before the
  cycle is pushed, queued, in a batch, or let go (`Accounted`).
* `ExitTold`: `Spec => []ExitCodeTruthful`.  `Justified`: what a runner knows when
  it judges and what its result rests on; a cancellation comes from a signal or
  from a scope that failed for good.
* `SessionKept`: `Spec => []SessionNeverSpent`.  `SessionInv`: while nothing was
  lost, reclaimed or revoked, whoever is between its second look and its store
  has the lock directory and a token Cloud accepts, and the stored session is
  accepted or about to be replaced by its successor.
* `ViewsFollow`: `Spec => []ViewsFollowMirror`.  `CatInv`: every link points into
  the recorded root and is registered, and the list a command will save drops
  no view that is linked.
* `HandlesHold`: `Spec => []HandlesTruthful`.  `FuseInv`: what is cached, read or
  written was stored under its revision, and only flushes share a handle.

**CheckpointProofs.**

* `NeverTwoWriters`: `Spec => []OneWriter`, from `NoStale`: no scenario retries a
  lifecycle after a newer one has begun (with one that does the property is
  false, section 6).  The server's word on the owner and the hosts' files agree
  at no single moment, so `Inv` relates them.  `SealInv`: a seal a destination
  may have shown has a lifecycle file that says sealed or resuming, or its
  ownership has ended for good.  `LifeInv` and `SourceCmd`: such a file without
  the resume's proof keeps the source down, and no command of the source is at
  a step that starts it.  `BackInv`: of the handbacks of one destination and
  generation all but one were given up, and one that is still preparing owns.
  `ReceiptInv`: a consumer that no longer owns has a handback that was not given
  up, so no verification is begun for it again.  `DestInv`: a destination that
  runs, or that a command may start, still owns, because only its own handback,
  run with the daemon down, ends ownership.

Only model-checked, and why.

* Liveness (`ForksExpire`, `OperationsSettle`, `EnvelopesSettle`, `CatchesUp`,
  `BootstrapEnds`, `SourceReturns`): out of the prover's reach.
* `LineMergeSound`, and `EditsSurvive` which rests on it: what the alignment of
  two texts computes needs an induction over both texts, and the merge another
  over its components.  The library's induction theorems cannot be instantiated
  by the installed provers; the argument from a least counterexample that serves
  for the loop of `EventFeed` (`KeepExists`) has not been carried that far.
* `NoLostUpdate`: it holds on the run's instance and not beyond it, see
  section 6.
* `PassedEventsApplied`, `BootstrapMirrors` and `OnlyRealDeletes` of
  `MountBootstrap`: they need an invariant that says, for every place a
  traversal can stop at, which files it has seen, over pages that are filtered
  and sorted sequences.  Not attempted.
* Of the further invariants of section 3, those that are not named in a theorem
  above.

## 5. What the properties leave out, and why

* `CommitsOnlyOverSeen`: forks whose entries an older binary wrote.
* `ProviderConverges`: one worker and no deletes; `ExclusiveAttempts`:
  operations nobody acknowledged during a call, on the in-memory queue.
* `OneWriter`: lifecycles that no newer one superseded.
* Ingress: envelope ids that are not in use.  `AcceptedKept`: a queue with room.  `NothingSkipped`, `CatchesUp`: clean
  restarts, and neither what a silent first poll passes over (`silenced`) nor
  what a poll had read when a later request of it failed (`dropped`).
* `ProjectionCurrent`: files that deliveries changed which do not name the
  object.
* `RulesRespected`: events, bulk reads and writes that name a revision;
  unconditional writes, exports and single reads check and act in two store
  operations.  `OneFetchPerHead`: no direct import under a running fetch's id.
* `LocalWorkKept`: mounts that may write, and not a save over an upload in
  flight, over a pending command with other bytes, or of bytes an entry takes
  for settled.  `NoLostUpdate`: while the daemon does not crash and the socket
  trails the pulls by at most one change.
* `BootstrapMirrors`: true listings, and a socket that is not behind.
* `PassedEventsApplied`: mounts that poll; not what the server changed between
  the beginning of the pull that seeds the cursor and the answer that seeds it;
  not what an untrue listing hid; a deletion from before that pull may still
  wait for its second delete pass; and a file that cannot be written is set
  aside and counts as settled.
* `OnlyRealDeletes`: not a file that two delete passes in a row missed, both in
  untrue listings.
* `SourceReturns`: no stray write, foreign event or delayed duplicate.
* `FlushBarrier`: a request that met no other.  `SessionNeverSpent`: no lost
  answer, logout or reclaimed lock.  `ExitCodeTruthful`: not a deadline that
  left no checkpoint.  `ViewsFollowMirror`: before a daemon saves its old
  record over a change.

Each of these is a place where the code does something else; section 6 has
them.

## 6. Divergences between code and documents

Configurations kept here to be run by hand (`tlc -config X.cfg M`), and changes
to those of the runs; each ends in a counterexample:

* `WritebackExternal.cfg` (MCWriteback, `PendingListed`): on the file queue,
  ExternalWritebackMode stops listing new operations once it has held as many
  tasks as its capacity, because acks never take a task out (`store.go:3522`,
  `file_queue.go:202`).
* `EnvelopesFull.cfg` (MCEnvelopes, `AcceptedKept`): a delivery merged into an
  envelope that is about to be rolled back for a full queue is answered
  "queued" and lost (`store.go:3668`).
* `PollingLeavesNoGap` (added to `SyncClient.cfg`): sync.ts says that a socket
  opened after polling "resumes exactly where polling left off (no gap, no
  replay)" (`sync.ts:761`).  A poll reads a page, the request of the next page
  fails, the events of the first page are let go but stay remembered
  (`sync.ts:782`, `795`), the retry skips them, and the cursor is set behind them
  (`816`) with no handler having seen them.
* `FallbackOnlyDelays` (added to `SyncClient.cfg`): the first poll
  after a failed WebSocket passes over events the client had asked for
  (`sync.ts:790`).
* `UpdatesDetected` (`MountSync.cfg` with `Configs <- Crashing`): after a crash
  between applying and saving, a mount's write replaces a revision its author never
  saw; `docs/guides/collaboration.md:61` says concurrent changes are detected.
* `NoLostUpdate` (`MountSync.cfg` with `Configs <- Behind`, `MaxActs = 3` and
  `CONSTRAINT Trailing`): a pull takes the newest of three changes before the
  socket has read them; the socket applies the older
  ones again, the agent puts the newest body back, and the watcher and the cycle
  send it as one command.  Both are answered with a conflict and take the newest
  revision as theirs (`writeAlreadyLanded`); when the second answer comes after
  an older event was applied, it joins the newest revision to the older bytes,
  and these are pushed over it, against `docs/guides/collaboration.md:61`.
* `BootstrapMirrors` (`MountBootstrap.cfg` with `Configs <- Deleting`): a file
  deleted on the server between two cycles moves the page under the saved
  offset, and the bootstrap completes without a file it skipped
  (`syncer.go:8462`, against the comment at `6794`).
* `PassedEventsApplied` (`MountBootstrap.cfg`) without `i > seeded.to`: a file that
  changes after the pull read it and before `resolveLatestEventCursor` answers
  is passed unread, as the comment at `syncer.go:6694` says of a periodic pull;
  the bootstrap and the fast path seed the cursor that way (`6806`, `6882`).
* `OnlyRealDeletes` (`MountBootstrap.cfg`) without `untrue \intersect cyc.lied`:
  two listings truncated at the same place, with a newer revision in between,
  are the two observations a deletion asks for (`syncer.go:9585`), and a file
  the server has is deleted.
* `DegradedEditsDelivered` (added to `MountCommands.cfg`): a batch let
  go while degraded is not picked up by "the next successful cycle", which
  does not scan while the watcher is healthy (`main.go:14817`,
  `syncer.go:11051`).
* `NoStaleContent` (added to `MountCommands.cfg`): an answer in flight is
  cached after the event that invalidates it (`mountfuse/fs.go:22`, `474`).

Properties defined for the same purpose, each refuted by adding it to the
configuration named:

* `ConflictsResolvable` (`WorkspaceForks.cfg`): a rebase conflict on a path
  that the fork deleted cannot be resolved the way the comment at
  `store.go:1915` says.
* `LegacyEntriesNotCleared` (`WorkspaceForks.cfg` with `LegacyForks = {f1}`):
  a rebase reports an entry without base revision as a conflict and moves the
  fork's parent revision, the only thing CommitFork compares for it
  (`store.go:1918`, `1969`, `1793`).
* `RemovedDraftsRedundant` (`Projection.cfg`): an ack removes an agent's draft
  because a file of another object is at the canonical name
  (`draft_reconcile.go:190`).
* `DeadLetterAfterRetries` (`WritebackWorkers.cfg`): one failed ack
  dead-letters an operation; `docs/architecture-ascii.md:80` says "failure ->
  retry -> dead_lettered".
* `NothingSkipped` (`SyncClient.cfg` with `CleanStops = FALSE`): an event is
  delivered before it is saved; after a crash its id is used again and the
  client, whose cursor is that id, does not see the second event
  (`store.go:6196`).
* `OneWriter` (`Checkpoint.cfg` with `Configs <- Stale`): a retry of a
  superseded lifecycle restarts the source while a destination owns the
  session.  `OwnershipEnds` (`Configs <- Busy`): an event between a handback's
  prepare and its commit leaves the seal consumed for good.
* In `MountCommands.cfg`: `EveryFlushBarrier` (a second request is answered by
  the acknowledgement of the first), `SessionRefreshesSerial` (two programs
  reclaim one old lock, `cloudauth.go:340`), `OnceHonest` (a deadline before the
  first checkpoint ends in exit code 0), `ViewRolledBack` (a first view whose
  link fails stays registered, `main.go:6873`), `InspectTakesNothing` (an
  inspection takes the lease for a moment and can refuse a daemon that starts,
  `lease.go:173`).

Smaller observations made while reading: a save over an upload that ends in a
conflict, or over a pending command, is overwritten by `materializeConflict`; a
reconcile event that arrives between a full pull's read and its end is cleared
with the debt the pull has paid (`syncer.go:9318`); a tree of more files than
`bootstrapMaxFilesPerCycle` never finishes an audit (`syncer.go:8471`);
non-consecutive observations count towards a tombstone; the deferred removal of
a daemon's pid file may remove a newer daemon's; a stale daemon record reverts
views and brings back a deleted workspace; a PUT whose answer was lost is
repeated with the same If-Match and ends in a conflict; requests that waited
for a failed materialization go on without one; the inode of a recreated file
is not fresh, since it is a hash of its path (`mountfuse/fs.go:327`); imports
of two heads interleave while `clone.json` names one.

## 7. Not modelled

* Failures of `saveLocked`, which most methods ignore: a save in the models
  succeeds, a crash before it does not.  Wall-clock steps: deadlines pass and
  do not come back.
* State backends: a save is one atomic replacement, as the rename of the JSON
  file and the SQL transaction make it; the segmented backend's several files
  are left.
* Of the synchroniser: the GitHub tar seed, shared object cache and mirrors,
  streamed content, the start scheduler and symbolic links.  Of the FUSE mount:
  virtual files, layouts and name aliases.  Of the API: handlers with one store
  call (they are the store's operations), parsing, admin listings, dashboard.
  Of the command line: commands that print one answer, integrations, setup and
  the control plane socket.
* Digests, schema validation, path scoping: pure functions of one document or
  path.  The server command, SDK wrappers and launchers: wiring.
* `packages/core`, `packages/durable-actors`, `packages/local-mount`: second
  implementations of rules that are modelled from the Go code, over storage of
  their own.

## 8. Plan

1. The segmented backend and the durable queue file: a crash between renames.
2. Proofs of `MountBootstrap`, beginning with `OnlyRealDeletes`; of the line
   merge, beginning with what its alignment matches.
3. The synchroniser's tar seed and object cache; local mount; durable actors.
