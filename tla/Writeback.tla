----------------------------- MODULE Writeback ------------------------------
(***************************************************************************)
(* The writeback pipeline of the store (internal/relayfile/store.go): every *)
(* agent mutation records an operation, queues a task for it, and a worker  *)
(* or an external consumer carries the change to the provider.              *)
(*                                                                          *)
(* The store mutex s.mu makes each block between Lock and Unlock one        *)
(* action; the queue, queueMu, the provider call and the final save are     *)
(* outside it, so a worker takes several actions per task:                  *)
(*                                                                          *)
(*   idle -> dequeued -> ready -> calling -> answered -> ready -> idle      *)
(*                                                                          *)
(* One workspace; events, suppression marks and revisions are left out (the *)
(* content a task carries is read from the file when the call is prepared,  *)
(* never from the task).  Acks without an externalId; those with one also   *)
(* move draft files, which ProviderProjection models.                       *)
(***************************************************************************)
EXTENDS Integers, Sequences, FiniteSets, Functions

CONSTANTS
    Paths,       \* file paths
    Values,      \* file contents
    Absent,      \* no file, no object at the provider
    Empty,       \* the content of an upsert prepared when the file was gone
    NoOp,        \* an operation id not handed out yet
    MaxOps,      \* bound on s.opCounter
    Workers,     \* writeback workers; none when External
    External,    \* ExternalWritebackMode
    FileQueue,   \* the queue is the file queue, not the in-memory one
    Cap,         \* capacity of the queue
    Setups,      \* how the store may be set up and used, see setup
    Threshold,   \* s.deleteStormThreshold, 0 = off
    LegacyRunning \* operations an older binary left in status "running"

OpIds == 1..MaxOps

Status == {"pending", "running", "succeeded", "dead_lettered", "quarantined"}
Action == {"file_upsert", "file_delete"}
Op == [path : Paths, action : Action, status : Status,
       attempts : Nat, due : BOOLEAN]

ASSUME WritebackAssumption ==
    /\ MaxOps \in Nat
    /\ External \in BOOLEAN /\ FileQueue \in BOOLEAN
    /\ External => Workers = {}
    /\ Cap \in Nat \ {0}
    /\ Setups \subseteq [batchMax : Nat \ {0}, maxAttempts : Nat \ {0},
                       ackOps : SUBSET OpIds, maxReplays : Nat, maxCrashes : Nat]
    /\ Threshold \in Nat
    /\ \E n \in 0..MaxOps : LegacyRunning = 1..n
    /\ NoOp \notin Op
    /\ Absent \notin Values /\ Empty \notin Values /\ Empty # Absent

VARIABLES
    setup,       \* the store's options and the bounds on its callers
    files,       \* ws.Files
    ops,         \* ws.Ops
    opCounter,   \* s.opCounter
    disk,        \* the last snapshot saveLocked wrote
    queue,       \* s.writebackQueue
    queued,      \* s.queuedWritebacks
    blocked,     \* goroutines inside writebackQueue.Enqueue
    toEnqueue,   \* calls of enqueueWriteback about to run, per operation
    timers,      \* armed retry timers, per operation
    workers,     \* what each writeback worker is doing
    admissions,  \* delete admissions inside the breaker's window
    provider,    \* what the provider holds at each path
    calls,       \* history: provider calls since the record or the replay
    acked,       \* history: operations acknowledged over HTTP
    replays,     \* history: replays per operation
    crashes      \* history: restarts so far

BatchMax    == setup.batchMax    \* 256 with the built-in no-op provider, otherwise 1
MaxAttempts == setup.maxAttempts \* s.maxAttempts
AckOps      == setup.ackOps      \* operations some HTTP client acknowledges
MaxReplays  == setup.maxReplays  \* bound on ReplayOperation calls per operation
MaxCrashes  == setup.maxCrashes  \* bound on restarts

storeVars   == <<files, ops, opCounter>>
queueVars   == <<queue, queued, blocked>>
historyVars == <<calls, acked, replays, crashes>>
vars == <<setup, storeVars, disk, queueVars, toEnqueue, timers, workers, admissions,
          provider, historyVars>>

-----------------------------------------------------------------------------
(* Types *)

Content == Values \cup {Empty, Absent}

Idle == [pc |-> "idle"]
WorkerState ==
    {Idle}
    \cup [pc : {"dequeued", "draining", "ready"},
          batch : Seq(OpIds), dirty : BOOLEAN]
    \cup [pc : {"calling"}, batch : Seq(OpIds), dirty : BOOLEAN,
          attempt : Nat, content : Content]
    \cup [pc : {"answered"}, batch : Seq(OpIds), dirty : BOOLEAN,
          attempt : Nat, ok : BOOLEAN]

Snapshot == [files |-> files, ops |-> ops, opCounter |-> opCounter]
Save == disk' = Snapshot'

Files == [Paths -> Values \cup {Absent}]
OpMap == [OpIds -> Op \cup {NoOp}]

TypeOK ==
    /\ files \in Files
    /\ ops \in OpMap
    /\ opCounter \in 0..MaxOps
    /\ disk \in [files : Files, ops : OpMap, opCounter : 0..MaxOps]
    /\ queue \in Seq(OpIds) /\ Len(queue) <= Cap
    /\ queued \subseteq OpIds
    /\ blocked \subseteq OpIds
    /\ toEnqueue \in [OpIds -> Nat]
    /\ timers \in [OpIds -> Nat]
    /\ workers \in [Workers -> WorkerState]
    /\ admissions \in Nat
    /\ provider \in [Paths -> Content]
    /\ calls \in [OpIds -> Nat]
    /\ acked \subseteq OpIds
    /\ replays \in [OpIds -> 0..MaxReplays]
    /\ crashes \in 0..MaxCrashes

-----------------------------------------------------------------------------
(* Mutations: each records a pending operation and saves; the call of       *)
(* enqueueWriteback follows after the mutex is released.                     *)

NewOp(p, a) == [path |-> p, action |-> a, status |-> "pending",
                attempts |-> 0, due |-> FALSE]

Calls(f, o) == [f EXCEPT ![o] = @ + 1]
Returns(f, o) == [f EXCEPT ![o] = @ - 1]

recordWrite(p, a) ==
    LET o == opCounter + 1
    IN  /\ o \in OpIds
        /\ opCounter' = o
        /\ ops' = [ops EXCEPT ![o] = NewOp(p, a)]
        /\ toEnqueue' = Calls(toEnqueue, o)
        /\ UNCHANGED <<setup, queueVars, timers, workers, provider, historyVars>>

WriteFile(p, c) ==
    /\ recordWrite(p, "file_upsert")
    /\ files' = [files EXCEPT ![p] = c]
    /\ UNCHANGED admissions
    /\ Save

Admitted == Threshold = 0 \/ admissions < Threshold

DeleteFile(p) ==
    /\ files[p] # Absent
    /\ Admitted
    /\ admissions' = IF Threshold = 0 THEN 0 ELSE admissions + 1
    /\ recordWrite(p, "file_delete")
    /\ files' = [files EXCEPT ![p] = Absent]
    /\ Save

(* ErrDeleteStormRejected: the refusal counts too, so the breaker stays     *)
(* latched.  Counting stops one past the threshold.                         *)
DeleteFileRejected(p) ==
    /\ files[p] # Absent
    /\ ~Admitted
    /\ admissions <= Threshold
    /\ admissions' = admissions + 1
    /\ UNCHANGED <<setup, storeVars, disk, queueVars, toEnqueue, timers, workers,
                   provider, historyVars>>

(* Admissions older than the window no longer count. *)
WindowSlides ==
    /\ admissions' \in 0..admissions - 1
    /\ UNCHANGED <<setup, storeVars, disk, queueVars, toEnqueue, timers, workers,
                   provider, historyVars>>

-----------------------------------------------------------------------------
(* The queue *)

(* Mutant: the capacity of the queue is not looked at. *)
enqueueWritebackUnbounded(o) ==
    /\ toEnqueue[o] > 0
    /\ toEnqueue' = Returns(toEnqueue, o)
    /\ queued' = queued \cup {o}
    /\ queue' = IF o \in queued THEN queue ELSE Append(queue, o)
    /\ UNCHANGED <<setup, storeVars, disk, blocked, timers, workers, admissions,
                   provider, historyVars>>

(* A second task for a queued operation is dropped; a full queue leaves a   *)
(* goroutine blocked in Enqueue.                                            *)
enqueueWriteback(o) ==
    /\ toEnqueue[o] > 0
    /\ toEnqueue' = Returns(toEnqueue, o)
    /\ queued' = queued \cup {o}
    /\ queue' = IF o \in queued \/ Len(queue) >= Cap THEN queue
                                                    ELSE Append(queue, o)
    /\ blocked' = IF o \in queued \/ Len(queue) < Cap THEN blocked
                                                     ELSE blocked \cup {o}
    /\ UNCHANGED <<setup, storeVars, disk, timers, workers, admissions, provider,
                   historyVars>>

Enqueue(o) ==
    /\ o \in blocked
    /\ Len(queue) < Cap
    /\ queue' = Append(queue, o)
    /\ blocked' = blocked \ {o}
    /\ UNCHANGED <<setup, storeVars, disk, queued, toEnqueue, timers, workers,
                   admissions, provider, historyVars>>

RetryTimerFires(o) ==
    /\ timers[o] > 0
    /\ timers' = Returns(timers, o)
    /\ toEnqueue' = Calls(toEnqueue, o)
    /\ UNCHANGED <<setup, storeVars, disk, queueVars, workers, admissions, provider,
                   historyVars>>

-----------------------------------------------------------------------------
(* The workers *)

Noop == BatchMax > 1

(* Mutant: the next task of a burst replaces the ones already drained. *)
DequeueReplaces(w) ==
    /\ queue # <<>>
    /\ \/ workers[w].pc = "idle"
       \/ workers[w].pc = "draining" /\ Len(workers[w].batch) < BatchMax
    /\ queue' = Tail(queue)
    /\ workers' = [workers EXCEPT ![w] =
         [pc |-> "dequeued", dirty |-> FALSE, batch |-> <<Head(queue)>>]]
    /\ UNCHANGED <<setup, storeVars, disk, queued, blocked, toEnqueue, timers,
                   admissions, provider, historyVars>>

Dequeue(w) ==
    /\ queue # <<>>
    /\ \/ workers[w].pc = "idle"
       \/ workers[w].pc = "draining" /\ Len(workers[w].batch) < BatchMax
    /\ queue' = Tail(queue)
    /\ workers' = [workers EXCEPT ![w] =
         [pc |-> "dequeued", dirty |-> FALSE,
          batch |-> Append(IF @.pc = "idle" THEN <<>> ELSE @.batch,
                           Head(queue))]]
    /\ UNCHANGED <<setup, storeVars, disk, queued, blocked, toEnqueue, timers,
                   admissions, provider, historyVars>>

(* Mutant: the operation stays in queuedWritebacks. *)
markWritebackDequeuedForgets(w) ==
    /\ workers[w].pc = "dequeued"
    /\ workers' = [workers EXCEPT ![w].pc =
                      IF Noop THEN "draining" ELSE "ready"]
    /\ UNCHANGED <<setup, storeVars, disk, queueVars, toEnqueue, timers,
                   admissions, provider, historyVars>>

markWritebackDequeued(w) ==
    /\ workers[w].pc = "dequeued"
    /\ queued' = queued \ {workers[w].batch[Len(workers[w].batch)]}
    /\ workers' = [workers EXCEPT ![w].pc =
                      IF Noop THEN "draining" ELSE "ready"]
    /\ UNCHANGED <<setup, storeVars, disk, queue, blocked, toEnqueue, timers,
                   admissions, provider, historyVars>>

DrainEnds(w) ==
    /\ workers[w].pc = "draining"
    /\ workers' = [workers EXCEPT ![w].pc = "ready"]
    /\ UNCHANGED <<setup, storeVars, disk, queueVars, toEnqueue, timers, admissions,
                   provider, historyVars>>

Armed(op) == op.status \in {"pending", "running"}

(* The content an upsert carries is the file's at this moment; an upsert    *)
(* whose file is gone is sent with no content.                              *)
ContentFor(op) ==
    IF op.action = "file_delete" THEN Absent
    ELSE IF files[op.path] = Absent THEN Empty ELSE files[op.path]

(* Mutant: only the two final statuses are skipped. *)
PrepareCallUnlessFinal(w) ==
    /\ workers[w].pc = "ready"
    /\ workers[w].batch # <<>>
    /\ LET wk == workers[w]
           o  == Head(wk.batch)
       IN  IF ops[o].status \notin {"succeeded", "dead_lettered"}
           THEN /\ workers' = [workers EXCEPT ![w] =
                     [pc |-> "calling", batch |-> wk.batch, dirty |-> wk.dirty,
                      attempt |-> ops[o].attempts + 1,
                      content |-> ContentFor(ops[o])]]
                /\ calls' = Calls(calls, o)
           ELSE /\ workers' = [workers EXCEPT ![w].batch = Tail(@)]
                /\ UNCHANGED calls
    /\ UNCHANGED <<setup, storeVars, disk, queueVars, toEnqueue, timers, admissions,
                   provider, acked, replays, crashes>>

(* Step 1 of processWritebackMutation, under the mutex. *)
PrepareCall(w) ==
    /\ workers[w].pc = "ready"
    /\ workers[w].batch # <<>>
    /\ LET wk == workers[w]
           o  == Head(wk.batch)
       IN  IF Armed(ops[o])
           THEN /\ workers' = [workers EXCEPT ![w] =
                     [pc |-> "calling", batch |-> wk.batch, dirty |-> wk.dirty,
                      attempt |-> ops[o].attempts + 1,
                      content |-> ContentFor(ops[o])]]
                /\ calls' = Calls(calls, o)
           ELSE /\ workers' = [workers EXCEPT ![w].batch = Tail(@)]
                /\ UNCHANGED calls
    /\ UNCHANGED <<setup, storeVars, disk, queueVars, toEnqueue, timers, admissions,
                   provider, acked, replays, crashes>>

(* Step 2, without the mutex.  A failed call may have taken effect.         *)
ProviderWrite(w, ok) ==
    /\ workers[w].pc = "calling"
    /\ Noop => ok
    /\ LET wk == workers[w]
           p  == ops[Head(wk.batch)].path
       IN  /\ workers' = [workers EXCEPT ![w] =
                [pc |-> "answered", batch |-> wk.batch, dirty |-> wk.dirty,
                 attempt |-> wk.attempt, ok |-> ok]]
           /\ \/ ~Noop /\ provider' = [provider EXCEPT ![p] = wk.content]
              \/ (Noop \/ ~ok) /\ UNCHANGED provider
    /\ UNCHANGED <<setup, storeVars, disk, queueVars, toEnqueue, timers, admissions,
                   historyVars>>

(* Mutant: one attempt too many is allowed. *)
RecordOutcomeOffByOne(w) ==
    /\ workers[w].pc = "answered"
    /\ LET wk    == workers[w]
           o     == Head(wk.batch)
           retry == ~wk.ok /\ wk.attempt <= MaxAttempts
       IN  /\ ops' = [ops EXCEPT ![o].attempts = wk.attempt,
                                 ![o].due = retry,
                                 ![o].status = IF wk.ok THEN "succeeded"
                                               ELSE IF retry THEN "pending"
                                               ELSE "dead_lettered"]
           /\ timers' = IF retry THEN Calls(timers, o) ELSE timers
           /\ workers' = [workers EXCEPT ![w] =
                [pc |-> "ready", batch |-> Tail(wk.batch), dirty |-> TRUE]]
    /\ UNCHANGED <<setup, files, opCounter, disk, queueVars, toEnqueue, admissions,
                   provider, historyVars>>

(* Mutant: exhausted retries end as a success. *)
RecordOutcomeGivesUpQuietly(w) ==
    /\ workers[w].pc = "answered"
    /\ LET wk    == workers[w]
           o     == Head(wk.batch)
           retry == ~wk.ok /\ wk.attempt < MaxAttempts
       IN  /\ ops' = [ops EXCEPT ![o].attempts = wk.attempt,
                                 ![o].due = retry,
                                 ![o].status = IF wk.ok THEN "succeeded"
                                               ELSE IF retry THEN "pending"
                                               ELSE "succeeded"]
           /\ timers' = IF retry THEN Calls(timers, o) ELSE timers
           /\ workers' = [workers EXCEPT ![w] =
                [pc |-> "ready", batch |-> Tail(wk.batch), dirty |-> TRUE]]
    /\ UNCHANGED <<setup, files, opCounter, disk, queueVars, toEnqueue, admissions,
                   provider, historyVars>>

(* Mutant: a failed attempt is left pending with no timer. *)
RecordOutcomeUntimed(w) ==
    /\ workers[w].pc = "answered"
    /\ LET wk    == workers[w]
           o     == Head(wk.batch)
           retry == ~wk.ok /\ wk.attempt < MaxAttempts
       IN  /\ ops' = [ops EXCEPT ![o].attempts = wk.attempt,
                                 ![o].due = retry,
                                 ![o].status = IF wk.ok THEN "succeeded"
                                               ELSE IF retry THEN "pending"
                                               ELSE "dead_lettered"]
           /\ timers' = timers
           /\ workers' = [workers EXCEPT ![w] =
                [pc |-> "ready", batch |-> Tail(wk.batch), dirty |-> TRUE]]
    /\ UNCHANGED <<setup, files, opCounter, disk, queueVars, toEnqueue, admissions,
                   provider, historyVars>>

(* Step 3, under the mutex again.  The status is not looked at again: an    *)
(* ack or a replay that came during the call is overwritten.                *)
RecordOutcome(w) ==
    /\ workers[w].pc = "answered"
    /\ LET wk    == workers[w]
           o     == Head(wk.batch)
           retry == ~wk.ok /\ wk.attempt < MaxAttempts
       IN  /\ ops' = [ops EXCEPT ![o].attempts = wk.attempt,
                                 ![o].due = retry,
                                 ![o].status = IF wk.ok THEN "succeeded"
                                               ELSE IF retry THEN "pending"
                                               ELSE "dead_lettered"]
           /\ timers' = IF retry THEN Calls(timers, o) ELSE timers
           /\ workers' = [workers EXCEPT ![w] =
                [pc |-> "ready", batch |-> Tail(wk.batch), dirty |-> TRUE]]
    /\ UNCHANGED <<setup, files, opCounter, disk, queueVars, toEnqueue, admissions,
                   provider, historyVars>>

(* The save of a task or of a whole batch, under the mutex once more.       *)
SaveOutcome(w) ==
    /\ workers[w].pc = "ready"
    /\ workers[w].batch = <<>>
    /\ workers' = [workers EXCEPT ![w] = Idle]
    /\ UNCHANGED <<setup, storeVars, queueVars, toEnqueue, timers, admissions,
                   provider, historyVars>>
    /\ IF workers[w].dirty THEN Save ELSE UNCHANGED disk

-----------------------------------------------------------------------------
(* The HTTP side *)

(* What GetPendingWritebacks lists: the in-memory queue also shows the      *)
(* tasks of blocked enqueuers, the file queue only what it holds.           *)
Listed(o) ==
    /\ o \in Range(queue) \cup (IF FileQueue THEN {} ELSE blocked)
    /\ Armed(ops[o])

(* Any operation, in any status, in either mode; the queue is not touched.  *)
AcknowledgeWriteback(o, success) ==
    /\ o \in AckOps
    /\ ops[o] # NoOp
    /\ ops' = [ops EXCEPT ![o].due = FALSE,
                          ![o].status = IF success THEN "succeeded"
                                                   ELSE "dead_lettered"]
    /\ acked' = acked \cup {o}
    /\ UNCHANGED <<setup, files, opCounter, queueVars, toEnqueue, timers, workers,
                   admissions, provider, calls, replays, crashes>>
    /\ Save

ReplayOperation(o) ==
    /\ ops[o] # NoOp
    /\ ops[o].status = "dead_lettered"
    /\ replays[o] < MaxReplays
    /\ replays' = Calls(replays, o)
    /\ ops' = [ops EXCEPT ![o].status = "pending", ![o].attempts = 0,
                          ![o].due = FALSE]
    /\ toEnqueue' = Calls(toEnqueue, o)
    /\ calls' = [calls EXCEPT ![o] = 0]
    /\ UNCHANGED <<setup, files, opCounter, queueVars, timers, workers, admissions,
                   provider, acked, crashes>>
    /\ Save

-----------------------------------------------------------------------------
(* Boot *)

ArmedOps(m) == {o \in OpIds : m[o] # NoOp /\ Armed(m[o])}

(* quarantineBootDeleteStorms: all armed deletes when there are more than   *)
(* the threshold, and the running operations found stale.                   *)
Quarantine(m, stale) ==
    LET deletes == {o \in ArmedOps(m) : m[o].action = "file_delete"}
        storm   == IF Threshold > 0 /\ Cardinality(deletes) > Threshold
                   THEN deletes ELSE {}
    IN  [o \in OpIds |->
           IF o \in storm \cup stale
           THEN [m[o] EXCEPT !.status = "quarantined", !.due = FALSE]
           ELSE m[o]]

Count(S) == [o \in OpIds |-> IF o \in S THEN 1 ELSE 0]

(* Mutant: a delayed retry is also enqueued at once. *)
BootScanTwice(m, later) ==
    /\ toEnqueue' = Count(ArmedOps(m))
    /\ timers' = Count(later)

(* The re-enqueue scan: a retry that is still due later gets a timer, every *)
(* other armed operation an enqueueWriteback call.                          *)
BootScan(m, later) ==
    /\ toEnqueue' = Count(ArmedOps(m) \ later)
    /\ timers' = Count(later)

(* A crash at any point, then NewStoreWithOptions.  Running operations may  *)
(* be older than StaleRunningOpThreshold, retry times may have passed.      *)
Restart ==
    /\ crashes < MaxCrashes
    /\ crashes' = crashes + 1
    /\ files' = disk.files
    /\ opCounter' = disk.opCounter
    /\ \E stale \in SUBSET {o \in ArmedOps(disk.ops) :
                              disk.ops[o].status = "running"} :
         ops' = Quarantine(disk.ops, stale)
    /\ Save
    /\ queue' = IF FileQueue THEN queue ELSE <<>>
    /\ queued' = Range(queue')
    /\ blocked' = {}
    /\ \E later \in SUBSET {o \in ArmedOps(ops') : ops'[o].due} :
         BootScan(ops', later)
    /\ workers' = [w \in Workers |-> Idle]
    /\ admissions' = 0
    /\ UNCHANGED <<setup, provider, calls, acked, replays>>

(* The first boot: files that came from the provider, and upserts that an   *)
(* older binary left running, old enough to be quarantined or not.          *)
Init ==
    /\ setup \in Setups
    /\ files \in Files
    /\ provider = files
    /\ \E p \in Paths, stale \in SUBSET LegacyRunning :
         /\ LegacyRunning # {} => files[p] # Absent
         /\ ops = Quarantine([o \in OpIds |->
                 IF o \in LegacyRunning
                 THEN [NewOp(p, "file_upsert") EXCEPT !.status = "running"]
                 ELSE NoOp], stale)
    /\ opCounter = Cardinality(LegacyRunning)
    /\ disk = Snapshot
    /\ queue = <<>> /\ queued = {} /\ blocked = {}
    /\ toEnqueue = Count(ArmedOps(ops))
    /\ timers = Count({})
    /\ workers = [w \in Workers |-> Idle]
    /\ admissions = 0
    /\ calls = Count({})
    /\ acked = {}
    /\ replays = Count({})
    /\ crashes = 0

Mutations ==
    \E p \in Paths :
      \/ \E c \in Values : WriteFile(p, c)
      \/ DeleteFile(p)
      \/ DeleteFileRejected(p)

Queueing ==
    \E o \in OpIds : enqueueWriteback(o) \/ Enqueue(o) \/ RetryTimerFires(o)

WorkerStep(w) ==
    \/ Dequeue(w)
    \/ markWritebackDequeued(w)
    \/ DrainEnds(w)
    \/ PrepareCall(w)
    \/ \E ok \in BOOLEAN : ProviderWrite(w, ok)
    \/ RecordOutcome(w)
    \/ SaveOutcome(w)

Operators ==
    \E o \in OpIds :
      \/ \E success \in BOOLEAN : AcknowledgeWriteback(o, success)
      \/ ReplayOperation(o)

Next ==
    \/ Mutations
    \/ WindowSlides
    \/ Queueing
    \/ \E w \in Workers : WorkerStep(w)
    \/ Operators
    \/ Restart

Spec == Init /\ [][Next]_vars

(* Goroutines, timers and workers go on, a provider call returns, and a     *)
(* blocked sender gets its turn among those that wait for room.             *)
Fairness ==
    /\ \A o \in OpIds : /\ WF_vars(enqueueWriteback(o))
                        /\ SF_vars(Enqueue(o))
                        /\ WF_vars(RetryTimerFires(o))
    /\ \A w \in Workers : WF_vars(WorkerStep(w))

FairSpec == Spec /\ Fairness

(* An external consumer acknowledges what it is shown.                      *)
ConsumerSpec ==
    /\ FairSpec
    /\ \A o \in OpIds :
         WF_vars(/\ Listed(o)
                 /\ \E success \in BOOLEAN : AcknowledgeWriteback(o, success))

-----------------------------------------------------------------------------
(* Properties *)

Holds(w, o) == workers[w].pc # "idle" /\ o \in Range(workers[w].batch)
Unmarked(w, o) ==
    /\ workers[w].pc = "dequeued"
    /\ o = workers[w].batch[Len(workers[w].batch)]
InFlight(w, o) ==
    /\ workers[w].pc \in {"calling", "answered"}
    /\ o = Head(workers[w].batch)

(* Every operation that still needs processing is carried by someone: a     *)
(* call of enqueueWriteback, the queue, a blocked sender, a retry timer or  *)
(* a worker.  And queuedWritebacks names exactly the operations whose task  *)
(* is in the queue or not yet marked, so a dropped duplicate is never the   *)
(* last task of its operation.                                              *)
NothingLost ==
    /\ \A o \in ArmedOps(ops) :
         \/ toEnqueue[o] > 0
         \/ timers[o] > 0
         \/ o \in Range(queue) \cup blocked
         \/ \E w \in Workers : Holds(w, o)
    /\ queued = Range(queue) \cup blocked
                 \cup {o \in OpIds : \E w \in Workers : Unmarked(w, o)}

(* As long as nobody acknowledges an operation over HTTP, its provider      *)
(* calls are made one at a time, and only while it is armed in memory and   *)
(* on disk: no call follows a recorded outcome, whatever retry timers,      *)
(* replays, restarts and duplicate tasks do.                                *)
ExclusiveAttempts ==
    \A o \in OpIds \ acked, w \in Workers :
      InFlight(w, o) =>
        /\ Armed(ops[o]) /\ Armed(disk.ops[o])
        /\ \A v \in Workers \ {w} : ~InFlight(v, o)

(* s.maxAttempts bounds the provider calls of an operation; a crash between *)
(* the outcome and its save costs one call more (at-least-once).            *)
AttemptsBounded ==
    \A o \in OpIds \ acked : calls[o] <= MaxAttempts + crashes

(* A quarantined operation is released by an ack and by nothing else (the   *)
(* comment of quarantineBootDeleteStorms): no worker, retry, replay or      *)
(* later boot touches it, though its task may sit in a durable queue.       *)
QuarantineHolds ==
    [][\A o \in OpIds :
         (ops[o] # NoOp /\ ops[o].status = "quarantined") =>
           \/ ops'[o] = ops[o] /\ calls'[o] = calls[o]
           \/ \E success \in BOOLEAN : AcknowledgeWriteback(o, success)]_vars

(* With one worker, once every operation on a path that was only ever       *)
(* written has succeeded at the worker's hands, the provider holds the      *)
(* file's content, whatever order retries and restarts ran them in.         *)
ProviderConverges ==
    \A p \in Paths :
      LET mine == {o \in OpIds : ops[o] # NoOp /\ ops[o].path = p}
      IN  (/\ mine # {}
           /\ mine \cap acked = {}
           /\ \A o \in mine : /\ ops[o].action = "file_upsert"
                              /\ ops[o].status = "succeeded")
          => provider[p] = files[p]

(* Every operation reaches an outcome: succeeded, dead_lettered, or the     *)
(* quarantine of a boot (docs/production-validation.md: "operation reaches  *)
(* succeeded or dead_lettered").                                            *)
OperationsSettle == \A o \in OpIds : (o \in ArmedOps(ops)) ~> (o \notin ArmedOps(ops))

(* docs/architecture-ascii.md: "failure -> retry -> dead_lettered"; only    *)
(* exhausted retries put an operation in the dead letters.                  *)
DeadLetterAfterRetries ==
    \A o \in OpIds :
      (ops[o] # NoOp /\ ops[o].status = "dead_lettered")
        => ops[o].attempts = MaxAttempts

(* The OpenAPI text of listPendingWritebacks: it "retrieves all pending     *)
(* writeback items"; a consumer that acknowledges what it sees gets to see  *)
(* every operation.                                                         *)
PendingListed ==
    \A o \in OpIds : (o \in ArmedOps(ops)) ~> (Listed(o) \/ o \notin ArmedOps(ops))
=============================================================================
