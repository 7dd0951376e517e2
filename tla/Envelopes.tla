----------------------------- MODULE Envelopes ------------------------------
(***************************************************************************)
(* Webhook ingress (internal/relayfile/store.go): IngestEnvelope dedupes    *)
(* and coalesces deliveries into envelopes, queues them, and the envelope   *)
(* workers parse and apply them, with retries, dead letters, replay and     *)
(* pruning.                                                                 *)
(*                                                                          *)
(* Each block under s.mu is one action; the queue, the parser and the retry *)
(* timer are outside it.  A delivery is about one provider object and has a *)
(* ReceivedAt; applying it projects the object, which ProviderProjection    *)
(* details.  One workspace and one provider; ingress counters and events    *)
(* are left out.                                                            *)
(***************************************************************************)
EXTENDS Integers, Sequences, FiniteSets, Functions

CONSTANTS
    Deliveries,     \* delivery ids
    Objects,        \* coalesce and watermark keys
    Obj,            \* the object of a delivery
    Ts,             \* the ReceivedAt of a delivery
    Window,         \* s.coalesceWindow
    Flaky,          \* deliveries whose parse may fail
    Echoes,         \* deliveries that may be echoes of our own writeback
    NoEnv,          \* no envelope
    MaxEnvs,        \* bound on the envelopes created
    Workers,        \* envelope workers
    MaxConcurrency, \* s.providerMaxConcurrency
    FileQueue,      \* the queue survives a restart
    Cap,            \* capacity of the queue
    MaxAttempts,    \* s.maxEnvelopeAttempts
    MaxStored,      \* s.maxStoredEnvelopes
    MaxReplays,     \* bound on replays
    MaxCrashes      \* bound on restarts

EnvIds == 1..MaxEnvs

(* `merged' is a history field: the deliveries the envelope stands for.     *)
Envelope == [delivery : Deliveries, payload : Deliveries,
             merged : SUBSET Deliveries]

ASSUME EnvelopesAssumption ==
    /\ Obj \in [Deliveries -> Objects]
    /\ Ts \in [Deliveries -> Nat \ {0}]
    /\ Window \in Nat \ {0} /\ Flaky \subseteq Deliveries /\ Echoes \subseteq Deliveries
    /\ MaxEnvs \in Nat /\ NoEnv \notin EnvIds /\ NoEnv \notin Envelope
    /\ MaxConcurrency \in Nat \ {0} /\ Cap \in Nat \ {0}
    /\ FileQueue \in BOOLEAN
    /\ MaxAttempts \in Nat \ {0} /\ MaxStored \in Nat \ {0}
    /\ MaxReplays \in Nat /\ MaxCrashes \in Nat

VARIABLES
    envelopesByID,
    deliveryIndex,
    processedEnvs,
    envelopeAttempts,
    envelopeNextAttempt, \* envelopes that have a next attempt time
    deadLetters,
    watermarks,      \* ws.ProviderWatermarks, per object
    projection,      \* ReceivedAt of the payload last applied, per object
    coalesceIndex,   \* in memory only
    processingEnvs,  \* in memory only
    disk,            \* the last snapshot saveLocked wrote
    queue,           \* s.envelopeQueue
    queued,          \* s.queuedEnvelopes
    blocked,         \* goroutines inside envelopeQueue.Enqueue
    ingesting,       \* IngestEnvelope calls about to run tryEnqueueEnvelope
    refused,         \* IngestEnvelope calls about to take their envelope back
    toEnqueue,       \* enqueueEnvelope calls about to run, per envelope
    timers,          \* armed retry timers, per envelope
    workers,         \* what each envelope worker is doing
    nextEnv,         \* envelope ids used
    answered,        \* history: deliveries answered "queued"
    handled,         \* history: deliveries applied, superseded or found stale
    rejected,        \* history: deliveries dead-lettered or suppressed
    applied,         \* history: how often a delivery's payload was applied
    repeatable,      \* history: deliveries replayed, or pruned and forgotten
    replays, crashes \* history: how often so far

persistent == <<envelopesByID, deliveryIndex, processedEnvs, envelopeAttempts,
                envelopeNextAttempt, deadLetters, watermarks, projection>>
volatile   == <<coalesceIndex, processingEnvs>>
queueVars  == <<queue, queued, blocked>>
callVars   == <<ingesting, refused, toEnqueue, timers>>
history    == <<answered, handled, rejected, applied, repeatable, replays,
                crashes>>
vars == <<persistent, volatile, disk, queueVars, callVars, workers, nextEnv,
          history>>

-----------------------------------------------------------------------------
Stored == {e \in EnvIds : envelopesByID[e] # NoEnv}
ObjOf(e) == Obj[envelopesByID[e].payload]
ReceivedAt(e) == Ts[envelopesByID[e].payload]
Unprocessed == Stored \ processedEnvs

Snapshot == [envelopesByID |-> envelopesByID, deliveryIndex |-> deliveryIndex,
             processedEnvs |-> processedEnvs,
             envelopeAttempts |-> envelopeAttempts,
             envelopeNextAttempt |-> envelopeNextAttempt,
             deadLetters |-> deadLetters, watermarks |-> watermarks,
             projection |-> projection]
Save == disk' = Snapshot'

Idle == [pc |-> "idle"]
WorkerState ==
    {Idle}
    \cup [pc : {"dequeued", "waiting", "begin", "retry", "release"},
          env : EnvIds, slot : BOOLEAN]
    \cup [pc : {"parsing"}, env : EnvIds, slot : BOOLEAN,
          attempt : Nat, payload : Deliveries]

TypeOK ==
    /\ envelopesByID \in [EnvIds -> Envelope \cup {NoEnv}]
    /\ deliveryIndex \in [Deliveries -> EnvIds \cup {NoEnv}]
    /\ processedEnvs \subseteq EnvIds
    /\ envelopeAttempts \in [EnvIds -> Nat]
    /\ envelopeNextAttempt \subseteq EnvIds
    /\ deadLetters \subseteq EnvIds
    /\ watermarks \in [Objects -> Nat]
    /\ projection \in [Objects -> Nat]
    /\ coalesceIndex \in [Objects -> EnvIds \cup {NoEnv}]
    /\ processingEnvs \subseteq EnvIds
    /\ queue \in Seq(EnvIds) /\ Len(queue) <= Cap
    /\ queued \subseteq EnvIds /\ blocked \subseteq EnvIds
    /\ ingesting \subseteq EnvIds \X Deliveries
    /\ refused \subseteq EnvIds \X Deliveries
    /\ toEnqueue \in [EnvIds -> Nat] /\ timers \in [EnvIds -> Nat]
    /\ workers \in [Workers -> WorkerState]
    /\ nextEnv \in 0..MaxEnvs
    /\ answered \subseteq Deliveries /\ handled \subseteq Deliveries
    /\ rejected \subseteq Deliveries /\ repeatable \subseteq Deliveries
    /\ applied \in [Deliveries -> Nat]

Calls(f, e)   == [f EXCEPT ![e] = @ + 1]
Returns(f, e) == [f EXCEPT ![e] = @ - 1]

-----------------------------------------------------------------------------
(* IngestEnvelope *)

(* A delivery seen before is answered with the envelope it went into.       *)
IngestDuplicate(d) ==
    /\ deliveryIndex[d] # NoEnv
    /\ answered' = answered \cup {d}
    /\ UNCHANGED <<persistent, volatile, queueVars, callVars, workers, nextEnv,
                   handled, rejected, applied, repeatable, replays, crashes>>
    /\ Save

(* Mutant: an older delivery replaces a newer one. *)
CoalescesAnyOrder(d) ==
    LET e == coalesceIndex[Obj[d]]
    IN  /\ e # NoEnv
        /\ e \in Stored
        /\ e \notin processedEnvs \cup processingEnvs
        /\ Ts[d] - ReceivedAt(e) <= Window

(* The object has an envelope that waits its turn and is not newer nor too  *)
(* old.                                                                     *)
Coalesces(d) ==
    LET e == coalesceIndex[Obj[d]]
    IN  /\ e # NoEnv
        /\ e \in Stored
        /\ e \notin processedEnvs \cup processingEnvs
        /\ Ts[d] - ReceivedAt(e) \in 0..Window

(* Mutant: the merged delivery is not remembered. *)
IngestCoalescedUnindexed(d) ==
    /\ deliveryIndex[d] = NoEnv
    /\ Coalesces(d)
    /\ envelopesByID' = [envelopesByID EXCEPT
         ![coalesceIndex[Obj[d]]] = [@ EXCEPT !.payload = d,
                                              !.merged = @ \cup {d}]]
    /\ answered' = answered \cup {d}
    /\ UNCHANGED <<deliveryIndex, processedEnvs, envelopeAttempts,
                   envelopeNextAttempt, deadLetters, watermarks, projection,
                   volatile, queueVars, callVars, workers, nextEnv, handled,
                   rejected, applied, repeatable, replays, crashes>>
    /\ Save

(* Mutant: the merge is answered before it is saved. *)
IngestCoalescedUnsaved(d) ==
    /\ deliveryIndex[d] = NoEnv
    /\ Coalesces(d)
    /\ LET e == coalesceIndex[Obj[d]]
       IN  /\ envelopesByID' = [envelopesByID EXCEPT
                ![e].payload = d, ![e].merged = @ \cup {d}]
           /\ deliveryIndex' = [deliveryIndex EXCEPT ![d] = e]
    /\ answered' = answered \cup {d}
    /\ UNCHANGED <<processedEnvs, envelopeAttempts, envelopeNextAttempt,
                   deadLetters, watermarks, projection, volatile, disk,
                   queueVars, callVars, workers, nextEnv, handled, rejected,
                   applied, repeatable, replays, crashes>>

IngestCoalesced(d) ==
    /\ deliveryIndex[d] = NoEnv
    /\ Coalesces(d)
    /\ LET e == coalesceIndex[Obj[d]]
       IN  /\ envelopesByID' = [envelopesByID EXCEPT
                ![e].payload = d, ![e].merged = @ \cup {d}]
           /\ deliveryIndex' = [deliveryIndex EXCEPT ![d] = e]
    /\ answered' = answered \cup {d}
    /\ UNCHANGED <<processedEnvs, envelopeAttempts, envelopeNextAttempt,
                   deadLetters, watermarks, projection, volatile, queueVars,
                   callVars, workers, nextEnv, handled, rejected, applied,
                   repeatable, replays, crashes>>
    /\ Save

(* The sender leaves the envelope's id to IngestEnvelope, or chooses one     *)
(* nobody has used: an id that is given and in use would overwrite the       *)
(* stored envelope.                                                          *)
IngestStored(d) ==
    LET e == nextEnv + 1
    IN  /\ deliveryIndex[d] = NoEnv
        /\ ~Coalesces(d)
        /\ e \in EnvIds
        /\ nextEnv' = e
        /\ envelopesByID' = [envelopesByID EXCEPT ![e] =
             [delivery |-> d, payload |-> d, merged |-> {d}]]
        /\ deliveryIndex' = [deliveryIndex EXCEPT ![d] = e]
        /\ coalesceIndex' = [coalesceIndex EXCEPT ![Obj[d]] = e]
        /\ ingesting' = ingesting \cup {<<e, d>>}
        /\ UNCHANGED <<processedEnvs, envelopeAttempts, envelopeNextAttempt,
                       deadLetters, watermarks, projection, processingEnvs,
                       queueVars, refused, toEnqueue, timers, workers, history>>
        /\ Save

(* Without the mutex: the envelope is queued and the delivery answered, or  *)
(* the queue is full.                                                       *)
tryEnqueueEnvelope(e, d) ==
    /\ <<e, d>> \in ingesting
    /\ ingesting' = ingesting \ {<<e, d>>}
    /\ \/ /\ e \in queued \/ Len(queue) < Cap
          /\ queued' = queued \cup {e}
          /\ queue' = IF e \in queued THEN queue ELSE Append(queue, e)
          /\ answered' = answered \cup {d}
          /\ UNCHANGED refused
       \/ /\ e \notin queued /\ Len(queue) >= Cap
          /\ refused' = refused \cup {<<e, d>>}
          /\ UNCHANGED <<queue, queued, answered>>
    /\ UNCHANGED <<persistent, volatile, disk, blocked, toEnqueue, timers,
                   workers, nextEnv, handled, rejected, applied, repeatable,
                   replays, crashes>>

(* The envelope is taken back whatever was merged into it meanwhile, and    *)
(* the caller gets ErrQueueFull.                                            *)
IngestRefused(e, d) ==
    /\ <<e, d>> \in refused
    /\ refused' = refused \ {<<e, d>>}
    /\ envelopesByID' = [envelopesByID EXCEPT ![e] = NoEnv]
    /\ deliveryIndex' = [deliveryIndex EXCEPT ![d] = NoEnv]
    /\ coalesceIndex' = IF coalesceIndex[Obj[d]] = e
                        THEN [coalesceIndex EXCEPT ![Obj[d]] = NoEnv]
                        ELSE coalesceIndex
    /\ processedEnvs' = processedEnvs \ {e}
    /\ envelopeAttempts' = [envelopeAttempts EXCEPT ![e] = 0]
    /\ envelopeNextAttempt' = envelopeNextAttempt \ {e}
    /\ UNCHANGED <<deadLetters, watermarks, projection, processingEnvs,
                   queueVars, ingesting, toEnqueue, timers, workers, nextEnv,
                   history>>
    /\ Save

(* Mutant: a full queue does not stop a retry. *)
enqueueEnvelopeUnbounded(e) ==
    /\ toEnqueue[e] > 0
    /\ toEnqueue' = Returns(toEnqueue, e)
    /\ queued' = queued \cup {e}
    /\ queue' = IF e \in queued THEN queue ELSE Append(queue, e)
    /\ UNCHANGED <<persistent, volatile, disk, blocked, ingesting, refused,
                   timers, workers, nextEnv, history>>

(* Mutant: a retry that finds the queue full is given up. *)
enqueueEnvelopeDrops(e) ==
    /\ toEnqueue[e] > 0
    /\ toEnqueue' = Returns(toEnqueue, e)
    /\ queued' = IF Len(queue) < Cap THEN queued \cup {e} ELSE queued
    /\ queue' = IF e \in queued \/ Len(queue) >= Cap THEN queue
                                                    ELSE Append(queue, e)
    /\ UNCHANGED <<persistent, volatile, disk, blocked, ingesting, refused,
                   timers, workers, nextEnv, history>>

(* enqueueEnvelope: a second task is dropped, a full queue blocks a         *)
(* goroutine.                                                               *)
enqueueEnvelope(e) ==
    /\ toEnqueue[e] > 0
    /\ toEnqueue' = Returns(toEnqueue, e)
    /\ queued' = queued \cup {e}
    /\ queue' = IF e \in queued \/ Len(queue) >= Cap THEN queue
                                                    ELSE Append(queue, e)
    /\ blocked' = IF e \in queued \/ Len(queue) < Cap THEN blocked
                                                     ELSE blocked \cup {e}
    /\ UNCHANGED <<persistent, volatile, disk, ingesting, refused, timers,
                   workers, nextEnv, history>>

Enqueue(e) ==
    /\ e \in blocked
    /\ Len(queue) < Cap
    /\ queue' = Append(queue, e)
    /\ blocked' = blocked \ {e}
    /\ UNCHANGED <<persistent, volatile, disk, queued, callVars, workers,
                   nextEnv, history>>

RetryTimerFires(e) ==
    /\ timers[e] > 0
    /\ timers' = Returns(timers, e)
    /\ toEnqueue' = Calls(toEnqueue, e)
    /\ UNCHANGED <<persistent, volatile, disk, queueVars, ingesting, refused,
                   workers, nextEnv, history>>

-----------------------------------------------------------------------------
(* The envelope workers *)

Dequeue(w) ==
    /\ workers[w].pc = "idle"
    /\ queue # <<>>
    /\ queue' = Tail(queue)
    /\ workers' = [workers EXCEPT ![w] =
         [pc |-> "dequeued", env |-> Head(queue), slot |-> FALSE]]
    /\ UNCHANGED <<persistent, volatile, disk, queued, blocked, callVars,
                   nextEnv, history>>

MarkDequeued(w) ==
    /\ workers[w].pc = "dequeued"
    /\ queued' = queued \ {workers[w].env}
    /\ workers' = [workers EXCEPT ![w].pc = "waiting"]
    /\ UNCHANGED <<persistent, volatile, disk, queue, blocked, callVars,
                   nextEnv, history>>

Slots == {w \in Workers : workers[w].pc # "idle" /\ workers[w].slot}

(* An envelope that is gone takes no slot. *)
acquireProviderSlot(w) ==
    /\ workers[w].pc = "waiting"
    /\ workers[w].env \in Stored => Cardinality(Slots) < MaxConcurrency
    /\ workers' = [workers EXCEPT ![w].pc = "begin",
                                  ![w].slot = workers[w].env \in Stored]
    /\ UNCHANGED <<persistent, volatile, disk, queueVars, callVars, nextEnv,
                   history>>

(* Mutant: dead letters are pruned like the rest. *)
PrunedWithDead(envs, processed, dead) ==
    LET stored == {e \in EnvIds : envs[e] # NoEnv}
        candidates == stored \cap processed
        at(e) == Ts[envs[e].payload]
        older(c, e) == at(c) < at(e) \/ (at(c) = at(e) /\ c < e)
        excess == Cardinality(stored) - MaxStored
    IN  {e \in candidates :
           Cardinality({c \in candidates : older(c, e)}) < excess}

(* pruneProcessedEnvelopesLocked over the store it is called on: the oldest *)
(* processed envelopes that are not dead letters, down to MaxStored.        *)
Pruned(envs, processed, dead) ==
    LET stored == {e \in EnvIds : envs[e] # NoEnv}
        candidates == (stored \cap processed) \ dead
        at(e) == Ts[envs[e].payload]
        older(c, e) == at(c) < at(e) \/ (at(c) = at(e) /\ c < e)
        excess == Cardinality(stored) - MaxStored
    IN  {e \in candidates :
           Cardinality({c \in candidates : older(c, e)}) < excess}

(* What is left of the store when envelope e is done, dead or alive.        *)
Complete(e, dead) ==
    LET gone == Pruned(envelopesByID, processedEnvs \cup {e}, dead)
    IN  /\ deadLetters' = dead
        /\ envelopesByID' = [x \in EnvIds |->
             IF x \in gone THEN NoEnv ELSE envelopesByID[x]]
        /\ processedEnvs' = (processedEnvs \cup {e}) \ gone
        /\ envelopeAttempts' = [x \in EnvIds |->
             IF x \in gone \cup {e} THEN 0 ELSE envelopeAttempts[x]]
        /\ envelopeNextAttempt' = envelopeNextAttempt \ (gone \cup {e})
        /\ coalesceIndex' = [o \in Objects |->
             IF coalesceIndex[o] \in gone \cup {e} THEN NoEnv
                                                  ELSE coalesceIndex[o]]
        /\ deliveryIndex' = [d \in Deliveries |->
             IF \E x \in gone : deliveryIndex[d] = x
                                 /\ d = envelopesByID[x].delivery
             THEN NoEnv ELSE deliveryIndex[d]]
        /\ repeatable' = repeatable \cup
             {envelopesByID[x].delivery : x \in gone}
        /\ processingEnvs' = processingEnvs \ {e}

(* Mutant: another worker's parse of the envelope goes unnoticed. *)
BeginEnvelopeUnmarked(w) ==
    /\ workers[w].pc = "begin"
    /\ LET e == workers[w].env
       IN  \/ /\ e \notin Unprocessed
              /\ workers' = [workers EXCEPT ![w].pc = "release"]
              /\ UNCHANGED <<persistent, volatile, disk, history>>
           \/ /\ e \in Unprocessed
              /\ processingEnvs' = processingEnvs \cup {e}
              /\ envelopeAttempts' = Calls(envelopeAttempts, e)
              /\ workers' = [workers EXCEPT ![w] =
                   [pc |-> "parsing", env |-> e, slot |-> @.slot,
                    attempt |-> envelopeAttempts[e] + 1,
                    payload |-> envelopesByID[e].payload]]
              /\ UNCHANGED <<envelopesByID, deliveryIndex, processedEnvs,
                             envelopeNextAttempt, deadLetters, watermarks,
                             projection, coalesceIndex, disk, history>>
    /\ UNCHANGED <<queueVars, callVars, nextEnv>>

(* The first block of processEnvelope. *)
BeginEnvelope(w) ==
    /\ workers[w].pc = "begin"
    /\ LET e == workers[w].env
       IN  \/ /\ e \notin Unprocessed \/ e \in processingEnvs
              /\ workers' = [workers EXCEPT ![w].pc = "release"]
              /\ UNCHANGED <<persistent, volatile, disk, history>>
           \/ /\ e \in Unprocessed \ processingEnvs
              /\ processingEnvs' = processingEnvs \cup {e}
              /\ envelopeAttempts' = Calls(envelopeAttempts, e)
              /\ workers' = [workers EXCEPT ![w] =
                   [pc |-> "parsing", env |-> e, slot |-> @.slot,
                    attempt |-> envelopeAttempts[e] + 1,
                    payload |-> envelopesByID[e].payload]]
              /\ UNCHANGED <<envelopesByID, deliveryIndex, processedEnvs,
                             envelopeNextAttempt, deadLetters, watermarks,
                             projection, coalesceIndex, disk, history>>
    /\ UNCHANGED <<queueVars, callVars, nextEnv>>

(* shouldSuppressEnvelopeLocked: the payload echoes a recent writeback. *)
SuppressEnvelope(w) ==
    /\ workers[w].pc = "begin"
    /\ LET e == workers[w].env
       IN  /\ e \in Unprocessed \ processingEnvs
           /\ envelopesByID[e].payload \in Echoes
           /\ Complete(e, deadLetters \ {e})
           /\ rejected' = rejected \cup envelopesByID[e].merged
    /\ workers' = [workers EXCEPT ![w].pc = "release"]
    /\ UNCHANGED <<watermarks, projection, queueVars, callVars, nextEnv,
                   answered, handled, applied, replays, crashes>>
    /\ Save

(* The second block of processEnvelope: the envelope disappeared.           *)
AbandonEnvelope(w) ==
    /\ workers[w].pc = "parsing"
    /\ workers[w].env \notin Unprocessed
    /\ processingEnvs' = processingEnvs \ {workers[w].env}
    /\ workers' = [workers EXCEPT ![w] =
         [pc |-> "release", env |-> @.env, slot |-> @.slot]]
    /\ UNCHANGED <<persistent, coalesceIndex, disk, queueVars, callVars,
                   nextEnv, history>>

(* Mutant: the attempts of an envelope are started over by a failure. *)
FailEnvelopeStartsOver(w) ==
    /\ workers[w].pc = "parsing"
    /\ workers[w].env \in Unprocessed
    /\ workers[w].payload \in Flaky
    /\ LET e == workers[w].env
       IN  /\ workers' = [workers EXCEPT ![w] =
                [pc |-> "retry", env |-> e, slot |-> @.slot]]
           /\ envelopeNextAttempt' = envelopeNextAttempt \cup {e}
           /\ envelopeAttempts' = [envelopeAttempts EXCEPT ![e] = 0]
           /\ processingEnvs' = processingEnvs \ {e}
    /\ UNCHANGED <<envelopesByID, deliveryIndex, processedEnvs, deadLetters,
                   coalesceIndex, rejected, repeatable, watermarks, projection,
                   queueVars, callVars, nextEnv, answered, handled, applied,
                   replays, crashes>>
    /\ Save

(* The second block, after a parse error. *)
FailEnvelope(w) ==
    /\ workers[w].pc = "parsing"
    /\ workers[w].env \in Unprocessed
    /\ workers[w].payload \in Flaky
    /\ LET e == workers[w].env
           last == workers[w].attempt >= MaxAttempts
       IN  /\ workers' = [workers EXCEPT ![w] =
                [pc |-> IF last THEN "release" ELSE "retry",
                 env |-> e, slot |-> @.slot]]
           /\ \/ /\ last
                 /\ Complete(e, deadLetters \cup {e})
                 /\ rejected' = rejected \cup envelopesByID[e].merged
              \/ /\ ~last
                 /\ envelopeNextAttempt' = envelopeNextAttempt \cup {e}
                 /\ processingEnvs' = processingEnvs \ {e}
                 /\ UNCHANGED <<envelopesByID, deliveryIndex, processedEnvs,
                                envelopeAttempts, deadLetters, coalesceIndex,
                                rejected, repeatable>>
    /\ UNCHANGED <<watermarks, projection, queueVars, callVars, nextEnv,
                   answered, handled, applied, replays, crashes>>
    /\ Save

scheduleEnvelopeRetry(w) ==
    /\ workers[w].pc = "retry"
    /\ timers' = Calls(timers, workers[w].env)
    /\ workers' = [workers EXCEPT ![w].pc = "release"]
    /\ UNCHANGED <<persistent, volatile, disk, queueVars, ingesting, refused,
                   toEnqueue, nextEnv, history>>

(* isStaleProviderActionLocked: older than the object's watermark. *)
Stale(e) == ReceivedAt(e) < watermarks[ObjOf(e)]

(* The second block, after a parse: what was parsed is the payload read in  *)
(* the first block, its age is the envelope's ReceivedAt now.               *)
ApplyEnvelope(w) ==
    /\ workers[w].pc = "parsing"
    /\ workers[w].env \in Unprocessed
    /\ LET e == workers[w].env
           d == workers[w].payload
           o == ObjOf(e)
       IN  /\ watermarks' = IF Stale(e) THEN watermarks
                            ELSE [watermarks EXCEPT ![o] = ReceivedAt(e)]
           /\ projection' = IF Stale(e) THEN projection
                            ELSE [projection EXCEPT ![o] = Ts[d]]
           /\ applied' = IF Stale(e) THEN applied ELSE Calls(applied, d)
           /\ handled' = handled \cup envelopesByID[e].merged
           /\ Complete(e, deadLetters \ {e})
    /\ workers' = [workers EXCEPT ![w] =
         [pc |-> "release", env |-> @.env, slot |-> @.slot]]
    /\ UNCHANGED <<queueVars, callVars, nextEnv, answered, rejected, replays,
                   crashes>>
    /\ Save

Release(w) ==
    /\ workers[w].pc = "release"
    /\ workers' = [workers EXCEPT ![w] = Idle]
    /\ UNCHANGED <<persistent, volatile, disk, queueVars, callVars, nextEnv,
                   history>>

-----------------------------------------------------------------------------
(* Operators *)

(* The admin endpoint replays any stored envelope; the workspace endpoint   *)
(* checks for a dead letter first, under another lock.                      *)
ReplayEnvelope(e) ==
    /\ e \in Stored
    /\ replays < MaxReplays
    /\ replays' = replays + 1
    /\ processedEnvs' = processedEnvs \ {e}
    /\ envelopeAttempts' = [envelopeAttempts EXCEPT ![e] = 0]
    /\ envelopeNextAttempt' = envelopeNextAttempt \ {e}
    /\ deadLetters' = deadLetters \ {e}
    /\ coalesceIndex' = [coalesceIndex EXCEPT ![ObjOf(e)] = e]
    /\ toEnqueue' = Calls(toEnqueue, e)
    /\ repeatable' = repeatable \cup envelopesByID[e].merged
    /\ UNCHANGED <<envelopesByID, deliveryIndex, watermarks, projection,
                   processingEnvs, queueVars, ingesting, refused, timers,
                   workers, nextEnv, answered, handled, rejected, applied,
                   crashes>>
    /\ Save

AcknowledgeDeadLetter(e) ==
    /\ e \in deadLetters
    /\ deadLetters' = deadLetters \ {e}
    /\ UNCHANGED <<envelopesByID, deliveryIndex, processedEnvs,
                   envelopeAttempts, envelopeNextAttempt, watermarks,
                   projection, volatile, queueVars, callVars, workers, nextEnv,
                   history>>
    /\ Save

-----------------------------------------------------------------------------
Count(S) == [e \in EnvIds |-> IF e \in S THEN 1 ELSE 0]

(* rebuildCoalesceIndexLocked: the newest unprocessed envelope per object   *)
(* (a set of one index).                                                    *)
RebuiltIndex(envs, processed) ==
    LET open(o) == {e \in EnvIds \ processed :
                      envs[e] # NoEnv /\ Obj[envs[e].payload] = o}
        at(e) == Ts[envs[e].payload]
        newest(e, o) == \A x \in open(o) : at(x) < at(e) \/ (at(x) = at(e) /\ x <= e)
    IN  {index \in [Objects -> EnvIds \cup {NoEnv}] :
           \A o \in Objects :
             IF open(o) = {} THEN index[o] = NoEnv
             ELSE index[o] \in open(o) /\ newest(index[o], o)}

(* A crash at any point, then NewStoreWithOptions: the queued index comes   *)
(* from the queue, the coalesce index is rebuilt, every unprocessed         *)
(* envelope is enqueued now or when its next attempt is due.                *)
Restart ==
    /\ crashes < MaxCrashes
    /\ crashes' = crashes + 1
    /\ envelopesByID' = disk.envelopesByID
    /\ deliveryIndex' = disk.deliveryIndex
    /\ processedEnvs' = disk.processedEnvs
    /\ envelopeAttempts' = disk.envelopeAttempts
    /\ envelopeNextAttempt' = disk.envelopeNextAttempt
    /\ deadLetters' = disk.deadLetters
    /\ watermarks' = disk.watermarks
    /\ projection' = disk.projection
    /\ coalesceIndex' \in RebuiltIndex(disk.envelopesByID, disk.processedEnvs)
    /\ processingEnvs' = {}
    /\ queue' = IF FileQueue THEN queue ELSE <<>>
    /\ queued' = Range(queue')
    /\ blocked' = {} /\ ingesting' = {} /\ refused' = {}
    /\ LET open == {e \in EnvIds \ disk.processedEnvs :
                      disk.envelopesByID[e] # NoEnv}
       IN  \E later \in SUBSET (open \cap disk.envelopeNextAttempt) :
             /\ toEnqueue' = Count(open \ later)
             /\ timers' = Count(later)
    /\ workers' = [w \in Workers |-> Idle]
    /\ UNCHANGED <<disk, nextEnv, answered, handled, rejected, applied,
                   repeatable, replays>>

Init ==
    /\ envelopesByID = [e \in EnvIds |-> NoEnv]
    /\ deliveryIndex = [d \in Deliveries |-> NoEnv]
    /\ processedEnvs = {} /\ envelopeAttempts = Count({})
    /\ envelopeNextAttempt = {} /\ deadLetters = {}
    /\ watermarks = [o \in Objects |-> 0]
    /\ projection = [o \in Objects |-> 0]
    /\ coalesceIndex = [o \in Objects |-> NoEnv]
    /\ processingEnvs = {}
    /\ disk = Snapshot
    /\ queue = <<>> /\ queued = {} /\ blocked = {}
    /\ ingesting = {} /\ refused = {}
    /\ toEnqueue = Count({}) /\ timers = Count({})
    /\ workers = [w \in Workers |-> Idle]
    /\ nextEnv = 0
    /\ answered = {} /\ handled = {} /\ rejected = {} /\ repeatable = {}
    /\ applied = [d \in Deliveries |-> 0]
    /\ replays = 0 /\ crashes = 0

Ingress ==
    \E d \in Deliveries :
      \/ IngestDuplicate(d)
      \/ IngestCoalesced(d)
      \/ IngestStored(d)
      \/ \E e \in EnvIds : tryEnqueueEnvelope(e, d) \/ IngestRefused(e, d)

Queueing ==
    \E e \in EnvIds : enqueueEnvelope(e) \/ Enqueue(e) \/ RetryTimerFires(e)

WorkerStep(w) ==
    \/ Dequeue(w)
    \/ MarkDequeued(w)
    \/ acquireProviderSlot(w)
    \/ BeginEnvelope(w)
    \/ SuppressEnvelope(w)
    \/ AbandonEnvelope(w)
    \/ FailEnvelope(w)
    \/ scheduleEnvelopeRetry(w)
    \/ ApplyEnvelope(w)
    \/ Release(w)

Operators == \E e \in EnvIds : ReplayEnvelope(e) \/ AcknowledgeDeadLetter(e)

Next ==
    \/ Ingress
    \/ Queueing
    \/ \E w \in Workers : WorkerStep(w)
    \/ Operators
    \/ Restart

Spec == Init /\ [][Next]_vars

(* Every call, goroutine, timer and worker goes on, and whoever waits for   *)
(* room in the queue or for a provider slot gets its turn.                  *)
Fairness ==
    /\ \A e \in EnvIds :
         /\ \A d \in Deliveries : WF_vars(tryEnqueueEnvelope(e, d))
                                 /\ WF_vars(IngestRefused(e, d))
         /\ WF_vars(enqueueEnvelope(e))
         /\ SF_vars(Enqueue(e))
         /\ WF_vars(RetryTimerFires(e))
    /\ \A w \in Workers : WF_vars(WorkerStep(w)) /\ SF_vars(acquireProviderSlot(w))

FairSpec == Spec /\ Fairness

-----------------------------------------------------------------------------
(* Properties *)

Busy(w, e) == workers[w].pc # "idle" /\ workers[w].env = e

(* A stored envelope that is not processed is carried by someone: an        *)
(* IngestEnvelope call, an enqueueEnvelope call, the queue, a blocked       *)
(* sender, a timer, or a worker that has yet to deal with it; and           *)
(* queuedEnvelopes names exactly the envelopes in the queue or not yet      *)
(* marked.                                                                  *)
NothingStranded ==
    /\ \A e \in Unprocessed :
         \/ \E d \in Deliveries : <<e, d>> \in ingesting \cup refused
         \/ toEnqueue[e] > 0 \/ timers[e] > 0
         \/ e \in Range(queue) \cup blocked
         \/ \E w \in Workers : Busy(w, e) /\ workers[w].pc # "release"
    /\ queued = Range(queue) \cup blocked \cup
                 {e \in EnvIds : \E w \in Workers :
                    Busy(w, e) /\ workers[w].pc = "dequeued"}

(* The workers and the processing marks agree, so an envelope is never      *)
(* parsed by two workers, and a mark never outlives its worker.             *)
ProcessingMarked ==
    /\ processingEnvs = {workers[w].env : w \in {v \in Workers :
                                                 workers[v].pc = "parsing"}}
    /\ \A v, w \in Workers :
         (workers[v].pc = "parsing" /\ workers[w].pc = "parsing" /\ v # w)
           => workers[v].env # workers[w].env

(* A delivery that was applied, merged into a later one or found stale is   *)
(* reflected: the object's projection is at least as new, in whatever order *)
(* the envelopes of the object were created, retried and replayed.          *)
HandledReflected ==
    \A d \in handled : projection[Obj[d]] >= Ts[d]

(* RF-ING-001: a duplicate delivery is projected once, unless an operator   *)
(* replayed it or its envelope was pruned before the duplicate came.        *)
AppliedOnce == \A d \in Deliveries \ repeatable : applied[d] <= 1

(* A dead letter can be replayed: its envelope is still stored, whatever    *)
(* pruning and replays have done since.                                     *)
DeadLettersReplayable == deadLetters \subseteq Stored \cap processedEnvs

(* The OpenAPI text of the 202: "Webhook accepted and queued".  A delivery  *)
(* so answered was dealt with or is held in a stored envelope.              *)
AcceptedKept ==
    \A d \in answered :
      \/ d \in handled \cup rejected
      \/ \E e \in Stored : d \in envelopesByID[e].merged

(* Every stored envelope is processed, dead-lettered or taken back.         *)
EnvelopesSettle ==
    \A e \in EnvIds : (e \in Unprocessed) ~> (e \notin Unprocessed)
=============================================================================
