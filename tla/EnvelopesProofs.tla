-------------------------- MODULE EnvelopesProofs ---------------------------
(***************************************************************************)
(* Theorems about webhook ingress: what was handled is reflected, what was  *)
(* applied is not applied again, and what was accepted is kept.             *)
(***************************************************************************)
EXTENDS Envelopes, TLAPS

-----------------------------------------------------------------------------
(* The invariant *)

(* Somebody may come to work on the envelope.                               *)
Carried(e) ==
    \/ toEnqueue[e] # 0 \/ timers[e] # 0
    \/ e \in Range(queue) \cup blocked
    \/ \E w \in Workers : Busy(w, e)

(* An IngestEnvelope call has yet to see the envelope queued.               *)
Calling(e, d) == <<e, d>> \in ingesting \cup refused

(* The envelope stands for older deliveries about its payload's object.     *)
EnvelopeFits(x) ==
    /\ x.delivery \in x.merged /\ x.payload \in x.merged
    /\ \A d \in x.merged : Obj[d] = Obj[x.payload] /\ Ts[d] <= Ts[x.payload]

(* Every change but the count of an attempt is saved with it.               *)
DiskAgrees ==
    /\ disk.envelopesByID = envelopesByID /\ disk.deliveryIndex = deliveryIndex
    /\ disk.processedEnvs = processedEnvs
    /\ disk.watermarks = watermarks /\ disk.projection = projection
    /\ envelopeAttempts \in [EnvIds -> Nat] /\ disk.envelopeAttempts \in [EnvIds -> Nat]

(* A worker parses the payload its envelope has, and is alone at it.        *)
ParseFits(w) ==
    workers[w].pc = "parsing" =>
      /\ workers[w].env \in processingEnvs
      /\ workers[w].env \in Stored =>
           workers[w].payload = envelopesByID[workers[w].env].payload
      /\ \A v \in Workers \ {w} :
           workers[v].pc = "parsing" => workers[v].env # workers[w].env

StoreTypes ==
    /\ envelopesByID \in [EnvIds -> Envelope \cup {NoEnv}]
    /\ deliveryIndex \in [Deliveries -> EnvIds \cup {NoEnv}]
    /\ processedEnvs \subseteq EnvIds
    /\ watermarks \in [Objects -> Nat] /\ projection = watermarks
    /\ coalesceIndex \in [Objects -> EnvIds \cup {NoEnv}]
    /\ nextEnv \in Nat

CallTypes ==
    /\ queue \in Seq(EnvIds) /\ blocked \subseteq EnvIds
    /\ DOMAIN toEnqueue = EnvIds /\ DOMAIN timers = EnvIds
    /\ workers \in [Workers -> WorkerState]

(* Envelope ids are used once.                                              *)
IdsUsed ==
    /\ \A e \in EnvIds :
         e \in Stored \cup processedEnvs \/ Carried(e) \/ (\E d \in Deliveries : Calling(e, d))
           => e <= nextEnv
    /\ \A d \in Deliveries : deliveryIndex[d] # NoEnv => deliveryIndex[d] <= nextEnv
    /\ \A o \in Objects : coalesceIndex[o] # NoEnv => coalesceIndex[o] <= nextEnv

EnvInv ==
    /\ StoreTypes /\ CallTypes /\ DiskAgrees /\ IdsUsed
    /\ \A e \in Stored : EnvelopeFits(envelopesByID[e])
    /\ \A o \in Objects : coalesceIndex[o] \in Stored => ObjOf(coalesceIndex[o]) = o
    /\ \A w \in Workers : ParseFits(w)
    /\ handled \subseteq Deliveries /\ HandledReflected

(* A delivery that is neither replayed nor forgotten is indexed where it is; *)
(* once applied it stays indexed, and its envelope processed; as long as its *)
(* call runs, nobody is at its envelope.                                    *)
OnceFor(d) ==
    /\ \A e \in Stored : d \in envelopesByID[e].merged <=> deliveryIndex[d] = e
    /\ applied[d] # 0 =>
         /\ applied[d] = 1 /\ deliveryIndex[d] # NoEnv
         /\ deliveryIndex[d] \in Stored => deliveryIndex[d] \in processedEnvs
    /\ \A e \in EnvIds : Calling(e, d) =>
         /\ e \in Unprocessed /\ envelopesByID[e].delivery = d
         /\ ~Carried(e) /\ applied[d] = 0

OnceInv ==
    /\ applied \in [Deliveries -> Nat]
    /\ \A d \in Deliveries \ repeatable : OnceFor(d)
    /\ ingesting \cap refused = {}
    /\ \A e \in EnvIds, d, c \in Deliveries : Calling(e, d) /\ Calling(e, c) => c = d

(* A delivery is dealt with or held.                                        *)
Safe(d) == d \in handled \cup rejected \/ \E e \in Stored : d \in envelopesByID[e].merged

KeptInv ==
    /\ answered \subseteq Deliveries
    /\ \A d \in Deliveries :
         (\/ d \in answered \/ deliveryIndex[d] # NoEnv
          \/ \E e \in EnvIds : <<e, d>> \in ingesting) => Safe(d)
    /\ \A e \in Stored \cap processedEnvs : envelopesByID[e].merged \subseteq handled \cup rejected

-----------------------------------------------------------------------------
(* Queues and workers *)

(* What the queue holds after an append, and after its head is taken. *)
LEMMA QueueAppended ==
    ASSUME NEW S, NEW s \in Seq(S), NEW x \in S
    PROVE  Append(s, x) \in Seq(S) /\ Range(Append(s, x)) = Range(s) \cup {x}
  <1>1. /\ Append(s, x) \in Seq(S) /\ Len(s) \in Nat
        /\ DOMAIN Append(s, x) = 1..Len(s) + 1 /\ DOMAIN s = 1..Len(s)
        /\ \A i \in 1..Len(s) : Append(s, x)[i] = s[i]
        /\ Append(s, x)[Len(s) + 1] = x
    OBVIOUS
  <1>2. /\ \A i \in 1..Len(s) + 1 : i \in 1..Len(s) \/ i = Len(s) + 1
        /\ \A i \in 1..Len(s) : i \in 1..Len(s) + 1
        /\ Len(s) + 1 \in 1..Len(s) + 1
    BY <1>1
  <1>3. Range(Append(s, x)) \subseteq Range(s) \cup {x}
    BY <1>1, <1>2 DEF Range
  <1>4. Range(s) \subseteq Range(Append(s, x)) /\ x \in Range(Append(s, x))
    BY <1>1, <1>2 DEF Range
  <1> QED
    BY <1>1, <1>3, <1>4

(* What the head of a queue is, and what is left when it is taken. *)
LEMMA QueueTaken ==
    ASSUME NEW S, NEW s \in Seq(S), s # <<>>
    PROVE  /\ Head(s) \in S /\ Tail(s) \in Seq(S)
           /\ Head(s) \in Range(s) /\ Range(Tail(s)) \subseteq Range(s)
  <1>1. /\ Head(s) \in S /\ Tail(s) \in Seq(S) /\ Len(s) \in Nat \ {0}
        /\ Head(s) = s[1]
        /\ DOMAIN s = 1..Len(s) /\ DOMAIN Tail(s) = 1..Len(s) - 1
        /\ \A i \in DOMAIN Tail(s) : Tail(s)[i] = s[i + 1]
    OBVIOUS
  <1>2. 1 \in DOMAIN s /\ \A i \in DOMAIN Tail(s) : i + 1 \in DOMAIN s
    BY <1>1
  <1> QED
    BY <1>1, <1>2 DEF Range

(* The state of a worker tells its fields. *)
LEMMA WorkerKinds ==
    ASSUME NEW k \in WorkerState
    PROVE  /\ k.pc = "idle" => k = Idle
           /\ k.pc \notin {"idle", "parsing"} =>
                k \in [pc : {"dequeued", "waiting", "begin", "retry", "release"},
                       env : EnvIds, slot : BOOLEAN]
           /\ k.pc = "parsing" =>
                k \in [pc : {"parsing"}, env : EnvIds, slot : BOOLEAN,
                       attempt : Nat, payload : Deliveries]
           /\ k.pc # "idle" => k.env \in EnvIds /\ k.slot \in BOOLEAN
  BY DEF WorkerState, Idle

(* A worker that is not parsing moves on. *)
LEMMA WorkerMoves ==
    ASSUME NEW k \in WorkerState, k.pc \notin {"idle", "parsing"}, NEW n,
           NEW place \in {"dequeued", "waiting", "begin", "retry", "release"},
           NEW slot \in BOOLEAN,
           n \in {[k EXCEPT !.pc = place], [k EXCEPT !.pc = place, !.slot = slot]}
    PROVE  n \in WorkerState /\ n.pc = place /\ n.env = k.env
  <1>1. k \in [pc : {"dequeued", "waiting", "begin", "retry", "release"},
                env : EnvIds, slot : BOOLEAN]
    BY WorkerKinds
  <1> QED
    BY <1>1 DEF WorkerState

(* One worker changes. *)
LEMMA OneWorker ==
    ASSUME CallTypes, NEW w \in Workers, NEW k \in WorkerState,
           workers' = [workers EXCEPT ![w] = k]
    PROVE  /\ workers' \in [Workers -> WorkerState] /\ workers'[w] = k
           /\ \A v \in Workers \ {w} : workers'[v] = workers[v]
  BY DEF CallTypes

(* Parses go on when their envelopes keep their payloads, and their marks.  *)
LEMMA ParseKept ==
    ASSUME \A v \in Workers : ParseFits(v), CallTypes, NEW w,
           \A v \in Workers \ {w} : workers'[v] = workers[v],
           w \in Workers => workers'[w].pc # "parsing",
           \A v \in Workers \ {w} : workers[v].pc = "parsing" => workers[v].env \in processingEnvs',
           \A e \in processingEnvs : e \in Stored' =>
               e \in Stored /\ envelopesByID'[e].payload = envelopesByID[e].payload
    PROVE  \A v \in Workers : ParseFits(v)'
  BY DEF ParseFits

-----------------------------------------------------------------------------
(* Steps that leave the store alone *)

(* The store is as it was; whoever comes to carry an envelope did before or *)
(* was its call.                                                            *)
Aside ==
    /\ UNCHANGED <<envelopesByID, deliveryIndex, processedEnvs, watermarks, projection,
                   coalesceIndex, nextEnv, handled, rejected, applied, repeatable>>
    /\ DiskAgrees' /\ CallTypes'
    /\ \A e \in EnvIds : Carried(e)' => Carried(e) \/ \E d \in Deliveries : Calling(e, d)
    /\ \A e \in EnvIds, d \in Deliveries : Calling(e, d)' => Calling(e, d)
    /\ \A w \in Workers : ParseFits(w)'

(* A step beside the store keeps the invariant. *)
LEMMA AsideStep ==
    ASSUME EnvInv, Aside
    PROVE  EnvInv'
  <1>1. StoreTypes' /\ Stored' = Stored
    BY DEF EnvInv, Aside, StoreTypes, Stored
  <1>2. IdsUsed'
    BY <1>1 DEF EnvInv, Aside, IdsUsed
  <1> QED
    BY <1>1, <1>2 DEF EnvInv, Aside, EnvelopeFits, ObjOf, HandledReflected

(* ... and the index of what is applied, unless it queues an envelope whose
   call still runs. *)
LEMMA AsideOnce ==
    ASSUME EnvInv, OnceInv, Aside, ingesting' \cap refused' = {},
           \A e \in EnvIds, d \in Deliveries : Calling(e, d)' /\ Carried(e)' => Carried(e)
    PROVE  OnceInv'
  <1>1. Stored' = Stored /\ Unprocessed' = Unprocessed
    BY DEF Aside, Stored, Unprocessed
  <1>2. ASSUME NEW d \in Deliveries \ repeatable PROVE OnceFor(d)'
    <2>1. OnceFor(d)
      BY DEF OnceInv
    <2> QED
      BY <1>1, <2>1 DEF Aside, OnceFor
  <1> QED
    BY <1>2 DEF OnceInv, Aside

(* Only the queue, the senders, the timers or the dead letters change. *)
LEMMA QueueSteps ==
    ASSUME EnvInv, NEW e \in EnvIds,
           enqueueEnvelope(e) \/ Enqueue(e) \/ RetryTimerFires(e) \/ AcknowledgeDeadLetter(e)
    PROVE  Aside /\ UNCHANGED <<ingesting, refused, answered>>
           /\ \A x \in EnvIds : Carried(x)' => Carried(x)
  <1>0. /\ queue \in Seq(EnvIds) /\ blocked \subseteq EnvIds
        /\ DOMAIN toEnqueue = EnvIds /\ DOMAIN timers = EnvIds
        /\ workers \in [Workers -> WorkerState]
        /\ Append(queue, e) \in Seq(EnvIds) /\ Range(Append(queue, e)) = Range(queue) \cup {e}
    BY QueueAppended DEF EnvInv, CallTypes
  <1>1. /\ UNCHANGED <<envelopesByID, deliveryIndex, processedEnvs, watermarks, projection, coalesceIndex,
                       nextEnv, handled, rejected, applied, repeatable, workers, processingEnvs, envelopeAttempts>>
        /\ UNCHANGED <<ingesting, refused, answered>> /\ disk' \in {disk, Snapshot'}
    BY DEF enqueueEnvelope, Enqueue, RetryTimerFires, AcknowledgeDeadLetter, persistent, volatile, history,
           callVars, Save
  <1>2. DiskAgrees'
    BY <1>1 DEF EnvInv, DiskAgrees, Snapshot
  <1>3. \A w \in Workers : ParseFits(w)'
    BY <1>1 DEF EnvInv, ParseFits, Stored
  <1>4. \A x \in EnvIds, d \in Deliveries : Calling(x, d)' <=> Calling(x, d)
    BY <1>1 DEF Calling
  <1>5. (\A w \in Workers, x \in EnvIds : Busy(w, x)' <=> Busy(w, x))
    BY <1>1 DEF Busy
  <1>6. CallTypes' /\ \A x \in EnvIds : Carried(x)' => Carried(x)
    <2>1. CASE enqueueEnvelope(e)
      <3>1. /\ toEnqueue[e] # 0 /\ toEnqueue' = [toEnqueue EXCEPT ![e] = @ - 1] /\ timers' = timers
            /\ queue' \in {queue, Append(queue, e)} /\ blocked' \in {blocked, blocked \cup {e}}
        BY <2>1 DEF enqueueEnvelope, Returns
      <3>2. Carried(e)
        BY <3>1 DEF Carried
      <3>3. Range(queue') \subseteq Range(queue) \cup {e}
        BY <1>0, <3>1
      <3> QED
        BY <1>0, <1>1, <1>5, <3>1, <3>2, <3>3 DEF Carried, CallTypes
    <2>2. CASE Enqueue(e)
      <3>1. /\ e \in blocked /\ UNCHANGED <<toEnqueue, timers>>
            /\ queue' = Append(queue, e) /\ blocked' = blocked \ {e}
        BY <2>2 DEF Enqueue, callVars
      <3> QED
        BY <1>0, <1>1, <1>5, <3>1 DEF Carried, CallTypes
    <2>3. CASE RetryTimerFires(e)
      <3>1. /\ timers[e] # 0 /\ UNCHANGED <<queue, blocked>>
            /\ timers' = [timers EXCEPT ![e] = @ - 1] /\ toEnqueue' = [toEnqueue EXCEPT ![e] = @ + 1]
        BY <2>3 DEF RetryTimerFires, queueVars, Calls, Returns
      <3> QED
        BY <1>0, <1>1, <1>5, <3>1 DEF Carried, CallTypes
    <2>4. CASE AcknowledgeDeadLetter(e)
      BY <1>0, <1>1, <1>5, <2>4 DEF AcknowledgeDeadLetter, callVars, queueVars, Carried, CallTypes
    <2> QED
      BY <2>1, <2>2, <2>3, <2>4
  <1> QED
    BY <1>1, <1>2, <1>3, <1>4, <1>6 DEF Aside

(* The calls that change no envelope. *)
LEMMA CallSteps ==
    ASSUME EnvInv, OnceInv, NEW d \in Deliveries, NEW e \in EnvIds,
           IngestDuplicate(d) \/ tryEnqueueEnvelope(e, d)
    PROVE  /\ Aside /\ ingesting' \cap refused' = {} /\ ingesting' \subseteq ingesting
           /\ \A x \in EnvIds, c \in Deliveries : Calling(x, c)' /\ Carried(x)' => Carried(x)
           /\ \A c \in answered' \ answered :
                c = d /\ (deliveryIndex[d] # NoEnv \/ <<e, d>> \in ingesting)
  <1>0. /\ queue \in Seq(EnvIds) /\ blocked \subseteq EnvIds
        /\ DOMAIN toEnqueue = EnvIds /\ DOMAIN timers = EnvIds
        /\ workers \in [Workers -> WorkerState]
        /\ Append(queue, e) \in Seq(EnvIds) /\ Range(Append(queue, e)) = Range(queue) \cup {e}
    BY QueueAppended DEF EnvInv, CallTypes
  <1>1. UNCHANGED <<envelopesByID, deliveryIndex, processedEnvs, watermarks, projection, coalesceIndex,
                    nextEnv, handled, rejected, applied, repeatable, workers, processingEnvs,
                    envelopeAttempts, toEnqueue, timers, blocked>>
    BY DEF IngestDuplicate, tryEnqueueEnvelope, persistent, volatile, history, callVars, queueVars
  <1>2. DiskAgrees'
    <2>1. disk' = Snapshot' \/ disk' = disk
      BY DEF IngestDuplicate, tryEnqueueEnvelope, Save
    <2> QED
      BY <1>1, <2>1 DEF EnvInv, DiskAgrees, Snapshot
  <1>3. \A w \in Workers : ParseFits(w)'
    BY <1>1 DEF EnvInv, ParseFits, Stored
  <1>5. (\A w \in Workers, x \in EnvIds : Busy(w, x)' <=> Busy(w, x))
    BY <1>1 DEF Busy
  <1>6. CASE UNCHANGED <<queue, ingesting, refused>>
             /\ \A c \in answered' \ answered : c = d /\ deliveryIndex[d] # NoEnv
    <2>1. CallTypes' /\ \A x \in EnvIds : Carried(x)' => Carried(x)
      BY <1>0, <1>1, <1>5, <1>6 DEF Carried, CallTypes
    <2>2. \A x \in EnvIds, c \in Deliveries : Calling(x, c)' <=> Calling(x, c)
      BY <1>6 DEF Calling
    <2> QED
      BY <1>1, <1>2, <1>3, <1>6, <2>1, <2>2 DEF Aside, OnceInv
  <1>7. CASE tryEnqueueEnvelope(e, d)
    <2>1. /\ <<e, d>> \in ingesting /\ ingesting' = ingesting \ {<<e, d>>}
          /\ queue' \in {queue, Append(queue, e)}
          /\ \/ refused' = refused /\ answered' = answered \cup {d}
             \/ refused' = refused \cup {<<e, d>>} /\ queue' = queue /\ answered' = answered
      BY <1>7 DEF tryEnqueueEnvelope
    <2>2. CallTypes' /\ Range(queue') \subseteq Range(queue) \cup {e}
      BY <1>0, <1>1, <2>1 DEF CallTypes
    <2>3. \A x \in EnvIds : Carried(x)' => Carried(x) \/ (x = e /\ queue' # queue)
      BY <1>0, <1>1, <1>5, <2>1, <2>2 DEF Carried
    <2>4. \A x \in EnvIds, c \in Deliveries : Calling(x, c)' => Calling(x, c)
      BY <2>1 DEF Calling
    <2>5. Calling(e, d) /\ <<e, d>> \notin refused
      BY <2>1 DEF Calling, OnceInv
    <2>6. ASSUME NEW c \in Deliveries, Calling(e, c)' PROVE queue' = queue
      <3>1. c = d
        BY <2>4, <2>5, <2>6 DEF OnceInv
      <3> QED
        BY <2>1, <2>5, <2>6, <3>1 DEF Calling
    <2>7. ingesting' \cap refused' = {}
      BY <2>1 DEF OnceInv
    <2>8. Aside
      BY <1>1, <1>2, <1>3, <2>2, <2>3, <2>4, <2>5 DEF Aside
    <2> QED
      BY <2>1, <2>3, <2>6, <2>7, <2>8
  <1> QED
    BY <1>6, <1>7 DEF IngestDuplicate, callVars, queueVars

(* A worker's steps that leave the store alone. *)
LEMMA WorkerAside ==
    ASSUME EnvInv, NEW w \in Workers,
           UNCHANGED <<envelopesByID, deliveryIndex, processedEnvs, watermarks, projection, coalesceIndex,
                       nextEnv, handled, rejected, applied, repeatable, ingesting, refused, answered,
                       toEnqueue, blocked>>,
           DiskAgrees', queue' \in Seq(EnvIds), Range(queue') \subseteq Range(queue),
           DOMAIN timers' = EnvIds, \A x \in EnvIds : timers'[x] # 0 => Carried(x),
           NEW k \in WorkerState, workers' = [workers EXCEPT ![w] = k],
           k.pc # "idle" => Carried(k.env),
           \A v \in Workers : ParseFits(v)'
    PROVE  Aside /\ UNCHANGED <<ingesting, refused, answered>>
           /\ \A x \in EnvIds : Carried(x)' => Carried(x)
  <1>1. /\ workers' \in [Workers -> WorkerState] /\ workers'[w] = k
        /\ \A v \in Workers \ {w} : workers'[v] = workers[v]
    BY OneWorker DEF EnvInv
  <1>2. CallTypes'
    BY <1>1 DEF EnvInv, CallTypes
  <1>3. ASSUME NEW x \in EnvIds, Carried(x)' PROVE Carried(x)
    <2>1. CASE \E v \in Workers : Busy(v, x)'
      <3>1. PICK v \in Workers : Busy(v, x)'
        BY <2>1
      <3>2. CASE v = w
        BY <1>1, <3>1, <3>2 DEF Busy
      <3>3. CASE v # w
        BY <1>1, <3>1, <3>3 DEF Busy, Carried
      <3> QED
        BY <3>2, <3>3
    <2>2. CASE toEnqueue'[x] # 0 \/ x \in Range(queue') \cup blocked'
      BY <2>2 DEF Carried
    <2> QED
      BY <1>3, <2>1, <2>2 DEF Carried
  <1>4. \A x \in EnvIds, c \in Deliveries : Calling(x, c)' <=> Calling(x, c)
    BY DEF Calling
  <1> QED
    BY <1>2, <1>3, <1>4 DEF Aside

(* The steps of a worker that leave the store alone. *)
LEMMA WorkerStepsAside ==
    ASSUME EnvInv, NEW w \in Workers,
           \/ Dequeue(w) \/ MarkDequeued(w) \/ acquireProviderSlot(w) \/ BeginEnvelope(w)
           \/ AbandonEnvelope(w) \/ scheduleEnvelopeRetry(w) \/ Release(w)
           \/ FailEnvelope(w) /\ workers[w].attempt < MaxAttempts
    PROVE  Aside /\ UNCHANGED <<ingesting, refused, answered>>
           /\ \A x \in EnvIds : Carried(x)' => Carried(x)
  <1> DEFINE k == workers[w]
             Places == {"dequeued", "waiting", "begin", "retry", "release"}
             Quiet == /\ UNCHANGED <<envelopesByID, deliveryIndex, processedEnvs, watermarks, projection,
                                      coalesceIndex, nextEnv, handled, rejected, applied, repeatable,
                                      ingesting, refused, answered, toEnqueue, blocked>>
                      /\ DiskAgrees'
  <1>0. /\ k \in WorkerState /\ workers \in [Workers -> WorkerState]
        /\ queue \in Seq(EnvIds) /\ DOMAIN timers = EnvIds /\ CallTypes
        /\ \A v \in Workers : ParseFits(v)
    BY DEF EnvInv, CallTypes
  <1>1. /\ k.pc # "idle" => k.env \in EnvIds /\ k.slot \in BOOLEAN /\ Carried(k.env)
        /\ k.pc = "parsing" => k.attempt \in Nat
    BY <1>0, WorkerKinds DEF Carried, Busy
  <1>2. \A x \in EnvIds : timers[x] # 0 => Carried(x)
    BY DEF Carried
  <1>3. ASSUME NEW n \in WorkerState, workers' = [workers EXCEPT ![w] = n], n.pc # "parsing",
               UNCHANGED envelopesByID,
               \/ processingEnvs' = processingEnvs
               \/ processingEnvs' = processingEnvs \ {k.env} /\ k.pc = "parsing"
        PROVE  \A v \in Workers : ParseFits(v)'
    <2>1. workers'[w] = n /\ \A v \in Workers \ {w} : workers'[v] = workers[v]
      BY <1>0, <1>3, OneWorker
    <2>2. \A v \in Workers \ {w} : workers[v].pc = "parsing" => workers[v].env \in processingEnvs'
      BY <1>0, <1>3 DEF ParseFits
    <2>3. Stored' = Stored
      BY <1>3 DEF Stored
    <2> QED
      BY <1>0, <1>3, <2>1, <2>2, <2>3, ParseKept
  <1>4. ASSUME NEW n \in WorkerState, Quiet, workers' = [workers EXCEPT ![w] = n],
               UNCHANGED <<queue, timers>>, n.pc = "idle" \/ (n.env = k.env /\ k.pc # "idle"),
               \A v \in Workers : ParseFits(v)'
        PROVE  Aside /\ UNCHANGED <<ingesting, refused, answered>>
               /\ \A x \in EnvIds : Carried(x)' => Carried(x)
    <2>1. /\ queue' \in Seq(EnvIds) /\ Range(queue') \subseteq Range(queue)
          /\ DOMAIN timers' = EnvIds /\ (\A x \in EnvIds : timers'[x] # 0 => Carried(x))
          /\ (n.pc # "idle" => Carried(n.env))
      BY <1>0, <1>1, <1>2, <1>4
    <2> QED
      BY <1>4, <2>1, WorkerAside
  <1>5. CASE Dequeue(w)
    <2> DEFINE n == [pc |-> "dequeued", env |-> Head(queue), slot |-> FALSE]
    <2>1. Quiet
      BY <1>5 DEF Dequeue, persistent, volatile, callVars, history, EnvInv, DiskAgrees
    <2>2. /\ queue # <<>> /\ queue' = Tail(queue) /\ UNCHANGED <<timers, processingEnvs>>
          /\ workers' = [workers EXCEPT ![w] = n]
      BY <1>5 DEF Dequeue, callVars, volatile
    <2>3. /\ Head(queue) \in EnvIds /\ queue' \in Seq(EnvIds)
          /\ Head(queue) \in Range(queue) /\ Range(queue') \subseteq Range(queue)
      BY <1>0, <2>2, QueueTaken
    <2>4. n \in WorkerState /\ n.pc = "dequeued" /\ n.env = Head(queue)
      BY <2>3 DEF WorkerState
    <2>5. Carried(n.env)
      BY <2>3, <2>4 DEF Carried
    <2>6. \A v \in Workers : ParseFits(v)'
      <3> HIDE DEF n
      <3> QED
        BY <1>3, <2>1, <2>2, <2>4
    <2> HIDE DEF n
    <2> QED
      BY <1>0, <1>2, <2>1, <2>2, <2>3, <2>4, <2>5, <2>6, WorkerAside
  <1>6. CASE MarkDequeued(w) \/ acquireProviderSlot(w)
    <2>1. PICK n : /\ workers' = [workers EXCEPT ![w] = n]
                   /\ \/ n = [k EXCEPT !.pc = "waiting"]
                      \/ n = [k EXCEPT !.pc = "begin", !.slot = k.env \in Stored]
      <3>1. CASE MarkDequeued(w)
        BY <1>0, <3>1 DEF MarkDequeued
      <3>2. CASE acquireProviderSlot(w)
        <4>1. workers' = [workers EXCEPT ![w] = [k EXCEPT !.pc = "begin", !.slot = k.env \in Stored]]
          BY <1>0, <3>2 DEF acquireProviderSlot
        <4> QED
          BY <4>1
      <3> QED
        BY <1>6, <3>1, <3>2
    <2>2. k.pc \in {"dequeued", "waiting"} /\ Quiet /\ UNCHANGED <<queue, timers, processingEnvs>>
      BY <1>6 DEF MarkDequeued, acquireProviderSlot, persistent, volatile, callVars, queueVars, history,
         EnvInv, DiskAgrees
    <2>3. n \in WorkerState /\ n.env = k.env /\ n.pc # "parsing"
      <3>1. k.pc \notin {"idle", "parsing"}
        BY <2>2
      <3>2. (k.env \in Stored) \in BOOLEAN
        OBVIOUS
      <3> HIDE DEF k
      <3>3. CASE n = [k EXCEPT !.pc = "waiting"]
        BY <1>0, <3>1, <3>3, WorkerMoves
      <3>4. CASE n = [k EXCEPT !.pc = "begin", !.slot = k.env \in Stored]
        <4>1. PICK slot \in BOOLEAN : slot = (k.env \in Stored)
          BY <3>2
        <4>2. n = [k EXCEPT !.pc = "begin", !.slot = slot]
          BY <3>4, <4>1
        <4> QED
          BY ZenonT(40), <1>0, <3>1, <4>2, WorkerMoves
      <3> QED
        BY <2>1, <3>3, <3>4
    <2> QED
      BY <1>3, <1>4, <2>1, <2>2, <2>3
  <1>7. CASE workers' = [workers EXCEPT ![w].pc = "release"] /\ k.pc \in Places
             /\ Quiet /\ UNCHANGED <<queue, processingEnvs>>
             /\ \/ timers' = timers
                \/ timers' = [timers EXCEPT ![k.env] = @ + 1]
    <2>1. PICK n : n = [k EXCEPT !.pc = "release"]
      OBVIOUS
    <2>2. workers' = [workers EXCEPT ![w] = n]
      BY <1>0, <1>7, <2>1
    <2>3. n \in WorkerState /\ n.env = k.env /\ n.pc # "parsing"
      <3>1. k.pc \notin {"idle", "parsing"}
        BY <1>7
      <3> HIDE DEF k
      <3> QED
        BY <1>0, <2>1, <3>1, WorkerMoves
    <2>4. Carried(k.env) /\ k.env \in EnvIds
      BY <1>1, <1>7
    <2>5. DOMAIN timers' = EnvIds /\ \A x \in EnvIds : timers'[x] # 0 => Carried(x)
      BY <1>0, <1>2, <1>7, <2>4
    <2>6. \A v \in Workers : ParseFits(v)'
      BY <1>3, <1>7, <2>2, <2>3
    <2> QED
      BY <1>0, <1>7, <2>2, <2>3, <2>4, <2>5, <2>6, WorkerAside
  <1>8. CASE BeginEnvelope(w) /\ workers' # [workers EXCEPT ![w].pc = "release"]
    <2> DEFINE e == k.env
               n == [pc |-> "parsing", env |-> e, slot |-> k.slot,
                     attempt |-> envelopeAttempts[e] + 1, payload |-> envelopesByID[e].payload]
    <2>1. /\ k.pc = "begin" /\ e \in Unprocessed \ processingEnvs
          /\ workers' = [workers EXCEPT ![w] = n] /\ UNCHANGED <<queue, timers>>
          /\ processingEnvs' = processingEnvs \cup {e}
      BY <1>0, <1>8 DEF BeginEnvelope, queueVars, callVars
    <2>2. Quiet
      <3>1. /\ UNCHANGED <<envelopesByID, deliveryIndex, processedEnvs, watermarks, projection, coalesceIndex,
                           nextEnv, handled, rejected, applied, repeatable, ingesting, refused, answered,
                           toEnqueue, blocked, disk>>
            /\ envelopeAttempts' = [envelopeAttempts EXCEPT ![e] = @ + 1]
        BY <1>0, <1>8 DEF BeginEnvelope, queueVars, callVars, history, Calls
      <3>2. envelopeAttempts' \in [EnvIds -> Nat]
        BY <1>1, <2>1, <3>1 DEF EnvInv, DiskAgrees
      <3> QED
        BY <3>1, <3>2 DEF EnvInv, DiskAgrees
    <2>3. n \in WorkerState /\ n.pc = "parsing" /\ n.env = e
      <3>1. envelopesByID[e] \in Envelope /\ e \in EnvIds
        BY <2>1 DEF EnvInv, StoreTypes, Unprocessed, Stored
      <3>2. envelopesByID[e].payload \in Deliveries
        BY <3>1 DEF Envelope
      <3>3. envelopeAttempts[e] + 1 \in Nat
        BY <3>1 DEF EnvInv, DiskAgrees
      <3> QED
        BY <1>1, <2>1, <3>1, <3>2, <3>3 DEF WorkerState
    <2>4. workers'[w] = n /\ \A v \in Workers \ {w} : workers'[v] = workers[v]
      BY <1>0, <2>1, <2>3, OneWorker
    <2>5. Stored' = Stored /\ n.payload = envelopesByID[e].payload
      BY <2>2 DEF Stored
    <2>6. \A v \in Workers : ParseFits(v)'
      BY <1>0, <2>1, <2>2, <2>3, <2>4, <2>5 DEF ParseFits
    <2> QED
      BY <1>4, <2>1, <2>2, <2>3, <2>6
  <1>9. CASE AbandonEnvelope(w) \/ (FailEnvelope(w) /\ k.attempt < MaxAttempts)
    <2>0. k.pc = "parsing"
          /\ (FailEnvelope(w) => ~(k.attempt >= MaxAttempts))
      BY <1>1, <1>9, EnvelopesAssumption DEF AbandonEnvelope, FailEnvelope
    <2>1. PICK place \in {"retry", "release"} : workers' = [workers EXCEPT ![w] =
                [pc |-> place, env |-> k.env, slot |-> k.slot]]
      BY <1>0, <1>9, <2>0 DEF AbandonEnvelope, FailEnvelope
    <2>2. k.pc = "parsing" /\ UNCHANGED <<queue, timers>> /\ processingEnvs' = processingEnvs \ {k.env}
      BY <1>9, <2>0 DEF AbandonEnvelope, FailEnvelope, queueVars, callVars
    <2>3. Quiet
      <3>1. CASE AbandonEnvelope(w)
        BY <3>1 DEF AbandonEnvelope, queueVars, callVars, persistent, history, EnvInv, DiskAgrees
      <3>2. CASE FailEnvelope(w) /\ ~(k.attempt >= MaxAttempts)
        <4>1. /\ UNCHANGED <<envelopesByID, deliveryIndex, processedEnvs, envelopeAttempts, watermarks,
                             projection, coalesceIndex, nextEnv, handled, rejected, applied, repeatable,
                             ingesting, refused, answered, toEnqueue, blocked>>
              /\ disk' = Snapshot'
          BY <3>2 DEF FailEnvelope, queueVars, callVars, Save
        <4> QED
          BY <4>1 DEF Snapshot, EnvInv, DiskAgrees
      <3> QED
        BY <1>9, <2>0, <3>1, <3>2
    <2>4. PICK n : n = [pc |-> place, env |-> k.env, slot |-> k.slot]
      OBVIOUS
    <2>5. n \in WorkerState /\ n.pc = place /\ n.env = k.env
      BY <1>1, <2>2, <2>4 DEF WorkerState
    <2> QED
      BY <1>3, <1>4, <2>1, <2>2, <2>3, <2>4, <2>5
  <1>10. CASE Release(w)
    <2>1. /\ Idle \in WorkerState /\ Idle.pc = "idle" /\ workers' = [workers EXCEPT ![w] = Idle]
          /\ UNCHANGED <<queue, timers, processingEnvs>>
      BY <1>10 DEF Release, WorkerState, Idle, queueVars, callVars, volatile
    <2>2. Quiet
      BY <1>10 DEF Release, queueVars, callVars, persistent, volatile, history, EnvInv, DiskAgrees
    <2>3. \A v \in Workers : ParseFits(v)'
      BY <1>3, <2>1, <2>2
    <2> QED
      BY <1>4, <2>1, <2>2, <2>3
  <1>11. CASE BeginEnvelope(w) /\ workers' = [workers EXCEPT ![w].pc = "release"]
    <2>1. k.pc \in Places /\ UNCHANGED <<queue, timers>>
      BY <1>11 DEF BeginEnvelope, queueVars, callVars
    <2>2. Quiet /\ UNCHANGED processingEnvs
      <3>1. CASE k.env \notin Unprocessed \/ k.env \in processingEnvs
        BY <1>11, <3>1 DEF BeginEnvelope, queueVars, callVars, persistent, volatile, history, EnvInv, DiskAgrees
      <3>2. CASE k.env \in Unprocessed \ processingEnvs
        <4>1. workers'[w].pc = "parsing"
          BY <1>0, <1>11, <3>2 DEF BeginEnvelope
        <4>2. workers'[w].pc = "release"
          BY ZenonT(40), <1>0, <1>11, <2>1, WorkerMoves
        <4> QED
          BY <4>1, <4>2
      <3> QED
        BY <3>1, <3>2
    <2> QED
      BY <1>7, <1>11, <2>1, <2>2
  <1>12. CASE scheduleEnvelopeRetry(w)
    <2>1. /\ k.pc \in Places /\ workers' = [workers EXCEPT ![w].pc = "release"]
          /\ timers' = [timers EXCEPT ![k.env] = @ + 1] /\ UNCHANGED <<queue, processingEnvs>>
      BY <1>12 DEF scheduleEnvelopeRetry, Calls, queueVars, volatile
    <2>2. Quiet
      BY <1>12 DEF scheduleEnvelopeRetry, queueVars, persistent, volatile, history, EnvInv, DiskAgrees
    <2> QED
      BY <1>7, <2>1, <2>2
  <1>13. CASE BeginEnvelope(w)
    BY <1>8, <1>11, <1>13
  <1> QED
    BY <1>5, <1>6, <1>9, <1>10, <1>12, <1>13

-----------------------------------------------------------------------------
(* Envelopes that are done *)

(* Envelope e is done and the envelopes of gone are pruned. *)
Removes(e, gone) ==
    /\ gone \subseteq Stored /\ gone \subseteq processedEnvs \cup {e}
    /\ envelopesByID' = [x \in EnvIds |-> IF x \in gone THEN NoEnv ELSE envelopesByID[x]]
    /\ processedEnvs' = (processedEnvs \cup {e}) \ gone
    /\ coalesceIndex' = [o \in Objects |->
         IF coalesceIndex[o] \in gone \cup {e} THEN NoEnv ELSE coalesceIndex[o]]
    /\ deliveryIndex' = [d \in Deliveries |->
         IF \E x \in gone : deliveryIndex[d] = x /\ d = envelopesByID[x].delivery
         THEN NoEnv ELSE deliveryIndex[d]]
    /\ repeatable' = repeatable \cup {envelopesByID[x].delivery : x \in gone}
    /\ processingEnvs' = processingEnvs \ {e}
    /\ envelopeAttempts' \in [EnvIds -> Nat]

(* What becomes of the deliveries of e: rejected, stale or applied. *)
Settles(e) ==
    \/ /\ rejected' = rejected \cup envelopesByID[e].merged
       /\ UNCHANGED <<watermarks, projection, applied, handled>>
    \/ /\ handled' = handled \cup envelopesByID[e].merged /\ rejected' = rejected
       /\ \/ Stale(e) /\ UNCHANGED <<watermarks, projection, applied>>
          \/ /\ ~Stale(e)
             /\ watermarks' = [watermarks EXCEPT ![ObjOf(e)] = ReceivedAt(e)]
             /\ projection' = [projection EXCEPT ![ObjOf(e)] = ReceivedAt(e)]
             /\ applied' = [applied EXCEPT ![envelopesByID[e].payload] = @ + 1]

Completes(w, e, gone) ==
    /\ e = workers[w].env /\ e \in Unprocessed
    /\ \/ workers[w].pc = "parsing"
       \/ workers[w].pc = "begin" /\ e \notin processingEnvs
    /\ Removes(e, gone) /\ Settles(e) /\ disk' = Snapshot'
    /\ UNCHANGED <<queue, blocked, ingesting, refused, toEnqueue, timers, nextEnv, answered>>
    /\ \E n \in WorkerState :
         workers' = [workers EXCEPT ![w] = n] /\ n.pc = "release" /\ n.env = e

(* What Complete removes: envelopes that are processed, or the one now done. *)
LEMMA Completion ==
    ASSUME EnvInv, NEW e \in Unprocessed, NEW dead, Complete(e, dead)
    PROVE  \E gone \in SUBSET EnvIds : Removes(e, gone)
  <1> DEFINE gone == Pruned(envelopesByID, processedEnvs \cup {e}, dead)
  <1>1. gone \subseteq Stored /\ gone \subseteq processedEnvs \cup {e} /\ gone \subseteq EnvIds
    BY DEF Pruned, Stored
  <1>2. envelopeAttempts' \in [EnvIds -> Nat]
    <2>1. envelopeAttempts \in [EnvIds -> Nat]
      BY DEF EnvInv, DiskAgrees
    <2>2. envelopeAttempts' = [x \in EnvIds |-> IF x \in gone \cup {e} THEN 0 ELSE envelopeAttempts[x]]
      BY DEF Complete
    <2> HIDE DEF gone
    <2> QED
      BY <2>1, <2>2
  <1> QED
    BY <1>1, <1>2 DEF Complete, Removes

(* The three ways a worker is done with an envelope. *)
LEMMA WorkerCompletes ==
    ASSUME EnvInv, NEW w \in Workers,
           \/ SuppressEnvelope(w)
           \/ ApplyEnvelope(w)
           \/ FailEnvelope(w) /\ ~(workers[w].attempt < MaxAttempts)
    PROVE  \E gone \in SUBSET EnvIds : Completes(w, workers[w].env, gone)
  <1> DEFINE k == workers[w]
             e == k.env
  <1>0. k \in WorkerState /\ workers \in [Workers -> WorkerState] /\ ParseFits(w)
    BY DEF EnvInv, CallTypes
  <1>1. /\ e \in Unprocessed
        /\ \/ k.pc = "parsing"
           \/ k.pc = "begin" /\ e \notin processingEnvs
        /\ disk' = Snapshot'
        /\ UNCHANGED <<queue, blocked, ingesting, refused, toEnqueue, timers, nextEnv, answered>>
    BY DEF SuppressEnvelope, ApplyEnvelope, FailEnvelope, Save, queueVars, callVars
  <1>2. e \in EnvIds /\ k.slot \in BOOLEAN /\ (k.pc = "parsing" => k.attempt \in Nat)
    BY <1>0, <1>1, WorkerKinds
  <1>3. k.pc = "parsing" => k.payload = envelopesByID[e].payload
    BY <1>0, <1>1 DEF ParseFits, Unprocessed
  <1>4. FailEnvelope(w) /\ ~(k.attempt < MaxAttempts) => k.attempt >= MaxAttempts
    BY <1>2, EnvelopesAssumption DEF FailEnvelope
  <1>5. \E n \in WorkerState : workers' = [workers EXCEPT ![w] = n] /\ n.pc = "release" /\ n.env = e
    <2>1. CASE SuppressEnvelope(w)
      <3>1. PICK n : n = [k EXCEPT !.pc = "release"]
        OBVIOUS
      <3>2. workers' = [workers EXCEPT ![w] = n]
        BY <1>0, <2>1, <3>1 DEF SuppressEnvelope
      <3>3. k.pc \notin {"idle", "parsing"}
        BY <2>1 DEF SuppressEnvelope
      <3>4. n \in WorkerState /\ n.pc = "release" /\ n.env = e
        <4> HIDE DEF k
        <4> QED
          BY <1>0, <3>1, <3>3, WorkerMoves
      <3> QED
        BY <3>2, <3>4
    <2>2. CASE ApplyEnvelope(w) \/ (FailEnvelope(w) /\ ~(k.attempt < MaxAttempts))
      <3>1. workers' = [workers EXCEPT ![w] = [pc |-> "release", env |-> e, slot |-> k.slot]]
        BY <1>0, <1>4, <2>2 DEF ApplyEnvelope, FailEnvelope
      <3>2. PICK n : n = [pc |-> "release", env |-> e, slot |-> k.slot]
        OBVIOUS
      <3>3. n \in WorkerState /\ n.pc = "release" /\ n.env = e
        BY <1>2, <3>2 DEF WorkerState
      <3> QED
        BY <3>1, <3>2, <3>3
    <2> QED
      BY <2>1, <2>2
  <1>6. (\E dead : Complete(e, dead)) /\ Settles(e)
    <2>1. CASE SuppressEnvelope(w)
      BY <2>1 DEF SuppressEnvelope, Settles
    <2>2. CASE FailEnvelope(w) /\ ~(k.attempt < MaxAttempts)
      <3>1. Complete(e, deadLetters \cup {e})
        BY <1>4, <2>2 DEF FailEnvelope
      <3> QED
        BY <1>4, <2>2, <3>1 DEF FailEnvelope, Settles
    <2>3. CASE ApplyEnvelope(w)
      <3>1. Complete(e, deadLetters \ {e})
        BY <2>3 DEF ApplyEnvelope
      <3>2. Settles(e)
        BY <1>1, <1>3, <2>3 DEF ApplyEnvelope, Settles, Calls, ReceivedAt
      <3> QED
        BY <3>1, <3>2
    <2> QED
      BY <2>1, <2>2, <2>3
  <1>7. \E gone \in SUBSET EnvIds : Removes(e, gone)
    <2>1. PICK dead : Complete(e, dead)
      BY <1>6
    <2> QED
      BY <1>1, <2>1, Completion
  <1> QED
    BY <1>1, <1>5, <1>6, <1>7 DEF Completes

(* What a completion leaves of the store and of those who carry envelopes. *)
LEMMA CompletesFrame ==
    ASSUME EnvInv, NEW w \in Workers, NEW e \in EnvIds, NEW gone \in SUBSET EnvIds, Completes(w, e, gone)
    PROVE  /\ Stored' = Stored \ gone /\ \A x \in Stored' : envelopesByID'[x] = envelopesByID[x]
           /\ CallTypes' /\ \A x \in EnvIds : Carried(x)' => Carried(x)
           /\ \A x \in EnvIds, d \in Deliveries : Calling(x, d)' <=> Calling(x, d)
           /\ Carried(e) /\ workers'[w].pc # "parsing"
           /\ \A v \in Workers \ {w} : workers'[v] = workers[v]
           /\ \A d \in Deliveries : deliveryIndex'[d] \in {NoEnv, deliveryIndex[d]}
           /\ \A d \in Deliveries \ repeatable' : d \notin repeatable /\ deliveryIndex'[d] = deliveryIndex[d]
  <1>0. /\ envelopesByID \in [EnvIds -> Envelope \cup {NoEnv}] /\ NoEnv \notin Envelope
        /\ CallTypes /\ Removes(e, gone)
    BY EnvelopesAssumption DEF EnvInv, StoreTypes, Completes
  <1>1. Stored' = Stored \ gone /\ \A x \in Stored' : envelopesByID'[x] = envelopesByID[x]
    BY <1>0 DEF Removes, Stored
  <1>2. PICK n \in WorkerState : workers' = [workers EXCEPT ![w] = n] /\ n.pc = "release" /\ n.env = e
    BY DEF Completes
  <1>3. /\ workers' \in [Workers -> WorkerState] /\ workers'[w] = n
        /\ \A v \in Workers \ {w} : workers'[v] = workers[v]
    BY <1>0, <1>2, OneWorker
  <1>4. Busy(w, e) /\ UNCHANGED <<queue, blocked, ingesting, refused, toEnqueue, timers>>
    BY DEF Busy, Completes
  <1>5. \A v \in Workers, x \in EnvIds : Busy(v, x)' => Busy(v, x)
    BY <1>2, <1>3, <1>4 DEF Busy
  <1>6. Carried(e) /\ \A x \in EnvIds : Carried(x)' => Carried(x)
    BY <1>4, <1>5 DEF Carried
  <1>7. CallTypes'
    BY <1>0, <1>3, <1>4 DEF CallTypes
  <1>8. \A x \in EnvIds, d \in Deliveries : Calling(x, d)' <=> Calling(x, d)
    BY <1>4 DEF Calling
  <1>9. /\ \A d \in Deliveries : deliveryIndex'[d] \in {NoEnv, deliveryIndex[d]}
        /\ \A d \in Deliveries \ repeatable' : d \notin repeatable /\ deliveryIndex'[d] = deliveryIndex[d]
    BY <1>0 DEF Removes
  <1> QED
    BY <1>1, <1>2, <1>3, <1>6, <1>7, <1>8, <1>9

(* A completion keeps the invariant: the projection only gets newer, and is
   as new as the deliveries that are now handled. *)
LEMMA CompletesStep ==
    ASSUME EnvInv, NEW w \in Workers, NEW e \in EnvIds, NEW gone \in SUBSET EnvIds, Completes(w, e, gone)
    PROVE  EnvInv'
  <1>0. /\ StoreTypes /\ CallTypes /\ IdsUsed /\ \A v \in Workers : ParseFits(v)
        /\ Removes(e, gone) /\ Settles(e) /\ e \in Stored /\ e \notin processedEnvs
        /\ UNCHANGED nextEnv /\ disk' = Snapshot'
    BY DEF EnvInv, Completes, Unprocessed
  <1>1. /\ Stored' = Stored \ gone /\ \A x \in Stored' : envelopesByID'[x] = envelopesByID[x]
        /\ CallTypes' /\ \A x \in EnvIds : Carried(x)' => Carried(x)
        /\ \A x \in EnvIds, d \in Deliveries : Calling(x, d)' <=> Calling(x, d)
        /\ workers'[w].pc # "parsing" /\ \A v \in Workers \ {w} : workers'[v] = workers[v]
        /\ \A d \in Deliveries : deliveryIndex'[d] \in {NoEnv, deliveryIndex[d]}
    BY CompletesFrame
  <1>2. /\ envelopesByID[e] \in Envelope /\ EnvelopeFits(envelopesByID[e])
        /\ envelopesByID[e].payload \in Deliveries /\ envelopesByID[e].merged \subseteq Deliveries
        /\ ObjOf(e) \in Objects /\ ReceivedAt(e) \in Nat
    <2>1. envelopesByID[e] \in Envelope /\ EnvelopeFits(envelopesByID[e])
      BY <1>0 DEF EnvInv, StoreTypes, Stored
    <2>2. envelopesByID[e].payload \in Deliveries /\ envelopesByID[e].merged \subseteq Deliveries
      BY <2>1 DEF Envelope
    <2> QED
      BY <2>1, <2>2, EnvelopesAssumption DEF ObjOf, ReceivedAt
  <1>3. /\ watermarks' \in [Objects -> Nat] /\ projection' = watermarks' /\ handled' \subseteq Deliveries
        /\ \A o \in Objects : projection'[o] >= projection[o]
        /\ handled' = handled \/ (handled' = handled \cup envelopesByID[e].merged
                                  /\ projection'[ObjOf(e)] >= ReceivedAt(e))
    <2>1. watermarks \in [Objects -> Nat] /\ projection = watermarks /\ handled \subseteq Deliveries
      BY <1>0 DEF StoreTypes, EnvInv
    <2>2. Stale(e) <=> ReceivedAt(e) < watermarks[ObjOf(e)]
      BY DEF Stale
    <2>3. watermarks[ObjOf(e)] \in Nat
      BY <1>2, <2>1
    <2> QED
      BY <1>0, <1>2, <2>1, <2>2, <2>3 DEF Settles
  <1>4. StoreTypes'
    <2>1. envelopesByID' \in [EnvIds -> Envelope \cup {NoEnv}] /\ processedEnvs' \subseteq EnvIds
      BY <1>0 DEF StoreTypes, Removes
    <2>2. coalesceIndex' \in [Objects -> EnvIds \cup {NoEnv}]
      BY <1>0 DEF StoreTypes, Removes
    <2>3. deliveryIndex' \in [Deliveries -> EnvIds \cup {NoEnv}]
      BY <1>0 DEF StoreTypes, Removes
    <2> QED
      BY <1>0, <1>3, <2>1, <2>2, <2>3 DEF StoreTypes
  <1>5. DiskAgrees'
    BY <1>0 DEF DiskAgrees, Snapshot, Removes
  <1>6. IdsUsed'
    <2>1. processedEnvs' \subseteq processedEnvs \cup {e}
      BY <1>0 DEF Removes
    <2>2. \A o \in Objects : coalesceIndex'[o] \in {NoEnv, coalesceIndex[o]}
      BY <1>0 DEF Removes
    <2> QED
      BY <1>0, <1>1, <2>1, <2>2 DEF IdsUsed
  <1>7. \A x \in Stored' : EnvelopeFits(envelopesByID'[x])
    BY <1>1 DEF EnvInv
  <1>8. \A o \in Objects : coalesceIndex'[o] \in Stored' => Obj[envelopesByID'[coalesceIndex'[o]].payload] = o
    <2>1. \A o \in Objects : coalesceIndex'[o] \in Stored' => coalesceIndex'[o] = coalesceIndex[o]
      BY <1>0, EnvelopesAssumption DEF Removes, Stored
    <2> QED
      BY <1>1, <2>1 DEF EnvInv, ObjOf
  <1>9. \A v \in Workers : ParseFits(v)'
    <2>1. \A v \in Workers \ {w} : workers[v].pc = "parsing" => workers[v].env \in processingEnvs'
      BY <1>0 DEF ParseFits, Completes, Removes
    <2>2. \A x \in processingEnvs : x \in Stored' =>
             x \in Stored /\ envelopesByID'[x].payload = envelopesByID[x].payload
      BY <1>1
    <2> QED
      BY <1>0, <1>1, <2>1, <2>2, ParseKept
  <1>10. HandledReflected'
    <2>1. \A d \in handled : projection[Obj[d]] >= Ts[d] /\ d \in Deliveries
      BY DEF EnvInv, HandledReflected
    <2>2. \A d \in Deliveries : Obj[d] \in Objects /\ Ts[d] \in Nat
      BY EnvelopesAssumption
    <2>3. /\ \A o \in Objects : projection[o] \in Nat /\ projection'[o] \in Nat
      BY <1>0, <1>3 DEF StoreTypes
    <2>4. \A d \in handled : projection'[Obj[d]] >= Ts[d]
      BY <1>3, <2>1, <2>2, <2>3
    <2>5. \A d \in envelopesByID[e].merged : Obj[d] = ObjOf(e) /\ Ts[d] <= ReceivedAt(e) /\ d \in Deliveries
      BY <1>2 DEF EnvelopeFits, ObjOf, ReceivedAt
    <2> QED
      BY <1>2, <1>3, <2>2, <2>3, <2>4, <2>5 DEF HandledReflected
  <1> QED
    BY <1>1, <1>3, <1>4, <1>5, <1>6, <1>7, <1>8, <1>9, <1>10 DEF EnvInv, ObjOf

(* A payload is applied when its envelope is unprocessed, hence for the first
   time. *)
LEMMA CompletesOnce ==
    ASSUME EnvInv, OnceInv, NEW w \in Workers, NEW e \in EnvIds, NEW gone \in SUBSET EnvIds,
           Completes(w, e, gone)
    PROVE  OnceInv'
  <1>0. /\ Removes(e, gone) /\ Settles(e) /\ e \in Stored /\ e \notin processedEnvs
        /\ UNCHANGED <<ingesting, refused>> /\ applied \in [Deliveries -> Nat]
    BY DEF OnceInv, Completes, Unprocessed
  <1>1. /\ Stored' = Stored \ gone /\ \A x \in Stored' : envelopesByID'[x] = envelopesByID[x]
        /\ \A x \in EnvIds : Carried(x)' => Carried(x)
        /\ \A x \in EnvIds, d \in Deliveries : Calling(x, d)' <=> Calling(x, d)
        /\ Carried(e)
        /\ \A d \in Deliveries \ repeatable' : d \notin repeatable /\ deliveryIndex'[d] = deliveryIndex[d]
    BY CompletesFrame
  <1>2. /\ envelopesByID[e].payload \in envelopesByID[e].merged /\ envelopesByID[e].payload \in Deliveries
        /\ \A x \in Stored : envelopesByID[x].delivery \in envelopesByID[x].merged
    <2>1. envelopesByID[e] \in Envelope
      BY <1>0 DEF EnvInv, StoreTypes, Stored
    <2> QED
      BY <1>0, <2>1 DEF EnvInv, EnvelopeFits, Envelope
  <1>3. /\ applied' \in [Deliveries -> Nat]
        /\ \A d \in Deliveries : applied'[d] = applied[d]
             \/ (d = envelopesByID[e].payload /\ applied'[d] = applied[d] + 1)
    BY <1>0, <1>2 DEF Settles
  <1>4. ASSUME NEW d \in Deliveries \ repeatable' PROVE OnceFor(d)'
    <2>1. /\ \A x \in Stored : d \in envelopesByID[x].merged <=> deliveryIndex[d] = x
          /\ applied[d] # 0 => /\ applied[d] = 1 /\ deliveryIndex[d] # NoEnv
                               /\ deliveryIndex[d] \in Stored => deliveryIndex[d] \in processedEnvs
          /\ \A x \in EnvIds : Calling(x, d) =>
               /\ x \in Unprocessed /\ envelopesByID[x].delivery = d
               /\ ~Carried(x) /\ applied[d] = 0
          /\ deliveryIndex'[d] = deliveryIndex[d]
      BY <1>1, <1>4 DEF OnceInv, OnceFor
    <2>2. \A x \in Stored' : d \in envelopesByID'[x].merged <=> deliveryIndex'[d] = x
      BY <1>1, <2>1
    <2>3. d = envelopesByID[e].payload => deliveryIndex[d] = e /\ applied[d] = 0
      BY <1>0, <1>2, <2>1
    <2>4. \A x \in Stored' : x \in processedEnvs \cup {e} => x \in processedEnvs'
      BY <1>0, <1>1 DEF Removes
    <2>5. applied'[d] # 0 => /\ applied'[d] = 1 /\ deliveryIndex'[d] # NoEnv
                             /\ deliveryIndex'[d] \in Stored' => deliveryIndex'[d] \in processedEnvs'
      <3>1. CASE applied'[d] = applied[d]
        BY <1>1, <2>1, <2>4, <3>1
      <3>2. CASE d = envelopesByID[e].payload /\ applied'[d] = applied[d] + 1
        <4>1. e # NoEnv
          BY EnvelopesAssumption
        <4> QED
          BY <2>1, <2>3, <2>4, <3>2, <4>1
      <3> QED
        BY <1>3, <3>1, <3>2
    <2>6. ASSUME NEW x \in EnvIds, Calling(x, d)'
          PROVE  /\ x \in Stored' /\ x \notin processedEnvs' /\ envelopesByID'[x].delivery = d
                 /\ ~(Carried(x)') /\ applied'[d] = 0
      <3>1. /\ x \in Stored /\ x \notin processedEnvs /\ envelopesByID[x].delivery = d
            /\ ~Carried(x) /\ applied[d] = 0
        BY <1>1, <2>1, <2>6 DEF Unprocessed
      <3>2. x # e /\ x \notin gone
        BY <1>0, <1>1, <3>1 DEF Removes
      <3>3. x \in Stored' /\ x \notin processedEnvs' /\ envelopesByID'[x].delivery = d
        BY <1>0, <1>1, <3>1, <3>2 DEF Removes
      <3>4. deliveryIndex[d] = x
        BY <1>2, <2>1, <3>1
      <3> QED
        BY <1>1, <1>3, <2>3, <3>1, <3>2, <3>3, <3>4
    <2> QED
      BY <2>2, <2>5, <2>6 DEF OnceFor, Unprocessed
  <1> QED
    BY <1>0, <1>1, <1>3, <1>4 DEF OnceInv

(* Whatever is pruned was dealt with. *)
LEMMA CompletesKept ==
    ASSUME EnvInv, KeptInv, NEW w \in Workers, NEW e \in EnvIds, NEW gone \in SUBSET EnvIds,
           Completes(w, e, gone)
    PROVE  KeptInv'
  <1>0. Removes(e, gone) /\ Settles(e) /\ UNCHANGED <<ingesting, answered>>
    BY DEF Completes
  <1>1. /\ Stored' = Stored \ gone /\ \A x \in Stored' : envelopesByID'[x] = envelopesByID[x]
        /\ \A d \in Deliveries : deliveryIndex'[d] \in {NoEnv, deliveryIndex[d]}
    BY CompletesFrame
  <1>2. /\ handled \cup rejected \subseteq handled' \cup rejected'
        /\ envelopesByID[e].merged \subseteq handled' \cup rejected'
    BY <1>0 DEF Settles
  <1>3. \A x \in Stored : x \in processedEnvs \cup {e} => envelopesByID[x].merged \subseteq handled' \cup rejected'
    BY <1>2 DEF KeptInv
  <1>4. gone \subseteq processedEnvs \cup {e} /\ processedEnvs' \subseteq processedEnvs \cup {e}
    BY <1>0 DEF Removes
  <1>5. \A d \in Deliveries : Safe(d) => Safe(d)'
    BY <1>1, <1>2, <1>3, <1>4 DEF Safe
  <1>6. \A x \in Stored' \cap processedEnvs' : envelopesByID'[x].merged \subseteq handled' \cup rejected'
    BY <1>1, <1>3, <1>4
  <1> QED
    BY <1>0, <1>1, <1>5, <1>6 DEF KeptInv

-----------------------------------------------------------------------------
(* Calls that change the store *)

(* A merge moves the envelope's payload forward; nobody is parsing it. *)
LEMMA IngestCoalescedStep ==
    ASSUME EnvInv, OnceInv, NEW d \in Deliveries, IngestCoalesced(d)
    PROVE  EnvInv' /\ OnceInv' /\ (KeptInv => KeptInv')
  <1> DEFINE e == coalesceIndex[Obj[d]]
             x0 == envelopesByID[e]
             x1 == [x0 EXCEPT !.payload = d, !.merged = @ \cup {d}]
  <1>0. /\ StoreTypes /\ CallTypes /\ IdsUsed /\ \A v \in Workers : ParseFits(v)
        /\ \A x \in Stored : EnvelopeFits(envelopesByID[x])
        /\ \A o \in Objects : coalesceIndex[o] \in Stored => ObjOf(coalesceIndex[o]) = o
        /\ envelopesByID \in [EnvIds -> Envelope \cup {NoEnv}] /\ NoEnv \notin Envelope
        /\ deliveryIndex \in [Deliveries -> EnvIds \cup {NoEnv}]
    BY EnvelopesAssumption DEF EnvInv, StoreTypes
  <1>1. /\ deliveryIndex[d] = NoEnv /\ e \in Stored /\ e \notin processedEnvs /\ e \notin processingEnvs
        /\ Ts[d] - Ts[x0.payload] \in 0..Window
    BY DEF IngestCoalesced, Coalesces, ReceivedAt
  <1>2. /\ UNCHANGED <<processedEnvs, envelopeAttempts, watermarks, projection, coalesceIndex, processingEnvs,
                       queue, blocked, ingesting, refused, toEnqueue, timers, workers, nextEnv,
                       handled, rejected, applied, repeatable>>
        /\ answered' = answered \cup {d} /\ disk' = Snapshot'
        /\ deliveryIndex' = [deliveryIndex EXCEPT ![d] = e]
    BY DEF IngestCoalesced, volatile, queueVars, callVars, Save
  <1>3. envelopesByID' = [envelopesByID EXCEPT ![e] = x1]
    BY <1>0 DEF IngestCoalesced
  <1>4. e \in EnvIds /\ x0 \in Envelope /\ EnvelopeFits(x0) /\ Obj[x0.payload] = Obj[d] /\ e # NoEnv
    BY <1>0, <1>1, EnvelopesAssumption DEF Stored, ObjOf
  <1>5. x0 \in [delivery : Deliveries, payload : Deliveries, merged : SUBSET Deliveries]
    BY <1>4 DEF Envelope
  <1>6. /\ x1 \in Envelope /\ x1.payload = d /\ x1.merged = x0.merged \cup {d} /\ x1.delivery = x0.delivery
    BY <1>5 DEF Envelope
  <1>7. EnvelopeFits(x1)
    <2>1. Ts[d] \in Nat /\ Ts[x0.payload] \in Nat /\ \A c \in x0.merged : c \in Deliveries /\ Ts[c] \in Nat
      BY <1>5, EnvelopesAssumption
    <2>2. Ts[x0.payload] <= Ts[d]
      BY <1>1, <2>1, EnvelopesAssumption
    <2> QED
      BY SMTT(30), <1>4, <1>6, <2>1, <2>2 DEF EnvelopeFits
  <1> HIDE DEF x1
  <1>8. /\ Stored' = Stored /\ envelopesByID'[e] = x1 /\ Unprocessed' = Unprocessed
        /\ \A x \in Stored \ {e} : envelopesByID'[x] = envelopesByID[x]
    BY <1>0, <1>1, <1>2, <1>3, <1>4, <1>6 DEF Stored, Unprocessed
  <1>9. /\ \A x \in EnvIds : Carried(x)' <=> Carried(x)
        /\ \A x \in EnvIds, c \in Deliveries : Calling(x, c)' <=> Calling(x, c)
    BY <1>2 DEF Carried, Calling, Busy
  <1>10. EnvInv'
    <2>1. StoreTypes'
      BY <1>0, <1>2, <1>3, <1>4, <1>6 DEF StoreTypes
    <2>2. CallTypes'
      BY <1>0, <1>2 DEF CallTypes
    <2>3. DiskAgrees'
      BY <1>2 DEF DiskAgrees, Snapshot, EnvInv
    <2>4. IdsUsed'
      BY <1>0, <1>1, <1>2, <1>4, <1>8, <1>9 DEF IdsUsed
    <2>5. \A x \in Stored' : EnvelopeFits(envelopesByID'[x])
      BY <1>0, <1>7, <1>8
    <2>6. \A o \in Objects : coalesceIndex'[o] \in Stored' => Obj[envelopesByID'[coalesceIndex'[o]].payload] = o
      BY <1>0, <1>2, <1>4, <1>6, <1>8 DEF ObjOf
    <2>7. \A v \in Workers : ParseFits(v)'
      BY <1>0, <1>1, <1>2, <1>8 DEF ParseFits
    <2>8. HandledReflected' /\ handled' \subseteq Deliveries
      BY <1>2 DEF EnvInv, HandledReflected
    <2> QED
      BY <2>1, <2>2, <2>3, <2>4, <2>5, <2>6, <2>7, <2>8 DEF EnvInv, ObjOf
  <1>11. OnceInv'
    <2>1. ASSUME NEW c \in Deliveries \ repeatable' PROVE OnceFor(c)'
      <3>1. /\ \A x \in Stored : c \in envelopesByID[x].merged <=> deliveryIndex[c] = x
            /\ applied[c] # 0 => /\ applied[c] = 1 /\ deliveryIndex[c] # NoEnv
                                 /\ deliveryIndex[c] \in Stored => deliveryIndex[c] \in processedEnvs
            /\ \A x \in EnvIds : Calling(x, c) =>
                 /\ x \in Unprocessed /\ envelopesByID[x].delivery = c
                 /\ ~Carried(x) /\ applied[c] = 0
        BY <1>2, <2>1 DEF OnceInv, OnceFor
      <3>2. \A x \in Stored' : c \in envelopesByID'[x].merged <=> deliveryIndex'[c] = x
        <4>1. CASE c = d
          BY SMTT(30), <1>0, <1>1, <1>2, <1>4, <1>6, <1>8, <3>1, <4>1, EnvelopesAssumption DEF Stored
        <4>2. CASE c # d
          BY <1>0, <1>1, <1>2, <1>6, <1>8, <3>1, <4>2
        <4> QED
          BY <4>1, <4>2
      <3>3. applied[c] # 0 => c # d /\ deliveryIndex'[c] = deliveryIndex[c]
        BY <1>0, <1>1, <1>2, <3>1
      <3>4. \A x \in Stored : envelopesByID'[x].delivery = envelopesByID[x].delivery
        BY <1>6, <1>8
      <3> QED
        BY <1>2, <1>8, <1>9, <3>1, <3>2, <3>3, <3>4 DEF OnceFor, Unprocessed
    <2> QED
      BY <1>2, <1>9, <2>1 DEF OnceInv
  <1>12. ASSUME KeptInv PROVE KeptInv'
    <2>1. \A c \in Deliveries : Safe(c) => Safe(c)'
      BY <1>2, <1>6, <1>8 DEF Safe
    <2>2. Safe(d)'
      BY <1>1, <1>6, <1>8 DEF Safe
    <2>3. \A c \in Deliveries :
            (\/ c \in answered' \/ deliveryIndex'[c] # NoEnv
             \/ \E x \in EnvIds : <<x, c>> \in ingesting') => Safe(c)'
      BY <1>0, <1>2, <1>12, <2>1, <2>2 DEF KeptInv
    <2>4. \A x \in Stored' \cap processedEnvs' : envelopesByID'[x].merged \subseteq handled' \cup rejected'
      BY <1>1, <1>2, <1>8, <1>12 DEF KeptInv
    <2>5. answered' \subseteq Deliveries
      BY <1>2, <1>12 DEF KeptInv
    <2> QED
      BY <2>3, <2>4, <2>5 DEF KeptInv
  <1> QED
    BY <1>10, <1>11, <1>12

(* A delivery that is not indexed gets an envelope under a fresh id. *)
LEMMA IngestStoredStep ==
    ASSUME EnvInv, OnceInv, NEW d \in Deliveries, IngestStored(d)
    PROVE  EnvInv' /\ OnceInv' /\ (KeptInv => KeptInv')
  <1> DEFINE e == nextEnv + 1
             x1 == [delivery |-> d, payload |-> d, merged |-> {d}]
  <1>0. /\ StoreTypes /\ CallTypes /\ IdsUsed /\ \A v \in Workers : ParseFits(v)
        /\ \A x \in Stored : EnvelopeFits(envelopesByID[x])
        /\ \A o \in Objects : coalesceIndex[o] \in Stored => ObjOf(coalesceIndex[o]) = o
        /\ envelopesByID \in [EnvIds -> Envelope \cup {NoEnv}] /\ NoEnv \notin Envelope /\ NoEnv \notin EnvIds
        /\ deliveryIndex \in [Deliveries -> EnvIds \cup {NoEnv}] /\ nextEnv \in Nat
        /\ coalesceIndex \in [Objects -> EnvIds \cup {NoEnv}]
        /\ Obj[d] \in Objects /\ Ts[d] \in Nat
    BY EnvelopesAssumption DEF EnvInv, StoreTypes
  <1>1. /\ deliveryIndex[d] = NoEnv /\ e \in EnvIds /\ nextEnv' = e
        /\ envelopesByID' = [envelopesByID EXCEPT ![e] = x1]
        /\ deliveryIndex' = [deliveryIndex EXCEPT ![d] = e]
        /\ coalesceIndex' = [coalesceIndex EXCEPT ![Obj[d]] = e]
        /\ ingesting' = ingesting \cup {<<e, d>>} /\ disk' = Snapshot'
    BY DEF IngestStored, Save
  <1>2. UNCHANGED <<processedEnvs, envelopeAttempts, watermarks, projection, processingEnvs,
                    queue, blocked, refused, toEnqueue, timers, workers, answered,
                    handled, rejected, applied, repeatable>>
    BY DEF IngestStored, queueVars, history
  <1>3. /\ e \notin Stored /\ e \notin processedEnvs /\ ~Carried(e)
        /\ \A c \in Deliveries : ~Calling(e, c) /\ deliveryIndex[c] # e
    BY <1>0, <1>1 DEF IdsUsed
  <1>4. /\ x1 \in Envelope /\ x1.payload = d /\ x1.merged = {d} /\ x1.delivery = d /\ EnvelopeFits(x1)
    BY <1>0 DEF Envelope, EnvelopeFits
  <1> HIDE DEF x1
  <1>5. /\ Stored' = Stored \cup {e} /\ envelopesByID'[e] = x1
        /\ \A x \in Stored : envelopesByID'[x] = envelopesByID[x] /\ x # e
    BY <1>0, <1>1, <1>3, <1>4 DEF Stored
  <1>6. \A x \in EnvIds : Carried(x)' <=> Carried(x)
    BY <1>2 DEF Carried, Busy
  <1>7. \A x \in EnvIds, c \in Deliveries : Calling(x, c)' <=> Calling(x, c) \/ (x = e /\ c = d)
    BY <1>1, <1>2 DEF Calling
  <1>8. EnvInv'
    <2>1. StoreTypes'
      BY <1>0, <1>1, <1>2, <1>4 DEF StoreTypes
    <2>2. CallTypes'
      BY <1>0, <1>2 DEF CallTypes
    <2>3. DiskAgrees'
      BY <1>1, <1>2 DEF DiskAgrees, Snapshot, EnvInv
    <2>4. IdsUsed'
      <3>1. \A x \in EnvIds : x <= nextEnv => x <= nextEnv'
        BY <1>0, <1>1 DEF EnvIds
      <3>2. e <= nextEnv'
        BY <1>0, <1>1
      <3> HIDE DEF e
      <3>3. \A x \in EnvIds :
              (x \in Stored' \cup processedEnvs' \/ Carried(x)' \/ (\E c \in Deliveries : Calling(x, c)'))
                => x <= nextEnv'
        BY <1>0, <1>2, <1>5, <1>6, <1>7, <3>1, <3>2 DEF IdsUsed
      <3>4. \A c \in Deliveries : deliveryIndex'[c] # NoEnv => deliveryIndex'[c] <= nextEnv'
        BY <1>0, <1>1, <3>1, <3>2 DEF IdsUsed
      <3>5. \A o \in Objects : coalesceIndex'[o] # NoEnv => coalesceIndex'[o] <= nextEnv'
        BY <1>0, <1>1, <3>1, <3>2 DEF IdsUsed
      <3> QED
        BY <3>3, <3>4, <3>5 DEF IdsUsed
    <2>5. \A x \in Stored' : EnvelopeFits(envelopesByID'[x])
      BY <1>0, <1>4, <1>5
    <2>6. \A o \in Objects : coalesceIndex'[o] \in Stored' => Obj[envelopesByID'[coalesceIndex'[o]].payload] = o
      <3>1. coalesceIndex'[Obj[d]] = e /\ \A o \in Objects \ {Obj[d]} : coalesceIndex'[o] = coalesceIndex[o]
        BY <1>0, <1>1
      <3>2. ASSUME NEW o \in Objects \ {Obj[d]}, coalesceIndex'[o] \in Stored'
            PROVE  Obj[envelopesByID'[coalesceIndex'[o]].payload] = o
        <4>1. coalesceIndex[o] # e
          BY <1>0, <1>1, <1>3 DEF IdsUsed
        <4> QED
          BY <1>0, <1>5, <3>1, <3>2, <4>1 DEF ObjOf
      <3> QED
        BY <1>4, <1>5, <3>1, <3>2
    <2>7. \A v \in Workers : ParseFits(v)'
      <3>1. \A v \in Workers : workers[v].pc = "parsing" => workers[v].env # e
        BY <1>1, <1>3 DEF Carried, Busy
      <3> QED
        BY <1>0, <1>2, <1>5, <3>1 DEF ParseFits
    <2>8. HandledReflected' /\ handled' \subseteq Deliveries
      BY <1>2 DEF EnvInv, HandledReflected
    <2> QED
      BY <2>1, <2>2, <2>3, <2>4, <2>5, <2>6, <2>7, <2>8 DEF EnvInv, ObjOf
  <1>9. OnceInv'
    <2>1. ASSUME NEW c \in Deliveries \ repeatable' PROVE OnceFor(c)'
      <3>1. /\ \A x \in Stored : c \in envelopesByID[x].merged <=> deliveryIndex[c] = x
            /\ applied[c] # 0 => /\ applied[c] = 1 /\ deliveryIndex[c] # NoEnv
                                 /\ deliveryIndex[c] \in Stored => deliveryIndex[c] \in processedEnvs
            /\ \A x \in EnvIds : Calling(x, c) =>
                 /\ x \in Unprocessed /\ envelopesByID[x].delivery = c
                 /\ ~Carried(x) /\ applied[c] = 0
        BY <1>2, <2>1 DEF OnceInv, OnceFor
      <3>2. \A x \in Stored' : c \in envelopesByID'[x].merged <=> deliveryIndex'[c] = x
        <4>1. CASE c = d
          BY <1>0, <1>1, <1>4, <1>5, <3>1, <4>1 DEF Stored
        <4>2. CASE c # d
          BY <1>0, <1>1, <1>3, <1>4, <1>5, <3>1, <4>2
        <4> QED
          BY <4>1, <4>2
      <3>3. applied[c] # 0 => c # d /\ deliveryIndex'[c] = deliveryIndex[c] /\ deliveryIndex[c] # e
        BY <1>0, <1>1, <1>3, <3>1
      <3>4. \A x \in EnvIds : Calling(x, c)' =>
                 /\ x \in Stored' /\ x \notin processedEnvs' /\ envelopesByID'[x].delivery = c
                 /\ ~(Carried(x)') /\ applied'[c] = 0
        <4>1. c = d => applied[c] = 0
          BY <3>3
        <4> QED
          BY <1>2, <1>3, <1>4, <1>5, <1>6, <1>7, <3>1, <4>1 DEF Unprocessed
      <3> QED
        BY <1>2, <1>5, <3>1, <3>2, <3>3, <3>4 DEF OnceFor, Unprocessed
    <2>2. ingesting' \cap refused' = {}
      BY <1>1, <1>2, <1>3 DEF OnceInv, Calling
    <2> QED
      BY <1>2, <1>3, <1>7, <2>1, <2>2 DEF OnceInv
  <1>10. ASSUME KeptInv PROVE KeptInv'
    <2>1. \A c \in Deliveries : Safe(c) => Safe(c)'
      BY <1>2, <1>5 DEF Safe
    <2>2. Safe(d)'
      BY <1>4, <1>5 DEF Safe
    <2>3. \A c \in Deliveries :
            (\/ c \in answered' \/ deliveryIndex'[c] # NoEnv
             \/ \E x \in EnvIds : <<x, c>> \in ingesting') => Safe(c)'
      BY <1>0, <1>1, <1>2, <1>10, <2>1, <2>2 DEF KeptInv
    <2>4. \A x \in Stored' \cap processedEnvs' : envelopesByID'[x].merged \subseteq handled' \cup rejected'
      BY <1>2, <1>3, <1>5, <1>10 DEF KeptInv
    <2>5. answered' \subseteq Deliveries
      BY <1>2, <1>10 DEF KeptInv
    <2> QED
      BY <2>3, <2>4, <2>5 DEF KeptInv
  <1> QED
    BY <1>8, <1>9, <1>10

(* The envelope of a refused call is gone, and the call is over. *)
LEMMA IngestRefusedStep ==
    ASSUME EnvInv, OnceInv, NEW d \in Deliveries, NEW e \in EnvIds, IngestRefused(e, d)
    PROVE  EnvInv' /\ OnceInv' /\ refused # {}
  <1>0. /\ StoreTypes /\ CallTypes /\ IdsUsed /\ \A v \in Workers : ParseFits(v)
        /\ \A x \in Stored : EnvelopeFits(envelopesByID[x])
        /\ \A o \in Objects : coalesceIndex[o] \in Stored => ObjOf(coalesceIndex[o]) = o
        /\ envelopesByID \in [EnvIds -> Envelope \cup {NoEnv}] /\ NoEnv \notin EnvIds
        /\ deliveryIndex \in [Deliveries -> EnvIds \cup {NoEnv}]
        /\ coalesceIndex \in [Objects -> EnvIds \cup {NoEnv}] /\ Obj[d] \in Objects
    BY EnvelopesAssumption DEF EnvInv, StoreTypes
  <1>1. /\ <<e, d>> \in refused /\ refused' = refused \ {<<e, d>>} /\ ingesting' = ingesting
        /\ envelopesByID' = [envelopesByID EXCEPT ![e] = NoEnv]
        /\ deliveryIndex' = [deliveryIndex EXCEPT ![d] = NoEnv]
        /\ coalesceIndex' \in {coalesceIndex, [coalesceIndex EXCEPT ![Obj[d]] = NoEnv]}
        /\ processedEnvs' = processedEnvs \ {e} /\ disk' = Snapshot'
        /\ envelopeAttempts' = [envelopeAttempts EXCEPT ![e] = 0]
    BY DEF IngestRefused, Save
  <1>2. UNCHANGED <<watermarks, projection, processingEnvs, queue, blocked, toEnqueue, timers, workers,
                    nextEnv, answered, handled, rejected, applied, repeatable>>
    BY DEF IngestRefused, queueVars, history
  <1>3. Stored' = Stored \ {e} /\ \A x \in Stored' : envelopesByID'[x] = envelopesByID[x]
    BY <1>0, <1>1 DEF Stored
  <1>4. \A x \in EnvIds : Carried(x)' <=> Carried(x)
    BY <1>2 DEF Carried, Busy
  <1>5. \A x \in EnvIds, c \in Deliveries : Calling(x, c)' => Calling(x, c) /\ x # e
    <2>1. Calling(e, d) /\ <<e, d>> \notin ingesting
      BY <1>1 DEF OnceInv, Calling
    <2>2. \A x \in EnvIds, c \in Deliveries : Calling(x, c)' => Calling(x, c) /\ ~(x = e /\ c = d)
      BY <1>1, <2>1 DEF Calling
    <2> QED
      BY <2>1, <2>2 DEF OnceInv
  <1>6. EnvInv'
    <2>1. StoreTypes'
      BY <1>0, <1>1, <1>2 DEF StoreTypes
    <2>2. CallTypes'
      BY <1>0, <1>2 DEF CallTypes
    <2>3. DiskAgrees'
      <3>1. envelopeAttempts' \in [EnvIds -> Nat]
        BY <1>1 DEF EnvInv, DiskAgrees
      <3> QED
        BY <1>1, <3>1 DEF DiskAgrees, Snapshot
    <2>4. IdsUsed'
      <3>1. \A o \in Objects : coalesceIndex'[o] \in {NoEnv, coalesceIndex[o]}
        BY <1>0, <1>1
      <3> QED
        BY <1>0, <1>1, <1>2, <1>3, <1>4, <1>5, <3>1 DEF IdsUsed
    <2>5. \A x \in Stored' : EnvelopeFits(envelopesByID'[x])
      BY <1>0, <1>3
    <2>6. \A o \in Objects : coalesceIndex'[o] \in Stored' => Obj[envelopesByID'[coalesceIndex'[o]].payload] = o
      <3>1. \A o \in Objects : coalesceIndex'[o] \in Stored' => coalesceIndex'[o] = coalesceIndex[o]
        BY <1>0, <1>1 DEF Stored
      <3> QED
        BY <1>0, <1>3, <3>1 DEF ObjOf
    <2>7. \A v \in Workers : ParseFits(v)'
      BY <1>0, <1>2, <1>3 DEF ParseFits
    <2>8. HandledReflected' /\ handled' \subseteq Deliveries
      BY <1>2 DEF EnvInv, HandledReflected
    <2> QED
      BY <2>1, <2>2, <2>3, <2>4, <2>5, <2>6, <2>7, <2>8 DEF EnvInv, ObjOf
  <1>7. OnceInv'
    <2>1. ASSUME NEW c \in Deliveries \ repeatable' PROVE OnceFor(c)'
      <3>1. /\ \A x \in Stored : c \in envelopesByID[x].merged <=> deliveryIndex[c] = x
            /\ applied[c] # 0 => /\ applied[c] = 1 /\ deliveryIndex[c] # NoEnv
                                 /\ deliveryIndex[c] \in Stored => deliveryIndex[c] \in processedEnvs
            /\ \A x \in EnvIds : Calling(x, c) =>
                 /\ x \in Unprocessed /\ envelopesByID[x].delivery = c
                 /\ ~Carried(x) /\ applied[c] = 0
        BY <1>2, <2>1 DEF OnceInv, OnceFor
      <3>2. c = d => e \in Stored /\ deliveryIndex[d] = e /\ applied[d] = 0
        <4>1. SUFFICES ASSUME c = d PROVE e \in Stored /\ deliveryIndex[d] = e /\ applied[d] = 0
          OBVIOUS
        <4>2. e \in Stored /\ envelopesByID[e].delivery = d /\ applied[d] = 0
          BY <1>1, <3>1, <4>1 DEF Calling, Unprocessed
        <4>3. d \in envelopesByID[e].merged
          BY <1>0, <4>2 DEF EnvelopeFits
        <4> QED
          BY <3>1, <4>1, <4>2, <4>3
      <3>3. \A x \in Stored' : c \in envelopesByID'[x].merged <=> deliveryIndex'[c] = x
        <4>1. CASE c = d
          BY <1>0, <1>1, <1>3, <3>1, <3>2, <4>1 DEF Stored
        <4>2. CASE c # d
          BY <1>0, <1>1, <1>3, <3>1, <4>2
        <4> QED
          BY <4>1, <4>2
      <3>4. applied[c] # 0 => deliveryIndex'[c] = deliveryIndex[c]
        BY <1>0, <1>1, <3>2
      <3>5. \A x \in EnvIds : Calling(x, c)' =>
                 /\ x \in Stored' /\ x \notin processedEnvs' /\ envelopesByID'[x].delivery = c
                 /\ ~(Carried(x)') /\ applied'[c] = 0
        BY <1>1, <1>2, <1>3, <1>4, <1>5, <3>1 DEF Unprocessed
      <3>6. applied'[c] # 0 =>
              /\ applied'[c] = 1 /\ deliveryIndex'[c] # NoEnv
              /\ deliveryIndex'[c] \in Stored' => deliveryIndex'[c] \in processedEnvs'
        BY <1>1, <1>2, <1>3, <3>1, <3>4
      <3> QED
        BY <3>3, <3>5, <3>6 DEF OnceFor, Unprocessed
    <2>2. ingesting' \cap refused' = {}
      BY <1>1 DEF OnceInv
    <2> QED
      BY <1>2, <1>5, <2>1, <2>2 DEF OnceInv
  <1> QED
    BY <1>1, <1>6, <1>7

(* An operator's replay: the envelope waits its turn again. *)
LEMMA ReplayStep ==
    ASSUME EnvInv, OnceInv, NEW e \in EnvIds, ReplayEnvelope(e)
    PROVE  EnvInv' /\ OnceInv' /\ (KeptInv => KeptInv')
  <1>0. /\ StoreTypes /\ CallTypes /\ IdsUsed /\ \A v \in Workers : ParseFits(v)
        /\ \A x \in Stored : EnvelopeFits(envelopesByID[x])
        /\ \A o \in Objects : coalesceIndex[o] \in Stored => ObjOf(coalesceIndex[o]) = o
        /\ coalesceIndex \in [Objects -> EnvIds \cup {NoEnv}] /\ DOMAIN toEnqueue = EnvIds
    BY DEF EnvInv, StoreTypes, CallTypes
  <1>1. /\ e \in Stored /\ processedEnvs' = processedEnvs \ {e}
        /\ envelopeAttempts' = [envelopeAttempts EXCEPT ![e] = 0]
        /\ coalesceIndex' = [coalesceIndex EXCEPT ![ObjOf(e)] = e]
        /\ toEnqueue' = [toEnqueue EXCEPT ![e] = @ + 1]
        /\ repeatable' = repeatable \cup envelopesByID[e].merged /\ disk' = Snapshot'
    BY DEF ReplayEnvelope, Calls, Save
  <1>2. UNCHANGED <<envelopesByID, deliveryIndex, watermarks, projection, processingEnvs, queue, blocked,
                    ingesting, refused, timers, workers, nextEnv, answered, handled, rejected, applied>>
    BY DEF ReplayEnvelope, queueVars
  <1>3. Stored' = Stored
    BY <1>2 DEF Stored
  <1>4. \A x \in EnvIds : Carried(x)' => Carried(x) \/ x = e
    BY <1>0, <1>1, <1>2 DEF Carried, Busy
  <1>5. \A x \in EnvIds, c \in Deliveries : Calling(x, c)' <=> Calling(x, c)
    BY <1>2 DEF Calling
  <1>6. EnvInv'
    <2>1. StoreTypes'
      BY <1>0, <1>1, <1>2 DEF StoreTypes
    <2>2. CallTypes'
      BY <1>0, <1>1, <1>2 DEF CallTypes
    <2>3. DiskAgrees'
      <3>1. envelopeAttempts' \in [EnvIds -> Nat]
        BY <1>1 DEF EnvInv, DiskAgrees
      <3> QED
        BY <1>1, <3>1 DEF DiskAgrees, Snapshot
    <2>4. IdsUsed'
      BY <1>0, <1>1, <1>2, <1>3, <1>4, <1>5 DEF IdsUsed
    <2>5. \A x \in Stored' : EnvelopeFits(envelopesByID'[x])
      BY <1>0, <1>2, <1>3
    <2>6. \A o \in Objects : coalesceIndex'[o] \in Stored' => Obj[envelopesByID'[coalesceIndex'[o]].payload] = o
      BY <1>0, <1>1, <1>2, <1>3 DEF ObjOf
    <2>7. \A v \in Workers : ParseFits(v)'
      BY <1>0, <1>2, <1>3 DEF ParseFits
    <2>8. HandledReflected' /\ handled' \subseteq Deliveries
      BY <1>2 DEF EnvInv, HandledReflected
    <2> QED
      BY <2>1, <2>2, <2>3, <2>4, <2>5, <2>6, <2>7, <2>8 DEF EnvInv, ObjOf
  <1>7. OnceInv'
    <2>1. ASSUME NEW c \in Deliveries \ repeatable' PROVE OnceFor(c)'
      <3>1. /\ \A x \in Stored : c \in envelopesByID[x].merged <=> deliveryIndex[c] = x
            /\ applied[c] # 0 => /\ applied[c] = 1 /\ deliveryIndex[c] # NoEnv
                                 /\ deliveryIndex[c] \in Stored => deliveryIndex[c] \in processedEnvs
            /\ \A x \in EnvIds : Calling(x, c) =>
                 /\ x \in Unprocessed /\ envelopesByID[x].delivery = c
                 /\ ~Carried(x) /\ applied[c] = 0
        BY <1>1, <2>1 DEF OnceInv, OnceFor
      <3>2. deliveryIndex[c] # e
        BY <1>1, <2>1, <3>1
      <3>3. \A x \in EnvIds : Calling(x, c) => x # e
        BY <1>0, <1>1, <2>1, <3>1 DEF EnvelopeFits, Unprocessed
      <3> QED
        BY <1>1, <1>2, <1>3, <1>4, <1>5, <3>1, <3>2, <3>3 DEF OnceFor, Unprocessed
    <2> QED
      BY <1>2, <1>5, <2>1 DEF OnceInv
  <1>8. KeptInv => KeptInv'
    BY <1>1, <1>2, <1>3 DEF KeptInv, Safe
  <1> QED
    BY <1>6, <1>7, <1>8

(* A crash loses the calls, the marks and the queue in memory. *)
LEMMA RestartStep ==
    ASSUME EnvInv, OnceInv, Restart
    PROVE  EnvInv' /\ OnceInv' /\ (KeptInv => KeptInv')
  <1>0. /\ StoreTypes /\ CallTypes /\ IdsUsed /\ DiskAgrees
        /\ \A x \in Stored : EnvelopeFits(envelopesByID[x])
        /\ NoEnv \notin EnvIds /\ queue \in Seq(EnvIds)
    BY EnvelopesAssumption DEF EnvInv, CallTypes
  <1>1. /\ UNCHANGED <<envelopesByID, deliveryIndex, processedEnvs, watermarks, projection, nextEnv,
                       answered, handled, rejected, applied, repeatable, disk>>
        /\ envelopeAttempts' \in [EnvIds -> Nat]
        /\ blocked' = {} /\ ingesting' = {} /\ refused' = {}
        /\ queue' \in {queue, <<>>} /\ workers' = [w \in Workers |-> Idle]
    BY <1>0 DEF Restart, DiskAgrees
  <1>2. Stored' = Stored
    BY <1>1 DEF Stored
  <1>3. coalesceIndex' \in RebuiltIndex(envelopesByID, processedEnvs)
    BY <1>0 DEF Restart, DiskAgrees
  <1>4. /\ coalesceIndex' \in [Objects -> EnvIds \cup {NoEnv}]
        /\ \A o \in Objects : coalesceIndex'[o] # NoEnv => coalesceIndex'[o] \in Stored
        /\ \A o \in Objects : coalesceIndex'[o] \in Stored' => Obj[envelopesByID'[coalesceIndex'[o]].payload] = o
    BY <1>0, <1>1, <1>2, <1>3 DEF RebuiltIndex, Stored
  <1>5. /\ DOMAIN toEnqueue' = EnvIds /\ DOMAIN timers' = EnvIds
        /\ \A x \in EnvIds : toEnqueue'[x] # 0 \/ timers'[x] # 0 => x \in Stored
    <2> DEFINE open == {x \in EnvIds \ disk.processedEnvs : disk.envelopesByID[x] # NoEnv}
    <2>1. PICK later \in SUBSET (open \cap disk.envelopeNextAttempt) :
            toEnqueue' = Count(open \ later) /\ timers' = Count(later)
      BY DEF Restart
    <2>2. open \subseteq Stored
      BY <1>0 DEF DiskAgrees, Stored
    <2> HIDE DEF open
    <2> QED
      BY <2>1, <2>2 DEF Count
  <1>6. Idle \in WorkerState /\ Idle.pc = "idle"
    BY DEF Idle, WorkerState
  <1>7. \A w \in Workers : workers'[w].pc = "idle"
    BY <1>1, <1>6
  <1>8. CallTypes' /\ Range(queue') \subseteq Range(queue)
    <2>1. <<>> \in Seq(EnvIds) /\ Range(<<>>) = {}
      BY DEF Range
    <2> QED
      BY <1>0, <1>1, <1>5, <1>6, <2>1 DEF CallTypes
  <1>9. \A x \in EnvIds : Carried(x)' => x \in Stored \/ Carried(x)
    BY <1>1, <1>5, <1>7, <1>8 DEF Carried, Busy
  <1>10. \A x \in EnvIds, c \in Deliveries : ~(Calling(x, c)')
    BY <1>1 DEF Calling
  <1>11. EnvInv'
    <2>1. StoreTypes'
      BY <1>0, <1>1, <1>4 DEF StoreTypes
    <2>2. DiskAgrees'
      BY <1>0, <1>1 DEF DiskAgrees
    <2>3. IdsUsed'
      BY <1>0, <1>1, <1>2, <1>4, <1>9, <1>10 DEF IdsUsed, Stored
    <2>4. \A x \in Stored' : EnvelopeFits(envelopesByID'[x])
      BY <1>0, <1>1, <1>2
    <2>5. \A v \in Workers : ParseFits(v)'
      BY <1>7 DEF ParseFits
    <2>6. HandledReflected' /\ handled' \subseteq Deliveries
      BY <1>1 DEF EnvInv, HandledReflected
    <2> QED
      BY <1>4, <1>8, <2>1, <2>2, <2>3, <2>4, <2>5, <2>6 DEF EnvInv, ObjOf
  <1>12. OnceInv'
    <2>1. ASSUME NEW c \in Deliveries \ repeatable' PROVE OnceFor(c)'
      <3>1. OnceFor(c)
        BY <1>1, <2>1 DEF OnceInv
      <3> QED
        BY <1>1, <1>2, <1>10, <3>1 DEF OnceFor
    <2> QED
      BY <1>1, <1>10, <2>1 DEF OnceInv
  <1>13. KeptInv => KeptInv'
    BY <1>1, <1>2 DEF KeptInv, Safe
  <1> QED
    BY <1>11, <1>12, <1>13

(* A step beside the store answers only deliveries that are held. *)
LEMMA AsideKept ==
    ASSUME KeptInv, Aside, ingesting' \subseteq ingesting,
           \A c \in answered' \ answered :
             c \in Deliveries /\ (deliveryIndex[c] # NoEnv \/ \E e \in EnvIds : <<e, c>> \in ingesting)
    PROVE  KeptInv'
  <1>1. Stored' = Stored
    BY DEF Aside, Stored
  <1> QED
    BY <1>1 DEF Aside, KeptInv, Safe

-----------------------------------------------------------------------------
(* The theorems *)

(* The invariant holds initially. *)
LEMMA InitOnce ==
    Init => EnvInv /\ OnceInv /\ KeptInv
  <1> SUFFICES ASSUME Init PROVE EnvInv /\ OnceInv /\ KeptInv
    OBVIOUS
  <1>1. Stored = {} /\ NoEnv \notin EnvIds
    BY EnvelopesAssumption DEF Init, Stored
  <1>2. Idle \in WorkerState /\ Idle.pc = "idle"
    BY DEF Idle, WorkerState
  <1>3. Count({}) \in [EnvIds -> Nat] /\ DOMAIN Count({}) = EnvIds /\ \A x \in EnvIds : Count({})[x] = 0
    BY DEF Count
  <1>4. <<>> \in Seq(EnvIds) /\ Range(<<>>) = {}
    BY DEF Range
  <1>5. StoreTypes /\ CallTypes
    BY <1>2, <1>3, <1>4 DEF Init, StoreTypes, CallTypes
  <1>6. DiskAgrees
    BY <1>3 DEF Init, DiskAgrees, Snapshot
  <1>7. /\ \A x \in EnvIds : ~Carried(x)
        /\ \A x \in EnvIds, c \in Deliveries : ~Calling(x, c)
        /\ \A w \in Workers : workers[w].pc # "parsing"
    BY <1>2, <1>3, <1>4 DEF Init, Carried, Calling, Busy
  <1>8. IdsUsed
    BY <1>1, <1>7 DEF Init, IdsUsed
  <1>9. EnvInv
    BY <1>1, <1>5, <1>6, <1>7, <1>8 DEF Init, EnvInv, ParseFits, HandledReflected
  <1>10. OnceInv
    <2>1. \A c \in Deliveries : applied[c] = 0
      BY DEF Init
    <2>2. \A c \in Deliveries : OnceFor(c)
      BY <1>1, <1>7, <2>1 DEF OnceFor
    <2> QED
      BY <1>7, <2>2 DEF Init, OnceInv
  <1>11. KeptInv
    BY <1>1 DEF Init, KeptInv
  <1> QED
    BY <1>9, <1>10, <1>11

(* Every step keeps the invariant, and keeps deliveries unless a call meets *)
(* a full queue.                                                            *)
LEMMA StepKeeps ==
    ASSUME EnvInv, OnceInv, [Next]_vars
    PROVE  EnvInv' /\ OnceInv' /\ (KeptInv /\ refused = {} => KeptInv')
  <1> DEFINE Goal == EnvInv' /\ OnceInv' /\ (KeptInv /\ refused = {} => KeptInv')
  <1>1. ASSUME Aside, UNCHANGED <<ingesting, refused, answered>>, \A x \in EnvIds : Carried(x)' => Carried(x)
        PROVE  Goal
    <2>1. ingesting' \cap refused' = {}
      BY <1>1 DEF OnceInv
    <2>2. EnvInv' /\ OnceInv'
      BY <1>1, <2>1, AsideStep, AsideOnce
    <2>3. KeptInv => KeptInv'
      BY <1>1, AsideKept
    <2> QED
      BY <2>2, <2>3
  <1>2. ASSUME NEW d \in Deliveries, NEW e \in EnvIds,
               IngestDuplicate(d) \/ tryEnqueueEnvelope(e, d)
        PROVE  Goal
    <2>1. /\ Aside /\ ingesting' \cap refused' = {} /\ ingesting' \subseteq ingesting
          /\ \A x \in EnvIds, c \in Deliveries : Calling(x, c)' /\ Carried(x)' => Carried(x)
          /\ \A c \in answered' \ answered : c = d /\ (deliveryIndex[d] # NoEnv \/ <<e, d>> \in ingesting)
      BY <1>2, CallSteps
    <2>2. EnvInv' /\ OnceInv'
      BY <2>1, AsideStep, AsideOnce
    <2>3. KeptInv => KeptInv'
      BY <2>1, AsideKept
    <2> QED
      BY <2>2, <2>3
  <1>3. ASSUME NEW d \in Deliveries, IngestCoalesced(d) \/ IngestStored(d) PROVE Goal
    BY <1>3, IngestCoalescedStep, IngestStoredStep
  <1>4. ASSUME NEW d \in Deliveries, NEW e \in EnvIds, IngestRefused(e, d) PROVE Goal
    BY <1>4, IngestRefusedStep
  <1>5. CASE Queueing
    <2>1. PICK e \in EnvIds : enqueueEnvelope(e) \/ Enqueue(e) \/ RetryTimerFires(e)
      BY <1>5 DEF Queueing
    <2> QED
      BY <1>1, <2>1, QueueSteps
  <1>6. ASSUME NEW w \in Workers, WorkerStep(w) PROVE Goal
    <2>1. CASE \/ Dequeue(w) \/ MarkDequeued(w) \/ acquireProviderSlot(w) \/ BeginEnvelope(w)
               \/ AbandonEnvelope(w) \/ scheduleEnvelopeRetry(w) \/ Release(w)
               \/ FailEnvelope(w) /\ workers[w].attempt < MaxAttempts
      <3>1. Aside /\ UNCHANGED <<ingesting, refused, answered>>
            /\ \A x \in EnvIds : Carried(x)' => Carried(x)
        BY <2>1, WorkerStepsAside
      <3> QED
        BY <1>1, <3>1
    <2>2. CASE \/ SuppressEnvelope(w)
               \/ ApplyEnvelope(w)
               \/ FailEnvelope(w) /\ ~(workers[w].attempt < MaxAttempts)
      <3>1. PICK gone \in SUBSET EnvIds : Completes(w, workers[w].env, gone)
        BY <2>2, WorkerCompletes
      <3>2. workers[w].env \in EnvIds
        BY <3>1 DEF Completes, Unprocessed, Stored
      <3> QED
        BY <3>1, <3>2, CompletesStep, CompletesOnce, CompletesKept
    <2> QED
      BY <1>6, <2>1, <2>2 DEF WorkerStep
  <1>7. ASSUME NEW e \in EnvIds, ReplayEnvelope(e) PROVE Goal
    BY <1>7, ReplayStep
  <1>8. CASE Restart
    BY <1>8, RestartStep
  <1>9. CASE UNCHANGED vars
    <2>1. /\ UNCHANGED <<envelopesByID, deliveryIndex, processedEnvs, watermarks, projection, coalesceIndex,
                         nextEnv, handled, rejected, applied, repeatable, ingesting, refused, answered,
                         queue, blocked, toEnqueue, timers, workers, processingEnvs>>
          /\ UNCHANGED <<disk, envelopeAttempts>>
      BY <1>9 DEF vars, persistent, volatile, queueVars, callVars, history
    <2>2. DiskAgrees' /\ CallTypes'
      BY <2>1 DEF EnvInv, DiskAgrees, CallTypes
    <2>3. \A x \in EnvIds : Carried(x)' <=> Carried(x)
      BY <2>1 DEF Carried, Busy
    <2>4. \A x \in EnvIds, c \in Deliveries : Calling(x, c)' <=> Calling(x, c)
      BY <2>1 DEF Calling
    <2>5. \A w \in Workers : ParseFits(w)'
      BY <2>1 DEF EnvInv, ParseFits, Stored
    <2>6. Aside
      BY <2>1, <2>2, <2>3, <2>4, <2>5 DEF Aside
    <2> QED
      BY <1>1, <2>1, <2>3, <2>6
  <1>10. CASE Operators
    <2>1. PICK e \in EnvIds : ReplayEnvelope(e) \/ AcknowledgeDeadLetter(e)
      BY <1>10 DEF Operators
    <2>2. CASE AcknowledgeDeadLetter(e)
      BY <1>1, <2>2, QueueSteps
    <2> QED
      BY <1>7, <2>1, <2>2
  <1>11. CASE Ingress
    <2>1. PICK d \in Deliveries :
            \/ IngestDuplicate(d) \/ IngestCoalesced(d) \/ IngestStored(d)
            \/ \E e \in EnvIds : tryEnqueueEnvelope(e, d) \/ IngestRefused(e, d)
      BY <1>11 DEF Ingress
    <2>2. CASE IngestDuplicate(d)
      <3>1. deliveryIndex[d] \in EnvIds
        BY <2>2 DEF IngestDuplicate, EnvInv, StoreTypes
      <3> QED
        BY <1>2, <2>2, <3>1
    <2>3. CASE \E e \in EnvIds : tryEnqueueEnvelope(e, d) \/ IngestRefused(e, d)
      BY <1>2, <1>4, <2>3
    <2> QED
      BY <1>3, <2>1, <2>2, <2>3
  <1> QED
    BY <1>5, <1>6, <1>8, <1>9, <1>10, <1>11 DEF Next

(* A delivery that was applied, merged into a later one or found stale is   *)
(* reflected by the object's projection, for any number of deliveries,      *)
(* workers, envelopes, replays and restarts.                                *)
THEOREM Reflected == Spec => []HandledReflected
  <1>1. EnvInv /\ OnceInv /\ [Next]_vars => EnvInv' /\ OnceInv'
    BY StepKeeps
  <1>2. EnvInv => HandledReflected
    BY DEF EnvInv
  <1> QED
    BY <1>1, <1>2, InitOnce, PTL DEF Spec

(* RF-ING-001: a delivery is applied at most once unless an operator        *)
(* replayed it or its envelope was pruned, for any number of redeliveries,  *)
(* retries, workers and restarts.                                           *)
THEOREM AppliedAtMostOnce == Spec => []AppliedOnce
  <1>1. EnvInv /\ OnceInv /\ [Next]_vars => EnvInv' /\ OnceInv'
    BY StepKeeps
  <1>2. OnceInv => AppliedOnce
    <2>1. ASSUME OnceInv, NEW d \in Deliveries \ repeatable PROVE applied[d] <= 1
      BY <2>1 DEF OnceInv, OnceFor
    <2> QED
      BY <2>1 DEF AppliedOnce
  <1> QED
    BY <1>1, <1>2, InitOnce, PTL DEF Spec

(* A delivery answered "queued" was dealt with or is held in a stored       *)
(* envelope, in every behaviour in which no call meets a full queue.        *)
THEOREM AcceptedIsKept == Spec /\ [](refused = {}) => []AcceptedKept
  <1>1. EnvInv /\ OnceInv /\ [Next]_vars => EnvInv' /\ OnceInv'
    BY StepKeeps
  <1>2. EnvInv /\ OnceInv /\ KeptInv /\ refused = {} /\ [Next]_vars => KeptInv'
    BY StepKeeps
  <1>3. KeptInv => AcceptedKept
    BY DEF KeptInv, AcceptedKept, Safe
  <1> QED
    BY <1>1, <1>2, <1>3, InitOnce, PTL DEF Spec
=============================================================================
