-------------------------- MODULE WritebackProofs ---------------------------
(***************************************************************************)
(* Theorems about Writeback, for every set of paths, values and workers,   *)
(* every capacity, threshold and setup of the store.                       *)
(***************************************************************************)
EXTENDS Writeback, TLAPS, FiniteSetTheorems, SequenceTheorems

-----------------------------------------------------------------------------
(* Sequences *)

(* What a queue or a burst holds after an append. *)
LEMMA AppendRange ==
    ASSUME NEW S, NEW s \in Seq(S), NEW x \in S
    PROVE  /\ Append(s, x) \in Seq(S)
           /\ Append(s, x) # <<>>
           /\ Append(s, x)[Len(Append(s, x))] = x
           /\ Range(Append(s, x)) = Range(s) \cup {x}
           /\ (\A i, j \in DOMAIN s : i # j => s[i] # s[j]) /\ x \notin Range(s) =>
                \A i, j \in DOMAIN Append(s, x) :
                  i # j => Append(s, x)[i] # Append(s, x)[j]
  <1>1. /\ Append(s, x) \in Seq(S) /\ Len(s) \in Nat
        /\ Len(Append(s, x)) = Len(s) + 1
        /\ DOMAIN Append(s, x) = 1..Len(s) + 1 /\ DOMAIN s = 1..Len(s)
        /\ \A i \in 1..Len(s) : Append(s, x)[i] = s[i]
        /\ Append(s, x)[Len(s) + 1] = x
    OBVIOUS
  <1>2. \A i \in 1..Len(s) + 1 : i \in 1..Len(s) \/ i = Len(s) + 1
    BY <1>1
  <1>3. Range(Append(s, x)) = Range(s) \cup {x}
    <2>1. ASSUME NEW y \in Range(Append(s, x)) PROVE y \in Range(s) \cup {x}
      BY <1>1, <1>2 DEF Range
    <2>2. ASSUME NEW y \in Range(s) PROVE y \in Range(Append(s, x))
      <3>1. PICK i \in DOMAIN s : y = s[i]
        BY DEF Range
      <3>2. i \in DOMAIN Append(s, x) /\ y = Append(s, x)[i]
        BY <1>1, <3>1
      <3> QED
        BY <3>2 DEF Range
    <2>3. x \in Range(Append(s, x))
      <3>1. Len(s) + 1 \in DOMAIN Append(s, x)
        BY <1>1
      <3> QED
        BY <1>1, <3>1 DEF Range
    <2> QED
      BY <2>1, <2>2, <2>3
  <1> QED
    BY <1>1, <1>2, <1>3 DEF Range

(* What is left of them when the head is taken. *)
LEMMA TailRange ==
    ASSUME NEW S, NEW s \in Seq(S), s # <<>>
    PROVE  /\ Head(s) \in S /\ Tail(s) \in Seq(S)
           /\ Len(Tail(s)) = Len(s) - 1 /\ Len(s) \in Nat \ {0}
           /\ Head(s) \in Range(s)
           /\ Range(s) = Range(Tail(s)) \cup {Head(s)}
           /\ (\A i, j \in DOMAIN s : i # j => s[i] # s[j]) =>
                /\ Head(s) \notin Range(Tail(s))
                /\ \A i, j \in DOMAIN Tail(s) : i # j => Tail(s)[i] # Tail(s)[j]
           /\ \A x : (\A i, j \in DOMAIN s : i # j => s[i] # x \/ s[j] # x) =>
                /\ x = Head(s) => x \notin Range(Tail(s))
                /\ \A i, j \in DOMAIN Tail(s) : i # j => Tail(s)[i] # x \/ Tail(s)[j] # x
  <1>1. /\ Head(s) \in S /\ Tail(s) \in Seq(S) /\ Len(s) \in Nat \ {0}
        /\ Len(Tail(s)) = Len(s) - 1 /\ Head(s) = s[1]
        /\ DOMAIN s = 1..Len(s) /\ DOMAIN Tail(s) = 1..Len(s) - 1
        /\ \A i \in DOMAIN Tail(s) : Tail(s)[i] = s[i + 1]
    OBVIOUS
  <1>2. Head(s) \in Range(s)
    BY <1>1 DEF Range
  <1>3. ASSUME NEW x \in Range(s), x # Head(s) PROVE x \in Range(Tail(s))
    <2>1. PICK i \in 1..Len(s) : x = s[i]
      BY <1>1 DEF Range
    <2>2. i # 1 /\ i - 1 \in DOMAIN Tail(s) /\ Tail(s)[i - 1] = s[i]
      BY <1>1, <1>3, <2>1
    <2> QED
      BY <2>1, <2>2 DEF Range
  <1>4. ASSUME NEW x \in Range(Tail(s)) PROVE x \in Range(s)
    BY <1>1 DEF Range
  <1>5. \A i \in DOMAIN Tail(s) : i + 1 \in DOMAIN s /\ i + 1 # 1
    BY <1>1
  <1>6. (\A i, j \in DOMAIN s : i # j => s[i] # s[j]) =>
                /\ Head(s) \notin Range(Tail(s))
                /\ \A i, j \in DOMAIN Tail(s) : i # j => Tail(s)[i] # Tail(s)[j]
    BY <1>1, <1>5 DEF Range
  <1>7. ASSUME NEW x, \A i, j \in DOMAIN s : i # j => s[i] # x \/ s[j] # x
        PROVE  /\ x = Head(s) => x \notin Range(Tail(s))
               /\ \A i, j \in DOMAIN Tail(s) : i # j => Tail(s)[i] # x \/ Tail(s)[j] # x
    BY <1>1, <1>5, <1>7 DEF Range
  <1> QED
    BY <1>1, <1>2, <1>3, <1>4, <1>6, <1>7

-----------------------------------------------------------------------------
(* Type correctness *)

(* A worker's tasks: the burst it drained, the operation it works on first. *)
Batch(w) == IF workers[w].pc = "idle" THEN <<>> ELSE workers[w].batch

(* Tasks only name operations that are recorded, in memory and on disk.     *)
Carried(o) ==
    \/ toEnqueue[o] > 0
    \/ timers[o] > 0
    \/ o \in Range(queue) \cup blocked
    \/ \E w \in Workers : o \in Range(Batch(w))

Recorded ==
    /\ disk.opCounter = opCounter
    /\ \A o \in OpIds : /\ ops[o] # NoOp <=> o <= opCounter
                        /\ disk.ops[o] # NoOp <=> o <= opCounter
                        /\ Carried(o) => o <= opCounter

WorkersBusy ==
    \A w \in Workers :
      workers[w].pc \in {"dequeued", "calling", "answered"} => workers[w].batch # <<>>

TypeInv == setup \in Setups /\ TypeOK /\ WorkersBusy /\ Recorded


(* The state of a worker tells its fields. *)
LEMMA WorkerKinds ==
    ASSUME NEW k \in WorkerState
    PROVE  /\ k.pc \in {"idle", "dequeued", "draining", "ready", "calling", "answered"}
           /\ k.pc = "idle" => k = Idle
           /\ k.pc \in {"dequeued", "draining", "ready"} =>
                k \in [pc : {"dequeued", "draining", "ready"},
                       batch : Seq(OpIds), dirty : BOOLEAN]
           /\ k.pc = "calling" =>
                k \in [pc : {"calling"}, batch : Seq(OpIds), dirty : BOOLEAN,
                       attempt : Nat, content : Content]
           /\ k.pc = "answered" =>
                k \in [pc : {"answered"}, batch : Seq(OpIds), dirty : BOOLEAN,
                       attempt : Nat, ok : BOOLEAN]
           /\ k.pc # "idle" => k.batch \in Seq(OpIds) /\ k.dirty \in BOOLEAN
  BY DEF WorkerState, Idle

(* A burst is a sequence of operations, whoever holds it. *)
LEMMA BatchType ==
    ASSUME TypeOK, NEW w \in Workers
    PROVE  Batch(w) \in Seq(OpIds)
  BY WorkerKinds DEF TypeOK, Batch

(* One call more or less of enqueueWriteback. *)
LEMMA CountType ==
    ASSUME NEW f \in [OpIds -> Nat], NEW o \in OpIds
    PROVE  /\ Calls(f, o) \in [OpIds -> Nat]
           /\ Calls(f, o)[o] = f[o] + 1
           /\ f[o] > 0 => Returns(f, o) \in [OpIds -> Nat] /\ Returns(f, o)[o] = f[o] - 1
           /\ \A x \in OpIds \ {o} : Calls(f, o)[x] = f[x] /\ Returns(f, o)[x] = f[x]
  BY DEF Calls, Returns

(* A task names a recorded operation. *)
LEMMA OpFacts ==
    ASSUME TypeInv
    PROVE  /\ TypeOK /\ WorkersBusy /\ Recorded
           /\ MaxOps \in Nat /\ opCounter \in Nat /\ disk.opCounter = opCounter
           /\ \A o \in OpIds : Carried(o) =>
                /\ ops[o] \in Op /\ ops[o] # NoOp
                /\ disk.ops[o] \in Op /\ disk.ops[o] # NoOp
           /\ setup.batchMax \in Nat \ {0} /\ setup.maxAttempts \in Nat \ {0}
           /\ setup.maxReplays \in Nat /\ setup.maxCrashes \in Nat
           /\ setup.ackOps \subseteq OpIds
  BY WritebackAssumption DEF TypeInv, TypeOK, Recorded, OpMap

(* Taking a task off the head of a burst, or leaving the burst as it is,    *)
(* carries nothing new.                                                     *)
LEMMA CarriedLess ==
    ASSUME TypeOK, NEW w \in Workers,
           \A o \in OpIds : /\ toEnqueue'[o] > 0 => Carried(o)
                            /\ timers'[o] > 0 => Carried(o)
                            /\ o \in Range(queue') \cup blocked' => Carried(o)
                            /\ o \in Range(Batch(w))' => Carried(o),
           workers' = [workers EXCEPT ![w] = workers'[w]]
    PROVE  \A o \in OpIds : Carried(o)' => Carried(o)
  <1>1. \A v \in Workers \ {w} : Batch(v)' = Batch(v)
    BY DEF Batch, TypeOK
  <1> QED
    BY <1>1 DEF Carried

(* Steps of a worker that leave the store and the queue alone. *)
LEMMA TypeWorker ==
    ASSUME TypeInv, NEW w \in Workers,
           UNCHANGED <<setup, files, opCounter, disk, queue, blocked, toEnqueue,
                       admissions, acked, replays, crashes>>,
           queued' \subseteq queued,
           provider' \in [Paths -> Content], calls' \in [OpIds -> Nat],
           timers' \in [OpIds -> Nat], ops' \in OpMap,
           \A o \in OpIds : /\ ops'[o] # NoOp <=> ops[o] # NoOp
                            /\ timers'[o] > 0 => Carried(o),
           NEW k \in WorkerState, workers' = [workers EXCEPT ![w] = k],
           k.pc # "idle",
           k.pc \in {"dequeued", "calling", "answered"} => k.batch # <<>>,
           Range(k.batch) \subseteq Range(Batch(w))
    PROVE  TypeInv'
  <1>1. TypeOK /\ WorkersBusy /\ Recorded
    BY DEF TypeInv
  <1>2. workers' \in [Workers -> WorkerState] /\ workers'[w] = k
    BY <1>1 DEF TypeOK
  <1>3. TypeOK'
    BY <1>1, <1>2 DEF TypeOK, MaxReplays, MaxCrashes
  <1>4. WorkersBusy'
    BY <1>1 DEF WorkersBusy, TypeOK
  <1>5. \A o \in OpIds : Carried(o)' => Carried(o)
    <2>1. Batch(w)' = k.batch
      BY <1>2 DEF Batch
    <2>2. \A o \in OpIds : o \in Range(Batch(w))' => Carried(o)
      BY <2>1 DEF Carried
    <2> QED
      BY <1>1, <1>2, <2>2, CarriedLess DEF Carried
  <1>6. Recorded'
    BY <1>1, <1>5 DEF Recorded
  <1> QED
    BY <1>3, <1>4, <1>6 DEF TypeInv
(* A mutation records the next operation. *)
LEMMA TypeRecord ==
    ASSUME TypeInv, NEW p \in Paths, NEW a \in Action, recordWrite(p, a),
           files' \in Files, admissions' \in Nat, Save
    PROVE  TypeInv'
  <1> DEFINE o == opCounter + 1
             x == NewOp(p, a)
  <1>1. TypeOK /\ WorkersBusy /\ Recorded /\ opCounter \in Nat
    BY OpFacts
  <1>2. /\ o \in OpIds /\ opCounter' = o /\ ops' = [ops EXCEPT ![o] = x]
        /\ toEnqueue' = Calls(toEnqueue, o)
        /\ UNCHANGED <<setup, queueVars, timers, workers, provider, historyVars>>
    BY DEF recordWrite
  <1>3. x \in Op /\ x # NoOp
    <2>1. x \in Op
      BY DEF NewOp, Op, Status
    <2> QED
      BY <2>1, WritebackAssumption
  <1>4. /\ ops' \in OpMap /\ ops'[o] # NoOp
        /\ \A y \in OpIds \ {o} : ops'[y] = ops[y]
    BY <1>1, <1>2, <1>3 DEF TypeOK, OpMap
  <1>5. opCounter' \in 0..MaxOps
    BY <1>1, <1>2, WritebackAssumption DEF OpIds
  <1>6. /\ toEnqueue' \in [OpIds -> Nat]
        /\ \A y \in OpIds \ {o} : toEnqueue'[y] = toEnqueue[y]
    BY ZenonT(40), <1>1, <1>2, CountType DEF TypeOK
  <1>7. /\ disk' = [files |-> files', ops |-> ops', opCounter |-> opCounter']
        /\ disk' \in [files : Files, ops : OpMap, opCounter : 0..MaxOps]
    BY <1>4, <1>5 DEF Save, Snapshot
  <1>8. TypeOK'
    BY <1>1, <1>2, <1>4, <1>5, <1>6, <1>7
    DEF TypeOK, queueVars, historyVars, MaxReplays, MaxCrashes
  <1>9. WorkersBusy'
    BY <1>1, <1>2 DEF WorkersBusy
  <1>10. \A y \in OpIds \ {o} : Carried(y)' => Carried(y)
    BY <1>2, <1>6 DEF Carried, Batch, queueVars
  <1>11. Recorded'
    <2>1. \A y \in OpIds : y <= o <=> y <= opCounter \/ y = o
      BY <1>1 DEF OpIds
    <2> QED
      BY <1>1, <1>2, <1>4, <1>7, <1>10, <2>1 DEF Recorded
  <1> QED
    BY <1>2, <1>8, <1>9, <1>11 DEF TypeInv

(* The steps of the queue and its callers. *)
LEMMA TypeQueue ==
    ASSUME TypeInv, NEW o \in OpIds, Carried(o),
           UNCHANGED <<setup, storeVars, disk, workers, admissions, provider, historyVars>>,
           queue' = queue \/ (queue' = Append(queue, o) /\ Len(queue) < Cap),
           blocked' \subseteq blocked \cup {o},
           queued' \subseteq queued \cup {o},
           toEnqueue' \in [OpIds -> Nat], timers' \in [OpIds -> Nat],
           \A x \in OpIds \ {o} : toEnqueue'[x] = toEnqueue[x] /\ timers'[x] = timers[x]
    PROVE  TypeInv'
  <1>1. TypeOK /\ WorkersBusy /\ Recorded
    BY OpFacts
  <1>2. /\ queue' \in Seq(OpIds) /\ Len(queue') <= Cap
        /\ Range(queue') \subseteq Range(queue) \cup {o}
    <2>1. CASE queue' = queue
      BY <1>1, <2>1 DEF TypeOK
    <2>2. CASE queue' = Append(queue, o) /\ Len(queue) < Cap
      <3>1. /\ queue' \in Seq(OpIds) /\ Len(queue') = Len(queue) + 1
            /\ Len(queue) \in Nat
        BY <1>1, <2>2 DEF TypeOK
      <3>2. Range(queue') = Range(queue) \cup {o}
        BY <1>1, <2>2, AppendRange DEF TypeOK
      <3> QED
        BY <2>2, <3>1, <3>2, WritebackAssumption
    <2> QED
      BY <2>1, <2>2
  <1>3. TypeOK'
    BY <1>1, <1>2 DEF TypeOK, storeVars, historyVars, MaxReplays, MaxCrashes
  <1>4. WorkersBusy'
    BY <1>1 DEF WorkersBusy
  <1>5. \A x \in OpIds : Carried(x)' => Carried(x)
    BY <1>2 DEF Carried, Batch
  <1>6. Recorded'
    BY <1>1, <1>5 DEF Recorded, storeVars
  <1> QED
    BY <1>3, <1>4, <1>6 DEF TypeInv

(* What the goroutines around the queue do keeps the types. *)
LEMMA TypeQueueing == TypeInv /\ Queueing => TypeInv'
  <1> SUFFICES ASSUME TypeInv, NEW o \in OpIds,
                      enqueueWriteback(o) \/ Enqueue(o) \/ RetryTimerFires(o)
               PROVE  TypeInv'
    BY DEF Queueing
  <1>1. TypeOK
    BY OpFacts
  <1>2. CASE enqueueWriteback(o)
    <2>1. Carried(o) /\ toEnqueue' \in [OpIds -> Nat]
          /\ \A x \in OpIds \ {o} : toEnqueue'[x] = toEnqueue[x]
      BY ZenonT(40), <1>1, <1>2, CountType DEF enqueueWriteback, Carried, TypeOK
    <2>2. Len(queue) \in Nat /\ Cap \in Nat
      BY <1>1, WritebackAssumption DEF TypeOK
    <2>3. /\ queue' = queue \/ (queue' = Append(queue, o) /\ Len(queue) < Cap)
          /\ blocked' \subseteq blocked \cup {o}
          /\ queued' \subseteq queued \cup {o}
          /\ timers' = timers /\ timers \in [OpIds -> Nat]
          /\ UNCHANGED <<setup, storeVars, disk, workers, admissions, provider, historyVars>>
      BY <1>1, <1>2, <2>2 DEF enqueueWriteback, TypeOK
    <2> QED
      BY <2>1, <2>3, TypeQueue
  <1>3. CASE Enqueue(o)
    <2>1. Carried(o)
      BY <1>3 DEF Enqueue, Carried
    <2>2. /\ queue' = Append(queue, o) /\ Len(queue) < Cap
          /\ blocked' \subseteq blocked \cup {o} /\ queued' = queued
          /\ toEnqueue' = toEnqueue /\ toEnqueue \in [OpIds -> Nat]
          /\ timers' = timers /\ timers \in [OpIds -> Nat]
          /\ UNCHANGED <<setup, storeVars, disk, workers, admissions, provider, historyVars>>
      BY <1>1, <1>3 DEF Enqueue, TypeOK
    <2> QED
      BY <2>1, <2>2, TypeQueue
  <1>4. CASE RetryTimerFires(o)
    <2>1. /\ Carried(o) /\ toEnqueue' \in [OpIds -> Nat] /\ timers' \in [OpIds -> Nat]
          /\ \A x \in OpIds \ {o} : toEnqueue'[x] = toEnqueue[x] /\ timers'[x] = timers[x]
      BY ZenonT(40), <1>1, <1>4, CountType DEF RetryTimerFires, Carried, TypeOK
    <2>2. /\ UNCHANGED <<queue, queued, blocked>>
          /\ UNCHANGED <<setup, storeVars, disk, workers, admissions, provider, historyVars>>
      BY <1>4 DEF RetryTimerFires, queueVars
    <2> QED
      BY <2>1, <2>2, TypeQueue
  <1> QED
    BY <1>2, <1>3, <1>4

(* A dequeued task names an operation the queue named. *)
LEMMA TypeDequeue ==
    ASSUME TypeInv, NEW w \in Workers, Dequeue(w)
    PROVE  TypeInv'
  <1> DEFINE b == Append(IF workers[w].pc = "idle" THEN <<>> ELSE workers[w].batch,
                         Head(queue))
             k == [pc |-> "dequeued", dirty |-> FALSE, batch |-> b]
  <1>1. TypeOK /\ WorkersBusy /\ Recorded
    BY OpFacts
  <1>2. /\ queue # <<>> /\ queue' = Tail(queue)
        /\ workers' = [workers EXCEPT ![w] = k]
        /\ UNCHANGED <<setup, storeVars, disk, queued, blocked, toEnqueue, timers,
                       admissions, provider, historyVars>>
    BY <1>1 DEF Dequeue, TypeOK
  <1>3. /\ Head(queue) \in OpIds /\ queue' \in Seq(OpIds) /\ Len(queue') <= Cap
        /\ Range(queue) = Range(queue') \cup {Head(queue)}
    <2>1. queue \in Seq(OpIds) /\ Len(queue) <= Cap /\ Cap \in Nat
      BY <1>1, WritebackAssumption DEF TypeOK
    <2>2. /\ Head(queue) \in OpIds /\ Tail(queue) \in Seq(OpIds)
          /\ Len(Tail(queue)) = Len(queue) - 1 /\ Len(queue) \in Nat \ {0}
          /\ Range(queue) = Range(Tail(queue)) \cup {Head(queue)}
      BY <1>2, <2>1, TailRange
    <2> QED
      BY <1>2, <2>1, <2>2
  <1>4. Batch(w) \in Seq(OpIds) /\ b = Append(Batch(w), Head(queue))
    BY <1>1, BatchType DEF Batch
  <1>5. b \in Seq(OpIds) /\ b # <<>> /\ Range(b) = Range(Batch(w)) \cup {Head(queue)}
    <2> HIDE DEF b
    <2> QED
      BY <1>3, <1>4, AppendRange
  <1>6. k \in WorkerState
    BY <1>5 DEF WorkerState
  <1>7. workers' \in [Workers -> WorkerState] /\ workers'[w] = k
    BY <1>1, <1>2, <1>6 DEF TypeOK
  <1>8. TypeOK'
    BY <1>1, <1>2, <1>3, <1>7 DEF TypeOK, storeVars, historyVars, MaxReplays, MaxCrashes
  <1>9. WorkersBusy'
    BY <1>1, <1>2, <1>5 DEF WorkersBusy, TypeOK
  <1>10. \A o \in OpIds : Carried(o)' => Carried(o)
    <2>1. Batch(w)' = b
      BY <1>7 DEF Batch
    <2>2. \A o \in OpIds : o \in Range(Batch(w))' => Carried(o)
      BY <1>3, <1>5, <2>1 DEF Carried
    <2>3. workers' = [workers EXCEPT ![w] = workers'[w]]
      BY <1>2, <1>7
    <2> QED
      BY <1>1, <1>2, <1>3, <2>2, <2>3, CarriedLess DEF Carried
  <1>11. Recorded'
    BY <1>1, <1>2, <1>10 DEF Recorded, storeVars
  <1> QED
    BY <1>2, <1>8, <1>9, <1>11 DEF TypeInv

(* Every step of a worker keeps the types. *)
LEMMA TypeWorkerStep ==
    ASSUME TypeInv, NEW w \in Workers, WorkerStep(w)
    PROVE  TypeInv'
  <1> DEFINE wk == workers[w]
             o  == Head(wk.batch)
  <1>1. /\ TypeOK /\ WorkersBusy /\ Recorded
        /\ wk \in WorkerState
        /\ queue \in Seq(OpIds) /\ queued \subseteq OpIds
        /\ provider \in [Paths -> Content] /\ calls \in [OpIds -> Nat]
        /\ timers \in [OpIds -> Nat] /\ ops \in OpMap
        /\ \A x \in OpIds : timers[x] > 0 => Carried(x)
    BY OpFacts, WorkerKinds DEF TypeOK, Carried
  <1>2. ASSUME wk.pc # "idle"
        PROVE  wk.batch \in Seq(OpIds) /\ Batch(w) = wk.batch /\ wk.dirty \in BOOLEAN
    BY <1>1, <1>2, WorkerKinds DEF Batch
  <1>3. ASSUME wk.pc # "idle", wk.batch # <<>>
        PROVE  /\ o \in OpIds /\ Tail(wk.batch) \in Seq(OpIds)
               /\ Range(Tail(wk.batch)) \subseteq Range(wk.batch)
               /\ ops[o] \in Op /\ ops[o] # NoOp /\ Carried(o)
    <2>1. /\ o \in OpIds /\ Tail(wk.batch) \in Seq(OpIds) /\ o \in Range(wk.batch)
          /\ Range(Tail(wk.batch)) \subseteq Range(wk.batch)
      BY <1>2, <1>3, TailRange
    <2>2. Carried(o)
      BY <1>2, <1>3, <2>1 DEF Carried
    <2> QED
      BY <2>1, <2>2, OpFacts
  <1>4. CASE markWritebackDequeued(w) \/ DrainEnds(w)
    <2>1. wk.pc \in {"dequeued", "draining"}
      BY <1>4 DEF markWritebackDequeued, DrainEnds
    <2> DEFINE pc == workers'[w].pc
               k  == [wk EXCEPT !.pc = pc]
    <2>2. pc \in {"draining", "ready"} /\ workers' = [workers EXCEPT ![w] = k]
      <3>1. wk \in [pc : {"dequeued", "draining", "ready"},
                    batch : Seq(OpIds), dirty : BOOLEAN]
        BY <1>1, <2>1, WorkerKinds
      <3>2. \E x \in {"draining", "ready"} : workers' = [workers EXCEPT ![w].pc = x]
        BY <1>4 DEF markWritebackDequeued, DrainEnds
      <3> QED
        BY <1>1, <3>1, <3>2 DEF TypeOK
    <2>3. /\ k \in WorkerState /\ k.pc = pc /\ k.batch = wk.batch
      <3>1. wk \in [pc : {"dequeued", "draining", "ready"},
                    batch : Seq(OpIds), dirty : BOOLEAN]
        BY <1>1, <2>1, WorkerKinds
      <3> HIDE DEF pc
      <3> QED
        BY <2>2, <3>1 DEF WorkerState
    <2>4. /\ UNCHANGED <<setup, files, ops, opCounter, disk, queue, blocked, toEnqueue, timers,
                       admissions, provider, calls, acked, replays, crashes>>
          /\ queued' \subseteq queued
      BY <1>4 DEF markWritebackDequeued, DrainEnds, storeVars, queueVars, historyVars
    <2>5. Range(k.batch) \subseteq Range(Batch(w))
      BY <1>2, <2>1, <2>3
    <2> HIDE DEF k, pc
    <2> QED
      BY <1>1, <2>2, <2>3, <2>4, <2>5, TypeWorker
  <1>5. CASE PrepareCall(w)
    <2>1. /\ wk.pc = "ready" /\ wk.batch # <<>>
          /\ UNCHANGED <<setup, files, ops, opCounter, disk, queue, queued, blocked, toEnqueue,
                         timers, admissions, provider, acked, replays, crashes>>
      BY <1>5 DEF PrepareCall, storeVars, queueVars
    <2>2. wk \in [pc : {"dequeued", "draining", "ready"},
                  batch : Seq(OpIds), dirty : BOOLEAN]
      BY <1>1, <2>1, WorkerKinds
    <2>3. CASE Armed(ops[o])
      <3> DEFINE k == [pc |-> "calling", batch |-> wk.batch, dirty |-> wk.dirty,
                       attempt |-> ops[o].attempts + 1, content |-> ContentFor(ops[o])]
      <3>1. workers' = [workers EXCEPT ![w] = k] /\ calls' = Calls(calls, o)
        BY <1>5, <2>3 DEF PrepareCall
      <3>2. ContentFor(ops[o]) \in Content /\ ops[o].attempts + 1 \in Nat
        <4>1. ops[o].path \in Paths /\ ops[o].attempts \in Nat
          BY <1>3, <2>1 DEF Op
        <4>2. files[ops[o].path] \in Values \cup {Absent}
          BY <1>1, <4>1 DEF TypeOK, Files
        <4> QED
          BY <4>1, <4>2 DEF ContentFor, Content
      <3>3. k \in WorkerState /\ calls' \in [OpIds -> Nat]
        BY <1>1, <1>3, <2>1, <2>2, <3>1, <3>2, CountType DEF WorkerState
      <3> QED
        BY <1>1, <1>2, <2>1, <3>1, <3>3, TypeWorker
    <2>4. CASE ~Armed(ops[o])
      <3> DEFINE k == [wk EXCEPT !.batch = Tail(wk.batch)]
      <3>1. workers' = [workers EXCEPT ![w] = k] /\ calls' = calls
        BY <1>1, <1>5, <2>4 DEF PrepareCall, TypeOK
      <3>2. k \in WorkerState /\ k.pc = "ready" /\ k.batch = Tail(wk.batch)
        BY <1>3, <2>1, <2>2 DEF WorkerState
      <3> HIDE DEF k
      <3> QED
        BY <1>1, <1>2, <1>3, <2>1, <3>1, <3>2, TypeWorker
    <2> QED
      BY <2>3, <2>4
  <1>6. ASSUME NEW ok \in BOOLEAN, ProviderWrite(w, ok) PROVE TypeInv'
    <2> DEFINE k == [pc |-> "answered", batch |-> wk.batch, dirty |-> wk.dirty,
                     attempt |-> wk.attempt, ok |-> ok]
    <2>1. /\ wk.pc = "calling" /\ workers' = [workers EXCEPT ![w] = k]
          /\ \/ provider' = [provider EXCEPT ![ops[o].path] = wk.content]
             \/ provider' = provider
          /\ UNCHANGED <<setup, files, ops, opCounter, disk, queue, queued, blocked, toEnqueue,
                         timers, admissions, calls, acked, replays, crashes>>
      BY <1>6 DEF ProviderWrite, storeVars, queueVars, historyVars
    <2>2. /\ wk \in [pc : {"calling"}, batch : Seq(OpIds), dirty : BOOLEAN,
                     attempt : Nat, content : Content]
          /\ wk.batch # <<>>
      BY <1>1, <2>1, WorkerKinds DEF WorkersBusy
    <2>3. k \in WorkerState
      BY <2>2 DEF WorkerState
    <2>4. provider' \in [Paths -> Content]
      BY <1>1, <1>3, <2>1, <2>2 DEF Op
    <2> QED
      BY <1>1, <1>2, <2>1, <2>2, <2>3, <2>4, TypeWorker
  <1>7. CASE RecordOutcome(w)
    <2> DEFINE retry == ~wk.ok /\ wk.attempt < MaxAttempts
               st == IF wk.ok THEN "succeeded" ELSE IF retry THEN "pending" ELSE "dead_lettered"
               x == [ops[o] EXCEPT !.attempts = wk.attempt, !.due = retry, !.status = st]
               k == [pc |-> "ready", batch |-> Tail(wk.batch), dirty |-> TRUE]
    <2>1. /\ wk.pc = "answered"
          /\ ops' = [ops EXCEPT ![o].attempts = wk.attempt, ![o].due = retry,
                                ![o].status = st]
          /\ timers' = IF retry THEN Calls(timers, o) ELSE timers
          /\ workers' = [workers EXCEPT ![w] = k]
          /\ UNCHANGED <<setup, files, opCounter, disk, queue, queued, blocked, toEnqueue,
                         admissions, provider, calls, acked, replays, crashes>>
      BY <1>7 DEF RecordOutcome, queueVars, historyVars
    <2>2. /\ wk \in [pc : {"answered"}, batch : Seq(OpIds), dirty : BOOLEAN,
                     attempt : Nat, ok : BOOLEAN]
          /\ wk.batch # <<>>
      BY <1>1, <2>1, WorkerKinds DEF WorkersBusy
    <2>3. o \in OpIds /\ ops[o] \in Op /\ ops[o] # NoOp /\ Carried(o)
      BY <1>3, <2>1, <2>2
    <2>4. k \in WorkerState
      BY <1>3, <2>1, <2>2 DEF WorkerState
    <2>5. ops' = [ops EXCEPT ![o] = x] /\ x \in Op
      <3> HIDE DEF retry, st
      <3>1. st \in Status
        BY DEF st, Status
      <3>2. retry \in BOOLEAN
        BY <2>2 DEF retry
      <3> QED
        BY <1>1, <2>1, <2>2, <2>3, <3>1, <3>2 DEF Op, OpMap
    <2>6. ops' \in OpMap /\ \A y \in OpIds : ops'[y] # NoOp <=> ops[y] # NoOp
      <3> HIDE DEF x
      <3> QED
        BY <1>1, <2>3, <2>5, WritebackAssumption DEF OpMap
    <2> HIDE DEF retry, st, x
    <2>7. timers' \in [OpIds -> Nat] /\ \A y \in OpIds : timers'[y] > 0 => Carried(y)
      <3>1. timers' = timers \/ timers' = Calls(timers, o)
        BY <2>1
      <3>2. timers \in [OpIds -> Nat] /\ o \in OpIds
        BY <1>1, <2>3
      <3>3. /\ Calls(timers, o) \in [OpIds -> Nat]
            /\ \A y \in OpIds \ {o} : Calls(timers, o)[y] = timers[y]
        BY <3>2 DEF Calls
      <3> HIDE DEF o
      <3> QED
        BY <1>1, <2>3, <3>1, <3>3
    <2> QED
      BY <1>1, <1>2, <1>3, <2>1, <2>2, <2>4, <2>6, <2>7, TypeWorker
  <1>8. CASE SaveOutcome(w)
    <2>1. /\ workers' = [workers EXCEPT ![w] = Idle]
          /\ disk' = Snapshot' \/ disk' = disk
          /\ UNCHANGED <<setup, storeVars, queueVars, toEnqueue, timers, admissions,
                         provider, historyVars>>
      BY <1>8 DEF SaveOutcome, Save
    <2>2. disk' \in [files : Files, ops : OpMap, opCounter : 0..MaxOps]
      BY <1>1, <2>1 DEF TypeOK, Snapshot, storeVars
    <2>3. workers' \in [Workers -> WorkerState]
      BY <1>1, <2>1 DEF TypeOK, WorkerState
    <2>4. TypeOK'
      BY <1>1, <2>1, <2>2, <2>3
      DEF TypeOK, storeVars, queueVars, historyVars, MaxReplays, MaxCrashes
    <2>5. WorkersBusy'
      BY <1>1, <2>1 DEF WorkersBusy, TypeOK, Idle
    <2>6. \A y \in OpIds : Carried(y)' => Carried(y)
      <3>1. Batch(w)' = <<>> /\ workers'[w] = Idle
        BY <1>1, <2>1 DEF Batch, TypeOK, Idle
      <3>2. Range(<<>>) = {}
        BY DEF Range
      <3>3. \A v \in Workers \ {w} : Batch(v)' = Batch(v)
        BY <1>1, <2>1 DEF Batch, TypeOK
      <3> QED
        BY <2>1, <3>1, <3>2, <3>3 DEF Carried, queueVars
    <2>7. Recorded'
      BY <1>1, <2>1, <2>6 DEF Recorded, storeVars, Snapshot
    <2> QED
      BY <2>1, <2>4, <2>5, <2>7 DEF TypeInv
  <1> QED
    BY <1>4, <1>5, <1>6, <1>7, <1>8, TypeDequeue DEF WorkerStep

(* A step that changes one recorded operation and saves. *)
LEMMA TypeOperator ==
    ASSUME TypeInv, NEW o \in OpIds,
           AcknowledgeWriteback(o, TRUE) \/ AcknowledgeWriteback(o, FALSE)
             \/ ReplayOperation(o)
    PROVE  TypeInv'
  <1>1. TypeOK /\ WorkersBusy /\ Recorded /\ ops[o] # NoOp /\ ops[o] \in Op
    BY SMTT(30), OpFacts DEF AcknowledgeWriteback, ReplayOperation, TypeOK, OpMap
  <1>2. PICK x \in Op : ops' = [ops EXCEPT ![o] = x]
    <2>1. ASSUME NEW s \in BOOLEAN, AcknowledgeWriteback(o, s)
          PROVE  \E x \in Op : ops' = [ops EXCEPT ![o] = x]
      <3> DEFINE st == IF s THEN "succeeded" ELSE "dead_lettered"
                 x  == [ops[o] EXCEPT !.due = FALSE, !.status = st]
      <3>1. ops' = [ops EXCEPT ![o] = x]
        BY <1>1, <2>1 DEF AcknowledgeWriteback, TypeOK, OpMap
      <3>2. x \in Op
        BY <1>1 DEF Op, Status
      <3> QED
        BY <3>1, <3>2
    <2>2. ASSUME ReplayOperation(o) PROVE \E x \in Op : ops' = [ops EXCEPT ![o] = x]
      <3> DEFINE x  == [ops[o] EXCEPT !.status = "pending", !.attempts = 0, !.due = FALSE]
      <3>1. ops' = [ops EXCEPT ![o] = x]
        BY <1>1, <2>2 DEF ReplayOperation, TypeOK, OpMap
      <3>2. x \in Op
        BY <1>1 DEF Op, Status
      <3> QED
        BY <3>1, <3>2
    <2> QED
      BY <2>1, <2>2
  <1>3. ops' \in OpMap /\ \A y \in OpIds : ops'[y] # NoOp <=> ops[y] # NoOp
    BY <1>1, <1>2, WritebackAssumption DEF TypeOK, OpMap
  <1>4. /\ UNCHANGED <<setup, files, opCounter, queue, queued, blocked, timers, workers,
                       admissions, provider, crashes>>
        /\ acked' \subseteq OpIds
        /\ calls' \in [OpIds -> Nat]
        /\ toEnqueue' \in [OpIds -> Nat]
        /\ \A y \in OpIds : toEnqueue'[y] > 0 => toEnqueue[y] > 0 \/ y = o
        /\ Save
    <2>1. CASE AcknowledgeWriteback(o, TRUE) \/ AcknowledgeWriteback(o, FALSE)
      BY <1>1, <2>1 DEF AcknowledgeWriteback, queueVars, TypeOK
    <2>2. CASE ReplayOperation(o)
      <3>1. toEnqueue' = Calls(toEnqueue, o) /\ calls' = [calls EXCEPT ![o] = 0]
        BY <2>2 DEF ReplayOperation
      <3>2. toEnqueue \in [OpIds -> Nat] /\ calls \in [OpIds -> Nat]
        BY <1>1 DEF TypeOK
      <3>3. toEnqueue' \in [OpIds -> Nat] /\ calls' \in [OpIds -> Nat]
            /\ \A y \in OpIds : toEnqueue'[y] > 0 => toEnqueue[y] > 0 \/ y = o
        BY <3>1, <3>2, CountType
      <3> QED
        BY <1>1, <2>2, <3>3 DEF ReplayOperation, queueVars, TypeOK
    <2> QED
      BY <2>1, <2>2
  <1>5. replays' \in [OpIds -> 0..MaxReplays]
    <2>1. MaxReplays \in Nat /\ replays \in [OpIds -> 0..MaxReplays]
      BY <1>1, OpFacts DEF TypeOK, MaxReplays
    <2>2. CASE replays' = replays
      BY <2>1, <2>2
    <2>3. CASE replays[o] < MaxReplays /\ replays' = [replays EXCEPT ![o] = @ + 1]
      <3> DEFINE N == MaxReplays
      <3>1. N \in Nat /\ replays[o] \in 0..N /\ replays[o] < N
        BY <2>1, <2>3
      <3> HIDE DEF N
      <3>2. replays[o] + 1 \in 0..N
        BY <3>1
      <3> QED
        BY <2>1, <2>3, <3>2 DEF N
    <2> QED
      BY <2>2, <2>3 DEF AcknowledgeWriteback, ReplayOperation, Calls
  <1>6. /\ disk' = [files |-> files, ops |-> ops', opCounter |-> opCounter]
        /\ disk' \in [files : Files, ops : OpMap, opCounter : 0..MaxOps]
    BY <1>1, <1>3, <1>4 DEF Save, Snapshot, TypeOK
  <1>7. TypeOK'
    BY <1>1, <1>3, <1>4, <1>5, <1>6 DEF TypeOK, MaxReplays, MaxCrashes
  <1>8. \A y \in OpIds : Carried(y)' => Carried(y) \/ y = o
    BY <1>4 DEF Carried, Batch
  <1>9. Recorded'
    BY <1>1, <1>3, <1>4, <1>6, <1>8 DEF Recorded
  <1> QED
    BY <1>1, <1>4, <1>7, <1>9 DEF TypeInv, WorkersBusy

(* A boot quarantines armed operations and leaves the others as they are. *)
LEMMA QuarantineType ==
    ASSUME NEW m \in OpMap, NEW stale \in SUBSET ArmedOps(m)
    PROVE  /\ Quarantine(m, stale) \in OpMap
           /\ \A o \in OpIds :
                /\ Quarantine(m, stale)[o] # NoOp <=> m[o] # NoOp
                /\ m[o] # NoOp =>
                     /\ Quarantine(m, stale)[o].path = m[o].path
                     /\ Quarantine(m, stale)[o].action = m[o].action
                /\ \/ Quarantine(m, stale)[o] = m[o]
                   \/ /\ m[o] # NoOp /\ Armed(m[o])
                      /\ Quarantine(m, stale)[o].status = "quarantined"
  <1> DEFINE deletes == {o \in ArmedOps(m) : m[o].action = "file_delete"}
             storm   == IF Threshold > 0 /\ Cardinality(deletes) > Threshold
                        THEN deletes ELSE {}
             q(o) == [m[o] EXCEPT !.status = "quarantined", !.due = FALSE]
  <1>1. Quarantine(m, stale) =
          [o \in OpIds |-> IF o \in storm \cup stale THEN q(o) ELSE m[o]]
    BY DEF Quarantine
  <1>2. ASSUME NEW o \in storm \cup stale
        PROVE  /\ o \in OpIds /\ m[o] \in Op /\ m[o] # NoOp /\ Armed(m[o])
               /\ q(o) \in Op /\ q(o).status = "quarantined" /\ q(o) # NoOp
               /\ q(o).path = m[o].path /\ q(o).action = m[o].action
    <2>1. o \in ArmedOps(m)
      BY DEF storm
    <2>2. o \in OpIds /\ m[o] \in Op /\ m[o] # NoOp /\ Armed(m[o])
      BY <2>1 DEF ArmedOps, OpMap
    <2>3. /\ q(o) \in Op /\ q(o).status = "quarantined"
          /\ q(o).path = m[o].path /\ q(o).action = m[o].action
      BY <2>2 DEF Op, Status
    <2> QED
      BY <2>2, <2>3, WritebackAssumption
  <1> HIDE DEF storm, q
  <1> QED
    BY <1>1, <1>2 DEF OpMap

(* One call, or one timer, for each member of a set. *)
LEMMA CountOf ==
    ASSUME NEW S
    PROVE  /\ Count(S) \in [OpIds -> Nat]
           /\ \A o \in OpIds : /\ Count(S)[o] > 0 <=> o \in S
                               /\ Count(S)[o] = 0 <=> o \notin S
                               /\ Count(S)[o] <= 1
  BY DEF Count

(* Idle workers hold no task. *)
LEMMA NoBatches ==
    ASSUME workers = [w \in Workers |-> Idle]
    PROVE  \A w \in Workers : /\ workers[w].pc = "idle" /\ Batch(w) = <<>>
                              /\ Range(Batch(w)) = {}
  BY DEF Batch, Idle, Range

(* Workers that start idle hold no task. *)
LEMMA NoBatchesNext ==
    ASSUME workers' = [w \in Workers |-> Idle]
    PROVE  \A w \in Workers : /\ workers'[w].pc = "idle" /\ Batch(w)' = <<>>
                              /\ Range(Batch(w))' = {}
  BY DEF Batch, Idle, Range

(* A boot from the last snapshot keeps the types. *)
LEMMA TypeRestart == TypeInv /\ Restart => TypeInv'
  <1> SUFFICES ASSUME TypeInv, Restart PROVE TypeInv'
    OBVIOUS
  <1>1. TypeOK /\ Recorded /\ disk.ops \in OpMap
    BY OpFacts DEF TypeOK
  <1>2. PICK stale \in SUBSET ArmedOps(disk.ops) : ops' = Quarantine(disk.ops, stale)
    BY DEF Restart
  <1>3. ops' \in OpMap /\ \A o \in OpIds : ops'[o] # NoOp <=> disk.ops[o] # NoOp
    BY <1>1, <1>2, QuarantineType
  <1>4. PICK later \in SUBSET ArmedOps(ops') :
          toEnqueue' = Count(ArmedOps(ops') \ later) /\ timers' = Count(later)
    BY DEF Restart, BootScan
  <1>5. /\ toEnqueue' \in [OpIds -> Nat] /\ timers' \in [OpIds -> Nat]
        /\ \A o \in OpIds : toEnqueue'[o] > 0 \/ timers'[o] > 0 => ops'[o] # NoOp
    BY <1>4, CountOf DEF ArmedOps
  <1>6. /\ queue' \in Seq(OpIds) /\ Len(queue') <= Cap /\ blocked' = {}
        /\ Range(queue') \subseteq Range(queue)
        /\ queued' = Range(queue') /\ queued' \subseteq OpIds
    <2>1. queue' = queue \/ queue' = <<>>
      BY DEF Restart
    <2>2. queue' \in Seq(OpIds) /\ Len(queue') <= Cap
      <3>1. <<>> \in Seq(OpIds) /\ Len(<<>>) <= Cap
        BY EmptySeq, WritebackAssumption
      <3> QED
        BY <1>1, <2>1, <3>1 DEF TypeOK
    <2>3. Range(queue') \subseteq Range(queue) /\ Range(queue') \subseteq OpIds
      BY <2>1, <2>2 DEF Range
    <2> QED
      BY <2>2, <2>3 DEF Restart
  <1>7. /\ files' = disk.files /\ opCounter' = disk.opCounter
        /\ files' \in Files /\ opCounter' \in 0..MaxOps
        /\ disk' = [files |-> files', ops |-> ops', opCounter |-> opCounter']
        /\ workers' = [w \in Workers |-> Idle] /\ admissions' = 0
        /\ crashes' \in 0..MaxCrashes
        /\ UNCHANGED <<setup, provider, calls, acked, replays>>
    BY <1>1, OpFacts DEF Restart, TypeOK, Save, Snapshot, MaxCrashes
  <1>8. TypeOK'
    <2>1. workers' \in [Workers -> WorkerState]
      BY <1>7 DEF WorkerState
    <2>2. disk' \in [files : Files, ops : OpMap, opCounter : 0..MaxOps]
      BY <1>3, <1>7
    <2> QED
      BY <1>1, <1>3, <1>5, <1>6, <1>7, <2>1, <2>2 DEF TypeOK, MaxReplays, MaxCrashes
  <1>9. WorkersBusy'
    BY <1>7, NoBatchesNext DEF WorkersBusy
  <1>10. \A o \in OpIds : Carried(o)' => Carried(o) \/ ops'[o] # NoOp
    BY <1>5, <1>6, <1>7, NoBatchesNext DEF Carried
  <1>11. Recorded'
    BY <1>1, <1>3, <1>7, <1>10 DEF Recorded
  <1> QED
    BY <1>7, <1>8, <1>9, <1>11 DEF TypeInv

(* The first boot establishes the types. *)
LEMMA TypeInit == Init => TypeInv
  <1> SUFFICES ASSUME Init PROVE TypeInv
    OBVIOUS
  <1>1. PICK n \in 0..MaxOps : LegacyRunning = 1..n
    BY WritebackAssumption
  <1>2. opCounter = n /\ n \in 0..MaxOps /\ MaxOps \in Nat
    <2>1. MaxOps \in Nat /\ n \in Nat
      BY WritebackAssumption
    <2>2. Cardinality(1..n) = IF 1 > n THEN 0 ELSE n - 1 + 1
      BY <2>1, FS_Interval
    <2> QED
      BY <1>1, <2>1, <2>2 DEF Init
  <1>3. ops \in OpMap /\ \A o \in OpIds : ops[o] # NoOp <=> o \in LegacyRunning
    <2>1. PICK p \in Paths, stale \in SUBSET LegacyRunning :
            ops = Quarantine([o \in OpIds |->
                    IF o \in LegacyRunning
                    THEN [NewOp(p, "file_upsert") EXCEPT !.status = "running"]
                    ELSE NoOp], stale)
      BY DEF Init
    <2> DEFINE x == [NewOp(p, "file_upsert") EXCEPT !.status = "running"]
               m == [o \in OpIds |-> IF o \in LegacyRunning THEN x ELSE NoOp]
    <2>2. x \in Op /\ x.status = "running"
      BY DEF NewOp, Op, Status, Action
    <2>3. LegacyRunning \subseteq OpIds
      BY <1>1, WritebackAssumption DEF OpIds
    <2>4. m \in OpMap /\ \A o \in OpIds : m[o] # NoOp <=> o \in LegacyRunning
      BY <2>2, WritebackAssumption DEF OpMap
    <2>5. stale \in SUBSET ArmedOps(m)
      BY <2>2, <2>3, WritebackAssumption DEF ArmedOps, Armed
    <2> HIDE DEF m
    <2> QED
      BY <2>1, <2>4, <2>5, QuarantineType DEF m
  <1>4. \A o \in OpIds : o \in LegacyRunning <=> o <= opCounter
    BY <1>1, <1>2 DEF OpIds
  <1>5. /\ setup \in Setups /\ files \in Files /\ provider = files
        /\ disk = [files |-> files, ops |-> ops, opCounter |-> opCounter]
        /\ queue = <<>> /\ queued = {} /\ blocked = {}
        /\ toEnqueue = Count(ArmedOps(ops)) /\ timers = Count({})
        /\ workers = [w \in Workers |-> Idle]
        /\ admissions = 0 /\ calls = Count({}) /\ acked = {}
        /\ replays = Count({}) /\ crashes = 0
    BY DEF Init, Snapshot
  <1>6. TypeOK
    <2>1. workers \in [Workers -> WorkerState]
      BY <1>5 DEF WorkerState
    <2>2. setup.maxReplays \in Nat /\ setup.maxCrashes \in Nat
      BY <1>5, WritebackAssumption
    <2>3. replays \in [OpIds -> 0..MaxReplays]
      BY <1>5, <2>2 DEF Count, MaxReplays
    <2>4. toEnqueue \in [OpIds -> Nat] /\ timers \in [OpIds -> Nat] /\ calls \in [OpIds -> Nat]
      BY <1>5, CountOf
    <2>5. provider \in [Paths -> Content]
      BY <1>5 DEF Files, Content
    <2>6. disk \in [files : Files, ops : OpMap, opCounter : 0..MaxOps]
      BY <1>2, <1>3, <1>5
    <2>7. queue \in Seq(OpIds) /\ Len(queue) <= Cap
      BY <1>5, WritebackAssumption
    <2> QED
      BY <1>2, <1>3, <1>5, <2>1, <2>2, <2>3, <2>4, <2>5, <2>6, <2>7
      DEF TypeOK, MaxCrashes
  <1>7. WorkersBusy
    BY <1>5, NoBatches DEF WorkersBusy
  <1>8. \A o \in OpIds : Carried(o) => ops[o] # NoOp
    <2>1. Range(queue) = {}
      BY <1>5 DEF Range
    <2> QED
      BY <1>5, <2>1, NoBatches, CountOf DEF Carried, ArmedOps
  <1>9. Recorded
    BY <1>3, <1>4, <1>5, <1>8 DEF Recorded
  <1> QED
    BY <1>5, <1>6, <1>7, <1>9 DEF TypeInv

(* Every step keeps the types. *)
LEMMA TypeStep == TypeInv /\ [Next]_vars => TypeInv'
  <1> SUFFICES ASSUME TypeInv, [Next]_vars PROVE TypeInv'
    OBVIOUS
  <1>1. TypeOK /\ Threshold \in Nat
    BY OpFacts, WritebackAssumption
  <1>2. ASSUME NEW p \in Paths, NEW c \in Values, WriteFile(p, c) PROVE TypeInv'
    <2>1. files' \in Files /\ admissions' \in Nat
      BY <1>1, <1>2 DEF WriteFile, TypeOK, Files
    <2> QED
      BY <1>2, <2>1, TypeRecord DEF WriteFile, Action
  <1>3. ASSUME NEW p \in Paths, DeleteFile(p) PROVE TypeInv'
    <2>1. files' \in Files /\ admissions' \in Nat
      BY <1>1, <1>3 DEF DeleteFile, TypeOK, Files
    <2> QED
      BY <1>3, <2>1, TypeRecord DEF DeleteFile, Action
  <1>4. CASE (\E p \in Paths : DeleteFileRejected(p)) \/ WindowSlides \/ UNCHANGED vars
    <2>1. /\ admissions' \in Nat
          /\ UNCHANGED <<setup, storeVars, disk, queueVars, toEnqueue, timers, workers,
                         provider, historyVars>>
      BY <1>1, <1>4 DEF DeleteFileRejected, WindowSlides, vars, TypeOK
    <2> QED
      BY <2>1 DEF TypeInv, TypeOK, WorkersBusy, Recorded, Carried, Batch, storeVars,
                  queueVars, historyVars, MaxReplays, MaxCrashes
  <1>5. CASE Operators
    BY <1>5, TypeOperator DEF Operators
  <1> QED
    BY <1>2, <1>3, <1>4, <1>5, TypeQueueing, TypeWorkerStep, TypeRestart
    DEF Next, Mutations

(* Every reachable state of the store, its snapshot, its queue and its      *)
(* workers is well typed, and a task is always one of a recorded operation. *)
THEOREM TypeCorrect == Spec => [](TypeOK /\ WorkersBusy /\ Recorded)
  <1>1. Spec => []TypeInv
    BY TypeInit, TypeStep, PTL DEF Spec
  <1>2. TypeInv => TypeOK /\ WorkersBusy /\ Recorded
    BY DEF TypeInv
  <1> QED
    BY <1>1, <1>2, PTL

-----------------------------------------------------------------------------
(* No task is lost *)

(* At most one task of an operation is between enqueueWriteback and         *)
(* markWritebackDequeued, and queuedWritebacks knows it.                    *)
OneTask ==
    /\ \A i, j \in DOMAIN queue : i # j => queue[i] # queue[j]
    /\ Range(queue) \cap blocked = {}
    /\ \A w \in Workers, o \in OpIds : Unmarked(w, o) =>
         /\ o \notin Range(queue) \cup blocked
         /\ \A v \in Workers \ {w} : ~Unmarked(v, o)

QueuedExact ==
    queued = Range(queue) \cup blocked
               \cup {o \in OpIds : \E w \in Workers : Unmarked(w, o)}

ArmedCarried == \A o \in ArmedOps(ops) : Carried(o)

TaskInv == TypeInv /\ OneTask /\ QueuedExact /\ ArmedCarried

(* A task that is dequeued but not marked is in its worker's burst. *)
LEMMA UnmarkedHeld ==
    ASSUME TypeInv, NEW w \in Workers, NEW o \in OpIds, Unmarked(w, o)
    PROVE  workers[w].pc = "dequeued" /\ o \in Range(Batch(w))
  <1>1. /\ workers[w].pc = "dequeued" /\ workers[w].batch # <<>>
        /\ o = workers[w].batch[Len(workers[w].batch)]
    BY OpFacts DEF Unmarked, WorkersBusy
  <1>2. workers[w].batch \in Seq(OpIds) /\ Batch(w) = workers[w].batch
    BY <1>1, OpFacts, BatchType DEF Batch
  <1>3. Len(workers[w].batch) \in DOMAIN workers[w].batch
    BY <1>1, <1>2
  <1> QED
    BY <1>1, <1>2, <1>3 DEF Range

(* Who dequeues and marks nothing disturbs nothing of the queue. *)
LEMMA TaskKept ==
    ASSUME OneTask, QueuedExact, UNCHANGED <<queue, queued, blocked>>,
           \A w \in Workers, o \in OpIds : Unmarked(w, o)' <=> Unmarked(w, o)
    PROVE  OneTask' /\ QueuedExact'
  BY DEF OneTask, QueuedExact

(* A step away from queue and workers disturbs no task. *)
LEMMA TaskIdle ==
    ASSUME OneTask, QueuedExact, UNCHANGED <<queue, queued, blocked, workers>>
    PROVE  OneTask' /\ QueuedExact'
  BY TaskKept DEF Unmarked

(* A mutation or a replay comes with a call of enqueueWriteback; an ack     *)
(* only disarms.                                                            *)
LEMMA TaskStore ==
    ASSUME TaskInv, UNCHANGED <<queue, queued, blocked, workers, timers>>,
           \A o \in OpIds : toEnqueue[o] > 0 => toEnqueue'[o] > 0,
           \A o \in OpIds : o \in ArmedOps(ops)' => o \in ArmedOps(ops) \/ toEnqueue'[o] > 0
    PROVE  OneTask' /\ QueuedExact' /\ ArmedCarried'
  <1>1. OneTask' /\ QueuedExact'
    BY TaskIdle DEF TaskInv
  <1>2. ArmedCarried'
    BY DEF TaskInv, ArmedCarried, Carried, Batch, ArmedOps
  <1> QED
    BY <1>1, <1>2

(* enqueueWriteback adds the only task of its operation, or drops a second. *)
LEMMA TaskEnqueue ==
    ASSUME TaskInv, NEW o \in OpIds, enqueueWriteback(o)
    PROVE  OneTask' /\ QueuedExact' /\ ArmedCarried'
  <1>1. TypeOK /\ TypeInv /\ OneTask /\ QueuedExact
    BY OpFacts DEF TaskInv
  <1>2. queue \in Seq(OpIds) /\ Len(queue) \in Nat /\ Cap \in Nat
        /\ toEnqueue \in [OpIds -> Nat]
    BY <1>1, WritebackAssumption DEF TypeOK
  <1>3. UNCHANGED <<workers, timers, ops>> /\ queued' = queued \cup {o}
    BY DEF enqueueWriteback, storeVars
  <1>4. \A x \in OpIds \ {o} : toEnqueue'[x] = toEnqueue[x]
    BY <1>2, CountType DEF enqueueWriteback
  <1>5. CASE o \in queued
    <2>1. UNCHANGED <<queue, queued, blocked, workers>>
      BY <1>3, <1>5 DEF enqueueWriteback
    <2>2. OneTask' /\ QueuedExact'
      BY <1>1, <2>1, TaskIdle
    <2>3. Carried(o)'
      <3>1. o \in Range(queue) \cup blocked \/ \E w \in Workers : Unmarked(w, o)
        BY <1>1, <1>5 DEF QueuedExact
      <3>2. o \in Range(queue) \cup blocked \/ \E w \in Workers : o \in Range(Batch(w))
        BY <1>1, <3>1, UnmarkedHeld
      <3> QED
        BY <2>1, <3>2 DEF Carried, Batch
    <2>4. ArmedCarried'
      BY <1>3, <1>4, <2>1, <2>3 DEF TaskInv, ArmedCarried, Carried, Batch, ArmedOps
    <2> QED
      BY <2>2, <2>4
  <1>6. CASE o \notin queued
    <2>1. /\ o \notin Range(queue) \cup blocked
          /\ \A w \in Workers : ~Unmarked(w, o)
      BY <1>1, <1>6 DEF QueuedExact
    <2>2. \A w \in Workers, x \in OpIds : Unmarked(w, x)' <=> Unmarked(w, x)
      BY <1>3 DEF Unmarked
    <2>3. /\ Range(queue') \cup blocked' = Range(queue) \cup blocked \cup {o}
          /\ Range(queue') \cap blocked' = {}
          /\ \A i, j \in DOMAIN queue' : i # j => queue'[i] # queue'[j]
      <3>1. CASE Len(queue) < Cap
        <4>1. queue' = Append(queue, o) /\ blocked' = blocked
          BY <1>2, <1>6, <3>1 DEF enqueueWriteback
        <4>2. /\ Range(queue') = Range(queue) \cup {o}
              /\ \A i, j \in DOMAIN queue' : i # j => queue'[i] # queue'[j]
          BY SMTT(30), <1>1, <1>2, <2>1, <4>1, AppendRange DEF OneTask
        <4> QED
          BY <1>1, <2>1, <4>1, <4>2 DEF OneTask
      <3>2. CASE ~(Len(queue) < Cap)
        <4>1. queue' = queue /\ blocked' = blocked \cup {o}
          BY <1>2, <1>6, <3>2 DEF enqueueWriteback
        <4> QED
          BY <1>1, <2>1, <4>1 DEF OneTask
      <3> QED
        BY <3>1, <3>2
    <2>4. OneTask' /\ QueuedExact'
      BY <1>1, <1>3, <2>1, <2>2, <2>3 DEF OneTask, QueuedExact
    <2>5. ArmedCarried'
      BY <1>3, <1>4, <2>3 DEF TaskInv, ArmedCarried, Carried, Batch, ArmedOps
    <2> QED
      BY <2>4, <2>5
  <1> QED
    BY <1>5, <1>6

(* A blocked sender gets in with the only task of its operation. *)
LEMMA TaskUnblocked ==
    ASSUME TaskInv, NEW o \in OpIds, Enqueue(o)
    PROVE  OneTask' /\ QueuedExact' /\ ArmedCarried'
  <1>1. TypeOK /\ OneTask /\ QueuedExact /\ queue \in Seq(OpIds)
    BY OpFacts DEF TaskInv, TypeOK
  <1>2. /\ o \in blocked /\ queue' = Append(queue, o) /\ blocked' = blocked \ {o}
        /\ UNCHANGED <<queued, toEnqueue, timers, ops, workers>>
    BY DEF Enqueue, storeVars
  <1>3. o \notin Range(queue)
    BY <1>1, <1>2 DEF OneTask
  <1>4. /\ Range(queue') = Range(queue) \cup {o}
        /\ \A i, j \in DOMAIN queue' : i # j => queue'[i] # queue'[j]
    BY <1>1, <1>2, <1>3, AppendRange DEF OneTask
  <1>5. Range(queue') \cup blocked' = Range(queue) \cup blocked
    BY <1>2, <1>4
  <1>6. \A w \in Workers, x \in OpIds : Unmarked(w, x)' <=> Unmarked(w, x)
    BY <1>2 DEF Unmarked
  <1>7. OneTask' /\ QueuedExact'
    BY <1>1, <1>2, <1>4, <1>5, <1>6 DEF OneTask, QueuedExact
  <1>8. ArmedCarried'
    BY <1>2, <1>5 DEF TaskInv, ArmedCarried, Carried, Batch, ArmedOps
  <1> QED
    BY <1>7, <1>8

(* A retry timer hands its operation to enqueueWriteback. *)
LEMMA TaskTimer ==
    ASSUME TaskInv, NEW o \in OpIds, RetryTimerFires(o)
    PROVE  OneTask' /\ QueuedExact' /\ ArmedCarried'
  <1>1. TypeOK /\ OneTask /\ QueuedExact
        /\ toEnqueue \in [OpIds -> Nat] /\ timers \in [OpIds -> Nat]
    BY OpFacts DEF TaskInv, TypeOK
  <1>2. UNCHANGED <<queue, queued, blocked, workers, ops>>
    BY DEF RetryTimerFires, queueVars, storeVars
  <1>3. toEnqueue'[o] > 0
        /\ \A x \in OpIds \ {o} : toEnqueue'[x] = toEnqueue[x] /\ timers'[x] = timers[x]
    BY <1>1, CountType DEF RetryTimerFires
  <1>4. ArmedCarried'
    BY <1>2, <1>3 DEF TaskInv, ArmedCarried, Carried, Batch, ArmedOps
  <1> QED
    BY <1>1, <1>2, <1>4, TaskIdle

(* The task that leaves the queue is its worker's until it is marked. *)
LEMMA TaskDequeue ==
    ASSUME TaskInv, NEW w \in Workers, Dequeue(w)
    PROVE  OneTask' /\ QueuedExact' /\ ArmedCarried'
  <1> DEFINE x == Head(queue)
             b == Append(IF workers[w].pc = "idle" THEN <<>> ELSE workers[w].batch, x)
             k == [pc |-> "dequeued", dirty |-> FALSE, batch |-> b]
  <1>1. TypeInv /\ TypeOK /\ OneTask /\ QueuedExact /\ queue \in Seq(OpIds)
    BY OpFacts DEF TaskInv, TypeOK
  <1>2. /\ queue # <<>> /\ queue' = Tail(queue)
        /\ workers[w].pc \in {"idle", "draining"}
        /\ workers' = [workers EXCEPT ![w] = k]
        /\ UNCHANGED <<queued, blocked, toEnqueue, timers, ops>>
    BY <1>1 DEF Dequeue, TypeOK, storeVars
  <1>3. /\ x \in OpIds /\ Range(queue) = Range(queue') \cup {x}
        /\ x \notin Range(queue')
        /\ \A i, j \in DOMAIN queue' : i # j => queue'[i] # queue'[j]
    BY <1>1, <1>2, TailRange DEF OneTask
  <1>4. Batch(w) \in Seq(OpIds) /\ b = Append(Batch(w), x)
    BY <1>1, BatchType DEF Batch
  <1>5. /\ b # <<>> /\ b[Len(b)] = x /\ Range(b) = Range(Batch(w)) \cup {x}
    <2> HIDE DEF b, x
    <2> QED
      BY <1>3, <1>4, AppendRange
  <1>6. workers'[w] = k /\ \A v \in Workers \ {w} : workers'[v] = workers[v]
    BY <1>1, <1>2 DEF TypeOK
  <1>7. /\ \A o \in OpIds : Unmarked(w, o)' <=> o = x
        /\ \A v \in Workers \ {w}, o \in OpIds : Unmarked(v, o)' <=> Unmarked(v, o)
        /\ \A o \in OpIds : ~Unmarked(w, o)
    BY <1>2, <1>5, <1>6 DEF Unmarked
  <1> HIDE DEF k, b, x
  <1>8. OneTask'
    <2>1. ASSUME NEW v \in Workers, NEW o \in OpIds, Unmarked(v, o)'
          PROVE  /\ o \notin Range(queue') \cup blocked'
                 /\ \A u \in Workers \ {v} : ~Unmarked(u, o)'
      <3>1. CASE v = w
        <4>1. o = x /\ x \in Range(queue)
          BY <1>3, <1>7, <2>1, <3>1
        <4>2. o \notin blocked /\ \A u \in Workers : ~Unmarked(u, o)
          BY <1>1, <4>1 DEF OneTask
        <4> QED
          BY <1>2, <1>3, <1>7, <3>1, <4>1, <4>2
      <3>2. CASE v # w
        <4>1. /\ o \notin Range(queue) \cup blocked
              /\ \A u \in Workers \ {v} : ~Unmarked(u, o)
          BY <1>1, <1>7, <2>1, <3>2 DEF OneTask
        <4> QED
          BY <1>2, <1>3, <1>7, <4>1
      <3> QED
        BY <3>1, <3>2
    <2> QED
      BY <1>1, <1>2, <1>3, <2>1 DEF OneTask
  <1>9. QueuedExact'
    BY <1>1, <1>2, <1>3, <1>7 DEF QueuedExact
  <1>10. ArmedCarried'
    <2>1. Batch(w)' = b /\ \A v \in Workers \ {w} : Batch(v)' = Batch(v)
      BY <1>6 DEF Batch, k
    <2>2. \A o \in OpIds : Carried(o) => Carried(o)'
      BY <1>2, <1>3, <1>5, <2>1 DEF Carried
    <2> QED
      BY <1>2, <2>2 DEF TaskInv, ArmedCarried, ArmedOps
  <1> QED
    BY <1>8, <1>9, <1>10

(* Marking takes the operation off queuedWritebacks with its last task. *)
LEMMA TaskMark ==
    ASSUME TaskInv, NEW w \in Workers, markWritebackDequeued(w)
    PROVE  OneTask' /\ QueuedExact' /\ ArmedCarried'
  <1> DEFINE x == workers[w].batch[Len(workers[w].batch)]
             wk == workers[w]
  <1>1. TypeInv /\ TypeOK /\ OneTask /\ QueuedExact /\ WorkersBusy
    BY OpFacts DEF TaskInv
  <1>2. /\ wk.pc = "dequeued" /\ queued' = queued \ {x}
        /\ UNCHANGED <<queue, blocked, toEnqueue, timers, ops>>
        /\ \E p \in {"draining", "ready"} : workers' = [workers EXCEPT ![w].pc = p]
    BY DEF markWritebackDequeued, storeVars
  <1>3. /\ workers'[w].pc # "dequeued" /\ workers'[w].pc # "idle"
        /\ workers'[w].batch = wk.batch
        /\ \A v \in Workers \ {w} : workers'[v] = workers[v]
    <2>1. wk \in [pc : {"dequeued", "draining", "ready"},
                  batch : Seq(OpIds), dirty : BOOLEAN]
      BY <1>1, <1>2, WorkerKinds DEF TypeOK
    <2> QED
      BY <1>1, <1>2, <2>1 DEF TypeOK
  <1>4. x \in OpIds
    <2>1. wk.batch \in Seq(OpIds) /\ wk.batch # <<>>
      BY <1>1, <1>2, WorkerKinds DEF TypeOK, WorkersBusy
    <2> QED
      BY <2>1
  <1>5. /\ \A o \in OpIds : Unmarked(w, o) <=> o = x
        /\ \A o \in OpIds : ~Unmarked(w, o)'
        /\ \A v \in Workers \ {w}, o \in OpIds : Unmarked(v, o)' <=> Unmarked(v, o)
    BY <1>2, <1>3 DEF Unmarked
  <1> HIDE DEF x
  <1>6. /\ x \notin Range(queue) \cup blocked
        /\ \A v \in Workers \ {w} : ~Unmarked(v, x)
    BY <1>1, <1>4, <1>5 DEF OneTask
  <1>7. OneTask'
    BY <1>1, <1>2, <1>5 DEF OneTask
  <1>8. QueuedExact'
    BY <1>1, <1>2, <1>4, <1>5, <1>6 DEF QueuedExact
  <1>9. ArmedCarried'
    <2>1. \A v \in Workers : Batch(v)' = Batch(v)
      BY <1>2, <1>3 DEF Batch
    <2> QED
      BY <1>2, <2>1 DEF TaskInv, ArmedCarried, Carried, ArmedOps
  <1> QED
    BY <1>7, <1>8, <1>9

(* A worker that goes on drops a task only with its operation disarmed, or  *)
(* on a timer.                                                              *)
LEMMA TaskWorker ==
    ASSUME TaskInv, NEW w \in Workers, NEW k \in WorkerState,
           workers' = [workers EXCEPT ![w] = k],
           workers[w].pc # "dequeued", k.pc # "dequeued",
           UNCHANGED <<queue, queued, blocked, toEnqueue>>,
           \A o \in OpIds : timers[o] > 0 => timers'[o] > 0,
           \A o \in OpIds : o \in ArmedOps(ops)' =>
             \/ timers'[o] > 0
             \/ o \in ArmedOps(ops) /\ (o \in Range(Batch(w)) => o \in Range(Batch(w)'))
    PROVE  OneTask' /\ QueuedExact' /\ ArmedCarried'
  <1>1. TypeOK /\ OneTask /\ QueuedExact
    BY OpFacts DEF TaskInv
  <1>2. workers'[w] = k /\ \A v \in Workers \ {w} : workers'[v] = workers[v]
    BY <1>1 DEF TypeOK
  <1>3. \A v \in Workers, o \in OpIds : Unmarked(v, o)' <=> Unmarked(v, o)
    BY <1>2 DEF Unmarked
  <1>4. \A v \in Workers \ {w} : Batch(v)' = Batch(v)
    BY <1>2 DEF Batch
  <1>5. ArmedCarried'
    <2> SUFFICES ASSUME NEW o \in OpIds, o \in ArmedOps(ops)' PROVE Carried(o)'
      BY DEF ArmedCarried, ArmedOps
    <2>1. CASE timers'[o] > 0
      BY <2>1 DEF Carried
    <2>2. CASE o \in ArmedOps(ops) /\ (o \in Range(Batch(w)) => o \in Range(Batch(w)'))
      <3>1. Carried(o)
        BY <2>2 DEF TaskInv, ArmedCarried
      <3>2. ASSUME NEW v \in Workers, o \in Range(Batch(v)) PROVE o \in Range(Batch(v)')
        BY <1>4, <2>2, <3>2
      <3> QED
        BY <3>1, <3>2 DEF Carried
    <2> QED
      BY <2>1, <2>2
  <1> QED
    BY <1>1, <1>3, <1>5, TaskKept

(* No step of a worker loses a task. *)
LEMMA TaskWorkerStep ==
    ASSUME TaskInv, NEW w \in Workers, WorkerStep(w), TypeInv'
    PROVE  OneTask' /\ QueuedExact' /\ ArmedCarried'
  <1> DEFINE wk == workers[w]
             o  == Head(wk.batch)
             k  == workers'[w]
  <1>1. /\ TypeOK /\ WorkersBusy /\ wk \in WorkerState
        /\ timers \in [OpIds -> Nat] /\ k \in WorkerState /\ ops \in OpMap
    BY DEF TaskInv, TypeInv, TypeOK
  <1>2. ASSUME wk.pc # "idle", wk.batch # <<>>
        PROVE  /\ Batch(w) = wk.batch /\ o \in OpIds
               /\ Range(wk.batch) = Range(Tail(wk.batch)) \cup {o}
    BY <1>1, <1>2, WorkerKinds, TailRange DEF Batch
  <1>3. CASE DrainEnds(w)
    <2>1. /\ wk.pc = "draining" /\ workers' = [workers EXCEPT ![w].pc = "ready"]
          /\ UNCHANGED <<queue, queued, blocked, toEnqueue, timers, ops>>
      BY <1>3 DEF DrainEnds, storeVars, queueVars
    <2>2. wk \in [pc : {"dequeued", "draining", "ready"},
                  batch : Seq(OpIds), dirty : BOOLEAN]
      BY <1>1, <2>1, WorkerKinds
    <2>3. /\ workers' = [workers EXCEPT ![w] = k] /\ k.pc = "ready" /\ k.batch = wk.batch
      BY <1>1, <2>1, <2>2 DEF TypeOK
    <2>4. Batch(w)' = Batch(w)
      BY <2>1, <2>3 DEF Batch
    <2> QED
      BY <1>1, <2>1, <2>3, <2>4, TaskWorker DEF ArmedOps
  <1>4. CASE PrepareCall(w)
    <2>1. /\ wk.pc = "ready" /\ wk.batch # <<>>
          /\ UNCHANGED <<queue, queued, blocked, toEnqueue, timers, ops>>
      BY <1>4 DEF PrepareCall, storeVars, queueVars
    <2>2. wk \in [pc : {"dequeued", "draining", "ready"},
                  batch : Seq(OpIds), dirty : BOOLEAN]
      BY <1>1, <2>1, WorkerKinds
    <2>3. /\ workers' = [workers EXCEPT ![w] = k] /\ k.pc \in {"calling", "ready"}
          /\ \/ k.batch = wk.batch
             \/ k.batch = Tail(wk.batch) /\ ~Armed(ops[o])
      <3>1. CASE Armed(ops[o])
        BY <1>1, <1>4, <2>1, <3>1 DEF PrepareCall, TypeOK
      <3>2. CASE ~Armed(ops[o])
        <4>1. workers' = [workers EXCEPT ![w].batch = Tail(wk.batch)]
          BY <1>4, <3>2 DEF PrepareCall
        <4>2. k.pc = "ready" /\ k.batch = Tail(wk.batch)
          BY <1>1, <2>1, <2>2, <4>1 DEF TypeOK
        <4> QED
          BY <1>1, <3>2, <4>1, <4>2 DEF TypeOK
      <3> QED
        BY <3>1, <3>2
    <2>4. \A x \in OpIds : x \in ArmedOps(ops) /\ x \in Range(Batch(w)) => x \in Range(Batch(w)')
      <3>1. Batch(w)' = k.batch
        BY <2>3 DEF Batch
      <3> QED
        BY <1>2, <2>1, <2>3, <3>1 DEF ArmedOps
    <2> QED
      BY <1>1, <2>1, <2>3, <2>4, TaskWorker DEF ArmedOps
  <1>5. ASSUME NEW ok \in BOOLEAN, ProviderWrite(w, ok)
        PROVE  OneTask' /\ QueuedExact' /\ ArmedCarried'
    <2>1. /\ wk.pc = "calling" /\ k.pc = "answered" /\ k.batch = wk.batch
          /\ workers' = [workers EXCEPT ![w] = k]
          /\ UNCHANGED <<queue, queued, blocked, toEnqueue, timers, ops>>
      BY <1>1, <1>5 DEF ProviderWrite, storeVars, queueVars, TypeOK
    <2>2. Batch(w)' = Batch(w)
      BY <2>1 DEF Batch
    <2> QED
      BY <1>1, <2>1, <2>2, TaskWorker DEF ArmedOps
  <1>6. CASE RecordOutcome(w)
    <2>1. /\ wk.pc = "answered" /\ k.pc = "ready" /\ k.batch = Tail(wk.batch)
          /\ workers' = [workers EXCEPT ![w] = k]
          /\ UNCHANGED <<queue, queued, blocked, toEnqueue>>
      BY <1>1, <1>6 DEF RecordOutcome, queueVars, TypeOK
    <2>2. wk.batch # <<>>
      BY <1>1, <2>1 DEF WorkersBusy
    <2> DEFINE retry == ~wk.ok /\ wk.attempt < MaxAttempts
               st == IF wk.ok THEN "succeeded" ELSE IF retry THEN "pending" ELSE "dead_lettered"
    <2>3. /\ timers' = IF retry THEN Calls(timers, o) ELSE timers
          /\ ops' = [ops EXCEPT ![o].attempts = wk.attempt, ![o].due = retry,
                                ![o].status = st]
      BY <1>6 DEF RecordOutcome
    <2>4. \A x \in OpIds \ {o} : ops'[x] = ops[x]
      BY <1>1, <2>3 DEF OpMap
    <2>5. ops'[o] # NoOp => ops'[o].status = st
      <3>1. o \in OpIds
        BY <1>2, <2>1, <2>2
      <3>2. o \in Range(Batch(w))
        BY <1>2, <2>1, <2>2
      <3>3. ops[o] \in Op
        BY <3>1, <3>2, OpFacts DEF TaskInv, Carried
      <3> HIDE DEF st, retry
      <3> QED
        BY <1>1, <2>3, <3>1, <3>3 DEF OpMap, Op
    <2>6. o \in ArmedOps(ops)' => retry
      BY <2>5 DEF ArmedOps, Armed
    <2> HIDE DEF retry
    <2>7. /\ \A x \in OpIds : timers[x] > 0 => timers'[x] > 0
          /\ retry => timers'[o] > 0
      <3>1. o \in OpIds /\ timers \in [OpIds -> Nat]
        BY <1>1, <1>2, <2>1, <2>2
      <3>2. /\ Calls(timers, o)[o] > 0
            /\ \A x \in OpIds \ {o} : Calls(timers, o)[x] = timers[x]
        BY <3>1, CountType
      <3> HIDE DEF o
      <3> QED
        BY <2>3, <3>2
    <2>8. Batch(w)' = Tail(wk.batch)
      BY <2>1 DEF Batch
    <2>9. \A x \in OpIds : x \in ArmedOps(ops)' =>
             \/ timers'[x] > 0
             \/ x \in ArmedOps(ops) /\ (x \in Range(Batch(w)) => x \in Range(Batch(w)'))
      <3> SUFFICES ASSUME NEW x \in OpIds, x \in ArmedOps(ops)', x # o
                   PROVE  x \in ArmedOps(ops) /\ (x \in Range(Batch(w)) => x \in Range(Batch(w)'))
        BY <2>6, <2>7
      <3> QED
        BY <1>2, <2>1, <2>2, <2>4, <2>8 DEF ArmedOps
    <2> QED
      BY <1>1, <2>1, <2>7, <2>9, TaskWorker
  <1>7. CASE SaveOutcome(w)
    <2>1. /\ wk.pc = "ready" /\ wk.batch = <<>> /\ workers' = [workers EXCEPT ![w] = Idle]
          /\ UNCHANGED <<queue, queued, blocked, toEnqueue, timers, ops>>
      BY <1>7 DEF SaveOutcome, storeVars, queueVars
    <2>2. Range(Batch(w)) = {}
      BY <2>1 DEF Batch, Range
    <2>3. Idle \in WorkerState /\ Idle.pc = "idle"
      BY DEF Idle, WorkerState
    <2> QED
      BY <1>1, <2>1, <2>2, <2>3, TaskWorker DEF ArmedOps
  <1> QED
    BY <1>3, <1>4, <1>5, <1>6, <1>7, TaskDequeue, TaskMark DEF WorkerStep

(* The boot scan carries every armed operation. *)
LEMMA TaskRestart ==
    ASSUME TaskInv, Restart, TypeInv'
    PROVE  OneTask' /\ QueuedExact' /\ ArmedCarried'
  <1>1. /\ queue' = queue \/ queue' = <<>>
        /\ queued' = Range(queue') /\ blocked' = {}
        /\ workers' = [w \in Workers |-> Idle]
    BY DEF Restart
  <1>2. \A w \in Workers, o \in OpIds : ~Unmarked(w, o)'
    BY <1>1, NoBatchesNext DEF Unmarked
  <1>3. \A i, j \in DOMAIN queue' : i # j => queue'[i] # queue'[j]
    BY <1>1 DEF TaskInv, OneTask
  <1>4. OneTask' /\ QueuedExact'
    BY <1>1, <1>2, <1>3 DEF OneTask, QueuedExact
  <1>5. PICK later \in SUBSET ArmedOps(ops') :
          toEnqueue' = Count(ArmedOps(ops') \ later) /\ timers' = Count(later)
    BY DEF Restart, BootScan
  <1>6. ArmedCarried'
    BY <1>5, CountOf DEF ArmedCarried, Carried, ArmedOps
  <1> QED
    BY <1>4, <1>6

(* The first boot carries every armed operation. *)
LEMMA TaskInit == Init => TaskInv
  <1> SUFFICES ASSUME Init PROVE TaskInv
    OBVIOUS
  <1>1. /\ queue = <<>> /\ queued = {} /\ blocked = {}
        /\ toEnqueue = Count(ArmedOps(ops)) /\ workers = [w \in Workers |-> Idle]
    BY DEF Init
  <1>2. Range(queue) = {} /\ DOMAIN queue = {}
    BY <1>1 DEF Range
  <1>3. \A w \in Workers, o \in OpIds : ~Unmarked(w, o)
    BY <1>1, NoBatches DEF Unmarked
  <1>4. OneTask /\ QueuedExact
    BY <1>1, <1>2, <1>3 DEF OneTask, QueuedExact
  <1>5. ArmedCarried
    BY <1>1, CountOf DEF ArmedCarried, Carried, ArmedOps
  <1> QED
    BY <1>4, <1>5, TypeInit DEF TaskInv

(* No step loses a task. *)
LEMMA TaskStep == TaskInv /\ [Next]_vars => TaskInv'
  <1> SUFFICES ASSUME TaskInv, [Next]_vars PROVE OneTask' /\ QueuedExact' /\ ArmedCarried'
    BY TypeStep DEF TaskInv
  <1>1. TypeInv' /\ TypeOK /\ toEnqueue \in [OpIds -> Nat] /\ ops \in OpMap
    BY TypeStep, OpFacts DEF TaskInv, TypeOK
  <1>2. ASSUME NEW p \in Paths, NEW a \in Action, recordWrite(p, a)
        PROVE  OneTask' /\ QueuedExact' /\ ArmedCarried'
    <2> DEFINE o == opCounter + 1
    <2>1. /\ o \in OpIds /\ ops' = [ops EXCEPT ![o] = NewOp(p, a)]
          /\ toEnqueue' = Calls(toEnqueue, o)
          /\ UNCHANGED <<queue, queued, blocked, workers, timers>>
      BY <1>2 DEF recordWrite, queueVars
    <2>2. /\ toEnqueue'[o] > 0
          /\ \A x \in OpIds \ {o} : toEnqueue'[x] = toEnqueue[x] /\ ops'[x] = ops[x]
      BY <1>1, <2>1, CountType DEF OpMap
    <2> HIDE DEF o
    <2> QED
      BY <2>1, <2>2, TaskStore DEF ArmedOps
  <1>3. ASSUME NEW o \in OpIds,
               AcknowledgeWriteback(o, TRUE) \/ AcknowledgeWriteback(o, FALSE)
        PROVE  OneTask' /\ QueuedExact' /\ ArmedCarried'
    <2>1. /\ UNCHANGED <<queue, queued, blocked, workers, timers, toEnqueue>>
          /\ ops[o] # NoOp
          /\ \E s \in {"succeeded", "dead_lettered"} :
               ops' = [ops EXCEPT ![o].due = FALSE, ![o].status = s]
      BY <1>3 DEF AcknowledgeWriteback, queueVars
    <2>2. /\ \A x \in OpIds \ {o} : ops'[x] = ops[x]
          /\ ops'[o].status \in {"succeeded", "dead_lettered"}
      BY <1>1, <2>1 DEF OpMap, Op
    <2>3. o \notin ArmedOps(ops)'
      BY <2>2 DEF ArmedOps, Armed
    <2> QED
      BY <2>1, <2>2, <2>3, TaskStore DEF ArmedOps
  <1>4. ASSUME NEW o \in OpIds, ReplayOperation(o)
        PROVE  OneTask' /\ QueuedExact' /\ ArmedCarried'
    <2>1. /\ UNCHANGED <<queue, queued, blocked, workers, timers>>
          /\ toEnqueue' = Calls(toEnqueue, o)
          /\ \A x \in OpIds \ {o} : ops'[x] = ops[x]
      BY <1>1, <1>4 DEF ReplayOperation, queueVars, OpMap
    <2>2. /\ toEnqueue'[o] > 0
          /\ \A x \in OpIds \ {o} : toEnqueue'[x] = toEnqueue[x]
      BY <1>1, <2>1, CountType
    <2> QED
      BY <2>1, <2>2, TaskStore DEF ArmedOps
  <1>5. ASSUME UNCHANGED <<ops, queueVars, toEnqueue, timers, workers>>
        PROVE  OneTask' /\ QueuedExact' /\ ArmedCarried'
    BY <1>5, TaskStore DEF queueVars, ArmedOps
  <1>6. CASE Mutations
    <2>1. CASE \E p \in Paths : DeleteFileRejected(p)
      BY <1>5, <2>1 DEF DeleteFileRejected, storeVars
    <2> QED
      BY <1>2, <1>6, <2>1 DEF Mutations, WriteFile, DeleteFile, Action
  <1>7. CASE Queueing
    BY <1>7, TaskEnqueue, TaskUnblocked, TaskTimer DEF Queueing
  <1>8. CASE Operators
    BY <1>3, <1>4, <1>8 DEF Operators
  <1>9. CASE WindowSlides \/ UNCHANGED vars
    BY <1>5, <1>9 DEF WindowSlides, storeVars, vars
  <1> QED
    BY <1>1, <1>6, <1>7, <1>8, <1>9, TaskWorkerStep, TaskRestart DEF Next

(* No operation that still needs processing is ever without a carrier, and  *)
(* queuedWritebacks names exactly the tasks between enqueueWriteback and    *)
(* markWritebackDequeued, so a duplicate it drops is never the last task.   *)
THEOREM TasksKept == Spec => []NothingLost
  <1>1. TaskInv => NothingLost
    <2> SUFFICES ASSUME TaskInv PROVE NothingLost
      OBVIOUS
    <2>1. \A w \in Workers, o \in OpIds : o \in Range(Batch(w)) => Holds(w, o)
      BY DEF Batch, Holds, Range
    <2> QED
      BY <2>1 DEF TaskInv, ArmedCarried, Carried, QueuedExact, NothingLost, ArmedOps
  <1> QED
    BY <1>1, TaskInit, TaskStep, PTL DEF Spec

-----------------------------------------------------------------------------
(* The quarantine *)

(* A quarantine is on disk from the start, and no worker is at it. *)
QuarantineKnown ==
    \A o \in OpIds :
      (ops[o] # NoOp /\ ops[o].status = "quarantined") =>
        /\ disk.ops[o] = ops[o]
        /\ \A w \in Workers : ~InFlight(w, o)

QuarantineInv == TypeInv /\ QuarantineKnown

(* What a step other than a boot may do: a quarantined operation was one    *)
(* before, nobody has begun to work on it, and a save writes it as it is.   *)
LEMMA QuarantineKept ==
    ASSUME QuarantineInv,
           disk' = disk \/ disk'.ops = ops',
           \A o \in OpIds : (ops'[o] # NoOp /\ ops'[o].status = "quarantined") =>
             /\ ops'[o] = ops[o]
             /\ \A w \in Workers : InFlight(w, o)' => InFlight(w, o)
    PROVE  QuarantineKnown'
  BY DEF QuarantineInv, QuarantineKnown

(* What one operation of a batch worker may do to an operation. *)
LEMMA QuarantineWorker ==
    ASSUME QuarantineInv, NEW w \in Workers, WorkerStep(w)
    PROVE  /\ QuarantineKnown'
           /\ \A o \in OpIds : (ops[o] # NoOp /\ ops[o].status = "quarantined") =>
                ops'[o] = ops[o] /\ calls'[o] = calls[o]
  <1> DEFINE wk == workers[w]
             o  == Head(wk.batch)
             Q(x) == ops[x] # NoOp /\ ops[x].status = "quarantined"
  <1>1. /\ TypeOK /\ WorkersBusy /\ wk \in WorkerState /\ ops \in OpMap
        /\ calls \in [OpIds -> Nat]
    BY DEF QuarantineInv, TypeInv, TypeOK
  <1>2. ASSUME wk.pc # "idle", wk.batch # <<>>
        PROVE  o \in OpIds /\ ops[o] \in Op /\ ops[o] # NoOp
    <2>1. wk.batch \in Seq(OpIds) /\ Batch(w) = wk.batch
      BY <1>1, <1>2, WorkerKinds DEF Batch
    <2>2. o \in OpIds /\ o \in Range(Batch(w))
      BY <1>2, <2>1, TailRange
    <2> QED
      BY <2>2, OpFacts DEF QuarantineInv, Carried
  <1>3. ASSUME UNCHANGED <<ops, calls>>, disk' = disk \/ disk'.ops = ops',
               \A v \in Workers, x \in OpIds : InFlight(v, x)' => InFlight(v, x)
        PROVE  /\ QuarantineKnown'
               /\ \A x \in OpIds : Q(x) => ops'[x] = ops[x] /\ calls'[x] = calls[x]
    BY <1>3, QuarantineKept
  <1>4. CASE Dequeue(w) \/ markWritebackDequeued(w) \/ DrainEnds(w)
    <2>1. /\ UNCHANGED <<ops, calls, disk>>
          /\ workers'[w].pc \in {"dequeued", "draining", "ready"}
          /\ \A v \in Workers \ {w} : workers'[v] = workers[v]
      <3>1. CASE Dequeue(w)
        BY <1>1, <3>1 DEF Dequeue, storeVars, historyVars, TypeOK
      <3>2. CASE markWritebackDequeued(w) \/ DrainEnds(w)
        <4>1. wk.pc \in {"dequeued", "draining"}
          BY <3>2 DEF markWritebackDequeued, DrainEnds
        <4>2. wk \in [pc : {"dequeued", "draining", "ready"},
                      batch : Seq(OpIds), dirty : BOOLEAN]
          BY <1>1, <4>1, WorkerKinds
        <4>3. \E p \in {"draining", "ready"} : workers' = [workers EXCEPT ![w].pc = p]
          BY <3>2 DEF markWritebackDequeued, DrainEnds
        <4> QED
          BY <1>1, <3>2, <4>2, <4>3
          DEF markWritebackDequeued, DrainEnds, storeVars, historyVars, TypeOK
      <3> QED
        BY <1>4, <3>1, <3>2
    <2> QED
      BY <1>3, <2>1 DEF InFlight
  <1>5. CASE PrepareCall(w)
    <2>1. wk.pc = "ready" /\ wk.batch # <<>> /\ UNCHANGED <<ops, disk>>
      BY <1>5 DEF PrepareCall, storeVars
    <2>2. /\ \A v \in Workers \ {w} : workers'[v] = workers[v]
          /\ \/ /\ Armed(ops[o]) /\ calls' = Calls(calls, o)
                /\ workers'[w].batch = wk.batch
             \/ calls' = calls /\ workers'[w].pc = "ready"
      <3>1. CASE Armed(ops[o])
        BY <1>1, <1>5, <3>1 DEF PrepareCall, TypeOK
      <3>2. CASE ~Armed(ops[o])
        <4>1. wk \in [pc : {"dequeued", "draining", "ready"},
                      batch : Seq(OpIds), dirty : BOOLEAN]
          BY <1>1, <2>1, WorkerKinds
        <4>2. workers' = [workers EXCEPT ![w].batch = Tail(wk.batch)] /\ calls' = calls
          BY <1>5, <3>2 DEF PrepareCall
        <4> QED
          BY <1>1, <2>1, <4>1, <4>2 DEF TypeOK
      <3> QED
        BY <3>1, <3>2
    <2>3. \A x \in OpIds : Q(x) => calls'[x] = calls[x]
      <3>1. \A x \in OpIds \ {o} : Calls(calls, o)[x] = calls[x]
        BY <1>1, <1>2, <2>1 DEF Calls
      <3>2. Q(o) => ~Armed(ops[o])
        BY DEF Armed
      <3> QED
        BY <2>2, <3>1, <3>2
    <2>4. \A v \in Workers, x \in OpIds : InFlight(v, x)' => InFlight(v, x) \/ Armed(ops[x])
      BY <2>2 DEF InFlight
    <2>5. QuarantineKnown'
      BY <2>1, <2>4, QuarantineKept DEF Armed
    <2> QED
      BY <2>1, <2>3, <2>5
  <1>6. ASSUME NEW ok \in BOOLEAN, ProviderWrite(w, ok)
        PROVE  /\ QuarantineKnown'
               /\ \A x \in OpIds : Q(x) => ops'[x] = ops[x] /\ calls'[x] = calls[x]
    <2>1. /\ UNCHANGED <<ops, calls, disk>> /\ wk.pc = "calling"
          /\ workers'[w].batch = wk.batch
          /\ \A v \in Workers \ {w} : workers'[v] = workers[v]
      BY <1>1, <1>6 DEF ProviderWrite, storeVars, historyVars, TypeOK
    <2> QED
      BY <1>3, <2>1 DEF InFlight
  <1>7. CASE RecordOutcome(w)
    <2>1. /\ wk.pc = "answered" /\ wk.batch # <<>> /\ UNCHANGED <<calls, disk>>
          /\ workers'[w].pc = "ready"
          /\ \A v \in Workers \ {w} : workers'[v] = workers[v]
      BY <1>1, <1>7 DEF RecordOutcome, historyVars, TypeOK, WorkersBusy
    <2>2. ~Q(o)
      BY <1>2, <2>1 DEF QuarantineInv, QuarantineKnown, InFlight
    <2>3. /\ \A x \in OpIds \ {o} : ops'[x] = ops[x]
          /\ ops'[o].status # "quarantined"
      <3> DEFINE retry == ~wk.ok /\ wk.attempt < MaxAttempts
                 st == IF wk.ok THEN "succeeded" ELSE IF retry THEN "pending" ELSE "dead_lettered"
      <3>1. ops' = [ops EXCEPT ![o].attempts = wk.attempt, ![o].due = retry,
                                ![o].status = st]
        BY <1>7 DEF RecordOutcome
      <3>2. st # "quarantined" /\ o \in OpIds /\ ops[o] \in Op
        BY <1>2, <2>1
      <3> HIDE DEF st, retry
      <3> QED
        BY <1>1, <3>1, <3>2 DEF OpMap, Op
    <2>4. \A v \in Workers, x \in OpIds : InFlight(v, x)' => InFlight(v, x)
      BY <2>1 DEF InFlight
    <2> QED
      BY <2>1, <2>2, <2>3, <2>4, QuarantineKept
  <1>8. CASE SaveOutcome(w)
    <2>1. /\ UNCHANGED <<ops, calls>> /\ (disk' = disk \/ disk'.ops = ops')
          /\ workers'[w].pc = "idle"
          /\ \A v \in Workers \ {w} : workers'[v] = workers[v]
      BY <1>1, <1>8 DEF SaveOutcome, Save, Snapshot, storeVars, historyVars, TypeOK, Idle
    <2> QED
      BY <1>3, <2>1 DEF InFlight
  <1> QED
    BY <1>4, <1>5, <1>6, <1>7, <1>8 DEF WorkerStep

(* A boot leaves a quarantined operation as the snapshot has it, and the    *)
(* workers start idle.                                                      *)
LEMMA QuarantineRestart ==
    ASSUME QuarantineInv, Restart
    PROVE  /\ QuarantineKnown'
           /\ \A o \in OpIds : (ops[o] # NoOp /\ ops[o].status = "quarantined") =>
                ops'[o] = ops[o] /\ calls'[o] = calls[o]
  <1>1. PICK stale \in SUBSET ArmedOps(disk.ops) : ops' = Quarantine(disk.ops, stale)
    BY DEF Restart
  <1>2. /\ disk'.ops = ops' /\ calls' = calls
        /\ workers' = [w \in Workers |-> Idle]
    BY DEF Restart, Save, Snapshot
  <1>3. disk.ops \in OpMap
    BY DEF QuarantineInv, TypeInv, TypeOK
  <1>4. ASSUME NEW o \in OpIds, ops[o] # NoOp, ops[o].status = "quarantined"
        PROVE  ops'[o] = ops[o]
    <2>1. disk.ops[o] = ops[o] /\ ~Armed(disk.ops[o])
      BY <1>4 DEF QuarantineInv, QuarantineKnown, Armed
    <2> QED
      BY <1>1, <1>3, <2>1, QuarantineType
  <1>5. QuarantineKnown'
    BY <1>2, NoBatchesNext DEF QuarantineKnown, InFlight
  <1> QED
    BY <1>2, <1>4, <1>5

(* Every step keeps the invariant, and only an ack moves the operation. *)
LEMMA QuarantineStep ==
    ASSUME QuarantineInv, [Next]_vars
    PROVE  /\ QuarantineInv'
           /\ \A o \in OpIds : (ops[o] # NoOp /\ ops[o].status = "quarantined") =>
                \/ ops'[o] = ops[o] /\ calls'[o] = calls[o]
                \/ \E s \in BOOLEAN : AcknowledgeWriteback(o, s)
  <1> DEFINE Q(x) == ops[x] # NoOp /\ ops[x].status = "quarantined"
             Goal == /\ QuarantineKnown'
                     /\ \A o \in OpIds : Q(o) =>
                          \/ ops'[o] = ops[o] /\ calls'[o] = calls[o]
                          \/ \E s \in BOOLEAN : AcknowledgeWriteback(o, s)
  <1>1. TypeOK /\ Recorded /\ ops \in OpMap /\ opCounter \in Nat /\ TypeInv'
    BY OpFacts, TypeStep DEF QuarantineInv, TypeOK
  <1>2. ASSUME NEW p \in Paths, NEW a \in Action, recordWrite(p, a), Save
        PROVE  Goal
    <2> DEFINE o == opCounter + 1
    <2>1. /\ o \in OpIds /\ ops' = [ops EXCEPT ![o] = NewOp(p, a)]
          /\ UNCHANGED <<workers, calls>> /\ disk'.ops = ops'
      BY <1>2 DEF recordWrite, historyVars, Save, Snapshot
    <2>2. ops[o] = NoOp /\ ops'[o].status = "pending"
          /\ \A x \in OpIds \ {o} : ops'[x] = ops[x]
      BY <1>1, <2>1 DEF OpMap, Recorded, NewOp
    <2> HIDE DEF o
    <2>3. QuarantineKnown'
      BY <2>1, <2>2, QuarantineKept DEF InFlight
    <2> QED
      BY <2>1, <2>2, <2>3
  <1>3. ASSUME NEW o \in OpIds, NEW s \in BOOLEAN, AcknowledgeWriteback(o, s)
        PROVE  Goal
    <2>1. /\ ops[o] # NoOp /\ UNCHANGED <<workers, calls>> /\ disk'.ops = ops'
          /\ \E st \in {"succeeded", "dead_lettered"} :
               ops' = [ops EXCEPT ![o].due = FALSE, ![o].status = st]
      BY <1>3 DEF AcknowledgeWriteback, Save, Snapshot
    <2>2. /\ \A x \in OpIds \ {o} : ops'[x] = ops[x]
          /\ ops'[o].status \in {"succeeded", "dead_lettered"}
      BY <1>1, <2>1 DEF OpMap, Op
    <2>3. QuarantineKnown'
      BY <2>1, <2>2, QuarantineKept DEF InFlight
    <2> QED
      BY <1>3, <2>1, <2>2, <2>3
  <1>4. ASSUME NEW o \in OpIds, ReplayOperation(o) PROVE Goal
    <2>1. /\ ops[o] # NoOp /\ ops[o].status = "dead_lettered" /\ workers' = workers
          /\ disk'.ops = ops'
          /\ calls' = [calls EXCEPT ![o] = 0]
          /\ ops' = [ops EXCEPT ![o].status = "pending", ![o].attempts = 0, ![o].due = FALSE]
      BY <1>4 DEF ReplayOperation, Save, Snapshot
    <2>2. /\ \A x \in OpIds \ {o} : ops'[x] = ops[x]
          /\ ops'[o].status = "pending"
      BY <1>1, <2>1 DEF OpMap, Op
    <2>3. \A x \in OpIds \ {o} : calls'[x] = calls[x]
      BY <1>1, <2>1 DEF TypeOK
    <2>4. QuarantineKnown'
      BY <2>1, <2>2, QuarantineKept DEF InFlight
    <2> QED
      BY <2>1, <2>2, <2>3, <2>4
  <1>5. ASSUME UNCHANGED <<ops, workers, calls, disk>> PROVE Goal
    BY <1>5, QuarantineKept DEF InFlight
  <1> SUFFICES Goal
    BY <1>1 DEF QuarantineInv
  <1> HIDE DEF Goal
  <1>6. CASE Mutations
    <2>1. ASSUME NEW p \in Paths, NEW c \in Values, WriteFile(p, c) PROVE Goal
      BY <1>2, <2>1 DEF WriteFile, Action
    <2>2. ASSUME NEW p \in Paths, DeleteFile(p) PROVE Goal
      BY <1>2, <2>2 DEF DeleteFile, Action
    <2>3. ASSUME NEW p \in Paths, DeleteFileRejected(p) PROVE Goal
      BY <1>5, <2>3 DEF DeleteFileRejected, storeVars, historyVars
    <2> QED
      BY <1>6, <2>1, <2>2, <2>3 DEF Mutations
  <1>7. CASE Queueing \/ WindowSlides \/ UNCHANGED vars
    BY <1>5, <1>7 DEF Queueing, enqueueWriteback, Enqueue, RetryTimerFires, WindowSlides,
                      storeVars, historyVars, vars
  <1>8. CASE Operators
    BY <1>3, <1>4, <1>8 DEF Operators
  <1>9. CASE Restart \/ \E w \in Workers : WorkerStep(w)
    BY <1>9, QuarantineWorker, QuarantineRestart DEF Goal
  <1> QED
    BY <1>6, <1>7, <1>8, <1>9 DEF Next

(* Only an ack releases a quarantined operation: no worker, retry, replay,  *)
(* queued task or later boot touches it or calls the provider for it        *)
(* (quarantineBootDeleteStorms).                                            *)
THEOREM QuarantineKeeps == Spec => QuarantineHolds
  <1>1. Init => QuarantineInv
    <2> SUFFICES ASSUME Init PROVE QuarantineInv
      OBVIOUS
    <2>1. disk.ops = ops /\ workers = [w \in Workers |-> Idle]
      BY DEF Init, Snapshot
    <2> QED
      BY <2>1, TypeInit, NoBatches DEF QuarantineInv, QuarantineKnown, InFlight
  <1>2. QuarantineInv /\ [Next]_vars =>
          QuarantineInv' /\ [\A o \in OpIds :
             (ops[o] # NoOp /\ ops[o].status = "quarantined") =>
               \/ ops'[o] = ops[o] /\ calls'[o] = calls[o]
               \/ \E success \in BOOLEAN : AcknowledgeWriteback(o, success)]_vars
    BY QuarantineStep
  <1> QED
    BY <1>1, <1>2, PTL DEF Spec, QuarantineHolds

-----------------------------------------------------------------------------
(* One attempt at a time *)

Waits(o) == toEnqueue[o] + timers[o]
Queued(o) == o \in Range(queue) \cup blocked
Once(s, o) == \A i, j \in DOMAIN s : i # j => s[i] # o \/ s[j] # o

(* An operation is carried in one place, and only while it is armed in      *)
(* memory and on disk.                                                      *)
OneCarrierOf(o) ==
    /\ Waits(o) <= 1
    /\ Queued(o) => Waits(o) = 0
    /\ \A w \in Workers :
         /\ Once(Batch(w), o)
         /\ o \in Range(Batch(w)) =>
              /\ Waits(o) = 0 /\ ~Queued(o)
              /\ \A v \in Workers \ {w} : o \notin Range(Batch(v))
    /\ Carried(o) => Armed(ops[o]) /\ Armed(disk.ops[o])

OneCarrier == \A o \in OpIds \ acked : OneCarrierOf(o)

CarrierInv == TaskInv /\ OneCarrier

(* Carried, by place. *)
LEMMA CarriedBy ==
    ASSUME TypeOK, NEW o \in OpIds
    PROVE  /\ Waits(o) \in Nat /\ toEnqueue[o] \in Nat /\ timers[o] \in Nat
           /\ Carried(o) <=> \/ Waits(o) > 0 \/ Queued(o)
                             \/ \E w \in Workers : o \in Range(Batch(w))
  <1>1. toEnqueue[o] \in Nat /\ timers[o] \in Nat
    BY DEF TypeOK
  <1>2. Waits(o) > 0 <=> toEnqueue[o] > 0 \/ timers[o] > 0
    BY <1>1 DEF Waits
  <1> QED
    BY <1>1, <1>2 DEF Waits, Carried, Queued

(* The same, after a step. *)
LEMMA CarriedByNext ==
    ASSUME TypeOK', NEW o \in OpIds
    PROVE  /\ Waits(o)' \in Nat /\ toEnqueue'[o] \in Nat /\ timers'[o] \in Nat
           /\ Carried(o)' <=> \/ Waits(o)' > 0 \/ Queued(o)'
                              \/ \E w \in Workers : o \in Range(Batch(w))'
  <1>1. toEnqueue'[o] \in Nat /\ timers'[o] \in Nat
    BY DEF TypeOK
  <1>2. Waits(o)' > 0 <=> toEnqueue'[o] > 0 \/ timers'[o] > 0
    BY <1>1 DEF Waits
  <1> QED
    BY <1>1, <1>2 DEF Waits, Carried, Queued

(* A step that carries an operation nowhere new and leaves it armed where   *)
(* it was keeps its carrier.                                                *)
LEMMA CarrierLess ==
    ASSUME TypeOK, TypeOK', NEW o \in OpIds, OneCarrierOf(o),
           Waits(o)' <= Waits(o), Queued(o)' => Queued(o),
           \A w \in Workers : /\ Once(Batch(w), o) => Once(Batch(w), o)'
                              /\ o \in Range(Batch(w))' => o \in Range(Batch(w)),
           Carried(o) => Armed(ops'[o]) /\ Armed(disk'.ops[o])
    PROVE  OneCarrierOf(o)'
  <1>1. Waits(o) \in Nat /\ Waits(o)' \in Nat
    BY CarriedBy, CarriedByNext
  <1>2. Carried(o)' => Carried(o)
    BY <1>1, CarriedBy, CarriedByNext
  <1>3. Waits(o)' <= 1 /\ (Waits(o) = 0 => Waits(o)' = 0)
    BY <1>1 DEF OneCarrierOf
  <1> QED
    BY <1>2, <1>3 DEF OneCarrierOf

(* An operation nobody carried gets a call of enqueueWriteback or a timer.  *)
LEMMA CarrierArmed ==
    ASSUME TypeOK', NEW o \in OpIds,
           Waits(o)' <= 1, ~Queued(o)', \A w \in Workers : o \notin Range(Batch(w))',
           Waits(o)' > 0 => Armed(ops'[o]) /\ Armed(disk'.ops[o])
    PROVE  OneCarrierOf(o)'
  <1>1. \A w \in Workers : Once(Batch(w), o)'
    BY DEF Once, Range
  <1> QED
    BY <1>1, CarriedByNext DEF OneCarrierOf

(* Nothing but the store changed, and the operation is armed as it was. *)
LEMMA CarrierStore ==
    ASSUME TypeOK, TypeOK', NEW o \in OpIds, OneCarrierOf(o),
           UNCHANGED <<queue, blocked, workers>>,
           toEnqueue'[o] = toEnqueue[o], timers'[o] = timers[o],
           ops'[o] = ops[o], disk'.ops[o] = disk.ops[o] \/ disk'.ops[o] = ops[o]
    PROVE  OneCarrierOf(o)'
  <1>1. Waits(o)' = Waits(o) /\ Waits(o) \in Nat
    BY CarriedBy DEF Waits
  <1>2. /\ Queued(o)' = Queued(o)
        /\ \A w \in Workers : Batch(w)' = Batch(w)
    BY DEF Queued, Batch
  <1>3. Carried(o) => Armed(ops'[o]) /\ Armed(disk'.ops[o])
    BY DEF OneCarrierOf
  <1> QED
    BY <1>1, <1>2, <1>3, CarrierLess DEF Once

(* A new operation is carried by its first call of enqueueWriteback. *)
LEMMA CarrierMutation ==
    ASSUME CarrierInv, TypeOK', NEW p \in Paths, NEW a \in Action, recordWrite(p, a), Save,
           NEW e \in OpIds, e \notin acked'
    PROVE  OneCarrierOf(e)'
  <1>1. /\ TypeOK /\ TypeInv /\ Recorded /\ opCounter \in Nat
        /\ toEnqueue \in [OpIds -> Nat] /\ timers \in [OpIds -> Nat] /\ ops \in OpMap
    BY OpFacts DEF CarrierInv, TaskInv, TypeOK
  <1>2. PICK o \in OpIds :
          /\ o = opCounter + 1 /\ ops' = [ops EXCEPT ![o] = NewOp(p, a)]
          /\ toEnqueue' = Calls(toEnqueue, o)
          /\ UNCHANGED <<queue, blocked, workers, timers, acked>>
          /\ disk'.ops = ops'
    BY DEF recordWrite, queueVars, historyVars, Save, Snapshot
  <1>3. /\ toEnqueue'[o] = toEnqueue[o] + 1 /\ ops'[o].status = "pending"
        /\ \A y \in OpIds \ {o} : toEnqueue'[y] = toEnqueue[y] /\ ops'[y] = ops[y]
    <2>1. /\ Calls(toEnqueue, o)[o] = toEnqueue[o] + 1
          /\ \A y \in OpIds \ {o} : Calls(toEnqueue, o)[y] = toEnqueue[y]
      BY <1>1 DEF Calls
    <2>2. ops'[o] = NewOp(p, a) /\ \A y \in OpIds \ {o} : ops'[y] = ops[y]
      BY <1>1, <1>2 DEF OpMap
    <2> QED
      BY <1>2, <2>1, <2>2 DEF NewOp
  <1>4. ~Carried(o)
    BY <1>1, <1>2 DEF Recorded
  <1>5. CASE e = o
    <2>1. Waits(o) = 0 /\ ~Queued(o) /\ (\A w \in Workers : o \notin Range(Batch(w)))
          /\ toEnqueue[o] = 0 /\ timers[o] = 0
      <3>1. /\ toEnqueue[o] \in Nat /\ timers[o] \in Nat
            /\ ~(toEnqueue[o] > 0) /\ ~(timers[o] > 0)
            /\ ~Queued(o) /\ \A w \in Workers : o \notin Range(Batch(w))
        BY <1>1, <1>2, <1>4 DEF Carried, Queued
      <3> QED
        BY <3>1 DEF Waits
    <2>2. Waits(o)' = 1 /\ ~Queued(o)' /\ \A w \in Workers : o \notin Range(Batch(w))'
      BY <1>2, <1>3, <2>1 DEF Waits, Queued, Batch
    <2> QED
      BY <1>2, <1>3, <1>5, <2>2, CarrierArmed DEF Armed
  <1>6. CASE e # o
    BY <1>1, <1>2, <1>3, <1>6, CarrierStore DEF CarrierInv, OneCarrier
  <1> QED
    BY <1>5, <1>6

(* An ack gives up the claim; a replay finds its operation uncarried. *)
LEMMA CarrierOperator ==
    ASSUME CarrierInv, TypeOK', NEW o \in OpIds,
           (\E s \in BOOLEAN : AcknowledgeWriteback(o, s)) \/ ReplayOperation(o),
           NEW e \in OpIds, e \notin acked'
    PROVE  OneCarrierOf(e)'
  <1>1. /\ TypeOK /\ TypeInv /\ ops \in OpMap
        /\ toEnqueue \in [OpIds -> Nat] /\ timers \in [OpIds -> Nat]
    BY OpFacts DEF CarrierInv, TaskInv, TypeOK
  <1>2. ASSUME NEW s \in BOOLEAN, AcknowledgeWriteback(o, s)
        PROVE  OneCarrierOf(e)'
    <2>1. /\ UNCHANGED <<queue, blocked, workers, timers, toEnqueue>>
          /\ acked' = acked \cup {o} /\ disk'.ops = ops'
          /\ \E x : ops' = [ops EXCEPT ![o] = x]
      BY <1>2 DEF AcknowledgeWriteback, queueVars, Save, Snapshot
    <2>2. e # o /\ e \in OpIds \ acked /\ ops'[e] = ops[e]
      BY <1>1, <2>1 DEF OpMap
    <2> QED
      BY <1>1, <2>1, <2>2, CarrierStore DEF CarrierInv, OneCarrier
  <1>3. CASE ReplayOperation(o)
    <2>1. /\ UNCHANGED <<queue, blocked, workers, timers, acked>>
          /\ toEnqueue' = Calls(toEnqueue, o) /\ disk'.ops = ops'
          /\ ops[o] # NoOp /\ ops[o].status = "dead_lettered"
          /\ ops' = [ops EXCEPT ![o].status = "pending", ![o].attempts = 0,
                                ![o].due = FALSE]
      BY <1>3 DEF ReplayOperation, queueVars, Save, Snapshot
    <2>2. /\ toEnqueue'[o] = toEnqueue[o] + 1 /\ ops'[o].status = "pending"
          /\ \A y \in OpIds \ {o} : toEnqueue'[y] = toEnqueue[y] /\ ops'[y] = ops[y]
      BY <1>1, <2>1, CountType DEF OpMap, Op
    <2>3. CASE e = o
      <3>1. ~Carried(o)
        BY <2>1, <2>3 DEF CarrierInv, OneCarrier, OneCarrierOf, Armed
      <3>2. /\ Waits(o) \in Nat /\ ~(Waits(o) > 0) /\ ~Queued(o)
            /\ \A w \in Workers : o \notin Range(Batch(w))
            /\ toEnqueue[o] \in Nat /\ timers[o] \in Nat
        BY <1>1, <3>1, CarriedBy
      <3>3. Waits(o)' = 1
        BY <2>1, <2>2, <3>2 DEF Waits
      <3>4. ~Queued(o)' /\ \A w \in Workers : o \notin Range(Batch(w))'
        BY <2>1, <3>2 DEF Queued, Batch
      <3>5. Armed(ops'[o]) /\ Armed(disk'.ops[o])
        BY <2>1, <2>2 DEF Armed
      <3>6. OneCarrierOf(o)'
        BY <3>3, <3>4, <3>5, CarrierArmed
      <3> QED
        BY <2>3, <3>6
    <2>4. CASE e # o
      BY <1>1, <2>1, <2>2, <2>4, CarrierStore DEF CarrierInv, OneCarrier
    <2> QED
      BY <2>3, <2>4
  <1> QED
    BY <1>2, <1>3

(* Between timers, calls and the queue a task has one place. *)
LEMMA CarrierQueueing ==
    ASSUME CarrierInv, TypeOK', Queueing, NEW e \in OpIds, e \notin acked'
    PROVE  OneCarrierOf(e)'
  <1>1. PICK o \in OpIds : enqueueWriteback(o) \/ Enqueue(o) \/ RetryTimerFires(o)
    BY DEF Queueing
  <1>2. /\ TypeOK /\ TypeInv /\ queue \in Seq(OpIds)
        /\ toEnqueue \in [OpIds -> Nat] /\ timers \in [OpIds -> Nat]
    BY OpFacts DEF CarrierInv, TaskInv, TypeOK
  <1>8. /\ \A y \in OpIds : toEnqueue[y] \in Nat /\ timers[y] \in Nat
        /\ Calls(toEnqueue, o)[o] = toEnqueue[o] + 1
        /\ toEnqueue[o] > 0 => Returns(toEnqueue, o)[o] = toEnqueue[o] - 1
        /\ timers[o] > 0 => Returns(timers, o)[o] = timers[o] - 1
        /\ \A y \in OpIds \ {o} : /\ Calls(toEnqueue, o)[y] = toEnqueue[y]
                                  /\ Returns(toEnqueue, o)[y] = toEnqueue[y]
                                  /\ Returns(timers, o)[y] = timers[y]
    <2>1. \A y \in OpIds : toEnqueue[y] \in Nat /\ timers[y] \in Nat
      BY <1>2
    <2>2. /\ Calls(toEnqueue, o)[o] = toEnqueue[o] + 1
          /\ \A y \in OpIds \ {o} : /\ Calls(toEnqueue, o)[y] = toEnqueue[y]
                                    /\ Returns(toEnqueue, o)[y] = toEnqueue[y]
      BY <1>2 DEF Calls, Returns
    <2>3. toEnqueue[o] > 0 => Returns(toEnqueue, o)[o] = toEnqueue[o] - 1
      BY <1>2 DEF Calls, Returns
    <2>4. /\ timers[o] > 0 => Returns(timers, o)[o] = timers[o] - 1
          /\ \A y \in OpIds \ {o} : Returns(timers, o)[y] = timers[y]
      BY <1>2 DEF Calls, Returns
    <2> QED
      BY <2>1, <2>2, <2>3, <2>4
  <1>9. Range(Append(queue, o)) = Range(queue) \cup {o}
    BY <1>2, AppendRange
  <1>3. UNCHANGED <<ops, disk, workers, acked>> /\ OneCarrierOf(e) /\ e \in OpIds
    BY <1>1 DEF enqueueWriteback, Enqueue, RetryTimerFires, storeVars, historyVars,
                CarrierInv, OneCarrier
  <1>4. /\ Waits(e) \in Nat
        /\ \A w \in Workers : Batch(w)' = Batch(w)
        /\ Carried(e) => Armed(ops'[e]) /\ Armed(disk'.ops[e])
    BY <1>2, <1>3, CarriedBy DEF Batch, OneCarrierOf
  <1>10. \A w \in Workers : /\ Once(Batch(w), e) => Once(Batch(w), e)'
                            /\ e \in Range(Batch(w))' => e \in Range(Batch(w))
    BY <1>4 DEF Once
  <1>11. TypeOK /\ TypeOK' /\ OneCarrierOf(e)
    BY <1>2, <1>3
  <1>5. CASE enqueueWriteback(o)
    <2>1. /\ toEnqueue[o] > 0 /\ toEnqueue' = Returns(toEnqueue, o) /\ timers' = timers
          /\ queue' = queue \/ queue' = Append(queue, o)
          /\ blocked' = blocked \/ blocked' = blocked \cup {o}
      BY <1>5 DEF enqueueWriteback
    <2>2. /\ toEnqueue'[o] = toEnqueue[o] - 1
          /\ \A y \in OpIds \ {o} : toEnqueue'[y] = toEnqueue[y]
      BY <1>8, <2>1
    <2>3. Range(queue') \subseteq Range(queue) \cup {o}
      BY <1>9, <2>1
    <2>4. CASE e = o
      <3>1. /\ toEnqueue[o] \in Nat /\ timers[o] \in Nat /\ Waits(o) <= 1
            /\ \A w \in Workers : o \in Range(Batch(w)) => Waits(o) = 0
        BY <1>2, <1>3, <2>4 DEF OneCarrierOf
      <3>2. Waits(o) = 1 /\ Waits(o)' = 0
        BY <2>1, <2>2, <3>1 DEF Waits
      <3>3. \A w \in Workers : o \notin Range(Batch(w))' /\ Once(Batch(w), o)'
        BY <1>4, <3>1, <3>2 DEF Once, Range
      <3>4. Carried(o)
        BY <2>1 DEF Carried
      <3> QED
        BY <1>4, <2>4, <3>2, <3>3, <3>4 DEF OneCarrierOf
    <2>5. CASE e # o
      <3>1. Waits(e)' = Waits(e) /\ (Queued(e)' => Queued(e))
        BY <1>3, <2>1, <2>2, <2>3, <2>5 DEF Waits, Queued
      <3>2. Waits(e)' <= Waits(e)
        BY <1>4, <3>1
      <3> QED
        BY <1>4, <1>10, <1>11, <3>1, <3>2, CarrierLess
    <2> QED
      BY <2>4, <2>5
  <1>6. CASE Enqueue(o)
    <2>1. /\ o \in blocked /\ queue' = Append(queue, o) /\ blocked' \subseteq blocked
          /\ UNCHANGED <<toEnqueue, timers>>
      BY <1>6 DEF Enqueue
    <2>2. Waits(e)' = Waits(e) /\ (Queued(e)' => Queued(e))
      BY <1>9, <2>1 DEF Waits, Queued
    <2>3. Waits(e)' <= Waits(e)
      BY <1>4, <2>2
    <2> QED
      BY <1>4, <1>10, <1>11, <2>2, <2>3, CarrierLess
  <1>7. CASE RetryTimerFires(o)
    <2>1. /\ timers[o] > 0 /\ UNCHANGED <<queue, blocked>>
          /\ toEnqueue' = Calls(toEnqueue, o) /\ timers' = Returns(timers, o)
      BY <1>7 DEF RetryTimerFires, queueVars
    <2>2. /\ toEnqueue'[o] = toEnqueue[o] + 1 /\ timers'[o] = timers[o] - 1
          /\ \A y \in OpIds \ {o} : toEnqueue'[y] = toEnqueue[y] /\ timers'[y] = timers[y]
      BY <1>8, <2>1
    <2>3. Waits(e)' = Waits(e)
      BY <1>3, <1>8, <2>2 DEF Waits
    <2>4. Waits(e)' <= Waits(e) /\ (Queued(e)' => Queued(e))
      BY <1>4, <2>1, <2>3 DEF Queued
    <2> QED
      BY <1>4, <1>10, <1>11, <2>4, CarrierLess
  <1> QED
    BY <1>1, <1>5, <1>6, <1>7

(* A worker that keeps or shortens its burst. *)
LEMMA CarrierWorker ==
    ASSUME CarrierInv, TypeOK', NEW w \in Workers,
           workers' = [workers EXCEPT ![w] = workers'[w]],
           UNCHANGED <<queue, blocked, toEnqueue, timers, ops>>,
           disk' = disk \/ disk'.ops = ops',
           NEW e \in OpIds, e \notin acked,
           Once(Batch(w), e) => Once(Batch(w), e)',
           e \in Range(Batch(w))' => e \in Range(Batch(w))
    PROVE  OneCarrierOf(e)'
  <1>1. TypeOK /\ TypeOK' /\ OneCarrierOf(e)
    BY OpFacts DEF CarrierInv, TaskInv, OneCarrier
  <1>2. \A v \in Workers \ {w} : workers'[v] = workers[v]
    BY <1>1 DEF TypeOK
  <1>3. \A v \in Workers \ {w} : Batch(v)' = Batch(v)
    BY <1>2 DEF Batch
  <1>4. \A v \in Workers : /\ Once(Batch(v), e) => Once(Batch(v), e)'
                           /\ e \in Range(Batch(v))' => e \in Range(Batch(v))
    BY <1>3 DEF Once
  <1>5. Waits(e)' = Waits(e) /\ Waits(e) \in Nat /\ (Queued(e)' => Queued(e))
    BY <1>1, CarriedBy DEF Waits, Queued
  <1>6. Waits(e)' <= Waits(e)
    BY <1>5
  <1>7. Carried(e) => Armed(ops'[e]) /\ Armed(disk'.ops[e])
    BY <1>1 DEF OneCarrierOf
  <1> QED
    BY <1>1, <1>4, <1>5, <1>6, <1>7, CarrierLess

(* The head of the queue goes to the worker, and to nobody else. *)
LEMMA CarrierDequeue ==
    ASSUME CarrierInv, TypeOK', NEW w \in Workers, Dequeue(w),
           NEW e \in OpIds, e \notin acked
    PROVE  OneCarrierOf(e)'
  <1>1. TypeOK /\ TypeOK' /\ OneCarrierOf(e) /\ OneTask /\ queue \in Seq(OpIds)
    BY OpFacts DEF CarrierInv, TaskInv, OneCarrier, TypeOK
  <1>2. PICK h \in OpIds :
          /\ Range(queue) = Range(queue') \cup {h} /\ h \notin Range(queue')
          /\ \E k : /\ workers' = [workers EXCEPT ![w] = k]
                    /\ k.pc = "dequeued" /\ k.batch = Append(Batch(w), h)
    <2>1. queue # <<>> /\ queue' = Tail(queue)
      BY DEF Dequeue
    <2>2. /\ Head(queue) \in OpIds
          /\ Range(queue) = Range(queue') \cup {Head(queue)}
          /\ Head(queue) \notin Range(queue')
      BY <1>1, <2>1, TailRange DEF OneTask
    <2>3. workers' = [workers EXCEPT ![w] =
             [pc |-> "dequeued", dirty |-> FALSE, batch |-> Append(Batch(w), Head(queue))]]
      BY <1>1 DEF Dequeue, Batch, TypeOK
    <2> DEFINE k == [pc |-> "dequeued", dirty |-> FALSE,
                     batch |-> Append(Batch(w), Head(queue))]
    <2>4. k.pc = "dequeued" /\ k.batch = Append(Batch(w), Head(queue))
      OBVIOUS
    <2> HIDE DEF k
    <2> QED
      BY <2>2, <2>3, <2>4 DEF k
  <1>3. UNCHANGED <<blocked, toEnqueue, timers, ops, disk>>
    BY DEF Dequeue, storeVars
  <1>4. /\ Batch(w)' = Append(Batch(w), h) /\ Batch(w) \in Seq(OpIds)
        /\ \A v \in Workers \ {w} : Batch(v)' = Batch(v)
    BY <1>1, <1>2, BatchType DEF Batch, TypeOK
  <1>5. Range(Batch(w))' = Range(Batch(w)) \cup {h}
    BY <1>4, AppendRange
  <1>6. Queued(h) /\ h \notin blocked
    BY <1>1, <1>2 DEF Queued, OneTask
  <1>7. Waits(e)' = Waits(e) /\ Waits(e) \in Nat
    BY <1>1, <1>3, CarriedBy DEF Waits
  <1>8. Carried(e) => Armed(ops'[e]) /\ Armed(disk'.ops[e])
    BY <1>1, <1>3 DEF OneCarrierOf
  <1>9. CASE e = h
    <2>1. Waits(h) = 0 /\ (\A v \in Workers : h \notin Range(Batch(v))) /\ Carried(h)
      BY <1>1, <1>6, <1>9, CarriedBy DEF OneCarrierOf
    <2>2. Waits(h)' = 0 /\ ~Queued(h)'
      BY <1>2, <1>3, <1>6, <1>7, <1>9, <2>1 DEF Queued
    <2>3. \A v \in Workers \ {w} : h \notin Range(Batch(v))' /\ Once(Batch(v), h)'
      BY <1>4, <2>1 DEF Once, Range
    <2>4. Once(Batch(w), h)'
      <3>1. /\ DOMAIN Append(Batch(w), h) = 1..Len(Batch(w)) + 1 /\ Len(Batch(w)) \in Nat
            /\ \A i \in 1..Len(Batch(w)) : Append(Batch(w), h)[i] = Batch(w)[i]
        BY <1>4
      <3>2. \A i \in 1..Len(Batch(w)) : Batch(w)[i] # h
        BY <1>4, <2>1 DEF Range
      <3>3. Once(Append(Batch(w), h), h)
        BY <3>1, <3>2 DEF Once
      <3> QED
        BY <1>4, <3>3 DEF Once
    <2> QED
      BY <1>8, <1>9, <2>1, <2>2, <2>3, <2>4 DEF OneCarrierOf
  <1>10. CASE e # h
    <2>1. Queued(e)' => Queued(e)
      BY <1>2, <1>3 DEF Queued
    <2>2. e \in Range(Batch(w))' => e \in Range(Batch(w))
      BY <1>5, <1>10
    <2>3. Once(Batch(w), e) => Once(Batch(w), e)'
      <3> DEFINE s == Batch(w)
                 n == Len(s)
      <3>1. s \in Seq(OpIds) /\ Batch(w)' = Append(s, h)
        BY <1>4
      <3>2. /\ DOMAIN s = 1..n /\ DOMAIN Append(s, h) = 1..n + 1 /\ n \in Nat
            /\ \A i \in 1..n : Append(s, h)[i] = s[i]
            /\ Append(s, h)[n + 1] = h
        BY <3>1
      <3>3. Once(s, e) => Once(Append(s, h), e)
        <4> HIDE DEF s, n
        <4> QED
          BY <1>10, <3>2 DEF Once
      <3>4. Once(Batch(w), e)' <=> Once(Append(s, h), e)
        BY <3>1 DEF Once
      <3> QED
        BY <3>3, <3>4
    <2>4. \A v \in Workers : /\ Once(Batch(v), e) => Once(Batch(v), e)'
                             /\ e \in Range(Batch(v))' => e \in Range(Batch(v))
      BY <1>4, <2>2, <2>3 DEF Once
    <2>5. Waits(e)' <= Waits(e)
      BY <1>7
    <2> QED
      BY <1>1, <1>8, <2>1, <2>4, <2>5, CarrierLess
  <1> QED
    BY <1>9, <1>10

(* A recorded outcome ends the task, or hands it to the retry timer. *)
LEMMA CarrierRecord ==
    ASSUME CarrierInv, TypeOK', NEW w \in Workers, RecordOutcome(w),
           NEW e \in OpIds, e \notin acked
    PROVE  OneCarrierOf(e)'
  <1> DEFINE wk == workers[w]
             retry == ~wk.ok /\ wk.attempt < MaxAttempts
  <1>1. /\ TypeOK /\ TypeOK' /\ OneCarrierOf(e) /\ WorkersBusy /\ TypeInv
        /\ wk \in WorkerState /\ ops \in OpMap /\ timers \in [OpIds -> Nat]
    BY OpFacts DEF CarrierInv, TaskInv, OneCarrier, TypeOK
  <1>2. /\ wk.pc = "answered" /\ wk.batch # <<>> /\ wk.batch \in Seq(OpIds)
        /\ Batch(w) = wk.batch
    BY <1>1, WorkerKinds DEF RecordOutcome, WorkersBusy, Batch
  <1>3. PICK o \in OpIds :
          /\ o = Head(wk.batch) /\ Range(wk.batch) = Range(Tail(wk.batch)) \cup {o}
          /\ Once(wk.batch, e) => /\ e = o => e \notin Range(Tail(wk.batch))
                                  /\ Once(Tail(wk.batch), e)
    BY <1>2, TailRange DEF Once
  <1>4. /\ timers' = IF retry THEN Calls(timers, o) ELSE timers
        /\ UNCHANGED <<queue, blocked, toEnqueue, disk>>
        /\ Batch(w)' = Tail(wk.batch)
        /\ \A v \in Workers \ {w} : Batch(v)' = Batch(v)
    BY <1>1, <1>3 DEF RecordOutcome, queueVars, Batch, TypeOK
  <1>5. /\ \A y \in OpIds \ {o} : ops'[y] = ops[y]
        /\ retry => ops'[o].status = "pending"
    <2> DEFINE st == IF wk.ok THEN "succeeded"
                     ELSE IF retry THEN "pending" ELSE "dead_lettered"
    <2>1. ops' = [ops EXCEPT ![o].attempts = wk.attempt, ![o].due = retry,
                             ![o].status = st]
      BY <1>3 DEF RecordOutcome
    <2>2. ops[o] \in Op
      BY <1>1, <1>2, <1>3, OpFacts DEF Carried
    <2>3. retry => st = "pending"
      OBVIOUS
    <2> HIDE DEF st, retry
    <2> QED
      BY <1>1, <2>1, <2>2, <2>3 DEF OpMap, Op
  <1> HIDE DEF retry
  <1>6. /\ Calls(timers, o)[o] = timers[o] + 1
        /\ \A y \in OpIds \ {o} : Calls(timers, o)[y] = timers[y]
    BY <1>1 DEF Calls
  <1>7. Queued(e)' = Queued(e)
    BY <1>4 DEF Queued
  <1>8. CASE e = o
    <2>1. /\ e \in Range(Batch(w)) /\ Once(wk.batch, e)
          /\ Carried(e) /\ Waits(e) = 0 /\ ~Queued(e)
          /\ \A v \in Workers \ {w} : e \notin Range(Batch(v))
          /\ Armed(disk.ops[e])
      BY <1>1, <1>2, <1>3, <1>8 DEF OneCarrierOf, Carried
    <2>2. \A v \in Workers : e \notin Range(Batch(v))'
      BY <1>3, <1>4, <1>8, <2>1
    <2>3. toEnqueue[e] \in Nat /\ timers[e] \in Nat /\ toEnqueue[e] + timers[e] = 0
      BY <1>1, <2>1, CarriedBy DEF Waits
    <2>4. Waits(e)' = IF retry THEN 1 ELSE 0
      BY <1>4, <1>6, <1>8, <2>3 DEF Waits
    <2>5. retry => Armed(ops'[e]) /\ Armed(disk'.ops[e])
      BY <1>4, <1>5, <1>8, <2>1 DEF Armed
    <2> QED
      BY <1>1, <1>7, <2>1, <2>2, <2>4, <2>5, CarrierArmed
  <1>9. CASE e # o
    <2>1. timers'[e] = timers[e] /\ ops'[e] = ops[e]
      BY <1>4, <1>5, <1>6, <1>9
    <2>2. Waits(e)' = Waits(e) /\ Waits(e) \in Nat
      BY <1>1, <1>4, <2>1, CarriedBy DEF Waits
    <2>3. Waits(e)' <= Waits(e)
      BY <2>2
    <2>4. Carried(e) => Armed(ops'[e]) /\ Armed(disk'.ops[e])
      BY <1>1, <1>4, <2>1 DEF OneCarrierOf
    <2>5. \A v \in Workers : /\ Once(Batch(v), e) => Once(Batch(v), e)'
                             /\ e \in Range(Batch(v))' => e \in Range(Batch(v))
      <3>1. Once(Batch(w), e) => Once(Batch(w), e)'
        BY <1>2, <1>3, <1>4 DEF Once
      <3> QED
        BY <1>2, <1>3, <1>4, <3>1 DEF Once
    <2> QED
      BY <1>1, <1>7, <2>3, <2>4, <2>5, CarrierLess
  <1> QED
    BY <1>8, <1>9

(* No step of a worker gives an operation a second carrier. *)
LEMMA CarrierWorkerStep ==
    ASSUME CarrierInv, TypeOK', NEW w \in Workers, WorkerStep(w),
           NEW e \in OpIds, e \notin acked
    PROVE  OneCarrierOf(e)'
  <1> DEFINE wk == workers[w]
             k  == workers'[w]
  <1>1. TypeOK /\ WorkersBusy /\ wk \in WorkerState
    BY OpFacts DEF CarrierInv, TaskInv, TypeOK
  <1>2. ASSUME workers' = [workers EXCEPT ![w] = k], Batch(w)' = Batch(w),
               UNCHANGED <<queue, blocked, toEnqueue, timers, ops>>,
               disk' = disk \/ disk'.ops = ops'
        PROVE  OneCarrierOf(e)'
    BY <1>2, CarrierWorker DEF Once
  <1>3. CASE markWritebackDequeued(w) \/ DrainEnds(w)
    <2>1. wk.pc \in {"dequeued", "draining"}
      BY <1>3 DEF markWritebackDequeued, DrainEnds
    <2>2. wk \in [pc : {"dequeued", "draining", "ready"},
                  batch : Seq(OpIds), dirty : BOOLEAN]
      BY <1>1, <2>1, WorkerKinds
    <2>3. /\ UNCHANGED <<queue, blocked, toEnqueue, timers, ops, disk>>
          /\ \E p \in {"draining", "ready"} : workers' = [workers EXCEPT ![w].pc = p]
      BY <1>3 DEF markWritebackDequeued, DrainEnds, storeVars, queueVars
    <2>4. k.pc # "idle" /\ k.batch = wk.batch /\ workers' = [workers EXCEPT ![w] = k]
      BY <1>1, <2>2, <2>3 DEF TypeOK
    <2>5. Batch(w)' = Batch(w)
      BY <2>1, <2>4 DEF Batch
    <2> QED
      BY <1>2, <2>3, <2>4, <2>5
  <1>4. CASE PrepareCall(w)
    <2>1. /\ wk.pc = "ready" /\ wk.batch # <<>>
          /\ UNCHANGED <<queue, blocked, toEnqueue, timers, ops, disk>>
      BY <1>4 DEF PrepareCall, storeVars, queueVars
    <2>2. /\ wk \in [pc : {"dequeued", "draining", "ready"},
                     batch : Seq(OpIds), dirty : BOOLEAN]
          /\ Batch(w) = wk.batch
      BY <1>1, <2>1, WorkerKinds DEF Batch
    <2>3. /\ workers' = [workers EXCEPT ![w] = k]
          /\ Batch(w)' \in {wk.batch, Tail(wk.batch)}
      <3>1. CASE Armed(ops[Head(wk.batch)])
        BY <1>1, <1>4, <3>1 DEF PrepareCall, TypeOK, Batch
      <3>2. CASE ~Armed(ops[Head(wk.batch)])
        <4>1. workers' = [workers EXCEPT ![w].batch = Tail(wk.batch)]
          BY <1>4, <3>2 DEF PrepareCall
        <4>2. /\ k.pc = "ready" /\ k.batch = Tail(wk.batch)
              /\ workers' = [workers EXCEPT ![w] = k]
          BY <1>1, <2>1, <2>2, <4>1 DEF TypeOK
        <4> QED
          BY <4>2 DEF Batch
      <3> QED
        BY <3>1, <3>2
    <2>4. CASE Batch(w)' = Tail(wk.batch)
      <3>1. Range(Tail(wk.batch)) \subseteq Range(wk.batch)
            /\ (Once(wk.batch, e) => Once(Tail(wk.batch), e))
        BY <2>1, <2>2, TailRange DEF Once
      <3>2. /\ Once(Batch(w), e) => Once(Batch(w), e)'
            /\ e \in Range(Batch(w))' => e \in Range(Batch(w))
        BY <2>2, <2>4, <3>1 DEF Once
      <3> QED
        BY <2>1, <2>3, <3>2, CarrierWorker
    <2> QED
      BY <1>2, <2>1, <2>2, <2>3, <2>4
  <1>5. ASSUME NEW ok \in BOOLEAN, ProviderWrite(w, ok) PROVE OneCarrierOf(e)'
    <2>1. /\ UNCHANGED <<queue, blocked, toEnqueue, timers, ops, disk>>
          /\ wk.pc = "calling" /\ k.pc = "answered" /\ k.batch = wk.batch
          /\ workers' = [workers EXCEPT ![w] = k]
      BY <1>1, <1>5 DEF ProviderWrite, storeVars, queueVars, TypeOK
    <2>2. Batch(w)' = Batch(w)
      BY <2>1 DEF Batch
    <2> QED
      BY <1>2, <2>1, <2>2
  <1>6. CASE SaveOutcome(w)
    <2>1. /\ wk.pc = "ready" /\ wk.batch = <<>> /\ workers' = [workers EXCEPT ![w] = Idle]
          /\ UNCHANGED <<queue, blocked, toEnqueue, timers, ops>>
          /\ disk' = disk \/ disk'.ops = ops'
      BY <1>6 DEF SaveOutcome, storeVars, queueVars, Save, Snapshot
    <2>2. k = Idle
      BY <1>1, <2>1 DEF TypeOK
    <2>3. Batch(w)' = Batch(w)
      BY <2>1, <2>2 DEF Batch, Idle
    <2> QED
      BY <1>2, <2>1, <2>2, <2>3
  <1> QED
    BY <1>3, <1>4, <1>5, <1>6, CarrierDequeue, CarrierRecord DEF WorkerStep

(* A boot starts from an empty queue and gives each armed operation one     *)
(* call or one timer.                                                       *)
LEMMA CarrierRestart ==
    ASSUME FileQueue = FALSE, TypeOK', Restart, NEW e \in OpIds
    PROVE  OneCarrierOf(e)'
  <1>1. /\ queue' = <<>> /\ blocked' = {} /\ disk'.ops = ops'
        /\ workers' = [w \in Workers |-> Idle]
    BY DEF Restart, Save, Snapshot
  <1>2. PICK later \in SUBSET ArmedOps(ops') :
          toEnqueue' = Count(ArmedOps(ops') \ later) /\ timers' = Count(later)
    BY DEF Restart, BootScan
  <1>3. ~Queued(e)' /\ \A w \in Workers : e \notin Range(Batch(w))'
    BY <1>1, NoBatchesNext DEF Queued, Range
  <1>4. /\ Waits(e)' <= 1
        /\ Waits(e)' > 0 => e \in ArmedOps(ops')
    BY <1>2 DEF Waits, Count
  <1>5. Waits(e)' > 0 => Armed(ops'[e]) /\ Armed(disk'.ops[e])
    BY <1>1, <1>4 DEF ArmedOps
  <1> QED
    BY <1>3, <1>4, <1>5, CarrierArmed

(* The first boot gives each armed operation one carrier. *)
LEMMA CarrierInit == Init => CarrierInv
  <1> SUFFICES ASSUME Init, NEW e \in OpIds PROVE OneCarrierOf(e)
    BY TaskInit DEF CarrierInv, OneCarrier
  <1>1. TypeOK
    BY TypeInit, OpFacts
  <1>2. /\ queue = <<>> /\ blocked = {} /\ disk.ops = ops
        /\ workers = [w \in Workers |-> Idle]
        /\ toEnqueue = Count(ArmedOps(ops)) /\ timers = Count({})
    BY DEF Init, Snapshot
  <1>3. ~Queued(e) /\ \A w \in Workers : e \notin Range(Batch(w)) /\ Once(Batch(w), e)
    BY <1>2, NoBatches DEF Queued, Range, Once
  <1>4. /\ Waits(e) <= 1
        /\ Waits(e) > 0 => e \in ArmedOps(ops)
    BY <1>2 DEF Waits, Count
  <1>5. Waits(e) > 0 => Armed(ops[e]) /\ Armed(disk.ops[e])
    BY <1>2, <1>4 DEF ArmedOps
  <1> QED
    BY <1>1, <1>3, <1>4, <1>5, CarriedBy DEF OneCarrierOf

(* With the in-memory queue no step gives an operation a second carrier. *)
LEMMA CarrierStep ==
    ASSUME FileQueue = FALSE, CarrierInv, [Next]_vars
    PROVE  CarrierInv'
  <1>1. TaskInv' /\ TypeOK /\ TypeOK'
    BY TaskStep, OpFacts DEF CarrierInv, TaskInv, TypeInv
  <1> SUFFICES ASSUME NEW e \in OpIds, e \notin acked' PROVE OneCarrierOf(e)'
    BY <1>1 DEF CarrierInv, OneCarrier
  <1>2. ASSUME UNCHANGED <<ops, disk, queueVars, toEnqueue, timers, workers, acked>>
        PROVE  OneCarrierOf(e)'
    BY <1>1, <1>2, CarrierStore DEF queueVars, CarrierInv, OneCarrier
  <1>3. CASE Mutations
    <2>1. ASSUME NEW p \in Paths, NEW c \in Values, WriteFile(p, c)
          PROVE  OneCarrierOf(e)'
      BY <1>1, <2>1, CarrierMutation DEF WriteFile, Action
    <2>2. ASSUME NEW p \in Paths, DeleteFile(p) PROVE OneCarrierOf(e)'
      BY <1>1, <2>2, CarrierMutation DEF DeleteFile, Action
    <2>3. ASSUME NEW p \in Paths, DeleteFileRejected(p) PROVE OneCarrierOf(e)'
      BY <1>2, <2>3 DEF DeleteFileRejected, storeVars, historyVars
    <2> QED
      BY <1>3, <2>1, <2>2, <2>3 DEF Mutations
  <1>4. CASE WindowSlides \/ UNCHANGED vars
    BY <1>2, <1>4 DEF WindowSlides, storeVars, historyVars, vars
  <1>5. CASE Queueing
    BY <1>1, <1>5, CarrierQueueing
  <1>6. ASSUME NEW w \in Workers, WorkerStep(w) PROVE OneCarrierOf(e)'
    <2>1. acked' = acked
      BY <1>6 DEF WorkerStep, Dequeue, markWritebackDequeued, DrainEnds, PrepareCall,
                  ProviderWrite, RecordOutcome, SaveOutcome, historyVars
    <2> QED
      BY <1>1, <1>6, <2>1, CarrierWorkerStep
  <1>7. CASE Operators
    BY <1>1, <1>7, CarrierOperator DEF Operators
  <1>8. CASE Restart
    BY <1>1, <1>8, CarrierRestart
  <1> QED
    BY <1>3, <1>4, <1>5, <1>6, <1>7, <1>8 DEF Next

(* With the in-memory queue, the provider calls of an operation that nobody *)
(* acknowledges are made one at a time and only while it is armed in memory *)
(* and on disk, whatever timers, replays, restarts and duplicate calls of   *)
(* enqueueWriteback do.  A file queue survives a restart, and the boot scan *)
(* then carries its operations a second time.                               *)
THEOREM OneAttempt == ASSUME FileQueue = FALSE PROVE Spec => []ExclusiveAttempts
  <1>1. CarrierInv => ExclusiveAttempts
    <2> SUFFICES ASSUME CarrierInv PROVE ExclusiveAttempts
      OBVIOUS
    <2>1. TypeOK /\ WorkersBusy
      BY OpFacts DEF CarrierInv, TaskInv
    <2>2. ASSUME NEW w \in Workers, NEW o \in OpIds, InFlight(w, o)
          PROVE  o \in Range(Batch(w))
      <3>1. /\ workers[w] \in WorkerState /\ workers[w].pc \in {"calling", "answered"}
            /\ o = Head(workers[w].batch) /\ workers[w].batch # <<>>
        BY <2>1, <2>2 DEF InFlight, WorkersBusy, TypeOK
      <3>2. workers[w].batch \in Seq(OpIds) /\ Batch(w) = workers[w].batch
        BY <3>1, WorkerKinds DEF Batch
      <3> QED
        BY <3>1, <3>2, TailRange
    <2> QED
      BY <2>2 DEF CarrierInv, OneCarrier, OneCarrierOf, Carried, ExclusiveAttempts
  <1>2. CarrierInv /\ [Next]_vars => CarrierInv'
    BY CarrierStep
  <1> QED
    BY <1>1, <1>2, CarrierInit, PTL DEF Spec
-----------------------------------------------------------------------------
(* The provider converges *)

Mine(p) == {o \in OpIds : ops[o] # NoOp /\ ops[o].path = p}
OnlyUploads(p) == Mine(p) # {} /\ \A o \in Mine(p) : ops[o].action = "file_upsert"

(* An operation that is not known to have succeeded at a worker's hands,    *)
(* or of which a boot may still find another status on disk.                *)
Open(o) ==
    \/ o \in acked
    \/ ops[o].status # "succeeded" /\ disk.ops[o].status # "succeeded"

Behind(p, h) == \E o \in Mine(p) \ {h} : Open(o)

(* A path that was only ever written has a file, and the provider holds its *)
(* content or some operation is open.  The same is said of what a call      *)
(* under way carries, and of what one that has succeeded left: there the    *)
(* open operation is another than the one that is called, so that recording *)
(* the outcome does not close it.                                           *)
Converging(p) ==
    OnlyUploads(p) =>
      /\ files[p] # Absent
      /\ provider[p] = files[p] \/ \E o \in Mine(p) : Open(o)
      /\ \A w \in Workers :
           LET h == Head(workers[w].batch)
           IN  /\ workers[w].pc = "calling" /\ h \in Mine(p) =>
                    workers[w].content = files[p] \/ Behind(p, h)
               /\ workers[w].pc = "answered" /\ workers[w].ok /\ h \in Mine(p) =>
                    provider[p] = files[p] \/ Behind(p, h)

(* Every change of the files is saved with its operation. *)
SameOnDisk ==
    /\ disk.files = files
    /\ \A o \in OpIds : ops[o] # NoOp =>
         disk.ops[o].path = ops[o].path /\ disk.ops[o].action = ops[o].action

ConvergeInv ==
    TypeInv /\ SameOnDisk /\ \A p \in Paths : Converging(p)

(* A step that leaves the path's file, its operations' names and the        *)
(* provider alone, closes no operation and begins no call.                  *)
LEMMA ConvergeKept ==
    ASSUME NEW p \in Paths, Converging(p), files'[p] = files[p],
           provider'[p] = provider[p], Mine(p)' = Mine(p),
           \A o \in Mine(p) : /\ ops'[o].action = ops[o].action
                              /\ Open(o) => Open(o)',
           \A w \in Workers : \/ workers'[w] = workers[w]
                              \/ workers'[w].pc \notin {"calling", "answered"}
    PROVE  Converging(p)'
  <1>1. OnlyUploads(p)' => OnlyUploads(p)
    BY DEF OnlyUploads
  <1>2. \A h : Behind(p, h) => Behind(p, h)'
    BY DEF Behind
  <1> QED
    BY <1>1, <1>2 DEF Converging

(* A mutation opens an operation on its own path. *)
LEMMA ConvergeRecord ==
    ASSUME ConvergeInv, NEW q \in Paths, NEW a \in Action, recordWrite(q, a), Save,
           NEW c \in Values \cup {Absent}, a = "file_upsert" => c # Absent,
           files' = [files EXCEPT ![q] = c]
    PROVE  SameOnDisk' /\ \A p \in Paths : Converging(p)'
  <1>0. PICK n : n = opCounter + 1
    OBVIOUS
  <1>1. /\ TypeOK /\ Recorded /\ WorkersBusy /\ ops \in OpMap /\ opCounter \in Nat
        /\ files \in Files
    BY OpFacts DEF ConvergeInv, TypeOK
  <1>2. /\ n \in OpIds /\ ops' = [ops EXCEPT ![n] = NewOp(q, a)]
        /\ UNCHANGED <<workers, provider, acked>>
        /\ disk'.ops = ops' /\ disk'.files = files'
    BY <1>0 DEF recordWrite, historyVars, Save, Snapshot
  <1>3. /\ ops[n] = NoOp /\ ops'[n] = NewOp(q, a)
        /\ \A x \in OpIds \ {n} : ops'[x] = ops[x]
    BY <1>0, <1>1, <1>2 DEF OpMap, Recorded
  <1>4. /\ ops'[n] # NoOp /\ ops'[n].path = q /\ ops'[n].action = a
        /\ ops'[n].status = "pending"
    <2>1. NewOp(q, a) \in Op
      BY DEF NewOp, Op, Status
    <2>2. NewOp(q, a) # NoOp
      BY <2>1, WritebackAssumption
    <2>3. /\ NewOp(q, a).path = q /\ NewOp(q, a).action = a
          /\ NewOp(q, a).status = "pending"
      BY DEF NewOp
    <2> QED
      BY <1>3, <2>2, <2>3
  <1>5. SameOnDisk'
    BY <1>2 DEF SameOnDisk
  <1>6. \A x \in OpIds \ {n} : Open(x) => Open(x)'
    BY <1>2, <1>3 DEF Open
  <1>7. Open(n)'
    BY <1>2, <1>4 DEF Open
  <1>8. ASSUME NEW p \in Paths, p # q
        PROVE  Converging(p)'
    <2>1. Mine(p)' = Mine(p) /\ n \notin Mine(p)
      BY <1>3, <1>4, <1>8 DEF Mine
    <2>2. Mine(p) \subseteq OpIds \ {n}
      BY <2>1 DEF Mine
    <2>3. files'[p] = files[p]
      BY <1>1, <1>8 DEF Files
    <2> QED
      BY <1>2, <1>3, <1>6, <2>1, <2>2, <2>3, ConvergeKept DEF ConvergeInv
  <1>9. Converging(q)'
    <2>1. n \in Mine(q)'
      BY <1>2, <1>4 DEF Mine
    <2>2. OnlyUploads(q)' => files'[q] # Absent
      BY <1>1, <1>4, <2>1 DEF OnlyUploads, Files
    <2>3. ASSUME NEW w \in Workers, workers[w].pc \in {"calling", "answered"}
          PROVE  Behind(q, Head(workers[w].batch))'
      <3>1. ops[Head(workers[w].batch)] # NoOp
        <4>1. /\ workers[w] \in WorkerState /\ workers[w].batch # <<>>
              /\ workers[w].pc # "idle"
          BY <1>1, <2>3 DEF TypeOK, WorkersBusy
        <4>2. workers[w].batch \in Seq(OpIds) /\ Batch(w) = workers[w].batch
          BY <4>1, WorkerKinds DEF Batch
        <4>3. /\ Head(workers[w].batch) \in OpIds
              /\ Head(workers[w].batch) \in Range(Batch(w))
          BY <4>1, <4>2, TailRange
        <4> QED
          BY <4>3, OpFacts DEF ConvergeInv, Carried
      <3> QED
        BY <1>2, <1>3, <1>7, <2>1, <3>1 DEF Behind
    <2> QED
      BY <1>2, <1>7, <2>1, <2>2, <2>3 DEF Converging
  <1> QED
    BY <1>5, <1>8, <1>9

(* A step that names the same operations, and saves or not. *)
LEMMA ConvergeStore ==
    ASSUME ConvergeInv, UNCHANGED <<files, provider>>, acked \subseteq acked',
           \/ disk' = disk
           \/ disk'.ops = ops' /\ disk'.files = files',
           \A o \in OpIds : /\ ops'[o] # NoOp <=> ops[o] # NoOp
                            /\ ops[o] # NoOp =>
                                 /\ ops'[o].path = ops[o].path
                                 /\ ops'[o].action = ops[o].action
                                 /\ ops'[o].status = "succeeded" =>
                                      o \in acked' \/ ops[o].status = "succeeded"
                                                   \/ disk.ops[o].status = "succeeded",
           \A w \in Workers : \/ workers'[w] = workers[w]
                              \/ workers'[w].pc \notin {"calling", "answered"}
    PROVE  SameOnDisk' /\ \A p \in Paths : Converging(p)'
  <1>1. SameOnDisk'
    BY DEF ConvergeInv, SameOnDisk
  <1>2. \A o \in OpIds : ops[o] # NoOp /\ Open(o) => Open(o)'
    BY DEF Open
  <1>3. ASSUME NEW p \in Paths PROVE Converging(p)'
    <2>1. Mine(p)' = Mine(p)
      BY DEF Mine
    <2>2. \A o \in Mine(p) : ops'[o].action = ops[o].action /\ (Open(o) => Open(o)')
      BY <1>2 DEF Mine
    <2> QED
      BY <2>1, <2>2, ConvergeKept DEF ConvergeInv
  <1> QED
    BY <1>1, <1>3

(* The call, its effect and its outcome: with one worker and a provider     *)
(* that keeps what it is given, the content sent is the file's or somebody  *)
(* else's upload is still open.                                             *)
LEMMA ConvergeWorkerStep ==
    ASSUME \A v, w \in Workers : v = w, \A s \in Setups : s.batchMax = 1,
           ConvergeInv, NEW w \in Workers, WorkerStep(w)
    PROVE  SameOnDisk' /\ \A p \in Paths : Converging(p)'
  <1> DEFINE wk == workers[w]
  <1>0. PICK h : h = Head(wk.batch)
    OBVIOUS
  <1>1. /\ TypeOK /\ Recorded /\ WorkersBusy /\ wk \in WorkerState /\ ops \in OpMap
        /\ files \in Files /\ provider \in [Paths -> Content]
        /\ workers \in [Workers -> WorkerState]
    BY OpFacts DEF ConvergeInv, TypeOK
  <1>2. ASSUME wk.pc # "idle", wk.batch # <<>>
        PROVE  h \in OpIds /\ ops[h] \in Op /\ ops[h] # NoOp
    <2>1. wk.batch \in Seq(OpIds) /\ Batch(w) = wk.batch
      BY <1>1, <1>2, WorkerKinds DEF Batch
    <2>2. h \in OpIds /\ h \in Range(Batch(w))
      BY <1>0, <1>2, <2>1, TailRange
    <2> QED
      BY <2>2, OpFacts DEF ConvergeInv, Carried
  <1>3. ASSUME UNCHANGED <<files, ops, provider, acked>>,
               disk' = disk \/ (disk'.ops = ops' /\ disk'.files = files'),
               workers'[w].pc \notin {"calling", "answered"}
        PROVE  SameOnDisk' /\ \A p \in Paths : Converging(p)'
    <2>1. \A v \in Workers : workers'[v].pc \notin {"calling", "answered"}
      BY <1>3
    <2> QED
      BY <1>3, <2>1, ConvergeStore
  <1>4. CASE Dequeue(w) \/ markWritebackDequeued(w) \/ DrainEnds(w)
    <2>1. /\ UNCHANGED <<files, ops, provider, acked, disk>>
          /\ workers'[w].pc \in {"dequeued", "draining", "ready"}
      <3>1. CASE Dequeue(w)
        BY <1>1, <3>1 DEF Dequeue, storeVars, historyVars
      <3>2. CASE markWritebackDequeued(w) \/ DrainEnds(w)
        <4>1. wk.pc \in {"dequeued", "draining"}
          BY <3>2 DEF markWritebackDequeued, DrainEnds
        <4>2. wk \in [pc : {"dequeued", "draining", "ready"},
                      batch : Seq(OpIds), dirty : BOOLEAN]
          BY <1>1, <4>1, WorkerKinds
        <4>3. \E x \in {"draining", "ready"} : workers' = [workers EXCEPT ![w].pc = x]
          BY <3>2 DEF markWritebackDequeued, DrainEnds
        <4> QED
          BY <1>1, <3>2, <4>2, <4>3
          DEF markWritebackDequeued, DrainEnds, storeVars, historyVars
      <3> QED
        BY <1>4, <3>1, <3>2
    <2> QED
      BY <1>3, <2>1
  <1>5. CASE SaveOutcome(w)
    <2>1. /\ UNCHANGED <<files, ops, provider, acked>> /\ workers'[w].pc = "idle"
          /\ disk' = disk \/ (disk'.ops = ops' /\ disk'.files = files')
      BY <1>1, <1>5 DEF SaveOutcome, Save, Snapshot, storeVars, historyVars, Idle
    <2> QED
      BY <1>3, <2>1
  <1>6. ASSUME UNCHANGED <<files, ops, acked, disk>>
        PROVE  /\ SameOnDisk'
               /\ \A p \in Paths : /\ Mine(p)' = Mine(p)
                                   /\ OnlyUploads(p)' => OnlyUploads(p)
                                   /\ \A x : Behind(p, x)' <=> Behind(p, x)
                                   /\ \A x \in Mine(p) : Open(x)' <=> Open(x)
    <2>1. SameOnDisk'
      BY <1>6 DEF ConvergeInv, SameOnDisk
    <2>2. \A p : Mine(p)' = Mine(p)
      BY <1>6 DEF Mine
    <2>3. \A x : Open(x)' <=> Open(x)
      BY <1>6 DEF Open
    <2> QED
      BY <1>6, <2>1, <2>2, <2>3 DEF OnlyUploads, Behind
  <1>7. CASE PrepareCall(w)
    <2>1. /\ wk.pc = "ready" /\ wk.batch # <<>>
          /\ UNCHANGED <<files, ops, provider, acked, disk>>
      BY <1>7 DEF PrepareCall, storeVars
    <2>2. CASE Armed(ops[h])
      <3> DEFINE k == [pc |-> "calling", batch |-> wk.batch, dirty |-> wk.dirty,
                       attempt |-> ops[h].attempts + 1, content |-> ContentFor(ops[h])]
      <3>1. workers' = [workers EXCEPT ![w] = k]
        BY <1>0, <1>7, <2>2 DEF PrepareCall
      <3>2. /\ workers'[w].pc = "calling" /\ workers'[w].batch = wk.batch
            /\ workers'[w].content = ContentFor(ops[h])
        BY <1>1, <3>1
      <3> HIDE DEF k
      <3>3. ASSUME NEW p \in Paths, OnlyUploads(p), h \in Mine(p)
            PROVE  ContentFor(ops[h]) = files[p]
        BY <3>3 DEF ConvergeInv, Converging, OnlyUploads, Mine, ContentFor
      <3>4. ASSUME NEW p \in Paths PROVE Converging(p)'
        <4>1. \A v \in Workers : v = w
          OBVIOUS
        <4> QED
          BY <1>0, <1>6, <2>1, <3>2, <3>3, <4>1 DEF ConvergeInv, Converging
      <3> QED
        BY <1>6, <2>1, <3>4
    <2>3. CASE ~Armed(ops[h])
      <3>1. wk \in [pc : {"dequeued", "draining", "ready"},
                    batch : Seq(OpIds), dirty : BOOLEAN]
        BY <1>1, <2>1, WorkerKinds
      <3>2. workers' = [workers EXCEPT ![w].batch = Tail(wk.batch)]
        BY <1>0, <1>7, <2>3 DEF PrepareCall
      <3>3. workers'[w].pc = "ready"
        BY <1>1, <2>1, <3>1, <3>2
      <3> QED
        BY <1>3, <2>1, <3>3
    <2> QED
      BY <2>2, <2>3
  <1>8. ASSUME NEW ok \in BOOLEAN, ProviderWrite(w, ok)
        PROVE  SameOnDisk' /\ \A p \in Paths : Converging(p)'
    <2> DEFINE q == ops[h].path
               k == [pc |-> "answered", batch |-> wk.batch, dirty |-> wk.dirty,
                     attempt |-> wk.attempt, ok |-> ok]
    <2>1. /\ wk.pc = "calling" /\ wk.batch # <<>> /\ UNCHANGED <<files, ops, acked, disk>>
      BY <1>1, <1>8 DEF ProviderWrite, storeVars, historyVars, WorkersBusy
    <2>2. ~Noop
      BY DEF ConvergeInv, TypeInv, Noop, BatchMax
    <2>3. /\ workers' = [workers EXCEPT ![w] = k]
          /\ \/ provider' = [provider EXCEPT ![q] = wk.content]
             \/ ~ok /\ provider' = provider
      BY <1>0, <1>8, <2>2 DEF ProviderWrite
    <2>4. workers'[w].pc = "answered" /\ workers'[w].batch = wk.batch /\ workers'[w].ok = ok
      BY <1>1, <2>3
    <2>5. q \in Paths /\ h \in OpIds /\ h \in Mine(q)
      BY <1>2, <2>1 DEF Op, Mine
    <2> HIDE DEF k
    <2>6. ASSUME NEW p \in Paths, OnlyUploads(p)
          PROVE  /\ provider'[p] = files[p] \/ \E o \in Mine(p) : Open(o)
                 /\ ok /\ h \in Mine(p) => provider'[p] = files[p] \/ Behind(p, h)
      <3>1. CASE p = q
        <4>1. wk.content = files[p] \/ Behind(p, h)
          BY <1>0, <2>1, <2>5, <2>6, <3>1 DEF ConvergeInv, Converging
        <4>2. provider[p] = files[p] \/ \E o \in Mine(p) : Open(o)
          BY <2>6 DEF ConvergeInv, Converging
        <4>3. provider'[p] = wk.content \/ (~ok /\ provider'[p] = provider[p])
          BY <1>1, <2>3, <2>5, <3>1
        <4> QED
          BY <4>1, <4>2, <4>3 DEF Behind
      <3>2. CASE p # q
        <4>1. provider'[p] = provider[p] /\ h \notin Mine(p)
          BY <1>1, <2>3, <3>2 DEF Mine
        <4> QED
          BY <2>6, <4>1 DEF ConvergeInv, Converging
      <3> QED
        BY <3>1, <3>2
    <2> HIDE DEF q
    <2>7. ASSUME NEW p \in Paths PROVE Converging(p)'
      <3>1. \A v \in Workers : v = w
        OBVIOUS
      <3> QED
        BY <1>0, <1>6, <2>1, <2>4, <2>6, <3>1 DEF ConvergeInv, Converging
    <2> QED
      BY <1>6, <2>1, <2>7
  <1>9. CASE RecordOutcome(w)
    <2> DEFINE retry == ~wk.ok /\ wk.attempt < MaxAttempts
               st == IF wk.ok THEN "succeeded" ELSE IF retry THEN "pending" ELSE "dead_lettered"
    <2>1. /\ wk.pc = "answered" /\ wk.batch # <<>>
          /\ UNCHANGED <<files, provider, acked, disk>>
          /\ workers'[w].pc = "ready"
          /\ ops' = [ops EXCEPT ![h].attempts = wk.attempt, ![h].due = retry,
                                ![h].status = st]
      BY <1>0, <1>1, <1>9 DEF RecordOutcome, historyVars, WorkersBusy
    <2>2. h \in OpIds /\ ops[h] \in Op /\ ops[h] # NoOp
      BY <1>2, <2>1
    <2>3. /\ \A x \in OpIds \ {h} : ops'[x] = ops[x]
          /\ ops'[h] # NoOp /\ ops'[h].path = ops[h].path
          /\ ops'[h].action = ops[h].action /\ ops'[h].status = st
      <3>1. st \in Status /\ retry \in BOOLEAN /\ wk.attempt \in Nat
        BY <1>1, <2>1, WorkerKinds DEF Status
      <3> HIDE DEF st, retry
      <3>2. \A x \in OpIds \ {h} : ops'[x] = ops[x]
        BY <1>1, <2>1, <2>2 DEF OpMap
      <3>3. ops'[h] = [ops[h] EXCEPT !.attempts = wk.attempt, !.due = retry, !.status = st]
        BY <1>1, <2>1, <2>2 DEF OpMap
      <3>4. /\ ops'[h].path = ops[h].path /\ ops'[h].action = ops[h].action
            /\ ops'[h].status = st
        BY <2>2, <3>3 DEF Op
      <3>5. ops'[h] \in Op
        BY <2>2, <3>1, <3>3 DEF Op
      <3> QED
        BY <3>2, <3>4, <3>5, WritebackAssumption
    <2> HIDE DEF st, retry
    <2>4. SameOnDisk'
      <3>1. files' = files /\ disk' = disk
        BY <2>1
      <3>2. \A x \in OpIds : ops'[x] # NoOp =>
              /\ ops[x] # NoOp
              /\ ops'[x].path = ops[x].path /\ ops'[x].action = ops[x].action
        BY <2>2, <2>3
      <3> QED
        BY <3>1, <3>2 DEF ConvergeInv, SameOnDisk
    <2>5. ASSUME NEW p \in Paths PROVE Converging(p)'
      <3>1. Mine(p)' = Mine(p)
        BY <2>2, <2>3 DEF Mine
      <3>2. OnlyUploads(p)' => OnlyUploads(p)
        BY <2>3, <3>1 DEF OnlyUploads, Mine
      <3>3. \A x \in OpIds \ {h} : Open(x) => Open(x)'
        BY <2>1, <2>3 DEF Open
      <3>4. Open(h) => Open(h)' \/ wk.ok
        BY <2>1, <2>3 DEF Open, st
      <3>5. Mine(p) \subseteq OpIds
        BY DEF Mine
      <3>6. ASSUME OnlyUploads(p)
            PROVE  provider[p] = files[p] \/ \E o \in Mine(p) : Open(o)'
        <4>1. provider[p] = files[p] \/ \E o \in Mine(p) : Open(o)
          BY <3>6 DEF ConvergeInv, Converging
        <4>2. wk.ok /\ h \in Mine(p) => provider[p] = files[p] \/ Behind(p, h)
          BY <1>0, <2>1, <3>6 DEF ConvergeInv, Converging
        <4>3. Behind(p, h) => \E o \in Mine(p) : Open(o)'
          BY <3>3, <3>5 DEF Behind
        <4> QED
          BY <3>3, <3>4, <3>5, <4>1, <4>2, <4>3
      <3>7. files[p] # Absent \/ ~OnlyUploads(p)
        BY DEF ConvergeInv, Converging
      <3>8. \A v \in Workers : workers'[v].pc = "ready"
        BY <2>1
      <3> QED
        BY <2>1, <3>1, <3>2, <3>6, <3>7, <3>8 DEF Converging
    <2> QED
      BY <2>4, <2>5
  <1> QED
    BY <1>4, <1>5, <1>7, <1>8, <1>9 DEF WorkerStep

(* A boot finds the files as they are and closes nothing. *)
LEMMA ConvergeRestart ==
    ASSUME ConvergeInv, Restart
    PROVE  SameOnDisk' /\ \A p \in Paths : Converging(p)'
  <1>1. PICK stale \in SUBSET ArmedOps(disk.ops) : ops' = Quarantine(disk.ops, stale)
    BY DEF Restart
  <1>2. /\ files' = files /\ disk'.ops = ops' /\ disk'.files = files'
        /\ UNCHANGED <<provider, acked>>
        /\ workers' = [w \in Workers |-> Idle]
    BY DEF Restart, Save, Snapshot, ConvergeInv, SameOnDisk
  <1>3. Recorded /\ disk.ops \in OpMap /\ ops \in OpMap
    BY OpFacts DEF ConvergeInv, TypeOK
  <1>4. ASSUME NEW o \in OpIds
        PROVE  /\ ops'[o] # NoOp <=> ops[o] # NoOp
               /\ ops[o] # NoOp =>
                    /\ ops'[o].path = ops[o].path
                    /\ ops'[o].action = ops[o].action
                    /\ ops'[o].status = "succeeded" => disk.ops[o].status = "succeeded"
    <2>1. ops[o] # NoOp <=> disk.ops[o] # NoOp
      BY <1>3 DEF Recorded
    <2>2. ops[o] # NoOp => disk.ops[o].path = ops[o].path
                           /\ disk.ops[o].action = ops[o].action
      BY DEF ConvergeInv, SameOnDisk
    <2> QED
      BY <1>1, <1>3, <2>1, <2>2, QuarantineType
  <1>5. \A w \in Workers : workers'[w].pc = "idle"
    BY <1>2 DEF Idle
  <1> QED
    BY <1>2, <1>4, <1>5, ConvergeStore

LEMMA ConvergeInit == Init => ConvergeInv
  <1> SUFFICES ASSUME Init PROVE SameOnDisk /\ \A p \in Paths : Converging(p)
    BY TypeInit DEF ConvergeInv
  <1>1. disk.ops = ops /\ disk.files = files /\ provider = files
    BY DEF Init, Snapshot
  <1>2. \A w \in Workers : workers[w].pc = "idle"
    BY DEF Init, Idle
  <1>3. ASSUME NEW p \in Paths, Mine(p) # {}
        PROVE  files[p] # Absent
    <2> DEFINE m(q) == [o \in OpIds |->
                          IF o \in LegacyRunning
                          THEN [NewOp(q, "file_upsert") EXCEPT !.status = "running"]
                          ELSE NoOp]
    <2>1. PICK q \in Paths, stale \in SUBSET LegacyRunning :
            /\ LegacyRunning # {} => files[q] # Absent
            /\ ops = Quarantine(m(q), stale)
      BY DEF Init
    <2>2. PICK o \in OpIds : ops[o] # NoOp /\ ops[o].path = p
      BY <1>3 DEF Mine
    <2>3. \A x \in OpIds : m(q)[x] = IF x \in LegacyRunning
            THEN [NewOp(q, "file_upsert") EXCEPT !.status = "running"] ELSE NoOp
      OBVIOUS
    <2>4. LET r == [NewOp(q, "file_upsert") EXCEPT !.status = "running"]
          IN  r \in Op /\ r # NoOp /\ Armed(r) /\ r.path = q
      <3>1. LET r == [NewOp(q, "file_upsert") EXCEPT !.status = "running"]
            IN  r \in Op /\ Armed(r) /\ r.path = q
        BY DEF NewOp, Op, Action, Status, Armed
      <3> QED
        BY <3>1, WritebackAssumption
    <2>5. m(q) \in OpMap
      BY <2>4 DEF OpMap
    <2> HIDE DEF m
    <2>6. stale \subseteq ArmedOps(m(q))
      BY <2>3, <2>4, WritebackAssumption DEF ArmedOps, OpIds
    <2>7. m(q)[o] # NoOp /\ ops[o].path = m(q)[o].path
      BY <2>1, <2>2, <2>5, <2>6, QuarantineType
    <2> QED
      BY <2>1, <2>2, <2>3, <2>4, <2>7
  <1> QED
    BY <1>1, <1>2, <1>3 DEF SameOnDisk, Converging, OnlyUploads

LEMMA ConvergeStep ==
    ASSUME \A v, w \in Workers : v = w, \A s \in Setups : s.batchMax = 1,
           ConvergeInv, [Next]_vars
    PROVE  ConvergeInv'
  <1> DEFINE Goal == SameOnDisk' /\ \A p \in Paths : Converging(p)'
  <1>1. TypeInv' /\ TypeOK /\ ops \in OpMap /\ files \in Files
    BY TypeStep DEF ConvergeInv, TypeInv, TypeOK
  <1> SUFFICES Goal
    BY <1>1 DEF ConvergeInv
  <1>2. ASSUME NEW p \in Paths, NEW c \in Values, WriteFile(p, c) PROVE Goal
    BY <1>2, ConvergeRecord, WritebackAssumption DEF WriteFile, Action
  <1>3. ASSUME NEW p \in Paths, DeleteFile(p) PROVE Goal
    BY <1>3, ConvergeRecord DEF DeleteFile, Action
  <1>4. ASSUME UNCHANGED <<files, ops, disk, provider, workers, acked>> PROVE Goal
    BY <1>4, ConvergeStore
  <1>5. ASSUME NEW o \in OpIds, NEW s \in BOOLEAN, AcknowledgeWriteback(o, s) PROVE Goal
    <2>1. /\ ops[o] # NoOp /\ UNCHANGED <<files, provider, workers>>
          /\ disk'.ops = ops' /\ disk'.files = files' /\ acked' = acked \cup {o}
          /\ \E st \in {"succeeded", "dead_lettered"} :
               ops' = [ops EXCEPT ![o].due = FALSE, ![o].status = st]
      BY <1>5 DEF AcknowledgeWriteback, Save, Snapshot
    <2>2. PICK st \in {"succeeded", "dead_lettered"} :
            ops' = [ops EXCEPT ![o].due = FALSE, ![o].status = st]
      BY <2>1
    <2>3. ops[o] \in Op
      BY <1>1, <2>1 DEF OpMap
    <2>4. /\ \A x \in OpIds \ {o} : ops'[x] = ops[x]
          /\ ops'[o].path = ops[o].path /\ ops'[o].action = ops[o].action
          /\ ops'[o] \in Op
      BY <1>1, <2>2, <2>3 DEF OpMap, Op, Status
    <2> QED
      BY <2>1, <2>4, ConvergeStore, WritebackAssumption
  <1>6. ASSUME NEW o \in OpIds, ReplayOperation(o) PROVE Goal
    <2>1. /\ ops[o] # NoOp /\ UNCHANGED <<files, provider, workers, acked>>
          /\ disk'.ops = ops' /\ disk'.files = files'
          /\ ops' = [ops EXCEPT ![o].status = "pending", ![o].attempts = 0, ![o].due = FALSE]
      BY <1>6 DEF ReplayOperation, Save, Snapshot
    <2>2. /\ \A x \in OpIds \ {o} : ops'[x] = ops[x]
          /\ ops'[o].path = ops[o].path /\ ops'[o].action = ops[o].action
          /\ ops'[o].status = "pending" /\ ops'[o] \in Op
      BY <1>1, <2>1 DEF OpMap, Op, Status
    <2> QED
      BY <2>1, <2>2, ConvergeStore, WritebackAssumption
  <1> HIDE DEF Goal
  <1>7. CASE Mutations
    <2>1. ASSUME NEW p \in Paths, DeleteFileRejected(p) PROVE Goal
      BY <1>4, <2>1 DEF DeleteFileRejected, storeVars, historyVars
    <2> QED
      BY <1>2, <1>3, <1>7, <2>1 DEF Mutations
  <1>8. CASE Queueing \/ WindowSlides \/ UNCHANGED vars
    BY <1>4, <1>8 DEF Queueing, enqueueWriteback, Enqueue, RetryTimerFires, WindowSlides,
                      storeVars, historyVars, vars
  <1>9. CASE Operators
    BY <1>5, <1>6, <1>9 DEF Operators
  <1>10. CASE Restart \/ \E w \in Workers : WorkerStep(w)
    BY <1>10, ConvergeRestart, ConvergeWorkerStep DEF Goal
  <1> QED
    BY <1>7, <1>8, <1>9, <1>10 DEF Next

(* With one worker and a provider that keeps what it is sent, once every    *)
(* operation on a path that was only ever written has succeeded at the      *)
(* worker's hands, the provider holds the file: whatever order retries,     *)
(* replays, duplicate tasks and restarts ran them in.                       *)
THEOREM ProviderAlwaysConverges ==
    ASSUME \A v, w \in Workers : v = w, \A s \in Setups : s.batchMax = 1
    PROVE  Spec => []ProviderConverges
  <1>1. ConvergeInv => ProviderConverges
    BY DEF ConvergeInv, Converging, OnlyUploads, Mine, Open, ProviderConverges
  <1>2. ConvergeInv /\ [Next]_vars => ConvergeInv'
    BY ConvergeStep
  <1> QED
    BY <1>1, <1>2, ConvergeInit, PTL DEF Spec
=============================================================================
