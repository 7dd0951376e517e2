---------------------------- MODULE ServerProofs ----------------------------
(***************************************************************************)
(* Theorems about the request side of the server: how long a withdrawn     *)
(* signing key is trusted, how many fetch jobs import a head, and which    *)
(* rules hold for what the file handlers serve and replace.                *)
(***************************************************************************)
EXTENDS Server, TLAPS

-----------------------------------------------------------------------------
(* Signing keys *)

Entry == [keys : SUBSET Kids, fetchedAt : Nat] \cup {NoEntry}

(* A set of keys was served at a time: each of them was then or since.      *)
ServedAt(keys, t) == \A k \in keys : lastServed[k] >= t

(* An entry of the cache dates its keys no later than they were served.     *)
EntryTrue(e) == e \in Entry /\ (e # NoEntry => ServedAt(e.keys, e.fetchedAt))

Asking == {"load", "fetch", "store", "authorized"}

(* What a request knows, by how far it is.  The time it looks at is that of *)
(* its arrival, before every fetch of its own.                              *)
CallTrue(c) ==
    /\ c.pc \in Asking => c.kid \in Kids /\ c.now \in 0..clock
    /\ c.pc = "fetch" => EntryTrue(c.entry)
    /\ c.pc = "store" => ServedAt(c.keys, c.now)
    /\ c.pc = "authorized" => lastServed[c.kid] >= c.now - (CacheTTL + StaleGrace)

Pcs == {"new", "load", "fetch", "store", "authorized", "over"}

CallRecord(c) ==
    c \in [pc : Pcs, kid : Kids \cup {NoEntry}, now : Nat, entry : Entry, keys : SUBSET Kids]

GateInv ==
    /\ clock \in Nat
    /\ published \subseteq Kids
    /\ lastServed \in [Kids -> Int]
    /\ \A k \in Kids : lastServed[k] <= clock
    /\ \A k \in published : lastServed[k] = clock
    /\ EntryTrue(jwks)
    /\ DOMAIN call = Callers
    /\ \A r \in Callers : CallRecord(call[r]) /\ CallTrue(call[r])

(* The records of a request that rests. *)
LEMMA RestRecords ==
    /\ NoEntry \in Entry
    /\ CallRecord(Fresh) /\ Fresh.pc = "new"
    /\ CallRecord(Over) /\ Over.pc = "over"
  <1>1. NoEntry \in Entry
    BY DEF Entry
  <1>2. CallRecord(Fresh) /\ Fresh.pc = "new"
    BY <1>1 DEF CallRecord, Fresh, Pcs
  <1> QED
    BY <1>1, <1>2 DEF CallRecord, Over, Pcs

(* The server is at rest where its gate is not exercised. *)
GateResting == call = [r \in Callers |-> Over]

(* Time passes and keys come and go, but what was served stays served. *)
LEMMA ServedLonger ==
    ASSUME GateInv, UNCHANGED <<jwks, call>>, clock' \in Nat, clock' >= clock,
           published' \subseteq Kids, lastServed' \in [Kids -> Int],
           \A k \in Kids : lastServed'[k] >= lastServed[k] /\ lastServed'[k] <= clock',
           \A k \in published' : lastServed'[k] = clock'
    PROVE  GateInv'
  <1>1. /\ clock \in Nat /\ \A k \in Kids : lastServed[k] \in Int /\ lastServed'[k] \in Int
    BY DEF GateInv
  <1>2. ASSUME NEW keys \in SUBSET Kids, NEW t \in Int, ServedAt(keys, t) PROVE ServedAt(keys, t)'
    BY <1>1, <1>2 DEF ServedAt
  <1>3. ASSUME NEW e, EntryTrue(e) PROVE EntryTrue(e)'
    BY <1>2, <1>3 DEF EntryTrue, Entry
  <1>4. ASSUME NEW r \in Callers PROVE CallRecord(call[r])' /\ CallTrue(call[r])'
    <2>0. PICK c : c = call[r]
      OBVIOUS
    <2>1. CallRecord(c) /\ CallTrue(c)
      BY <2>0 DEF GateInv
    <2>2. call'[r] = c /\ CacheTTL \in Nat /\ StaleGrace \in Nat
      BY <2>0, GateBounds
    <2>3. c.pc \in Asking => c.now \in 0..clock /\ c.now \in 0..clock' /\ c.now \in Int
      BY <1>1, <2>1 DEF CallTrue
    <2>4. c.pc = "fetch" => EntryTrue(c.entry)'
      BY <1>3, <2>1 DEF CallTrue
    <2>5. c.pc = "store" => ServedAt(c.keys, c.now)'
      BY <1>2, <2>1, <2>3 DEF CallTrue, CallRecord, Asking
    <2>6. c.pc = "authorized" => lastServed'[c.kid] >= c.now - (CacheTTL + StaleGrace)
      BY <1>1, <2>1, <2>2, <2>3 DEF CallTrue, Asking
    <2> QED
      BY <2>0, <2>1, <2>2, <2>3, <2>4, <2>5, <2>6 DEF CallTrue, CallRecord
  <1>5. EntryTrue(jwks)'
    BY <1>3 DEF GateInv
  <1> QED
    BY <1>4, <1>5 DEF GateInv

(* A request goes on, and perhaps stores an entry, with nothing published.  *)
LEMMA CallGoesOn ==
    ASSUME GateInv, UNCHANGED <<clock, published, lastServed>>,
           NEW r \in Callers, NEW c, call' = [call EXCEPT ![r] = c],
           CallRecord(c), CallTrue(c), EntryTrue(jwks')
    PROVE  GateInv'
  <1>1. \A e : EntryTrue(e)' <=> EntryTrue(e')
    BY DEF EntryTrue, ServedAt
  <1>2. \A q \in Callers : call'[q] = IF q = r THEN c ELSE call[q]
    BY DEF GateInv
  <1>3. \A q \in Callers : CallTrue(call[q])' /\ CallRecord(call[q])'
    BY <1>2 DEF GateInv, CallTrue, CallRecord, EntryTrue, ServedAt
  <1> QED
    BY <1>3 DEF GateInv, EntryTrue, ServedAt

(* Who passes with a key that was served since its arrival, or soon before, *)
(* is authorized rightly; who does not pass is done.                        *)
LEMMA VerifiedTrue ==
    ASSUME GateInv, NEW c, NEW keys, NEW good \in BOOLEAN, CallRecord(c),
           c.kid \in Kids, c.now \in 0..clock,
           c.kid \in keys => lastServed[c.kid] >= c.now - (CacheTTL + StaleGrace)
    PROVE  CallRecord(Verified(c, keys, good)) /\ CallTrue(Verified(c, keys, good))
  <1>0a. PICK d : d = [Fresh EXCEPT !.pc = "authorized", !.kid = c.kid, !.now = c.now]
    OBVIOUS
  <1>1. Verified(c, keys, good) \in {d, Over} /\ (c.kid \notin keys => Verified(c, keys, good) = Over)
    BY <1>0a DEF Verified
  <1>2. CallRecord(d) /\ d.pc = "authorized" /\ d.kid = c.kid /\ d.now = c.now
    BY <1>0a, RestRecords DEF CallRecord, Pcs
  <1>3. CallTrue(Over)
    BY RestRecords DEF CallTrue, Asking
  <1>4. c.kid \in keys => CallTrue(d)
    BY <1>2 DEF CallTrue, Asking
  <1> QED
    BY <1>1, <1>2, <1>3, <1>4, RestRecords

LEMMA GateStep == GateInv /\ GateNext => GateInv'
  <1> SUFFICES ASSUME GateInv, GateNext PROVE GateInv'
    OBVIOUS
  <1>1. /\ clock \in Nat /\ CacheTTL \in Nat /\ StaleGrace \in Nat
        /\ \A k \in Kids : lastServed[k] \in Int
        /\ CallRecord(Over) /\ CallTrue(Over) /\ EntryTrue(jwks)
    BY GateBounds, RestRecords DEF GateInv, CallTrue, Asking
  <1>2. ASSUME NEW r \in Callers, NEW kid \in Kids, Arrive(r, kid) PROVE GateInv'
    <2>0a. PICK c : c = [Fresh EXCEPT !.pc = "load", !.kid = kid, !.now = clock]
      OBVIOUS
    <2>1. call' = [call EXCEPT ![r] = c] /\ UNCHANGED <<clock, published, lastServed, jwks>>
      BY <1>2, <2>0a DEF Arrive
    <2>2. CallRecord(c) /\ CallTrue(c)
      <3>1. CallRecord(c) /\ c.pc = "load" /\ c.kid = kid /\ c.now = clock
        BY <1>1, <2>0a, RestRecords DEF CallRecord, Pcs
      <3> QED
        BY <1>1, <3>1 DEF CallTrue, Asking
    <2>3. EntryTrue(jwks')
      BY <1>1, <2>1
    <2> QED
      BY <2>1, <2>2, <2>3, CallGoesOn
  <1>3. ASSUME NEW r \in Callers, NEW good \in BOOLEAN, LoadKeys(r, good) PROVE GateInv'
    <2>0. PICK c : c = call[r] /\ c.pc = "load"
      BY <1>3 DEF LoadKeys
    <2>1. CallRecord(c) /\ CallTrue(c) /\ c.kid \in Kids /\ c.now \in 0..clock
      BY <2>0 DEF GateInv, CallTrue, Asking
    <2>2. UNCHANGED <<clock, published, lastServed, jwks>> /\ EntryTrue(jwks')
      BY <1>1, <1>3 DEF LoadKeys
    <2>3. CASE CacheHit(c)
      <3>1. call' = [call EXCEPT ![r] = Verified(c, jwks.keys, good)]
        BY <1>3, <2>0, <2>3 DEF LoadKeys
      <3>2. /\ jwks.fetchedAt \in Nat /\ ServedAt(jwks.keys, jwks.fetchedAt)
            /\ c.now - jwks.fetchedAt < CacheTTL
        BY <1>1, <2>3 DEF CacheHit, EntryTrue, Entry
      <3>3. c.kid \in jwks.keys => lastServed[c.kid] >= c.now - (CacheTTL + StaleGrace)
        <4>1. jwks.keys \subseteq Kids
          BY <1>1, <2>3 DEF CacheHit, EntryTrue, Entry
        <4> QED
          BY <1>1, <2>1, <3>2, <4>1 DEF ServedAt
      <3> QED
        BY <2>1, <2>2, <3>1, <3>3, VerifiedTrue, CallGoesOn
    <2>4. CASE ~CacheHit(c)
      <3>0a. PICK d : d = [c EXCEPT !.pc = "fetch", !.entry = jwks]
        OBVIOUS
      <3>1. call' = [call EXCEPT ![r] = d]
        BY <1>3, <2>0, <2>4, <3>0a DEF LoadKeys
      <3>2. CallRecord(d) /\ CallTrue(d)
        <4>1. CallRecord(d) /\ d.pc = "fetch" /\ d.kid = c.kid /\ d.now = c.now /\ d.entry = jwks
          BY <1>1, <2>1, <3>0a DEF EntryTrue, CallRecord, Pcs
        <4> QED
          BY <1>1, <2>1, <4>1 DEF CallTrue, Asking
      <3> QED
        BY <2>2, <3>1, <3>2, CallGoesOn
    <2> QED
      BY <2>3, <2>4
  <1>4. ASSUME NEW r \in Callers, fetchJWKS(r) PROVE GateInv'
    <2>0. PICK c : c = call[r] /\ c.pc = "fetch"
      BY <1>4 DEF fetchJWKS
    <2>0a. PICK d : d = [c EXCEPT !.keys = published, !.entry = NoEntry, !.pc = "store"]
      OBVIOUS
    <2>1. CallRecord(c) /\ CallTrue(c) /\ c.kid \in Kids /\ c.now \in 0..clock
      BY <2>0 DEF GateInv, CallTrue, Asking
    <2>2. call' = [call EXCEPT ![r] = d] /\ UNCHANGED <<clock, published, lastServed, jwks>>
      BY <1>4, <2>0, <2>0a DEF fetchJWKS, GateInv
    <2>3. CallRecord(d) /\ d.pc = "store" /\ d.kid = c.kid /\ d.now = c.now /\ d.keys = published
      BY <2>1, <2>0a, RestRecords DEF GateInv, CallRecord, Pcs
    <2>4. ServedAt(published, c.now)
      BY <1>1, <2>1 DEF GateInv, ServedAt
    <2>5. CallTrue(d) /\ EntryTrue(jwks')
      BY <1>1, <2>1, <2>2, <2>3, <2>4 DEF CallTrue, Asking
    <2> QED
      BY <2>2, <2>3, <2>5, CallGoesOn
  <1>5. ASSUME NEW r \in Callers, NEW good \in BOOLEAN, StoreKeys(r, good) PROVE GateInv'
    <2>0. PICK c : c = call[r] /\ c.pc = "store"
      BY <1>5 DEF StoreKeys
    <2>1. /\ CallRecord(c) /\ CallTrue(c) /\ c.kid \in Kids /\ c.now \in 0..clock
          /\ ServedAt(c.keys, c.now)
      BY <2>0 DEF GateInv, CallTrue, Asking
    <2>2. /\ call' = [call EXCEPT ![r] = Verified(c, c.keys, good)]
          /\ UNCHANGED <<clock, published, lastServed>>
          /\ jwks' = [keys |-> c.keys, fetchedAt |-> c.now]
      BY <1>5, <2>0 DEF StoreKeys, StoredEntry, GateInv
    <2>3. EntryTrue(jwks')
      BY <2>1, <2>2 DEF EntryTrue, CallRecord, Entry
    <2>4. c.kid \in c.keys => lastServed[c.kid] >= c.now - (CacheTTL + StaleGrace)
      BY <1>1, <2>1 DEF ServedAt
    <2> QED
      BY <2>1, <2>2, <2>3, <2>4, VerifiedTrue, CallGoesOn
  <1>6. ASSUME NEW r \in Callers, NEW good \in BOOLEAN, FetchFails(r, good) PROVE GateInv'
    <2>0. PICK c : c = call[r] /\ c.pc = "fetch"
      BY <1>6 DEF FetchFails
    <2>1. /\ CallRecord(c) /\ c.kid \in Kids /\ c.now \in 0..clock /\ EntryTrue(c.entry)
      BY <2>0 DEF GateInv, CallTrue, Asking
    <2>2. UNCHANGED <<clock, published, lastServed, jwks>> /\ EntryTrue(jwks')
      BY <1>1, <1>6 DEF FetchFails
    <2>3. call' = [call EXCEPT ![r] = IF StaleEntryUsable(c)
                                      THEN Verified(c, c.entry.keys, good) ELSE Over]
      BY <1>6, <2>0 DEF FetchFails, GateInv
    <2>4. CASE StaleEntryUsable(c)
      <3>1. /\ c.entry.fetchedAt \in Nat /\ ServedAt(c.entry.keys, c.entry.fetchedAt)
            /\ c.now - c.entry.fetchedAt <= CacheTTL + StaleGrace
        BY <2>1, <2>4 DEF StaleEntryUsable, EntryTrue, Entry
      <3>2. c.kid \in c.entry.keys => lastServed[c.kid] >= c.now - (CacheTTL + StaleGrace)
        BY <1>1, <2>1, <3>1 DEF ServedAt
      <3> QED
        BY <2>1, <2>2, <2>3, <2>4, <3>2, VerifiedTrue, CallGoesOn
    <2>5. CASE ~StaleEntryUsable(c)
      BY <1>1, <2>2, <2>3, <2>5, CallGoesOn
    <2> QED
      BY <2>4, <2>5
  <1>7. ASSUME NEW r \in Callers, allow(r) PROVE GateInv'
    BY <1>1, <1>7, CallGoesOn DEF allow
  <1>8. ASSUME NEW S \in SUBSET Kids, RotateKeys(S) PROVE GateInv'
    <2>1. /\ UNCHANGED <<clock, jwks, call>> /\ published' = S
          /\ lastServed' = [k \in Kids |-> IF k \in published \cup S THEN clock
                                                                     ELSE lastServed[k]]
      BY <1>8 DEF RotateKeys
    <2> QED
      BY <1>1, <2>1, ServedLonger DEF GateInv
  <1>9. CASE Tick
    <2>1. /\ UNCHANGED <<published, jwks, call>> /\ clock' = clock + 1
          /\ lastServed' = [k \in Kids |-> IF k \in published THEN clock + 1
                                                              ELSE lastServed[k]]
      BY <1>9 DEF Tick
    <2>2. \A k \in Kids : /\ lastServed'[k] >= lastServed[k] /\ lastServed'[k] <= clock'
                          /\ lastServed'[k] \in Int
                          /\ k \in published => lastServed'[k] = clock'
      BY <1>1, <2>1 DEF GateInv
    <2>3. published \subseteq Kids /\ clock' \in Nat /\ clock' >= clock
          /\ lastServed' \in [Kids -> Int]
      BY <1>1, <2>1 DEF GateInv
    <2> QED
      BY <2>1, <2>2, <2>3, ServedLonger
  <1> QED
    BY <1>2, <1>3, <1>4, <1>5, <1>6, <1>7, <1>8, <1>9 DEF GateNext

(* A key that the key server withdrew is trusted for no longer than the     *)
(* cache's lifetime and the grace of an outage, counted to the arrival of   *)
(* the request, however concurrent fetches overtake each other and an older *)
(* answer overwrites a newer one.                                           *)
THEOREM KeysBounded == Spec => []KeyTrustBounded
  <1> DEFINE Inv == GateInv \/ (part # "gate" /\ GateResting)
  <1>1. Init => Inv
    <2>1. GateInit => GateInv
      <3> SUFFICES ASSUME GateInit PROVE GateInv
        OBVIOUS
      <3>1. /\ clock = 0 /\ published \subseteq Kids /\ jwks = NoEntry
            /\ lastServed = [k \in Kids |-> IF k \in published THEN 0 ELSE -1]
            /\ call = [r \in Callers |-> Fresh]
        BY DEF GateInit
      <3>2. CallRecord(Fresh) /\ CallTrue(Fresh) /\ EntryTrue(jwks)
        BY <3>1, RestRecords DEF CallTrue, Asking, EntryTrue, Entry
      <3> QED
        BY <3>1, <3>2 DEF GateInv
    <2> QED
      BY <2>1 DEF Init, GateRests, GateResting
  <1>2. Inv /\ [Next]_vars => Inv'
    <2>1. ASSUME UNCHANGED gateVars, GateInv PROVE GateInv'
      BY <2>1 DEF gateVars, GateInv, EntryTrue, ServedAt, CallTrue, CallRecord
    <2>2. ASSUME UNCHANGED gateVars, GateResting PROVE GateResting'
      BY <2>2 DEF gateVars, GateResting
    <2>3. CASE UNCHANGED vars
      BY <2>1, <2>2, <2>3 DEF vars
    <2> QED
      BY <2>1, <2>2, <2>3, GateStep DEF Next
  <1>3. Inv => KeyTrustBounded
    BY DEF GateInv, CallTrue, GateResting, Over, Fresh, KeyTrustBounded
  <1> QED
    BY <1>1, <1>2, <1>3, PTL DEF Spec

-----------------------------------------------------------------------------
(* Tarball imports *)

Statuses == {"queued", "fetching", "importing", "completed", "failed", "gone"}

Job == [id : JobIds, head : Heads, status : Statuses, direct : BOOLEAN, chunk : Nat,
        old : BOOLEAN]

(* A fetch that has its import before it. *)
Busy(job) == ~job.direct /\ job.status \in {"queued", "fetching", "importing"}

(* A busy fetch stays registered under its id, so that whoever asks for its *)
(* head finds it; no entry of the registry points at another id's object.   *)
ImportInv ==
    /\ jobs \in Seq(Job)
    /\ registry \in [JobIds -> DOMAIN jobs \cup {NoJob}]
    /\ \A o \in DOMAIN jobs :
        /\ jobs[o].id \in IF jobs[o].direct THEN DirectIds ELSE FetchIds
        /\ Busy(jobs[o]) => registry[jobs[o].id] = o /\ ~jobs[o].old
    /\ \A o, q \in DOMAIN jobs :
        Busy(jobs[o]) /\ Busy(jobs[q]) /\ jobs[o].head = jobs[q].head => o = q

(* A job that changes on its way, and is not made busy again. *)
LEMMA JobGoesOn ==
    ASSUME ImportInv, NEW o \in DOMAIN jobs, NEW job \in Job,
           jobs' = [jobs EXCEPT ![o] = job], UNCHANGED registry,
           job.id = jobs[o].id, job.head = jobs[o].head, job.direct = jobs[o].direct,
           Busy(job) => Busy(jobs[o]) /\ ~job.old
    PROVE  ImportInv'
  <1>1. jobs' \in Seq(Job) /\ DOMAIN jobs' = DOMAIN jobs
    BY DEF ImportInv
  <1>2. \A q \in DOMAIN jobs : jobs'[q] = IF q = o THEN job ELSE jobs[q]
    BY DEF ImportInv
  <1> HIDE DEF Job
  <1>3. registry' \in [JobIds -> DOMAIN jobs' \cup {NoJob}]
    BY <1>1 DEF ImportInv
  <1>4. ASSUME NEW q \in DOMAIN jobs'
        PROVE  /\ jobs'[q].id \in IF jobs'[q].direct THEN DirectIds ELSE FetchIds
               /\ Busy(jobs'[q]) => registry'[jobs'[q].id] = q /\ ~jobs'[q].old
    BY <1>1, <1>2 DEF ImportInv
  <1>5. ASSUME NEW p \in DOMAIN jobs', NEW q \in DOMAIN jobs',
               Busy(jobs'[p]), Busy(jobs'[q]), jobs'[p].head = jobs'[q].head
        PROVE  p = q
    BY <1>1, <1>2, <1>5 DEF ImportInv
  <1> QED
    BY <1>1, <1>3, <1>4, <1>5 DEF ImportInv, Busy

LEMMA ImportStep ==
    ASSUME FetchIds \cap DirectIds = {}, ImportInv, ImportNext
    PROVE  ImportInv'
  <1> USE DEF Statuses
  <1> DEFINE reg == pruneGithubTarballJobsLocked
  <1>1. /\ reg \in [JobIds -> DOMAIN jobs \cup {NoJob}]
        /\ \A o \in DOMAIN jobs : Busy(jobs[o]) => reg[jobs[o].id] = o
        /\ \A o \in DOMAIN jobs : jobs[o] \in Job
    <2>1. \A o \in DOMAIN jobs : jobs[o] \in Job /\ o # NoJob
      BY ImportBounds DEF ImportInv
    <2>2. \A o \in DOMAIN jobs : jobs[o].id \in JobIds
      BY <2>1 DEF Job
    <2> QED
      BY <2>1, <2>2 DEF ImportInv, pruneGithubTarballJobsLocked
  <1>2. ASSUME NEW id \in FetchIds, NEW head \in Heads, handleGithubTarballFetch(id, head)
        PROVE  ImportInv'
    <2>1. CASE reg[id] # NoJob \/ activeGithubTarballJobLocked(reg, head) # {}
      <3>1. registry' = reg /\ jobs' = jobs
        BY <1>2, <2>1 DEF handleGithubTarballFetch
      <3> QED
        BY <1>1, <3>1 DEF ImportInv
    <2>2. CASE reg[id] = NoJob /\ activeGithubTarballJobLocked(reg, head) = {}
      <3> DEFINE n == Len(jobs) + 1
      <3>0. PICK job : job = NewJob(id, head, "queued", FALSE)
        OBVIOUS
      <3>1. jobs' = Append(jobs, job) /\ registry' = [reg EXCEPT ![id] = n]
        BY <1>2, <2>2, <3>0 DEF handleGithubTarballFetch
      <3>2. job \in Job /\ job.id = id /\ job.head = head /\ ~job.direct /\ ~job.old
        BY <3>0 DEF NewJob, Job, JobIds
      <3>3. /\ jobs' \in Seq(Job) /\ DOMAIN jobs = 1..Len(jobs) /\ DOMAIN jobs' = 1..n
            /\ n \in Nat /\ n \notin DOMAIN jobs /\ jobs'[n] = job
            /\ \A o \in DOMAIN jobs : jobs'[o] = jobs[o]
        BY <3>1, <3>2 DEF ImportInv
      <3>4. id \in JobIds /\ \A o \in DOMAIN jobs : Busy(jobs[o]) =>
                jobs[o].id # id /\ jobs[o].head # head /\ jobs[o].id \in JobIds
        <4>1. ASSUME NEW o \in DOMAIN jobs, Busy(jobs[o])
              PROVE  reg[jobs[o].id] = o /\ o # NoJob /\ jobs[o].id \in JobIds
          BY <1>1, <4>1, ImportBounds DEF Job, ImportInv
        <4> QED
          BY <2>2, <4>1 DEF activeGithubTarballJobLocked, Busy, JobIds
      <3>5. registry' \in [JobIds -> DOMAIN jobs' \cup {NoJob}]
        BY <1>1, <3>1, <3>3, <3>4
      <3>6. ASSUME NEW o \in DOMAIN jobs'
            PROVE  /\ jobs'[o].id \in IF jobs'[o].direct THEN DirectIds ELSE FetchIds
                   /\ Busy(jobs'[o]) => registry'[jobs'[o].id] = o /\ ~jobs'[o].old
        <4>1. CASE o = n
          BY <1>1, <3>1, <3>2, <3>3, <3>4, <4>1
        <4>2. CASE o # n
          BY <1>1, <3>1, <3>3, <3>4, <4>2 DEF ImportInv
        <4> QED
          BY <4>1, <4>2
      <3>7. ASSUME NEW p \in DOMAIN jobs', NEW q \in DOMAIN jobs',
                   Busy(jobs'[p]), Busy(jobs'[q]), jobs'[p].head = jobs'[q].head
            PROVE  p = q
        BY <3>2, <3>3, <3>4, <3>7 DEF ImportInv
      <3> QED
        BY <3>3, <3>5, <3>6, <3>7 DEF ImportInv, Busy
    <2> QED
      BY <2>1, <2>2
  <1>3. ASSUME NEW id \in DirectIds, NEW head \in Heads, handleGithubTarballImport(id, head)
        PROVE  ImportInv'
    <2>0. PICK job : job = NewJob(id, head, "importing", TRUE)
      OBVIOUS
    <2>1. jobs' = Append(jobs, job) /\ registry' = registry
      BY <1>3, <2>0 DEF handleGithubTarballImport
    <2>2. job \in Job /\ job.id = id /\ job.direct
      BY <2>0 DEF NewJob, Job, JobIds
    <2>3. /\ jobs' \in Seq(Job) /\ DOMAIN jobs' = DOMAIN jobs \cup {Len(jobs) + 1}
          /\ jobs'[Len(jobs) + 1] = job /\ Len(jobs) + 1 \notin DOMAIN jobs
          /\ \A o \in DOMAIN jobs : jobs'[o] = jobs[o]
      BY <2>1, <2>2 DEF ImportInv
    <2>4. ~Busy(job)
      BY <2>2 DEF Busy
    <2> QED
      BY <2>1, <2>2, <2>3, <2>4 DEF ImportInv, Busy
  <1>4. ASSUME NEW o \in DOMAIN jobs, NEW job \in Job,
               jobs' = [jobs EXCEPT ![o] = job], UNCHANGED registry,
               job.id = jobs[o].id, job.head = jobs[o].head, job.direct = jobs[o].direct,
               Busy(job) => Busy(jobs[o]) /\ ~job.old
        PROVE  ImportInv'
    BY <1>4, JobGoesOn
  <1>5. ASSUME NEW o \in DOMAIN jobs, NEW status \in Statuses, setStatus(o, status)
        PROVE  \E job \in Job :
                  /\ job.id = jobs[o].id /\ job.head = jobs[o].head
                  /\ job.direct = jobs[o].direct /\ job.old = jobs[o].old
                  /\ job.status = status /\ jobs' = [jobs EXCEPT ![o] = job]
    <2>1. PICK job : job = [jobs[o] EXCEPT !.status = status]
      OBVIOUS
    <2>2. /\ job \in Job /\ job.id = jobs[o].id /\ job.head = jobs[o].head
          /\ job.direct = jobs[o].direct /\ job.old = jobs[o].old /\ job.status = status
      BY <1>1, <2>1 DEF Job
    <2>3. jobs' = [jobs EXCEPT ![o] = job]
      BY <1>5, <2>1 DEF setStatus
    <2> QED
      BY <2>2, <2>3
  <1>6. ASSUME NEW o \in DOMAIN jobs, NEW status \in Statuses, setStatus(o, status),
               UNCHANGED registry,
               status \in {"fetching", "importing"} => jobs[o].status \in {"queued", "fetching"},
               status # "queued"
        PROVE  ImportInv'
    <2> HIDE DEF Statuses
    <2>0. PICK job \in Job :
             /\ job.id = jobs[o].id /\ job.head = jobs[o].head
             /\ job.direct = jobs[o].direct /\ job.old = jobs[o].old
             /\ job.status = status /\ jobs' = [jobs EXCEPT ![o] = job]
      BY <1>5, <1>6
    <2>1. Busy(job) => Busy(jobs[o]) /\ ~job.old
      BY <1>6, <2>0 DEF Busy, ImportInv
    <2> QED
      BY <1>4, <1>6, <2>0, <2>1
  <1>7. ASSUME NEW o \in DOMAIN jobs, StartFetch(o) \/ Fetched(o) \/ ExtractFails(o)
        PROVE  ImportInv'
    BY <1>6, <1>7 DEF StartFetch, Fetched, ExtractFails
  <1>8. ASSUME NEW o \in DOMAIN jobs, AgeJob(o) PROVE ImportInv'
    <2>0. PICK job : job = [jobs[o] EXCEPT !.old = TRUE]
      OBVIOUS
    <2>1. /\ job \in Job /\ job.id = jobs[o].id /\ job.head = jobs[o].head
          /\ job.direct = jobs[o].direct /\ job.status = jobs[o].status
      BY <1>1, <2>0 DEF Job
    <2>2. jobs' = [jobs EXCEPT ![o] = job] /\ UNCHANGED registry /\ ~Busy(job)
      BY <1>1, <1>8, <2>0, <2>1 DEF AgeJob, Busy, Finished
    <2> QED
      BY <1>4, <2>1, <2>2
  <1>9. ASSUME NEW o \in DOMAIN jobs, NEW allowed \in BOOLEAN, WriteChunk(o, allowed)
        PROVE  ImportInv'
    <2>0. PICK job : job = [jobs[o] EXCEPT !.chunk = @ + 1]
      OBVIOUS
    <2>1. /\ job \in Job /\ job.id = jobs[o].id /\ job.head = jobs[o].head
          /\ job.direct = jobs[o].direct /\ job.status = jobs[o].status /\ job.old = jobs[o].old
      BY <1>1, <2>0 DEF Job
    <2>2. jobs' = [jobs EXCEPT ![o] = job] /\ UNCHANGED registry
      BY <1>1, <1>9, <2>0 DEF WriteChunk
    <2>3. Busy(job) => Busy(jobs[o]) /\ ~job.old
      BY <2>1 DEF Busy, ImportInv
    <2> QED
      BY <1>4, <2>1, <2>2, <2>3
  <1>10. ASSUME NEW o \in DOMAIN jobs, NEW allowed \in BOOLEAN, FinishImport(o, allowed)
         PROVE  ImportInv'
    <2>1. CASE ~jobs[o].direct
      BY <1>6, <1>10, <2>1 DEF FinishImport
    <2>2. CASE jobs[o].direct
      <3>0. setStatus(o, "completed") /\ registry' = [reg EXCEPT ![jobs[o].id] = o]
        BY <1>10, <2>2 DEF FinishImport
      <3>1. PICK job \in Job : /\ job.id = jobs[o].id /\ job.direct
                               /\ jobs' = [jobs EXCEPT ![o] = job]
        BY <1>5, <2>2, <3>0
      <3> HIDE DEF reg, Statuses
      <3>2. jobs' \in Seq(Job) /\ DOMAIN jobs' = DOMAIN jobs /\ ~Busy(job)
            /\ \A q \in DOMAIN jobs : jobs'[q] = IF q = o THEN job ELSE jobs[q]
        BY <3>1 DEF ImportInv, Busy
      <3>3. job.id \in DirectIds /\ registry' \in [JobIds -> DOMAIN jobs' \cup {NoJob}]
        BY <1>1, <2>2, <3>0, <3>1, <3>2 DEF ImportInv
      <3>4. ASSUME NEW q \in DOMAIN jobs, Busy(jobs'[q])
            PROVE  q # o /\ jobs'[q] = jobs[q] /\ registry'[jobs[q].id] = q /\ ~jobs[q].old
        <4>1. q # o /\ jobs'[q] = jobs[q] /\ jobs[q].id \in FetchIds
          BY <3>2, <3>4 DEF ImportInv, Busy
        <4> QED
          BY <1>1, <3>0, <3>1, <3>3, <3>4, <4>1 DEF ImportInv, JobIds
      <3> QED
        BY <2>2, <3>1, <3>2, <3>3, <3>4 DEF ImportInv, Busy
    <2> QED
      BY <2>1, <2>2
  <1> QED
    BY <1>2, <1>3, <1>7, <1>8, <1>9, <1>10 DEF ImportNext

(* However requests for it overlap, finish, fail or are forgotten, a head   *)
(* is downloaded and imported by one fetch job at a time, as long as direct *)
(* imports name other job ids than fetches.                                 *)
THEOREM OneFetch ==
    ASSUME FetchIds \cap DirectIds = {}
    PROVE  Spec => []OneFetchPerHead
  <1>1. Init => ImportInv
    BY DEF Init, ImportInit, ImportInv
  <1>2. ImportInv /\ [Next]_vars => ImportInv'
    <2> SUFFICES ASSUME ImportInv, [Next]_vars PROVE ImportInv'
      OBVIOUS
    <2>1. CASE UNCHANGED importVars
      BY <2>1 DEF importVars, ImportInv, Busy
    <2>2. CASE ImportNext
      BY <2>2, ImportStep
    <2> QED
      BY <2>1, <2>2 DEF Next, vars
  <1>3. ImportInv => OneFetchPerHead
    BY DEF ImportInv, OneFetchPerHead, Busy
  <1> QED
    BY <1>1, <1>2, <1>3, PTL DEF Spec

-----------------------------------------------------------------------------
(* Permission rules *)

(* A file as it was before any client changed it. *)
Untouched(p) == files[p] # Absent /\ files[p].rev = 1

(* A write that names the first revision finds no rule of it against it. *)
MayReplace(p) == Untouched(p) => ~DeniedBy(files[p].rules, "write", p)

ReqFields == {"op", "pc", "from", "want", "found", "todo", "more", "items", "dir", "cache",
              "version", "ifMatch", "allowed"}

IsReq(r) == r = [x \in ReqFields |-> r[x]]

(* The handler that runs serves the request of the plan. *)
Serves(r) == IsReq(r) /\ r.op = plan.op /\ r.ifMatch = plan.ifMatch

EventTypes == {"file.created", "file.updated", "file.deleted"}

EventRecord ==
    [path : Paths, type : EventTypes, acl : (SUBSET Rules) \cup {Absent}, readable : BOOLEAN]

(* Rules are snapshot with every event but old deletes, and say whether the *)
(* reader could read the file then.                                         *)
EventTrue(e) ==
    IF e.acl = Absent THEN e.type = "file.deleted"
    ELSE scopeAllows(e.path, "read") /\ permits(e.acl, "read", e.path) => e.readable

StoreInv ==
    /\ plan \in ApiConfigs
    /\ files = [p \in Paths |-> files[p]]
    /\ \A p \in Paths : files[p] # Absent =>
          files[p].rev \in Nat \ {0} /\ files[p].rules \in SUBSET Rules
    /\ log \in Seq(EventRecord)
    /\ \A i \in DOMAIN log : EventTrue(log[i])

Served(s) == s \in Seq(DOMAIN log) /\ \A i \in DOMAIN s : log[s[i]].readable

IsClient(c) == c = [cursor |-> c.cursor, got |-> c.got, steady |-> c.steady, status |-> c.status]

(* A request for events collects what could be read. *)
EventsInv ==
    plan.op \in {"asc", "desc"} =>
        /\ client.cursor \in 0..Len(log) /\ Served(client.got)
        /\ req # NoReq =>
              /\ req.from \in 0..Len(log) /\ req.more \in 0..Len(log)
              /\ Served(req.items)
              /\ req.pc = "event" => req.todo \in Seq(DOMAIN log) /\ req.todo # <<>>

(* A file whose rules were looked at was there when they were. *)
SingleInv ==
    plan.op \in Single /\ req # NoReq =>
        /\ req.todo = plan.paths
        /\ req.pc \in {"preflight", "preflightTarget", "read", "resolve", "store"}
        /\ req.pc = "resolve" => (Untouched(Head(req.todo)) => req.version # Absent)
        /\ req.pc = "store" /\ plan.op # "read_file" => MayReplace(Head(req.todo))

BulkWriteInv ==
    plan.op = "bulk_write" /\ req # NoReq =>
        /\ req.todo \in Seq(Paths) /\ req.allowed \subseteq Paths
        /\ req.pc \in {"check", "resolve", "store"}
        /\ req.pc # "store" => req.todo # <<>>
        /\ req.pc = "resolve" => (Untouched(Head(req.todo)) => req.version # Absent)
        /\ \A p \in req.allowed : MayReplace(p)

EffectRespects(e) ==
    ~DeniedBy(IF e.action = "read" THEN permissionsFromFile(e.over) ELSE e.over.rules,
              e.action, e.path)

ApiInv ==
    /\ StoreInv
    /\ IsClient(client)
    /\ req # NoReq => Serves(req)
    /\ EventsInv /\ SingleInv /\ BulkWriteInv
    /\ \A e \in effects : EffectRespects(e)

(* Who is permitted is denied by none of the rules. *)
LEMMA NotDenied ==
    ASSUME NEW R, NEW S \in SUBSET R, NEW action, NEW p, permits(R, action, p)
    PROVE  ~DeniedBy(S, action, p)
  BY DEF permits, filePermissionAllows, DeniedBy

LEMMA NoReqDiffers == \A r : IsReq(r) => r # NoReq
  BY DEF IsReq, NoReq, ReqFields

(* A step that leaves the store alone and goes on with the request of the   *)
(* plan, or ends it.                                                        *)
LEMMA RequestGoesOn ==
    ASSUME ApiInv, UNCHANGED <<plan, files, log>>, IsClient(client'),
           req' # NoReq => Serves(req'), EventsInv', SingleInv', BulkWriteInv',
           \A e \in effects' \ effects : EffectRespects(e)
    PROVE  ApiInv'
  <1>1. StoreInv'
    BY DEF ApiInv, StoreInv, EventTrue, scopeAllows, permits
  <1>2. \A e : EffectRespects(e)' <=> EffectRespects(e')
    BY DEF EffectRespects, DeniedBy, permissionsFromFile
  <1>3. \A e \in effects' : EffectRespects(e)'
    BY DEF ApiInv, EffectRespects, DeniedBy, permissionsFromFile
  <1> QED
    BY <1>1, <1>3 DEF ApiInv, Serves

(* The same for a request of another kind. *)
Listing == {"query", "tree", "export", "bulk_read"}

LEMMA ListingGoesOn ==
    ASSUME ApiInv, KeepStore, UNCHANGED effects, plan.op \in Listing,
           IsClient(client'), req' # NoReq => Serves(req')
    PROVE  ApiInv'
  <1>1. EventsInv' /\ SingleInv' /\ BulkWriteInv'
    BY DEF KeepStore, Listing, EventsInv, SingleInv, BulkWriteInv, Single
  <1> QED
    BY <1>1, RequestGoesOn DEF KeepStore

(* What Continue, Answer and Fail leave. *)
LEMMA ContinueKeeps ==
    ASSUME ApiInv, NEW r, Serves(r), Continue(r), UNCHANGED plan
    PROVE  IsClient(client') /\ (req' # NoReq => Serves(req'))
  BY DEF ApiInv, Continue, Serves

LEMMA AnswerKeeps ==
    ASSUME ApiInv, NEW items, NEW next, Answer(items, next)
    PROVE  IsClient(client') /\ req' = NoReq
  BY DEF ApiInv, Answer, IsClient

LEMMA FailKeeps ==
    ASSUME ApiInv, Fail
    PROVE  IsClient(client') /\ req' = NoReq
  BY DEF ApiInv, Fail, IsClient

(* A record of the request with other fields still serves it. *)
LEMMA ServesWith ==
    ASSUME NEW r, Serves(r), NEW x
    PROVE  /\ Serves([r EXCEPT !.pc = x]) /\ Serves([r EXCEPT !.from = x])
           /\ Serves([r EXCEPT !.todo = x]) /\ Serves([r EXCEPT !.more = x])
           /\ Serves([r EXCEPT !.items = x]) /\ Serves([r EXCEPT !.found = x])
           /\ Serves([r EXCEPT !.cache = x]) /\ Serves([r EXCEPT !.version = x])
           /\ Serves([r EXCEPT !.allowed = x])
  BY DEF Serves, IsReq, ReqFields

(* The step of a handler that ends in one of the three. *)
GoesOn == IsClient(client') /\ (req' # NoReq => Serves(req'))

LEMMA QueryGoesOn ==
    ASSUME ApiInv, UNCHANGED plan, NEW r, Serves(r), QueryBatchDone(r)
    PROVE  GoesOn
  <1>1. \/ Continue([r EXCEPT !.pc = "item"])
        \/ \E next : Answer(r.items, next)
        \/ Continue([r EXCEPT !.pc = "batch", !.from = r.more])
    BY DEF QueryBatchDone
  <1>2. Serves([r EXCEPT !.pc = "batch", !.from = r.more])
    BY DEF Serves, IsReq, ReqFields
  <1> QED
    BY <1>1, <1>2, ContinueKeeps, AnswerKeeps, ServesWith DEF GoesOn

LEMMA QueryStep ==
    ASSUME ApiInv, QueryCursor \/ QueryCursorAcl \/ QueryBatch \/ QueryItem
    PROVE  ApiInv'
  <1>1. req # NoReq /\ Serves(req) /\ plan.op \in Listing /\ KeepStore /\ UNCHANGED effects
    BY DEF ApiInv, QueryCursor, QueryCursorAcl, QueryBatch, QueryItem, Step, NoReq, Serves,
           Listing
  <1>2. UNCHANGED plan
    BY <1>1 DEF KeepStore
  <1>3. GoesOn
    <2>1. CASE QueryCursor
      BY <1>1, <1>2, <2>1, ContinueKeeps, ServesWith DEF QueryCursor, GoesOn
    <2>2. CASE QueryCursorAcl
      BY <1>1, <1>2, <2>2, ContinueKeeps, FailKeeps, ServesWith DEF QueryCursorAcl, GoesOn
    <2>3. CASE QueryBatch
      <3>1. PICK batch : IF batch.ok
              THEN QueryBatchDone([req EXCEPT !.todo = batch.items, !.more = batch.next])
              ELSE Fail
        BY <2>3 DEF QueryBatch
      <3>2. Serves([req EXCEPT !.todo = batch.items, !.more = batch.next])
        BY <1>1 DEF Serves, IsReq, ReqFields
      <3> QED
        BY <1>2, <3>1, <3>2, QueryGoesOn, FailKeeps DEF GoesOn
    <2>4. CASE QueryItem
      <3>1. PICK items : QueryBatchDone([req EXCEPT !.todo = Tail(@), !.items = items])
        BY <2>4 DEF QueryItem
      <3>2. Serves([req EXCEPT !.todo = Tail(@), !.items = items])
        BY <1>1 DEF Serves, IsReq, ReqFields
      <3> QED
        BY <1>2, <3>1, <3>2, QueryGoesOn
    <2> QED
      BY <2>1, <2>2, <2>3, <2>4
  <1> QED
    BY <1>1, <1>3, ListingGoesOn DEF GoesOn, Serves, KeepStore

LEMMA TreePageGoesOn ==
    ASSUME ApiInv, UNCHANGED plan, NEW r, Serves(r), TreePageDone(r)
    PROVE  GoesOn
  <1>1. \/ \E x : Continue([r EXCEPT !.pc = x, !.from = 0])
        \/ Continue([r EXCEPT !.pc = "raw"])
        \/ Answer(r.items, 0)
        \/ Fail
    BY DEF TreePageDone
  <1>2. \A x : Serves([r EXCEPT !.pc = x, !.from = 0])
    BY DEF Serves, IsReq, ReqFields
  <1> QED
    BY <1>1, <1>2, ContinueKeeps, AnswerKeeps, FailKeeps, ServesWith DEF GoesOn

LEMMA TreeEntryGoesOn ==
    ASSUME ApiInv, UNCHANGED plan, Serves(req), NEW entry, NEW visible \in BOOLEAN,
           TreeEntry(entry, visible)
    PROVE  GoesOn
  <1> DEFINE r == [req EXCEPT !.todo = Tail(@)]
  <1>1. Serves(r)
    BY DEF Serves, IsReq, ReqFields
  <1>2. \/ TreePageDone(r)
        \/ TreePageDone([r EXCEPT !.found = entry = req.want])
        \/ Answer(req.items, Last(req.items))
        \/ TreePageDone([r EXCEPT !.items = Append(req.items, entry)])
    BY DEF TreeEntry
  <1> HIDE DEF r
  <1> QED
    BY <1>1, <1>2, ServesWith, TreePageGoesOn, AnswerKeeps DEF GoesOn

LEMMA TreeStep ==
    ASSUME ApiInv, TreeFirst \/ TreeCount \/ TreeFile \/ TreeDirPage \/ TreeDirItem \/ TreeRaw
    PROVE  ApiInv'
  <1>1. req # NoReq /\ Serves(req) /\ plan.op \in Listing /\ KeepStore /\ UNCHANGED effects
    <2>1. req.op = "tree" /\ KeepStore /\ UNCHANGED effects
      <3>1. \E pc : Step("tree", pc)
        BY DEF TreeFirst, TreeCount, TreeFile, TreeDirPage, TreeDirItem, TreeRaw
      <3>2. KeepStore /\ UNCHANGED effects
        BY DEF TreeFirst, TreeCount, TreeFile, TreeDirPage, TreeDirItem, TreeRaw
      <3> QED
        BY <3>1, <3>2 DEF Step
    <2> QED
      BY <2>1 DEF ApiInv, NoReq, Serves, Listing
  <1>2. UNCHANGED plan
    BY <1>1 DEF KeepStore
  <1>3. GoesOn
    <2>1. CASE TreeFirst
      <3>1. PICK page : Continue([req EXCEPT !.pc = "count", !.from = 0, !.todo = page.items,
                                             !.more = page.next])
        BY <2>1 DEF TreeFirst
      <3>2. Serves([req EXCEPT !.pc = "count", !.from = 0, !.todo = page.items,
                               !.more = page.next])
        BY <1>1 DEF Serves, IsReq, ReqFields
      <3> QED
        BY <1>2, <3>1, <3>2, ContinueKeeps DEF GoesOn
    <2>2. CASE TreeCount
      <3>1. \/ Fail
            \/ \E next : Continue([req EXCEPT !.from = next])
            \/ TreePageDone(req)
        BY <2>2 DEF TreeCount
      <3> QED
        BY <1>1, <1>2, <3>1, FailKeeps, ContinueKeeps, ServesWith, TreePageGoesOn DEF GoesOn
    <2>3. CASE TreeFile
      <3>1. treeFileVisible(Head(req.todo)) \in BOOLEAN
        BY DEF treeFileVisible, permits, filePermissionAllows
      <3> QED
        BY <1>1, <1>2, <2>3, <3>1, TreeEntryGoesOn DEF TreeFile
    <2>4. CASE TreeDirPage
      <3>1. \/ Fail
            \/ TreeEntry(Head(req.todo), FALSE)
            \/ \E items, next : Continue([req EXCEPT !.pc = "dirItem", !.cache = items,
                                                     !.from = next])
        BY <2>4 DEF TreeDirPage
      <3>2. \A items, next : Serves([req EXCEPT !.pc = "dirItem", !.cache = items,
                                                !.from = next])
        BY ZenonT(40), <1>1 DEF Serves, IsReq, ReqFields
      <3> QED
        BY <1>1, <1>2, <3>1, <3>2, FailKeeps, ContinueKeeps, TreeEntryGoesOn DEF GoesOn
    <2>5. CASE TreeDirItem
      <3>1. \/ TreeEntry(Head(req.todo), TRUE)
            \/ TreeEntry(Head(req.todo), FALSE)
            \/ Continue([req EXCEPT !.cache = Tail(@)])
            \/ Continue([req EXCEPT !.pc = "dir"])
        BY <2>5 DEF TreeDirItem
      <3>2. Serves([req EXCEPT !.cache = Tail(@)])
        BY <1>1 DEF Serves, IsReq, ReqFields
      <3> QED
        BY <1>1, <1>2, <3>1, <3>2, ContinueKeeps, ServesWith, TreeEntryGoesOn DEF GoesOn
    <2>6. CASE TreeRaw
      <3>1. PICK page : IF page.ok
              THEN TreePageDone([req EXCEPT !.todo = page.items, !.more = page.next])
              ELSE Fail
        BY <2>6 DEF TreeRaw
      <3>2. Serves([req EXCEPT !.todo = page.items, !.more = page.next])
        BY <1>1 DEF Serves, IsReq, ReqFields
      <3> QED
        BY <1>2, <3>1, <3>2, TreePageGoesOn, FailKeeps DEF GoesOn
    <2> QED
      BY <2>1, <2>2, <2>3, <2>4, <2>5, <2>6
  <1> QED
    BY <1>1, <1>3, ListingGoesOn DEF GoesOn, Serves, KeepStore

LEMMA ExportStep ==
    ASSUME ApiInv, ExportSnapshot \/ ExportItem
    PROVE  ApiInv'
  <1>1. req # NoReq /\ Serves(req) /\ plan.op \in Listing /\ KeepStore /\ UNCHANGED effects
    BY DEF ApiInv, ExportSnapshot, ExportItem, Step, NoReq, Serves, Listing
  <1>2. UNCHANGED plan
    BY <1>1 DEF KeepStore
  <1>3. \/ \E items : Answer(items, 0)
        \/ Fail
        \/ \E todo : Continue([req EXCEPT !.pc = "item", !.todo = todo])
        \/ \E items : Continue([req EXCEPT !.todo = Tail(@), !.items = items])
    BY DEF ExportSnapshot, ExportItem
  <1>4. /\ \A todo : Serves([req EXCEPT !.pc = "item", !.todo = todo])
        /\ \A items : Serves([req EXCEPT !.todo = Tail(@), !.items = items])
    BY <1>1 DEF Serves, IsReq, ReqFields
  <1>5. GoesOn
    BY <1>2, <1>3, <1>4, AnswerKeeps, FailKeeps, ContinueKeeps DEF GoesOn
  <1> QED
    BY <1>1, <1>5, ListingGoesOn DEF GoesOn, Serves, KeepStore

LEMMA NextPathGoesOn ==
    ASSUME ApiInv, UNCHANGED plan, NEW r, Serves(r), NextPath(r)
    PROVE  GoesOn
  <1>1. \/ \E items : Answer(items, 0)
        \/ \E items, pc : Continue([r EXCEPT !.todo = Tail(@), !.items = items,
                                             !.version = Absent, !.pc = pc])
    BY DEF NextPath
  <1>2. \A items, pc : Serves([r EXCEPT !.todo = Tail(@), !.items = items,
                                        !.version = Absent, !.pc = pc])
    BY ZenonT(40) DEF Serves, IsReq, ReqFields
  <1> QED
    BY <1>1, <1>2, AnswerKeeps, ContinueKeeps DEF GoesOn

LEMMA BulkReadStep ==
    ASSUME ApiInv, BulkReadAcl \/ BulkReadAclTarget \/ BulkReadFile \/ BulkReadFresh
    PROVE  ApiInv'
  <1>1. req # NoReq /\ Serves(req) /\ plan.op = "bulk_read" /\ KeepStore
    BY DEF ApiInv, BulkReadAcl, BulkReadAclTarget, BulkReadFile, BulkReadFresh, Step, NoReq,
           Serves
  <1>2. UNCHANGED <<plan, files, log>>
    BY <1>1 DEF KeepStore
  <1>3. GoesOn
    <2>1. \/ Fail
          \/ \E cache : Continue([req EXCEPT !.pc = "aclTarget", !.cache = cache])
          \/ Continue([req EXCEPT !.pc = "read"])
          \/ NextPath(req)
          \/ \E version : Continue([req EXCEPT !.pc = "fresh", !.version = version])
      BY DEF BulkReadAcl, BulkReadAclTarget, BulkReadFile, BulkReadFresh
    <2>2. /\ \A cache : Serves([req EXCEPT !.pc = "aclTarget", !.cache = cache])
          /\ \A version : Serves([req EXCEPT !.pc = "fresh", !.version = version])
      BY <1>1 DEF Serves, IsReq, ReqFields
    <2> QED
      BY <1>1, <1>2, <2>1, <2>2, FailKeeps, ContinueKeeps, NextPathGoesOn, ServesWith
         DEF GoesOn
  <1>4. \A e \in effects' \ effects : EffectRespects(e)
    <2>1. CASE BulkReadFresh
      <3> DEFINE p == Head(req.todo)
                 rules == resolveBulkReadPermissionsForReturnedFile(p, req.version)
                 e == [path |-> p, action |-> "read", over |-> req.version]
      <3>1. effects' = effects \/ (permits(rules, "read", p) /\ effects' = effects \cup {e})
        BY <2>1 DEF BulkReadFresh
      <3>2. permissionsFromFile(req.version) \subseteq rules
        BY DEF resolveBulkReadPermissionsForReturnedFile
      <3>3. permits(rules, "read", p) => EffectRespects(e)
        <4> HIDE DEF rules
        <4> QED
          BY <3>2, NotDenied DEF EffectRespects
      <3> QED
        BY <3>1, <3>3
    <2>2. CASE UNCHANGED effects
      BY <2>2
    <2> QED
      BY <2>1, <2>2 DEF BulkReadAcl, BulkReadAclTarget, BulkReadFile
  <1>5. EventsInv' /\ SingleInv' /\ BulkWriteInv'
    BY <1>1, <1>2 DEF EventsInv, SingleInv, BulkWriteInv, Single
  <1> QED
    BY <1>2, <1>3, <1>4, <1>5, RequestGoesOn DEF GoesOn

LEMMA RestOfSequence ==
    ASSUME NEW S, NEW s \in Seq(S), s # <<>>
    PROVE  Head(s) \in S /\ Tail(s) \in Seq(S)
  OBVIOUS

(* What was served stays served. *)
LEMMA ServedWith ==
    ASSUME ApiInv, NEW s, Served(s), NEW i \in DOMAIN log, log[i].readable
    PROVE  Served(Append(s, i))
  <1>1. s \in Seq(DOMAIN log) /\ Append(s, i) \in Seq(DOMAIN log)
    BY DEF Served
  <1>2. \A j \in DOMAIN Append(s, i) : Append(s, i)[j] = IF j \in DOMAIN s THEN s[j] ELSE i
    BY <1>1
  <1> QED
    BY <1>1, <1>2 DEF Served

LEMMA ServedBoth ==
    ASSUME ApiInv, NEW s, NEW t, Served(s), Served(t)
    PROVE  Served(s \o t)
  <1>1. s \in Seq(DOMAIN log) /\ t \in Seq(DOMAIN log) /\ s \o t \in Seq(DOMAIN log)
    BY DEF Served
  <1>2. \A j \in DOMAIN (s \o t) : \/ j \in DOMAIN s /\ (s \o t)[j] = s[j]
                                   \/ j - Len(s) \in DOMAIN t /\ (s \o t)[j] = t[j - Len(s)]
    BY <1>1
  <1> QED
    BY <1>1, <1>2 DEF Served

(* A page of events names events of the log. *)
LEMMA EventPages ==
    ASSUME log \in Seq(EventRecord), NEW cursor \in 0..Len(log)
    PROVE  /\ GetEvents(cursor, EventPage).items \in Seq(DOMAIN log)
           /\ GetEvents(cursor, EventPage).next \in 0..Len(log)
           /\ GetEventsTail(cursor, EventPage).items \in Seq(DOMAIN log)
           /\ GetEventsTail(cursor, EventPage).next \in 0..Len(log)
  <1>0. EventPage \in Nat \ {0} /\ Len(log) \in Nat /\ DOMAIN log = 1..Len(log)
    BY ApiBounds
  <1>1. \A a, b \in Int : Min({a, b}) = IF a <= b THEN a ELSE b
    BY DEF Min
  <1>2. \A a, b \in Int : Max({a, b}) = IF a >= b THEN a ELSE b
    BY DEF Max
  <1>3. /\ GetEvents(cursor, EventPage).items \in Seq(DOMAIN log)
        /\ GetEvents(cursor, EventPage).next \in 0..Len(log)
    <2>1. PICK last : last = Min({cursor + EventPage, Len(log)})
      OBVIOUS
    <2>2. last \in Nat /\ last <= Len(log)
      BY <1>0, <1>1, <2>1
    <2>3. GetEvents(cursor, EventPage) =
            [items |-> [i \in 1..(last - cursor) |-> cursor + i],
             next |-> IF last < Len(log) THEN last ELSE 0]
      BY <2>1 DEF GetEvents
    <2> QED
      BY <1>0, <2>2, <2>3
  <1>4. /\ GetEventsTail(cursor, EventPage).items \in Seq(DOMAIN log)
        /\ GetEventsTail(cursor, EventPage).next \in 0..Len(log)
    <2>1. PICK end : end = IF cursor = 0 THEN Len(log) ELSE cursor - 1
      OBVIOUS
    <2>2. PICK start : start = Max({end - EventPage, 0})
      OBVIOUS
    <2>3. end \in 0..Len(log) /\ start \in 0..end
      BY <1>0, <1>2, <2>1, <2>2
    <2>4. GetEventsTail(cursor, EventPage) =
            [items |-> [i \in 1..(end - start) |-> end + 1 - i],
             next |-> IF start > 0 THEN start + 1 ELSE 0]
      BY <2>1, <2>2 DEF GetEventsTail
    <2>5. start > 0 => start < end
      <3>1. end - EventPage \in Int /\ 0 \in Int
        BY <1>0, <2>3
      <3>2. start = IF end - EventPage >= 0 THEN end - EventPage ELSE 0
        BY <1>2, <2>2, <3>1
      <3> QED
        BY <1>0, <2>3, <3>1, <3>2
    <2> QED
      BY <1>0, <2>3, <2>4, <2>5
  <1> QED
    BY <1>3, <1>4

LEMMA EventPageGoesOn ==
    ASSUME ApiInv, UNCHANGED <<plan, files, log>>, plan.op \in {"asc", "desc"}, NEW r, Serves(r),
           r.from \in 0..Len(log), r.more \in 0..Len(log), Served(r.items),
           r.todo \in Seq(DOMAIN log), EventPageDone(r)
    PROVE  GoesOn /\ EventsInv'
  <1>0. /\ client.cursor \in 0..Len(log) /\ Served(client.got) /\ IsClient(client)
        /\ Len(log) \in Nat
    BY DEF ApiInv, EventsInv, StoreInv
  <1>1. CASE Continue([r EXCEPT !.pc = "event"]) /\ r.todo # <<>>
    <2>1. GoesOn
      BY <1>1, ContinueKeeps, ServesWith DEF GoesOn
    <2>2. /\ req'.from = r.from /\ req'.more = r.more /\ req'.items = r.items
          /\ req'.todo = r.todo /\ UNCHANGED client
      BY <1>1 DEF Continue, Serves, IsReq, ReqFields
    <2> QED
      BY <1>0, <1>1, <2>1, <2>2 DEF EventsInv, Served
  <1>2. CASE Answer(r.items, 0)
    <2>1. GoesOn
      BY <1>2, AnswerKeeps DEF GoesOn
    <2>2. req' = NoReq /\ client'.cursor = 0 /\ client'.got = client.got \o r.items
      BY <1>0, <1>2 DEF Answer, IsClient
    <2>3. Served(client.got \o r.items)
      BY <1>0, ServedBoth
    <2>4. Served(client.got)'
      BY <2>2, <2>3 DEF Served
    <2>5. (client.cursor \in 0..Len(log))'
      BY <1>0, <2>2
    <2> QED
      BY <2>1, <2>2, <2>4, <2>5 DEF EventsInv
  <1>3. CASE Continue([r EXCEPT !.pc = "page", !.from = r.more])
    <2>0. Serves([r EXCEPT !.pc = "page", !.from = r.more])
      BY DEF Serves, IsReq, ReqFields
    <2>1. GoesOn
      BY <1>3, <2>0, ContinueKeeps DEF GoesOn
    <2>2. /\ req'.from = r.more /\ req'.more = r.more /\ req'.items = r.items
          /\ req'.pc = "page" /\ UNCHANGED client
      BY <1>3 DEF Continue, Serves, IsReq, ReqFields
    <2> QED
      BY <1>0, <2>1, <2>2 DEF EventsInv, Served
  <1> QED
    BY <1>1, <1>2, <1>3 DEF EventPageDone

LEMMA EventStep ==
    ASSUME ApiInv, EventsPage \/ EventItem
    PROVE  ApiInv'
  <1>1. /\ req # NoReq /\ Serves(req) /\ plan.op \in {"asc", "desc"} /\ KeepStore
        /\ UNCHANGED effects
    BY DEF ApiInv, EventsPage, EventItem, NoReq, Serves
  <1>2. UNCHANGED <<plan, files, log>>
    BY <1>1 DEF KeepStore
  <1>3. /\ req.from \in 0..Len(log) /\ req.more \in 0..Len(log) /\ Served(req.items)
        /\ log \in Seq(EventRecord) /\ \A i \in DOMAIN log : EventTrue(log[i])
    BY <1>1 DEF ApiInv, EventsInv, StoreInv
  <1>4. GoesOn /\ EventsInv'
    <2>1. CASE EventsPage
      <3>1. PICK page : /\ page \in {GetEventsTail(req.from, EventPage), GetEvents(req.from, EventPage)}
                        /\ EventPageDone([req EXCEPT !.todo = page.items, !.more = page.next])
        BY <2>1 DEF EventsPage
      <3>2. page.items \in Seq(DOMAIN log) /\ page.next \in 0..Len(log)
        BY <1>3, <3>1, EventPages
      <3>3. PICK r : r = [req EXCEPT !.todo = page.items, !.more = page.next]
        OBVIOUS
      <3>4. /\ Serves(r) /\ r.from = req.from /\ r.more = page.next /\ r.items = req.items
            /\ r.todo = page.items
        BY <1>1, <3>3 DEF Serves, IsReq, ReqFields
      <3> QED
        BY <1>1, <1>2, <1>3, <3>1, <3>2, <3>3, <3>4, EventPageGoesOn
    <2>2. CASE EventItem
      <3>0. req.todo \in Seq(DOMAIN log) /\ req.todo # <<>>
        BY <1>1, <2>2 DEF EventItem, ApiInv, EventsInv
      <3>1. PICK i \in DOMAIN log : i = Head(req.todo)
        BY <3>0
      <3>2. PICK rest : rest = [req EXCEPT !.todo = Tail(@)]
        OBVIOUS
      <3>3. /\ Serves(rest) /\ rest.from = req.from /\ rest.more = req.more
            /\ rest.items = req.items /\ rest.todo = Tail(req.todo)
        BY <1>1, <3>2 DEF Serves, IsReq, ReqFields
      <3>4. rest.todo \in Seq(DOMAIN log)
        BY <3>0, <3>3, RestOfSequence
      <3>5. PICK q : q = [rest EXCEPT !.items = Append(@, i)]
        OBVIOUS
      <3>6. /\ Serves(q) /\ q.from = req.from /\ q.more = req.more
            /\ q.items = Append(req.items, i) /\ q.todo = Tail(req.todo)
        BY <3>3, <3>5 DEF Serves, IsReq, ReqFields
      <3>7. \/ EventPageDone(rest)
            \/ eventVisibleToClaims(log[i]) /\ EventPageDone(q)
            \/ Answer(req.items, Last(req.items)) /\ Len(req.items) >= EventLimit
        BY <1>3, <2>2, <3>1, <3>2, <3>5, ApiBounds DEF EventItem, Served
      <3>8. CASE EventPageDone(rest)
        BY <1>1, <1>2, <1>3, <3>3, <3>4, <3>8, EventPageGoesOn
      <3>9. CASE eventVisibleToClaims(log[i]) /\ EventPageDone(q)
        <4>1. log[i].readable
          BY <1>3, <3>9 DEF eventVisibleToClaims, EventTrue
        <4>2. Served(q.items)
          BY <1>3, <3>6, <4>1, ServedWith
        <4> QED
          BY <1>1, <1>2, <1>3, <3>3, <3>4, <3>6, <3>9, <4>2, EventPageGoesOn
      <3>10. CASE Answer(req.items, Last(req.items)) /\ Len(req.items) >= EventLimit
        <4>0. Served(client.got) /\ IsClient(client) /\ EventLimit \in Nat \ {0}
          BY <1>1, ApiBounds DEF ApiInv, EventsInv
        <4>1. GoesOn
          BY <3>10, AnswerKeeps DEF GoesOn
        <4>2. /\ req' = NoReq /\ client'.cursor = Last(req.items)
              /\ client'.got = client.got \o req.items
          BY <3>10, <4>0 DEF Answer, IsClient
        <4>3. Served(client.got \o req.items)
          BY <1>3, <4>0, ServedBoth
        <4>4. Last(req.items) \in 0..Len(log)
          BY <1>3, <3>10, <4>0 DEF Served, Last
        <4> QED
          BY <1>2, <4>1, <4>2, <4>3, <4>4 DEF EventsInv, Served
      <3> QED
        BY <3>7, <3>8, <3>9, <3>10
    <2> QED
      BY <2>1, <2>2
  <1>5. SingleInv' /\ BulkWriteInv'
    BY <1>1, <1>2 DEF SingleInv, BulkWriteInv, Single
  <1> QED
    BY <1>1, <1>2, <1>4, <1>5, RequestGoesOn DEF GoesOn

(* Who may write with the rules of the file among those looked at may       *)
(* replace it.                                                              *)
LEMMA CheckedMayReplace ==
    ASSUME StoreInv, NEW p \in Paths, NEW known \in BOOLEAN, Untouched(p) => known,
           permits(ResolveFilePermissions(p, known), "write", p)
    PROVE  MayReplace(p)
  <1> SUFFICES ASSUME Untouched(p)
               PROVE  ~DeniedBy(files[p].rules, "write", p)
    BY DEF MayReplace
  <1>1. files[p].rules \subseteq ResolveFilePermissions(p, known)
    BY DEF Untouched, ResolveFilePermissions, resolvePermissionsFromFiles
  <1> QED
    BY <1>1, NotDenied

(* A write that names a revision replaces only what it may. *)
LEMMA ReplacesRespects ==
    ASSUME ApiInv, Serves(req), NEW p \in Paths, MayReplace(p),
           IfMatchHolds(files[p], req.ifMatch), NEW e \in Replaces(p)
    PROVE  EffectRespects(e)
  <1>1. /\ files[p] # Absent /\ req.ifMatch # AnyRevision
        /\ e = [path |-> p, action |-> "write", over |-> files[p]]
    BY DEF Replaces
  <1>2. req.ifMatch \in {-1, 0, 1} /\ files[p].rev \in Nat \ {0}
    BY <1>1, RequestAssumption DEF ApiInv, StoreInv, Serves
  <1>3. files[p].rev = 1
    BY <1>1, <1>2 DEF IfMatchHolds, AnyRevision
  <1>4. ~DeniedBy(files[p].rules, "write", p)
    BY <1>1, <1>3 DEF MayReplace, Untouched
  <1> QED
    BY <1>1, <1>4 DEF EffectRespects

LEMMA BulkWriteChecks ==
    ASSUME ApiInv, BulkWriteCheck \/ BulkWriteResolve
    PROVE  ApiInv'
  <1>1. /\ req # NoReq /\ Serves(req) /\ plan.op = "bulk_write" /\ KeepStore
        /\ UNCHANGED effects /\ req.pc \in {"check", "resolve"}
    <2>1. /\ Step("bulk_write", "check") \/ Step("bulk_write", "resolve")
          /\ KeepStore /\ UNCHANGED effects
      BY DEF BulkWriteCheck, BulkWriteResolve
    <2> QED
      BY <2>1 DEF ApiInv, Step, NoReq, Serves
  <1>2. UNCHANGED <<plan, files, log>>
    BY <1>1 DEF KeepStore
  <1>3. /\ req.todo \in Seq(Paths) /\ req.todo # <<>> /\ req.allowed \subseteq Paths
        /\ req.pc = "resolve" => (Untouched(Head(req.todo)) => req.version # Absent)
        /\ \A q \in req.allowed : MayReplace(q)
        /\ StoreInv /\ IsClient(client)
    BY <1>1 DEF ApiInv, BulkWriteInv
  <1>4. PICK p \in Paths : p = Head(req.todo)
    BY <1>3, RestOfSequence
  <1>5. Tail(req.todo) \in Seq(Paths)
    BY <1>3, RestOfSequence
  <1>6. \A q \in Paths : MayReplace(q)' <=> MayReplace(q)
    BY <1>2 DEF MayReplace, Untouched, DeniedBy
  <1>7. GoesOn /\ BulkWriteInv'
    <2>1. CASE Continue([req EXCEPT !.pc = "resolve", !.version = files[p]])
      <3>1. Serves([req EXCEPT !.pc = "resolve", !.version = files[p]])
        BY <1>1 DEF Serves, IsReq, ReqFields
      <3>2. GoesOn
        BY <1>2, <2>1, <3>1, ContinueKeeps DEF GoesOn
      <3>3. /\ req'.todo = req.todo /\ req'.allowed = req.allowed /\ req'.pc = "resolve"
            /\ req'.version = files[p]
        BY <1>1, <2>1 DEF Continue, Serves, IsReq, ReqFields
      <3>4. (Untouched(Head(req.todo)) => req.version # Absent)'
        BY <1>2, <1>4, <3>3 DEF Untouched
      <3> QED
        BY <1>3, <1>6, <3>2, <3>3, <3>4 DEF BulkWriteInv
    <2>2. ASSUME NEW ok \in BOOLEAN, BulkWriteNext(req, ok), ok => MayReplace(p)
          PROVE  GoesOn /\ BulkWriteInv'
      <3>1. PICK pc, items, allowed :
                  /\ Continue([req EXCEPT !.todo = Tail(@), !.version = Absent,
                                          !.allowed = allowed, !.items = items, !.pc = pc])
                  /\ allowed = (IF ok THEN req.allowed \cup {p} ELSE req.allowed)
                  /\ pc \in {"store", "check"}
                  /\ pc = "check" => Tail(req.todo) # <<>>
        <4> DEFINE a == IF ok THEN req.allowed \cup {p} ELSE req.allowed
                   t == IF ok THEN req.items ELSE Append(req.items, p)
                   s == [req EXCEPT !.todo = Tail(@), !.version = Absent, !.allowed = a,
                                    !.items = t]
                   c == IF s.todo = <<>> THEN "store" ELSE "check"
        <4>1. Continue([s EXCEPT !.pc = c])
          BY <1>4, <2>2 DEF BulkWriteNext
        <4>2. s.todo = Tail(req.todo)
          BY <1>1 DEF Serves, IsReq, ReqFields
        <4>3. [s EXCEPT !.pc = c] = [req EXCEPT !.todo = Tail(@), !.version = Absent,
                                          !.allowed = a, !.items = t, !.pc = c]
          <5> HIDE DEF c, a, t
          <5> QED
            BY <1>1 DEF Serves, IsReq, ReqFields
        <4>4. c \in {"store", "check"} /\ (c = "check" => Tail(req.todo) # <<>>)
          BY <4>2
        <4> HIDE DEF s, c, t
        <4> QED
          BY <4>1, <4>3, <4>4
      <3>2. Serves([req EXCEPT !.todo = Tail(@), !.version = Absent,
                               !.allowed = allowed, !.items = items, !.pc = pc])
        BY <1>1 DEF Serves, IsReq, ReqFields
      <3>3. GoesOn
        BY <1>2, <3>1, <3>2, ContinueKeeps DEF GoesOn
      <3>4. req'.todo = Tail(req.todo) /\ req'.allowed = allowed /\ req'.pc = pc
        BY <1>1, <3>1 DEF Continue, Serves, IsReq, ReqFields
      <3>5. allowed \subseteq Paths /\ \A q \in allowed : MayReplace(q)'
        BY <1>3, <1>6, <2>2, <3>1
      <3> QED
        BY <1>5, <3>1, <3>3, <3>4, <3>5 DEF BulkWriteInv
    <2>3. CASE BulkWriteCheck
      BY <1>4, <2>1, <2>2, <2>3 DEF BulkWriteCheck
    <2>4. CASE BulkWriteResolve
      <3>1. Checked(p, req.version) \in BOOLEAN
        BY DEF Checked, permits, filePermissionAllows
      <3>2. Checked(p, req.version) => MayReplace(p)
        BY <1>3, <1>4, <2>4, CheckedMayReplace DEF Checked, BulkWriteResolve, Step
      <3> QED
        BY <1>4, <2>2, <2>4, <3>1, <3>2 DEF BulkWriteResolve
    <2> QED
      BY <2>3, <2>4
  <1>8. EventsInv' /\ SingleInv'
    BY <1>1, <1>2 DEF EventsInv, SingleInv, Single
  <1> QED
    BY <1>1, <1>2, <1>7, <1>8, RequestGoesOn DEF GoesOn

(* A bulk write ends the exchange; no step follows it. *)
BulkWritten ==
    plan.op = "bulk_write" /\ req = NoReq /\ client.status = "done" /\ RulesRespected

LEMMA BulkWriteEnds ==
    ASSUME ApiInv, BulkWrite
    PROVE  BulkWritten'
  <1>1. /\ req # NoReq /\ Serves(req) /\ plan.op = "bulk_write" /\ UNCHANGED plan
        /\ req.allowed \subseteq Paths /\ \A p \in req.allowed : MayReplace(p)
    BY DEF ApiInv, BulkWrite, BulkWriteInv, Step, NoReq, Serves
  <1>2. PICK items : Answer(items, 0)
    BY DEF BulkWrite
  <1>3. req' = NoReq /\ client'.status = "done"
    BY <1>2 DEF Answer, ApiInv, IsClient
  <1>4. \A e \in effects' : EffectRespects(e)
    <2>1. effects' = effects
              \cup UNION {Replaces(p) : p \in {p \in req.allowed :
                                                  IfMatchHolds(files[p], req.ifMatch)}}
      BY DEF BulkWrite
    <2> QED
      BY <1>1, <2>1, ReplacesRespects DEF ApiInv
  <1>5. RulesRespected'
    BY <1>1, <1>4 DEF RulesRespected, EffectRespects, DeniedBy, permissionsFromFile
  <1> QED
    BY <1>1, <1>3, <1>5 DEF BulkWritten

(* What a change of a file leaves: rules that files have, true events, and  *)
(* no file that looks as at first but was changed.                          *)
FilesAged == \A q \in Paths : Untouched(q)' => Untouched(q) /\ files'[q] = files[q]

LogGrows ==
    /\ log' \in Seq(EventRecord) /\ Len(log) <= Len(log')
    /\ \A i \in DOMAIN log : log'[i] = log[i]

LEMMA ResolvedRules ==
    ASSUME NEW fs, NEW p \in Paths,
           \A q \in Paths : fs[q] # Absent => fs[q].rules \in SUBSET Rules
    PROVE  resolvePermissionsFromFiles(fs, p, TRUE) \in SUBSET Rules
  BY ApiBounds DEF resolvePermissionsFromFiles

LEMMA StoreEventTrue ==
    ASSUME StoreInv, NEW p \in Paths, NEW type \in EventTypes, NEW acl \in SUBSET Rules,
           StoreEvent(p, type, acl)
    PROVE  LogGrows /\ \A i \in DOMAIN log' : EventTrue(log'[i])
  <1>1. acl # Absent
    BY RequestAssumption
  <1>2. (scopeAllows(p, "read") /\ permits(acl, "read", p)) \in BOOLEAN
    OBVIOUS
  <1>3. PICK e : /\ log' = Append(log, e)
                 /\ e = [path |-> p, type |-> type, acl |-> acl,
                         readable |-> scopeAllows(p, "read") /\ permits(acl, "read", p)]
    BY DEF StoreEvent
  <1>4. e \in EventRecord
    BY <1>2, <1>3 DEF EventRecord
  <1>5. EventTrue(e)
    BY <1>1, <1>3 DEF EventTrue
  <1>6. /\ log \in Seq(EventRecord) /\ log' \in Seq(EventRecord) /\ Len(log') = Len(log) + 1
        /\ \A i \in DOMAIN log : log'[i] = log[i]
        /\ \A i \in DOMAIN log' : i \in DOMAIN log \/ log'[i] = e
    BY <1>3, <1>4 DEF StoreInv
  <1> QED
    BY <1>5, <1>6 DEF LogGrows, StoreInv

LEMMA PutFileKeeps ==
    ASSUME StoreInv, NEW p \in Paths, NEW rules \in SUBSET Rules, NEW seed,
           PutFile(p, rules, seed)
    PROVE  /\ LogGrows /\ FilesAged /\ \A i \in DOMAIN log' : EventTrue(log'[i])
           /\ files' = [q \in Paths |-> files'[q]]
           /\ \A q \in Paths : files'[q] # Absent =>
                 files'[q].rev \in Nat \ {0} /\ files'[q].rules \in SUBSET Rules
  <1>0. Len(log) \in Nat /\ files = [q \in Paths |-> files[q]]
    BY DEF StoreInv
  <1>1. PICK v : /\ files' = [files EXCEPT ![p] = v] /\ v.rev = 2 + Len(log)
                 /\ v.rules \in {rules} \cup IF files[p] = Absent THEN {} ELSE {files[p].rules}
    <2> DEFINE w == IF files[p] = Absent
                    THEN [rev |-> 2 + Len(log), rules |-> rules, seed |-> seed]
                    ELSE [rev |-> 2 + Len(log), seed |-> seed,
                          rules |-> IF rules = {} THEN files[p].rules ELSE rules]
    <2>1. files' = [files EXCEPT ![p] = w]
      BY <1>0 DEF PutFile
    <2>2. /\ w.rev = 2 + Len(log)
          /\ w.rules \in {rules} \cup IF files[p] = Absent THEN {} ELSE {files[p].rules}
      OBVIOUS
    <2> HIDE DEF w
    <2> QED
      BY <2>1, <2>2
  <1>2. v.rules \in SUBSET Rules
    BY <1>1 DEF StoreInv
  <1>3. /\ files' = [q \in Paths |-> files'[q]] /\ files'[p] = v
        /\ \A q \in Paths : q # p => files'[q] = files[q]
    BY <1>0, <1>1
  <1>4. \A q \in Paths : files'[q] # Absent =>
            files'[q].rev \in Nat \ {0} /\ files'[q].rules \in SUBSET Rules
    BY <1>0, <1>1, <1>2, <1>3 DEF StoreInv
  <1>5. FilesAged
    BY <1>0, <1>1, <1>3 DEF FilesAged, Untouched
  <1>6. resolvePermissionsFromFiles(files', p, TRUE) \in SUBSET Rules
    BY <1>4, ResolvedRules
  <1>7. \E type \in EventTypes : StoreEvent(p, type, resolvePermissionsFromFiles(files', p, TRUE))
    BY DEF PutFile, EventTypes
  <1> QED
    BY <1>3, <1>4, <1>5, <1>6, <1>7, StoreEventTrue

LEMMA DropFileKeeps ==
    ASSUME StoreInv, NEW p \in Paths, DropFile(p)
    PROVE  /\ LogGrows /\ FilesAged /\ \A i \in DOMAIN log' : EventTrue(log'[i])
           /\ files' = [q \in Paths |-> files'[q]]
           /\ \A q \in Paths : files'[q] # Absent =>
                 files'[q].rev \in Nat \ {0} /\ files'[q].rules \in SUBSET Rules
  <1>0. files = [q \in Paths |-> files[q]]
    BY DEF StoreInv
  <1>1. /\ files' = [q \in Paths |-> files'[q]] /\ files'[p] = Absent
        /\ \A q \in Paths : q # p => files'[q] = files[q]
    BY <1>0 DEF DropFile
  <1>2. ResolveFilePermissions(p, TRUE) \in SUBSET Rules
    BY ResolvedRules DEF StoreInv, ResolveFilePermissions
  <1>3. LogGrows /\ \A i \in DOMAIN log' : EventTrue(log'[i])
    BY <1>2, StoreEventTrue DEF DropFile, EventTypes
  <1> QED
    BY <1>1, <1>3 DEF FilesAged, Untouched, StoreInv

(* The invariant of the store, from its parts. *)
LEMMA StoreKept ==
    ASSUME StoreInv, UNCHANGED plan, LogGrows, \A i \in DOMAIN log' : EventTrue(log'[i]),
           files' = [q \in Paths |-> files'[q]],
           \A q \in Paths : files'[q] # Absent =>
                 files'[q].rev \in Nat \ {0} /\ files'[q].rules \in SUBSET Rules
    PROVE  StoreInv'
  <1>1. (\A i \in DOMAIN log : EventTrue(log[i]))'
    BY DEF EventTrue, scopeAllows, permits
  <1> QED
    BY <1>1 DEF StoreInv, LogGrows

(* What could be read stays so when the log grows. *)
LEMMA ServedLater ==
    ASSUME StoreInv, LogGrows, NEW s, Served(s)
    PROVE  s \in Seq(DOMAIN log') /\ \A i \in DOMAIN s : log'[s[i]].readable
  <1>1. DOMAIN log \subseteq DOMAIN log'
    BY DEF StoreInv, LogGrows
  <1>2. s \in Seq(DOMAIN log) /\ \A i \in DOMAIN s : s[i] \in DOMAIN log
    BY DEF Served
  <1>3. s \in Seq(DOMAIN log')
    BY <1>1, <1>2
  <1> QED
    BY <1>2, <1>3 DEF Served, LogGrows

LEMMA OtherStep ==
    ASSUME ApiInv, NEW p \in Paths, OtherChanges(p)
    PROVE  ApiInv'
  <1>1. /\ StoreInv /\ IsClient(client) /\ UNCHANGED <<plan, req, effects>>
        /\ IsClient(client') /\ client'.cursor = client.cursor /\ client'.got = client.got
    BY DEF ApiInv, OtherChanges, IsClient
  <1>2. \/ \E rules \in SUBSET Rules : \E seed : PutFile(p, rules, seed)
        \/ DropFile(p)
    <2>1. \A rules \in RuleSets : rules \in SUBSET Rules
      BY DEF Rules
    <2> QED
      BY <2>1 DEF OtherChanges
  <1>3. LogGrows /\ FilesAged /\ StoreInv'
    BY <1>1, <1>2, PutFileKeeps, DropFileKeeps, StoreKept
  <1>4. Len(log) \in Nat /\ Len(log') \in Nat /\ DOMAIN log \subseteq DOMAIN log'
    BY <1>1, <1>3 DEF StoreInv, LogGrows
  <1>5. EventsInv'
    <2> SUFFICES ASSUME plan.op \in {"asc", "desc"}
                 PROVE  EventsInv'
      BY <1>1 DEF EventsInv
    <2>1. client.cursor \in 0..Len(log) /\ Served(client.got)
      BY DEF ApiInv, EventsInv
    <2>2. Served(client.got)'
      BY <1>1, <1>3, <2>1, ServedLater DEF Served
    <2>3. (client.cursor \in 0..Len(log))'
      BY <1>1, <1>3, <1>4, <2>1 DEF LogGrows
    <2>4. ASSUME req # NoReq
          PROVE  (/\ req.from \in 0..Len(log) /\ req.more \in 0..Len(log) /\ Served(req.items)
                  /\ req.pc = "event" => req.todo \in Seq(DOMAIN log) /\ req.todo # <<>>)'
      <3>1. /\ req.from \in 0..Len(log) /\ req.more \in 0..Len(log) /\ Served(req.items)
            /\ req.pc = "event" => req.todo \in Seq(DOMAIN log) /\ req.todo # <<>>
        BY <2>4 DEF ApiInv, EventsInv
      <3>2. Served(req.items)'
        BY <1>1, <1>3, <3>1, ServedLater DEF Served
      <3>3. (req.from \in 0..Len(log) /\ req.more \in 0..Len(log))'
        BY <1>1, <1>3, <1>4, <3>1 DEF LogGrows
      <3>4. \A s \in Seq(DOMAIN log) : s \in Seq(DOMAIN log')
        BY <1>4
      <3> QED
        BY <1>1, <3>1, <3>2, <3>3, <3>4
    <2> QED
      BY <1>1, <2>2, <2>3, <2>4 DEF EventsInv
  <1>6. \A q \in Paths : MayReplace(q) => MayReplace(q)'
    BY <1>3 DEF FilesAged, MayReplace, Untouched, DeniedBy
  <1>7. \A q \in Paths : Untouched(q)' => Untouched(q)
    BY <1>3 DEF FilesAged
  <1>8. SingleInv'
    <2> SUFFICES ASSUME plan.op \in Single, req # NoReq
                 PROVE  SingleInv'
      BY <1>1 DEF SingleInv
    <2>1. Head(req.todo) \in Paths
      BY RequestAssumption DEF ApiInv, SingleInv, StoreInv, Single
    <2> QED
      BY <1>1, <1>6, <1>7, <2>1 DEF SingleInv, ApiInv
  <1>9. BulkWriteInv'
    <2> SUFFICES ASSUME plan.op = "bulk_write", req # NoReq
                 PROVE  BulkWriteInv'
      BY <1>1 DEF BulkWriteInv
    <2>1. /\ req.todo \in Seq(Paths) /\ req.allowed \subseteq Paths
          /\ req.pc \in {"check", "resolve", "store"}
          /\ req.pc # "store" => req.todo # <<>>
          /\ req.pc = "resolve" => (Untouched(Head(req.todo)) => req.version # Absent)
          /\ \A q \in req.allowed : MayReplace(q)
      BY DEF ApiInv, BulkWriteInv
    <2>2. req.pc = "resolve" => Head(req.todo) \in Paths
      BY <2>1, RestOfSequence
    <2>3. (req.pc = "resolve" => (Untouched(Head(req.todo)) => req.version # Absent))'
      BY <1>1, <1>7, <2>1, <2>2
    <2>4. (\A q \in req.allowed : MayReplace(q))'
      BY <1>1, <1>6, <2>1
    <2> QED
      BY <1>1, <2>1, <2>3, <2>4 DEF BulkWriteInv
  <1>10. (\A e \in effects : EffectRespects(e))'
    BY <1>1 DEF ApiInv, EffectRespects, DeniedBy, permissionsFromFile
  <1>11. (req # NoReq => Serves(req))'
    BY <1>1 DEF ApiInv, Serves
  <1> QED
    BY <1>1, <1>3, <1>5, <1>8, <1>9, <1>10, <1>11 DEF ApiInv

(* The checks of a request for one file. *)
LEMMA SingleChecks ==
    ASSUME ApiInv, Preflight \/ PreflightTarget \/ HandlerRead \/ HandlerResolve
    PROVE  ApiInv'
  <1>1. /\ req # NoReq /\ Serves(req) /\ plan.op \in Single /\ plan.op = req.op
        /\ KeepStore /\ UNCHANGED effects
    <2>1. req.op \in Single /\ KeepStore /\ UNCHANGED effects
      BY DEF Preflight, PreflightTarget, HandlerRead, HandlerResolve
    <2> QED
      BY <2>1 DEF ApiInv, NoReq, Serves, Single
  <1>2. UNCHANGED <<plan, files, log>>
    BY <1>1 DEF KeepStore
  <1>3. /\ req.todo = plan.paths
        /\ req.pc = "resolve" => (Untouched(Head(req.todo)) => req.version # Absent)
        /\ StoreInv
    BY <1>1 DEF ApiInv, SingleInv
  <1>4. PICK p \in Paths : p = Head(req.todo)
    BY <1>1, <1>3, RequestAssumption DEF StoreInv, Single
  <1>5. MayReplace(p)' <=> MayReplace(p)
    BY <1>2 DEF MayReplace, Untouched, DeniedBy
  <1>6. CASE Fail
    BY <1>1, <1>2, <1>6, FailKeeps, RequestGoesOn DEF SingleInv, EventsInv, BulkWriteInv, Single
  <1>7. CASE Answer(<<p>>, 0)
    BY <1>1, <1>2, <1>7, AnswerKeeps, RequestGoesOn DEF SingleInv, EventsInv, BulkWriteInv, Single
  <1>8. ASSUME NEW r, Continue(r), Serves(r), r.todo = req.todo,
               r.pc \in {"preflight", "preflightTarget", "read", "resolve", "store"},
               r.pc = "resolve" => (Untouched(p) => r.version # Absent),
               r.pc = "store" /\ plan.op # "read_file" => MayReplace(p)
        PROVE  ApiInv'
    <2>1. GoesOn
      BY <1>2, <1>8, ContinueKeeps DEF GoesOn
    <2>2. req' = r
      BY <1>8 DEF Continue
    <2>3. SingleInv'
      BY <1>2, <1>3, <1>4, <1>5, <1>8, <2>2 DEF SingleInv, Untouched
    <2>4. EventsInv' /\ BulkWriteInv'
      BY <1>1, <1>2 DEF EventsInv, BulkWriteInv, Single
    <2> QED
      BY <1>1, <1>2, <2>1, <2>3, <2>4, RequestGoesOn DEF GoesOn
  <1>9. ASSUME NEW x, NEW y, NEW r,
               r \in {[req EXCEPT !.pc = x], [req EXCEPT !.pc = x, !.cache = y]}
        PROVE  Serves(r) /\ r.todo = req.todo /\ r.pc = x
    BY <1>1, <1>9 DEF Serves, IsReq, ReqFields
  <1>10. CASE Preflight
    <2>1. Fail \/ \E c : Continue([req EXCEPT !.pc = "preflightTarget", !.cache = c])
      BY <1>10 DEF Preflight
    <2>2. ASSUME NEW c, Continue([req EXCEPT !.pc = "preflightTarget", !.cache = c])
          PROVE  ApiInv'
      <3>1. PICK r : r = [req EXCEPT !.pc = "preflightTarget", !.cache = c]
        OBVIOUS
      <3> QED
        BY <1>8, <1>9, <2>2, <3>1
    <2> QED
      BY <1>6, <2>1, <2>2
  <1>11. CASE PreflightTarget
    <2>1. Fail \/ Continue([req EXCEPT !.pc = "read"])
      BY <1>11 DEF PreflightTarget
    <2> QED
      BY <1>6, <1>8, <1>9, <2>1
  <1>12. CASE HandlerRead
    <2>1. \/ Fail
          \/ files[p] = Absent /\ Continue([req EXCEPT !.pc = "store"])
          \/ Continue([req EXCEPT !.pc = "resolve", !.version = files[p]])
      BY <1>4, <1>12 DEF HandlerRead
    <2>2. files[p] = Absent => MayReplace(p)
      BY DEF MayReplace, Untouched
    <2>3. Untouched(p) => files[p] # Absent
      BY DEF Untouched
    <2>4. CASE Continue([req EXCEPT !.pc = "resolve", !.version = files[p]])
      <3>1. PICK r : r = [req EXCEPT !.pc = "resolve", !.version = files[p]]
        OBVIOUS
      <3>2. Serves(r) /\ r.todo = req.todo /\ r.pc = "resolve" /\ r.version = files[p]
        BY <1>1, <3>1 DEF Serves, IsReq, ReqFields
      <3> QED
        BY <1>8, <2>3, <2>4, <3>1, <3>2
    <2> QED
      BY <1>6, <1>8, <1>9, <2>1, <2>2, <2>4
  <1>13. CASE HandlerResolve
    <2>1. \/ Fail
          \/ Answer(<<p>>, 0)
          \/ /\ permits(ResolveFilePermissions(p, req.version # Absent), FileAction, p)
             /\ Continue([req EXCEPT !.pc = "store"])
      BY <1>4, <1>13 DEF HandlerResolve
    <2>2. plan.op # "read_file" => FileAction = "write"
      BY <1>1 DEF FileAction
    <2>3. Untouched(p) => req.version # Absent
      BY <1>3, <1>4, <1>13 DEF HandlerResolve
    <2>4. permits(ResolveFilePermissions(p, req.version # Absent), FileAction, p)
             /\ plan.op # "read_file" => MayReplace(p)
      BY <1>3, <2>2, <2>3, CheckedMayReplace
    <2> QED
      BY <1>6, <1>7, <1>8, <1>9, <2>1, <2>4
  <1> QED
    BY <1>10, <1>11, <1>12, <1>13

LEMMA SingleStores ==
    ASSUME ApiInv, HandlerWrite \/ HandlerDelete
    PROVE  ApiInv'
  <1>1. /\ req # NoReq /\ Serves(req) /\ plan.op \in {"write_file", "delete_file"}
        /\ req.pc = "store" /\ UNCHANGED plan
    <2>1. (Step("write_file", "store") \/ Step("delete_file", "store")) /\ UNCHANGED plan
      BY DEF HandlerWrite, HandlerDelete
    <2> QED
      BY <2>1 DEF Step, ApiInv, NoReq, Serves
  <1>2. req.todo = plan.paths /\ MayReplace(Head(req.todo)) /\ StoreInv
    BY <1>1 DEF ApiInv, SingleInv, Single
  <1>3. PICK p \in Paths : p = Head(req.todo)
    BY <1>1, <1>2, RequestAssumption DEF StoreInv
  <1>4. CASE Fail /\ UNCHANGED <<files, log, effects>>
    BY <1>1, <1>4, FailKeeps, RequestGoesOn DEF SingleInv, EventsInv, BulkWriteInv, Single
  <1>5. CASE /\ PutFile(p, {}, {}) \/ DropFile(p)
             /\ IfMatchHolds(files[p], req.ifMatch)
             /\ effects' = effects \cup Replaces(p) /\ Answer(<<p>>, 0)
    <2>1. StoreInv'
      BY <1>1, <1>2, <1>5, PutFileKeeps, DropFileKeeps, StoreKept
    <2>2. IsClient(client') /\ req' = NoReq
      BY <1>5, AnswerKeeps
    <2>3. \A e \in effects' : EffectRespects(e)
      BY <1>1, <1>2, <1>3, <1>5, ReplacesRespects DEF ApiInv
    <2>4. (\A e \in effects : EffectRespects(e))'
      BY <2>3 DEF EffectRespects, DeniedBy, permissionsFromFile
    <2>5. EventsInv' /\ SingleInv' /\ BulkWriteInv'
      BY <1>1, <2>2 DEF EventsInv, SingleInv, BulkWriteInv
    <2> QED
      BY <2>1, <2>2, <2>4, <2>5 DEF ApiInv
  <1> QED
    BY <1>3, <1>4, <1>5 DEF HandlerWrite, HandlerDelete

LEMMA RequestStep ==
    ASSUME ApiInv, Request
    PROVE  ApiInv'
  <1>1. /\ UNCHANGED <<plan, files, log, effects>> /\ StoreInv /\ IsClient(client)
    BY DEF Request, ApiInv
  <1>2. /\ IsClient(client') /\ client'.cursor = client.cursor /\ client'.got = client.got
    BY <1>1 DEF Request, IsClient
  <1>3. PICK found : req' = [op |-> plan.op, pc |-> FirstStep[plan.op], from |-> client.cursor,
               want |-> client.cursor, found |-> found,
               todo |-> plan.paths, more |-> 0, items |-> <<>>,
               dir |-> 0, cache |-> Absent, version |-> Absent, ifMatch |-> plan.ifMatch,
               allowed |-> {}]
    BY DEF Request
  <1>4. Serves(req')
    BY <1>3 DEF Serves, IsReq, ReqFields
  <1>5. /\ req'.pc = FirstStep[plan.op] /\ req'.from = client.cursor /\ req'.more = 0
        /\ req'.items = <<>> /\ req'.todo = plan.paths /\ req'.allowed = {}
    BY <1>3
  <1>6. plan.paths \in Seq(Paths) /\ plan.op \in Single \cup {"bulk_write"} => plan.paths # <<>>
    BY <1>1, RequestAssumption DEF StoreInv, Single
  <1>7. EventsInv'
    <2> SUFFICES ASSUME plan.op \in {"asc", "desc"}
                 PROVE  EventsInv'
      BY <1>1 DEF EventsInv
    <2>1. client.cursor \in 0..Len(log) /\ Served(client.got) /\ Len(log) \in Nat
      BY <1>1 DEF ApiInv, EventsInv, StoreInv
    <2>2. Served(<<>>)
      BY DEF Served
    <2>3. req'.pc = "page"
      BY <1>5 DEF FirstStep
    <2> QED
      BY <1>1, <1>2, <1>5, <2>1, <2>2, <2>3 DEF EventsInv, Served
  <1>8. SingleInv'
    BY <1>1, <1>5 DEF SingleInv, FirstStep, Single
  <1>9. BulkWriteInv'
    BY <1>1, <1>5, RequestAssumption DEF BulkWriteInv, FirstStep, StoreInv
  <1> QED
    BY <1>1, <1>2, <1>4, <1>7, <1>8, <1>9, RequestGoesOn DEF Serves

LEMMA ApiInitInv == ApiInit => ApiInv
  <1> SUFFICES ASSUME ApiInit
               PROVE  ApiInv
    OBVIOUS
  <1>1. /\ plan \in ApiConfigs /\ req = NoReq /\ effects = {}
        /\ client = [cursor |-> 0, got |-> <<>>, steady |-> {}, status |-> "start"]
    BY DEF ApiInit
  <1>2. /\ files = [p \in Paths |-> files[p]]
        /\ \A p \in Paths : files[p] # Absent =>
              files[p].rev \in Nat \ {0} /\ files[p].rules \in SUBSET Rules
    <2>1. \A p \in DOMAIN plan.files : plan.files[p].rules \in SUBSET Rules
      <3> TAKE p \in DOMAIN plan.files
      <3>1. plan.files[p].rules \subseteq UNION {plan.files[q].rules : q \in DOMAIN plan.files}
        OBVIOUS
      <3>2. UNION {plan.files[q].rules : q \in DOMAIN plan.files}
              \in {UNION {c.files[q].rules : q \in DOMAIN c.files} : c \in ApiConfigs}
        BY <1>1
      <3> QED
        BY <3>1, <3>2 DEF Rules
    <2>2. \A p \in Paths : files[p] = IF p \in DOMAIN plan.files
                                 THEN [rev |-> 1, rules |-> plan.files[p].rules,
                                       seed |-> plan.files[p].seed]
                                 ELSE Absent
      BY DEF ApiInit
    <2>3. files = [p \in Paths |-> files[p]]
      BY DEF ApiInit
    <2> QED
      BY <2>1, <2>2, <2>3
  <1>3. plan.history \in Seq(Paths)
    BY <1>1, RequestAssumption
  <1>4. log = [i \in 1..Len(plan.history) |->
                [path |-> plan.history[i], type |-> "file.deleted", acl |-> Absent,
                 readable |-> FALSE]]
    BY DEF ApiInit
  <1>5. log \in Seq(EventRecord) /\ \A i \in DOMAIN log : EventTrue(log[i])
    <2>1. Len(plan.history) \in Nat /\ \A i \in 1..Len(plan.history) : plan.history[i] \in Paths
      BY <1>3
    <2>2. \A i \in 1..Len(plan.history) :
            [path |-> plan.history[i], type |-> "file.deleted", acl |-> Absent,
             readable |-> FALSE] \in EventRecord
      BY <2>1 DEF EventRecord, EventTypes
    <2>3. log \in [1..Len(plan.history) -> EventRecord]
      BY <1>4, <2>2
    <2>4. \A i \in DOMAIN log : log[i].acl = Absent /\ log[i].type = "file.deleted"
      BY <1>4
    <2> QED
      BY <2>1, <2>3, <2>4 DEF EventTrue
  <1>6. StoreInv
    BY <1>1, <1>2, <1>5 DEF StoreInv
  <1>7. EventsInv
    BY <1>1, <1>5 DEF EventsInv, Served
  <1> QED
    BY <1>1, <1>6, <1>7 DEF ApiInv, IsClient, SingleInv, BulkWriteInv

(* The handlers at rest, while another part is exercised. *)
ApiAtRest == plan.op = "none" /\ effects = {} /\ part # "files"

RulesInv == ApiAtRest \/ (part = "files" /\ (ApiInv \/ BulkWritten))

LEMMA RulesStep ==
    ASSUME RulesInv, part = "files", ApiNext
    PROVE  ApiInv' \/ BulkWritten'
  <1>1. ApiInv
    <2> SUFFICES ASSUME BulkWritten
                 PROVE  FALSE
      BY DEF RulesInv, ApiAtRest
    <2>1. req = NoReq /\ client.status = "done" /\ req.op = "none"
      BY DEF BulkWritten, NoReq
    <2>2. ~Request /\ \A p : ~OtherChanges(p)
      BY <2>1 DEF OtherChanges, Request
    <2>3. ~QueryCursor /\ ~QueryCursorAcl /\ ~QueryBatch /\ ~QueryItem
      BY <2>1 DEF QueryCursor, QueryCursorAcl, QueryBatch, QueryItem, Step
    <2>4. ~TreeFirst /\ ~TreeCount /\ ~TreeFile /\ ~TreeDirPage /\ ~TreeDirItem /\ ~TreeRaw
      BY <2>1 DEF TreeFirst, TreeCount, TreeFile, TreeDirPage, TreeDirItem, TreeRaw, Step
    <2>5. ~EventsPage /\ ~EventItem /\ ~ExportSnapshot /\ ~ExportItem
      BY <2>1 DEF EventsPage, EventItem, ExportSnapshot, ExportItem, Step
    <2>6. ~BulkReadAcl /\ ~BulkReadAclTarget /\ ~BulkReadFile /\ ~BulkReadFresh
      BY <2>1 DEF BulkReadAcl, BulkReadAclTarget, BulkReadFile, BulkReadFresh, Step
    <2>7. ~BulkWriteCheck /\ ~BulkWriteResolve /\ ~BulkWrite
      BY <2>1 DEF BulkWriteCheck, BulkWriteResolve, BulkWrite, Step
    <2>8. ~Preflight /\ ~PreflightTarget /\ ~HandlerRead /\ ~HandlerResolve
      BY <2>1 DEF Preflight, PreflightTarget, HandlerRead, HandlerResolve, Single
    <2>9. ~HandlerWrite /\ ~HandlerDelete
      BY <2>1 DEF HandlerWrite, HandlerDelete, Step
    <2> QED
      BY <2>2, <2>3, <2>4, <2>5, <2>6, <2>7, <2>8, <2>9 DEF ApiNext
  <1>2. plan.changing \subseteq Paths
    BY <1>1, RequestAssumption DEF ApiInv, StoreInv
  <1> QED
    BY <1>1, <1>2, OtherStep, RequestStep, QueryStep, TreeStep, EventStep, ExportStep,
       BulkReadStep, BulkWriteChecks, BulkWriteEnds, SingleChecks, SingleStores DEF ApiNext

LEMMA RulesInvHolds == RulesInv => RulesRespected
  BY DEF RulesInv, ApiAtRest, BulkWritten, ApiInv, EventsInv, Served, RulesRespected,
         EffectRespects

(* No client is served an event that it could not read when it happened, no  *)
(* bulk read returns a version whose own rules deny the reader, and no write *)
(* that names a revision replaces a version whose own rules deny the writer, *)
(* whatever other clients write, delete and allow between the checks of a    *)
(* handler and its store operation.                                          *)
THEOREM RulesAlwaysRespected == Spec => []RulesRespected
  <1>1. Init => RulesInv
    <2> SUFFICES ASSUME Init
                 PROVE  RulesInv
      OBVIOUS
    <2>0. IF part = "files" THEN ApiInit ELSE ApiRests
      BY DEF Init
    <2>1. CASE part = "files"
      BY <2>0, <2>1, ApiInitInv DEF RulesInv
    <2>2. CASE part # "files"
      BY <2>0, <2>2 DEF RulesInv, ApiRests, ApiAtRest
    <2> QED
      BY <2>1, <2>2
  <1>2. RulesInv /\ [Next]_vars => RulesInv'
    <2> SUFFICES ASSUME RulesInv, [Next]_vars
                 PROVE  RulesInv'
      OBVIOUS
    <2>1. CASE part = "files" /\ ApiNext /\ UNCHANGED part
      BY <2>1, RulesStep DEF RulesInv
    <2>2. CASE UNCHANGED <<part, apiVars>>
      <3>1. UNCHANGED <<plan, files, log, changes, client, req, effects, part>>
        BY <2>2 DEF apiVars
      <3>2. StoreInv' <=> StoreInv
        BY <3>1 DEF StoreInv, EventTrue, scopeAllows, permits
      <3>3. EventsInv' <=> EventsInv
        BY <3>1 DEF EventsInv, Served
      <3>4. SingleInv' <=> SingleInv
        BY <3>1 DEF SingleInv, MayReplace, Untouched, DeniedBy
      <3>5. BulkWriteInv' <=> BulkWriteInv
        BY <3>1 DEF BulkWriteInv, MayReplace, Untouched, DeniedBy
      <3>6. (\A e \in effects : EffectRespects(e))' <=> \A e \in effects : EffectRespects(e)
        BY <3>1 DEF EffectRespects, DeniedBy, permissionsFromFile
      <3>7. RulesRespected' <=> RulesRespected
        BY <3>1 DEF RulesRespected, DeniedBy, permissionsFromFile
      <3> QED
        BY <3>1, <3>2, <3>3, <3>4, <3>5, <3>6, <3>7
           DEF RulesInv, ApiAtRest, ApiInv, BulkWritten, Serves
    <2> QED
      BY <2>1, <2>2 DEF Next, vars
  <1> QED
    BY <1>1, <1>2, RulesInvHolds, PTL DEF Spec
=============================================================================
