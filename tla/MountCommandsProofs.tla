------------------------ MODULE MountCommandsProofs ------------------------
(***************************************************************************)
(* Theorems about the programs around a mirror.  The daemons: who           *)
(* supervises a mirror, what a flush that is reported done has covered,     *)
(* what a successful cycle vouches for, and what the exit code of one run   *)
(* says.  The client's side: the session its programs share, the views it   *)
(* links, and the handles of the FUSE mount.                                *)
(***************************************************************************)
EXTENDS MountCommands, TLAPS, SequenceTheorems

-----------------------------------------------------------------------------
(* Supervisors *)

(* Where a process is, and what the lease, the records and the answers     *)
(* hold.                                                                   *)
Places == {"unborn", "start", "locked", "leased", "look", "clear", "register", "serving",
           "flushing", "leaving", "parting", "spawn", "publish", "wait", "signal", "await",
           "probing", "inspect", "before", "kick", "poll", "done", "failed", "killed"}

Nobody == Pids \cup {NoPid}

Process == [at : Places, ref : Nobody, seen : SUBSET Pids, seq : Nat, stale : BOOLEAN]

Ack == [seq : Nat, pid : Nobody, ok : BOOLEAN, covers : SUBSET Pids]

(* Which commands pass a place. *)
RightPlace(place, r) ==
    /\ place \in {"locked", "look"} => r \in {"mount", "launcher", "child"}
    /\ place = "clear" => r \in {"mount", "launcher", "child", "stop"}
    /\ place = "register" => r \in {"mount", "child"}
    /\ place \in {"leased", "serving", "leaving", "parting"} => r \in {"mount", "child", "binary"}
    /\ place = "flushing" => r = "binary"
    /\ place \in {"spawn", "publish", "wait"} => r = "launcher"
    /\ place \in {"signal", "await"} => r = "stop"
    /\ place \in {"probing", "inspect", "before", "kick", "poll"} => r = "notify"

(* From the lease until the deferred calls: where a command has the lease. *)
Guarded(place, r) ==
    \/ place \in {"leased", "register", "serving", "flushing", "leaving", "parting"}
    \/ place \in {"look", "clear"} /\ r \in {"mount", "child"}

(* Everybody is where its kind can be, and whoever is past the lease has   *)
(* it.                                                                     *)
LeaseInv ==
    /\ proc \in [Pids -> Process]
    /\ lease \in Nobody
    /\ \A p \in Pids : RightPlace(proc[p].at, role[p])
    /\ \A p \in Pids : Guarded(proc[p].at, role[p]) => lease = p
    /\ \A p \in Pids : proc[p].at \in {"clear", "signal"} => p \notin proc[p].seen

(* One process takes a step; the lease goes to it or from it, if anywhere.  *)
LEMMA OneSteps ==
    ASSUME LeaseInv, UNCHANGED role, NEW p \in Pids, NEW r \in Process,
           proc' = [proc EXCEPT ![p] = r], RightPlace(r.at, role[p]), lease' \in Nobody,
           Guarded(r.at, role[p]) => lease' = p, lease' = lease \/ lease \in {p, NoPid},
           r.at \in {"clear", "signal"} => p \notin r.seen
    PROVE  LeaseInv'
  <1>1. proc' \in [Pids -> Process] /\ \A q \in Pids : proc'[q] = IF q = p THEN r ELSE proc[q]
    BY DEF LeaseInv
  <1> HIDE DEF Process
  <1>2. ASSUME NEW q \in Pids PROVE RightPlace(proc'[q].at, role'[q])
    BY <1>1 DEF LeaseInv
  <1>3. ASSUME NEW q \in Pids, Guarded(proc'[q].at, role'[q]) PROVE lease' = q
    BY <1>1, <1>3, SupervisorBounds DEF LeaseInv
  <1>4. ASSUME NEW q \in Pids, proc'[q].at \in {"clear", "signal"} PROVE q \notin proc'[q].seen
    BY <1>1, <1>4 DEF LeaseInv
  <1> QED
    BY <1>1, <1>2, <1>3, <1>4 DEF LeaseInv

(* It moves on and keeps what it has read. *)
LEMMA Moved ==
    ASSUME NEW p \in Pids, NEW place \in Places, proc \in [Pids -> Process], GoesTo(p, place)
    PROVE  \E r \in Process :
               /\ proc' = [proc EXCEPT ![p] = r] /\ r.at = place
               /\ r.ref = proc[p].ref /\ r.seen = proc[p].seen /\ r.seq = proc[p].seq
  <1>1. PICK r : r = [proc[p] EXCEPT !.at = place]
    OBVIOUS
  <1>2. /\ r \in Process /\ r.at = place
        /\ r.ref = proc[p].ref /\ r.seen = proc[p].seen /\ r.seq = proc[p].seq
    BY <1>1 DEF Process
  <1>3. proc' = [proc EXCEPT ![p] = r]
    BY <1>1 DEF GoesTo
  <1> QED
    BY <1>2, <1>3

(* A process goes on from one place to the next.                           *)
LEMMA GoesOn ==
    ASSUME LeaseInv, UNCHANGED role, NEW p \in Pids, NEW place \in Places, GoesTo(p, place),
           RightPlace(place, role[p]), lease' \in Nobody,
           Guarded(place, role[p]) => lease' = p, lease' = lease \/ lease \in {p, NoPid},
           place \in {"clear", "signal"} => proc[p].at = "clear"
    PROVE  LeaseInv'
  <1>1. PICK r \in Process : proc' = [proc EXCEPT ![p] = r] /\ r.at = place /\ r.seen = proc[p].seen
    BY Moved DEF LeaseInv
  <1>2. proc[p].at = "clear" => p \notin proc[p].seen
    BY DEF LeaseInv
  <1> QED
    BY <1>1, <1>2, OneSteps

(* A process ends.                                                         *)
LEMMA ItEnds ==
    ASSUME LeaseInv, UNCHANGED role, NEW p \in Pids, NEW how \in {"done", "failed", "killed"},
           Ends(p, how)
    PROVE  LeaseInv'
  <1>1. GoesTo(p, how) /\ how \in Places /\ RightPlace(how, role[p]) /\ ~Guarded(how, role[p])
    BY DEF Ends, Places, RightPlace, Guarded
  <1>2. lease' \in Nobody /\ (lease' = lease \/ lease \in {p, NoPid})
    BY DEF Ends, ReleaseAll, LeaseInv, Nobody
  <1> QED
    BY <1>1, <1>2, GoesOn

(* Starting. *)
LEMMA StartSteps ==
    ASSUME LeaseInv, NEW p \in Pids,
           \/ acquireMountStartLock(p) \/ Acquire(p) \/ WriteMetadata(p)
           \/ runningMountDaemons(p) \/ ClearStale(p)
           \/ \E c \in Pids : spawnBackgroundMountProcess(p, c)
           \/ writeDaemonPIDStateIfAbsent(p) \/ waitForBackgroundMountRegistration(p)
           \/ writeDaemonPIDState(p)
    PROVE  LeaseInv'
  <1>0. RightPlace(proc[p].at, role[p]) /\ (Guarded(proc[p].at, role[p]) => lease = p) /\ lease \in Nobody
    BY DEF LeaseInv
  <1>e. ASSUME NEW how \in {"done", "failed", "killed"}, Ends(p, how), UNCHANGED role
        PROVE  LeaseInv'
    BY <1>e, ItEnds
  <1>g. ASSUME NEW place \in Places, GoesTo(p, place), UNCHANGED role,
               RightPlace(place, role[p]), lease' \in Nobody,
               Guarded(place, role[p]) => lease' = p, lease' = lease \/ lease \in {p, NoPid},
               place \in {"clear", "signal"} => proc[p].at = "clear"
        PROVE  LeaseInv'
    BY <1>g, GoesOn
  <1>1. CASE acquireMountStartLock(p)
    <2>1. CASE role[p] = "child" \/ startLock = NoPid
      <3>1. /\ role[p] \in {"mount", "launcher", "child"} /\ UNCHANGED <<role, lease>>
            /\ GoesTo(p, "locked")
        BY <1>1, <2>1 DEF acquireMountStartLock
      <3> QED
        BY <1>0, <1>g, <3>1 DEF RightPlace, Guarded, Places
    <2>2. CASE ~(role[p] = "child" \/ startLock = NoPid)
      BY <1>1, <1>e, <2>2 DEF acquireMountStartLock
    <2> QED
      BY <2>1, <2>2
  <1>2. CASE Acquire(p)
    <2>1. /\ UNCHANGED role /\ role[p] \in {"mount", "launcher", "child", "binary"}
      BY <1>0, <1>2 DEF Acquire, At, RightPlace
    <2>2. CASE ~TakesLease(p)
      <3>1. GoesTo(p, "look") /\ UNCHANGED lease /\ role[p] = "launcher"
        BY <1>2, <2>2 DEF Acquire, TakesLease
      <3> QED
        BY <1>0, <1>g, <2>1, <3>1 DEF RightPlace, Guarded, Places
    <2>3. CASE TakesLease(p) /\ lease = NoPid
      <3>1. GoesTo(p, "leased") /\ lease' = p /\ role[p] # "launcher"
        BY <1>2, <2>3 DEF Acquire, TakesLease
      <3> QED
        BY <1>0, <1>g, <2>1, <2>3, <3>1 DEF RightPlace, Guarded, Places, Nobody
    <2>4. CASE TakesLease(p) /\ lease # NoPid
      BY <1>2, <1>e, <2>1, <2>4 DEF Acquire
    <2> QED
      BY <2>2, <2>3, <2>4
  <1>3. CASE WriteMetadata(p)
    <2>1. proc[p].at = "leased" /\ UNCHANGED <<role, lease>> /\ role[p] \in {"mount", "child", "binary"}
      BY <1>0, <1>3 DEF WriteMetadata, At, RightPlace
    <2>2. CASE role[p] = "binary"
      <3>1. GoesTo(p, "serving")
        BY <1>3, <2>2 DEF WriteMetadata
      <3> QED
        BY <1>0, <1>g, <2>1, <2>2, <3>1 DEF RightPlace, Guarded, Places
    <2>3. CASE role[p] # "binary"
      <3>1. GoesTo(p, "look")
        BY <1>3, <2>3 DEF WriteMetadata
      <3> QED
        BY <1>0, <1>g, <2>1, <2>3, <3>1 DEF RightPlace, Guarded, Places
    <2> QED
      BY <2>2, <2>3
  <1>4. CASE runningMountDaemons(p)
    <2> DEFINE S == {q \in Pids \ {p} : Command(q) /\ Alive(q)}
               leftover == pidFile.pid \notin {NoPid, p} /\ ~Alive(pidFile.pid)
    <2>1. PICK r : r = [proc[p] EXCEPT !.at = "clear", !.seen = S, !.stale = leftover]
      OBVIOUS
    <2>2. proc' = [proc EXCEPT ![p] = r] /\ UNCHANGED <<role, lease>>
      BY <1>4, <2>1 DEF runningMountDaemons
    <2>3. S \in SUBSET Pids /\ p \notin S /\ leftover \in BOOLEAN
      OBVIOUS
    <2> HIDE DEF S, leftover
    <2>4. r \in Process /\ r.at = "clear" /\ p \notin r.seen
      <3>1. proc[p] \in Process
        BY DEF LeaseInv
      <3> QED
        BY <2>1, <2>3, <3>1 DEF Process, Places
    <2>5. RightPlace("clear", role[p]) /\ (Guarded("clear", role[p]) => lease = p)
      BY <1>0, <1>4 DEF runningMountDaemons, At, RightPlace, Guarded
    <2> QED
      BY <1>0, <2>2, <2>4, <2>5, OneSteps
  <1>5. CASE ClearStale(p)
    <2>1. UNCHANGED role /\ role[p] \in {"mount", "launcher", "child", "stop"} /\ proc[p].at = "clear"
      BY <1>0, <1>5 DEF ClearStale, At, RightPlace
    <2>2. CASE Ends(p, "failed")
      BY <1>e, <2>1, <2>2
    <2>3. ASSUME role[p] = "stop", UNCHANGED lease, GoesTo(p, "failed") \/ GoesTo(p, "signal")
          PROVE  LeaseInv'
      BY <1>0, <1>g, <2>1, <2>3 DEF RightPlace, Guarded, Places
    <2>4. ASSUME role[p] = "launcher", UNCHANGED lease, GoesTo(p, "spawn") PROVE LeaseInv'
      BY <1>0, <1>g, <2>1, <2>4 DEF RightPlace, Guarded, Places
    <2>5. ASSUME role[p] \in {"mount", "child"}, UNCHANGED lease, GoesTo(p, "register")
          PROVE  LeaseInv'
      BY <1>0, <1>g, <2>1, <2>5 DEF RightPlace, Guarded, Places
    <2> QED
      BY <1>5, <2>1, <2>2, <2>3, <2>4, <2>5 DEF ClearStale
  <1>6. ASSUME NEW c \in Pids, spawnBackgroundMountProcess(p, c) PROVE LeaseInv'
    <2>1. /\ proc[p].at = "spawn" /\ proc[c].at = "unborn" /\ p # c /\ UNCHANGED <<role, lease>>
          /\ role[p] = "launcher" /\ c \in Nobody
      BY <1>0, <1>6 DEF spawnBackgroundMountProcess, At, RightPlace, Nobody
    <2>2. PICK r : r = [proc[p] EXCEPT !.at = "publish", !.ref = c]
      OBVIOUS
    <2>3. PICK s : s = [proc[c] EXCEPT !.at = "start"]
      OBVIOUS
    <2>4. r \in Process /\ r.at = "publish" /\ s \in Process /\ s.at = "start"
      <3>1. proc[p] \in Process /\ proc[c] \in Process
        BY DEF LeaseInv
      <3>2. r \in Process /\ r.at = "publish"
        BY <2>1, <2>2, <3>1 DEF Process, Places
      <3>3. s \in Process /\ s.at = "start"
        BY <2>3, <3>1 DEF Process, Places
      <3> QED
        BY <3>2, <3>3
    <2>5. \A q \in Pids : proc'[q] = IF q = p THEN r ELSE IF q = c THEN s ELSE proc[q]
      BY <1>6, <2>1, <2>2, <2>3 DEF spawnBackgroundMountProcess, LeaseInv
    <2>6. proc' \in [Pids -> Process]
      <3>1. proc' = [q \in Pids |-> proc'[q]]
        BY <1>6 DEF spawnBackgroundMountProcess, LeaseInv
      <3> QED
        BY <2>4, <2>5, <3>1 DEF LeaseInv
    <2>7. ASSUME NEW q \in Pids
          PROVE  /\ RightPlace(proc'[q].at, role'[q])
                 /\ Guarded(proc'[q].at, role'[q]) => lease' = q
                 /\ proc'[q].at \in {"clear", "signal"} => q \notin proc'[q].seen
      BY <2>1, <2>4, <2>5 DEF LeaseInv, RightPlace, Guarded
    <2> QED
      BY <2>1, <2>6, <2>7 DEF LeaseInv
  <1>7. CASE writeDaemonPIDStateIfAbsent(p)
    BY <1>0, <1>7, <1>g DEF writeDaemonPIDStateIfAbsent, At, RightPlace, Guarded, Places
  <1>8. CASE waitForBackgroundMountRegistration(p)
    BY <1>8, <1>e DEF waitForBackgroundMountRegistration
  <1>9. CASE writeDaemonPIDState(p)
    BY <1>0, <1>9, <1>g DEF writeDaemonPIDState, At, RightPlace, Guarded, Places
  <1> QED
    BY <1>1, <1>2, <1>3, <1>4, <1>5, <1>6, <1>7, <1>8, <1>9

(* Whom a stop reaches: each process is as before, or killed with its locks *)
(* released, or leaves; the stop itself waits or is done.                   *)
LEMMA StopReaches ==
    ASSUME LeaseInv, NEW p \in Pids, signalDaemonStop(p) \/ forceDaemonStop(p)
    PROVE  /\ UNCHANGED role /\ proc' \in [Pids -> Process] /\ role[p] = "stop"
           /\ \E dying \in SUBSET Pids :
                /\ ReleaseAll(dying)
                /\ \A q \in Pids :
                    \/ q = p /\ proc'[q].at \in {"done", "await"}
                    \/ q \in dying /\ proc'[q].at = "killed"
                    \/ q \notin dying /\ proc[q].at = "serving" /\ proc'[q].at = "leaving"
                    \/ q \notin dying /\ proc'[q] = proc[q]
  <1>0. RightPlace(proc[p].at, role[p])
    BY DEF LeaseInv
  <1>1. CASE signalDaemonStop(p)
    <2> DEFINE hit == {q \in proc[p].seen : Alive(q)}
               dying == {q \in hit : ~Supervises(q) /\ ~At(q, "parting")}
               Case(q) == CASE q = p -> [proc[q] EXCEPT !.at = IF hit = {} THEN "done" ELSE "await", !.seen = hit]
                            [] q \in dying -> [proc[q] EXCEPT !.at = "killed"]
                            [] q \in hit /\ At(q, "serving") -> [proc[q] EXCEPT !.at = "leaving"]
                            [] OTHER -> proc[q]
    <2>1. /\ proc' = [q \in Pids |-> Case(q)] /\ ReleaseAll(dying) /\ UNCHANGED role
          /\ proc[p].at = "signal"
      BY <1>1 DEF signalDaemonStop, At
    <2>2. hit \in SUBSET Pids /\ dying \in SUBSET Pids /\ role[p] = "stop"
          /\ \A q \in Pids : proc[q] \in Process /\ RightPlace(proc[q].at, role[q])
      BY <1>0, <2>1 DEF LeaseInv, Process, RightPlace
    <2>3. ASSUME NEW q \in Pids
          PROVE  /\ Case(q) \in Process
                 /\ \/ q = p /\ Case(q).at \in {"done", "await"}
                    \/ q \in dying /\ Case(q).at = "killed"
                    \/ q \notin dying /\ proc[q].at = "serving" /\ Case(q).at = "leaving"
                    \/ q \notin dying /\ Case(q) = proc[q]
      <3>0. /\ proc[q] \in Process /\ hit \in SUBSET Pids /\ p \notin hit /\ dying \subseteq hit
            /\ q \in dying => ~At(q, "serving")
        BY <2>1, <2>2 DEF LeaseInv, Supervises, At
      <3> HIDE DEF hit, dying
      <3>1. CASE q = p
        <4>1. PICK place \in {"done", "await"} : Case(q) = [proc[q] EXCEPT !.at = place, !.seen = hit]
          BY <3>0, <3>1, Zenon
        <4>2. PICK c : c = Case(q)
          OBVIOUS
        <4> HIDE DEF Case
        <4>3. c \in Process /\ c.at = place
          BY <3>0, <4>1, <4>2 DEF Process, Places
        <4> QED
          BY <3>1, <4>2, <4>3
      <3>2. ASSUME q # p, NEW place \in Places, Case(q) = [proc[q] EXCEPT !.at = place]
            PROVE  Case(q) \in Process /\ Case(q).at = place
        <4> HIDE DEF Case
        <4> QED
          BY <3>0, <3>2 DEF Process
      <3>3. CASE q # p /\ q \in dying
        <4>1. Case(q) = [proc[q] EXCEPT !.at = "killed"]
          BY <3>0, <3>3, Zenon
        <4> QED
          BY <3>2, <3>3, <4>1, Zenon DEF Places
      <3>4. CASE q # p /\ q \notin dying /\ q \in hit /\ At(q, "serving")
        <4>1. Case(q) = [proc[q] EXCEPT !.at = "leaving"]
          BY <3>0, <3>4, Zenon
        <4> QED
          BY <3>2, <3>4, <4>1, Zenon DEF Places, At
      <3>5. CASE q # p /\ q \notin dying /\ ~(q \in hit /\ At(q, "serving"))
        <4>1. Case(q) = proc[q]
          BY <3>5, Zenon
        <4> QED
          BY <3>0, <3>5, <4>1, Zenon
      <3> QED
        BY <3>1, <3>3, <3>4, <3>5, Zenon
    <2> HIDE DEF hit, dying, Case
    <2>4. proc' \in [Pids -> Process] /\ \A q \in Pids : proc'[q] = Case(q)
      BY <2>1, <2>3
    <2> QED
      BY <2>1, <2>2, <2>3, <2>4
  <1>2. CASE forceDaemonStop(p)
    <2> DEFINE dying == {q \in proc[p].seen : Alive(q)}
    <2>1. /\ proc' = [q \in Pids |-> IF q \in dying THEN [proc[q] EXCEPT !.at = "killed"] ELSE proc[q]]
          /\ ReleaseAll(dying) /\ UNCHANGED role /\ role[p] = "stop"
      BY <1>0, <1>2 DEF forceDaemonStop, At, RightPlace
    <2>2. dying \in SUBSET Pids /\ \A q \in Pids : proc[q] \in Process
      BY DEF LeaseInv, Process
    <2> HIDE DEF dying
    <2>3. ASSUME NEW q \in Pids
          PROVE  /\ proc'[q] \in Process
                 /\ q \in dying => proc'[q].at = "killed"
                 /\ q \notin dying => proc'[q] = proc[q]
      BY <2>1, <2>2 DEF Process, Places
    <2>4. proc' \in [Pids -> Process]
      BY <2>1, <2>3
    <2> QED
      BY <2>1, <2>2, <2>3, <2>4
  <1> QED
    BY <1>1, <1>2

(* Ending. *)
LEMMA EndSteps ==
    ASSUME LeaseInv, NEW p \in Pids,
           \/ Leave(p) \/ RemovePIDFile(p) \/ Release(p) \/ Kill(p)
           \/ signalDaemonStop(p) \/ forceDaemonStop(p) \/ waitForDaemonDiscoveryClear(p)
    PROVE  LeaseInv'
  <1>0. RightPlace(proc[p].at, role[p]) /\ (Guarded(proc[p].at, role[p]) => lease = p) /\ lease \in Nobody
    BY DEF LeaseInv
  <1>1. CASE Leave(p) \/ RemovePIDFile(p) \/ waitForDaemonDiscoveryClear(p)
    BY <1>0, <1>1, GoesOn
       DEF Leave, RemovePIDFile, waitForDaemonDiscoveryClear, At, RightPlace, Guarded, Places
  <1>2. CASE Release(p) \/ Kill(p)
    BY <1>2, ItEnds DEF Release, Kill
  <1>3. ASSUME proc' \in [Pids -> Process], UNCHANGED role, NEW dying \in SUBSET Pids,
               ReleaseAll(dying), \A q \in dying : ~Guarded(proc'[q].at, role[q]),
               \A q \in Pids : RightPlace(proc'[q].at, role[q]),
               \A q \in Pids : Guarded(proc'[q].at, role[q]) => Guarded(proc[q].at, role[q]),
               \A q \in Pids : proc'[q] = proc[q] \/ proc'[q].at \notin {"clear", "signal"}
        PROVE  LeaseInv'
    <2>1. lease' = IF lease \in dying THEN NoPid ELSE lease
      BY <1>3 DEF ReleaseAll
    <2> QED
      BY <1>0, <1>3, <2>1 DEF LeaseInv, Nobody
  <1>4. CASE signalDaemonStop(p) \/ forceDaemonStop(p)
    <2>1. /\ UNCHANGED role /\ proc' \in [Pids -> Process] /\ role[p] = "stop"
          /\ \A q \in Pids : RightPlace(proc[q].at, role[q])
      BY <1>4, StopReaches DEF LeaseInv
    <2>2. PICK dying \in SUBSET Pids :
            /\ ReleaseAll(dying)
            /\ \A q \in Pids :
                \/ q = p /\ proc'[q].at \in {"done", "await"}
                \/ q \in dying /\ proc'[q].at = "killed"
                \/ q \notin dying /\ proc[q].at = "serving" /\ proc'[q].at = "leaving"
                \/ q \notin dying /\ proc'[q] = proc[q]
      BY <1>4, StopReaches
    <2>3. ASSUME NEW q \in Pids
          PROVE  /\ RightPlace(proc'[q].at, role[q])
                 /\ Guarded(proc'[q].at, role[q]) => Guarded(proc[q].at, role[q]) /\ q \notin dying
                 /\ proc'[q] = proc[q] \/ proc'[q].at \notin {"clear", "signal"}
      BY <2>1, <2>2 DEF RightPlace, Guarded
    <2> QED
      BY <1>3, <2>1, <2>2, <2>3
  <1> QED
    BY <1>1, <1>2, <1>3, <1>4

(* A flush on request. *)
LEMMA FlushSteps ==
    ASSUME LeaseInv, asked \in [Pids -> SUBSET Pids], ack \in Ack, leaseMeta \in Nobody,
           NEW p \in Pids,
           \/ serviceFlushRequest(p)
           \/ \E ok, terminal \in BOOLEAN : recordFlushAck(p, ok, terminal)
           \/ Probe(p) \/ GiveBack(p) \/ Inspect(p) \/ ReadFlushAck(p) \/ Kick(p)
           \/ notifyRunningMountFlush(p)
    PROVE  LeaseInv'
  <1>0. /\ RightPlace(proc[p].at, role[p]) /\ proc[p] \in Process /\ lease \in Nobody
        /\ Guarded(proc[p].at, role[p]) => lease = p
    BY DEF LeaseInv
  <1>1. CASE serviceFlushRequest(p)
    <2>1. PICK r : r = [proc[p] EXCEPT !.at = "flushing", !.seen = asked[p]]
      OBVIOUS
    <2>2. /\ proc' = [proc EXCEPT ![p] = r] /\ UNCHANGED <<role, lease>>
          /\ proc[p].at = "serving" /\ role[p] = "binary"
      BY <1>1, <2>1 DEF serviceFlushRequest, At
    <2>3. r \in Process /\ r.at = "flushing"
      BY <1>0, <2>1 DEF Process, Places
    <2>4. RightPlace("flushing", role[p]) /\ lease = p
      BY <1>0, <2>2 DEF RightPlace, Guarded
    <2> QED
      BY <1>0, <2>2, <2>3, <2>4, OneSteps
  <1>2. ASSUME NEW ok \in BOOLEAN, NEW terminal \in BOOLEAN, recordFlushAck(p, ok, terminal)
        PROVE  LeaseInv'
    <2>1. proc[p].at = "flushing" /\ UNCHANGED <<role, lease>>
      BY <1>2 DEF recordFlushAck, At
    <2>2. PICK place \in {"leaving", "serving"} : GoesTo(p, place)
      BY <1>2 DEF recordFlushAck
    <2>3. place \in Places /\ RightPlace(place, role[p]) /\ lease = p
      BY <1>0, <2>1, <2>2 DEF RightPlace, Guarded, Places
    <2> QED
      BY <1>0, <2>1, <2>2, <2>3, GoesOn
  <1>3. CASE Probe(p)
    <2>1. UNCHANGED role /\ role[p] = "notify"
          /\ \/ lease = NoPid /\ lease' = p /\ GoesTo(p, "probing")
             \/ lease' = lease /\ GoesTo(p, "inspect")
      BY <1>3 DEF Probe
    <2> QED
      BY <1>0, <2>1, GoesOn DEF RightPlace, Guarded, Places, Nobody
  <1>4. CASE GiveBack(p)
    BY <1>4, ItEnds DEF GiveBack
  <1>5. CASE Inspect(p)
    <2>1. UNCHANGED <<role, lease>> /\ role[p] = "notify"
      BY <1>0, <1>5 DEF Inspect, At, RightPlace
    <2>2. CASE GoesTo(p, "failed")
      BY <1>0, <2>1, <2>2, GoesOn DEF RightPlace, Guarded, Places
    <2>3. CASE proc' = [proc EXCEPT ![p].at = "before", ![p].ref = leaseMeta]
      <3>1. PICK r : r = [proc[p] EXCEPT !.at = "before", !.ref = leaseMeta]
        OBVIOUS
      <3>2. proc' = [proc EXCEPT ![p] = r]
        BY <2>3, <3>1
      <3>3. r \in Process /\ r.at = "before"
        BY <1>0, <3>1 DEF Process, Places
      <3>4. RightPlace("before", role[p]) /\ ~Guarded("before", role[p])
        BY <2>1 DEF RightPlace, Guarded
      <3> QED
        BY <1>0, <2>1, <3>2, <3>3, <3>4, OneSteps
    <2> QED
      BY <1>5, <2>2, <2>3 DEF Inspect
  <1>6. CASE ReadFlushAck(p)
    <2>1. PICK r : r = [proc[p] EXCEPT !.at = "kick", !.seq = ack.seq]
      OBVIOUS
    <2>2. proc' = [proc EXCEPT ![p] = r] /\ UNCHANGED <<role, lease>> /\ role[p] = "notify"
      BY <1>0, <1>6, <2>1 DEF ReadFlushAck, At, RightPlace
    <2>3. r \in Process /\ r.at = "kick"
      BY <1>0, <2>1 DEF Process, Places, Ack
    <2>4. RightPlace("kick", role[p]) /\ ~Guarded("kick", role[p])
      BY <2>2 DEF RightPlace, Guarded
    <2> QED
      BY <1>0, <2>2, <2>3, <2>4, OneSteps
  <1>7. CASE Kick(p)
    <2>1. UNCHANGED <<role, lease>> /\ role[p] = "notify" /\ (GoesTo(p, "failed") \/ GoesTo(p, "poll"))
      BY <1>0, <1>7 DEF Kick, At, RightPlace
    <2> QED
      BY <1>0, <2>1, GoesOn DEF RightPlace, Guarded, Places
  <1>8. CASE notifyRunningMountFlush(p)
    <2>1. UNCHANGED <<role, lease>> /\ role[p] = "notify"
      BY <1>0, <1>8 DEF notifyRunningMountFlush, At, RightPlace
    <2>2. CASE GoesTo(p, "failed")
      BY <1>0, <2>1, <2>2, GoesOn DEF RightPlace, Guarded, Places
    <2>3. ASSUME NEW place \in {"done", "failed"},
                 proc' = [proc EXCEPT ![p].at = place, ![p].seen = ack.covers]
          PROVE  LeaseInv'
      <3>1. PICK r : r = [proc[p] EXCEPT !.at = place, !.seen = ack.covers]
        OBVIOUS
      <3>2. proc' = [proc EXCEPT ![p] = r]
        BY <2>3, <3>1
      <3>3. r \in Process /\ r.at = place
        BY <1>0, <3>1 DEF Process, Places, Ack
      <3>4. RightPlace(place, role[p]) /\ ~Guarded(place, role[p])
        BY <2>1 DEF RightPlace, Guarded
      <3> QED
        BY <1>0, <2>1, <3>2, <3>3, <3>4, OneSteps
    <2> QED
      BY <1>8, <2>2, <2>3 DEF notifyRunningMountFlush
  <1> QED
    BY <1>1, <1>2, <1>3, <1>4, <1>5, <1>6, <1>7, <1>8

(* What the flush requests share. *)
FilesType ==
    /\ asked \in [Pids -> SUBSET Pids]
    /\ ack \in Ack
    /\ leaseMeta \in Nobody

(* The request and answer files are written whole.                         *)
LEMMA FilesTyped ==
    ASSUME LeaseInv, FilesType, SuperNext
    PROVE  FilesType'
  <1> USE DEF SuperNext
  <1> SUFFICES ASSUME ~UNCHANGED <<asked, ack, leaseMeta>> PROVE FilesType'
    BY DEF FilesType
  <1>1. PICK p \in Pids :
          \/ WriteMetadata(p) \/ Kick(p)
          \/ \E ok, terminal \in BOOLEAN : recordFlushAck(p, ok, terminal)
    BY ZenonT(40) DEF acquireMountStartLock, Acquire, runningMountDaemons, ClearStale,
           spawnBackgroundMountProcess, writeDaemonPIDStateIfAbsent,
           waitForBackgroundMountRegistration, writeDaemonPIDState, Leave, RemovePIDFile,
           Release, Kill, signalDaemonStop, forceDaemonStop, waitForDaemonDiscoveryClear,
           serviceFlushRequest, Probe, GiveBack, Inspect, ReadFlushAck, notifyRunningMountFlush
  <1>2. CASE WriteMetadata(p)
    BY <1>2 DEF WriteMetadata, FilesType, Nobody
  <1>3. CASE Kick(p)
    <2>1. UNCHANGED <<ack, leaseMeta>>
          /\ (asked' = asked \/ asked' = [asked EXCEPT ![proc[p].ref] = @ \cup {p}])
      BY <1>3 DEF Kick
    <2> QED
      BY <2>1 DEF FilesType
  <1>4. ASSUME NEW ok \in BOOLEAN, NEW terminal \in BOOLEAN, recordFlushAck(p, ok, terminal)
        PROVE  FilesType'
    <2>1. /\ ack' = [seq |-> ack.seq + 1, pid |-> p, ok |-> ok, covers |-> proc[p].seen]
          /\ UNCHANGED <<asked, leaseMeta>>
      BY <1>4 DEF recordFlushAck, NextAck
    <2>2. proc[p].seen \in SUBSET Pids /\ ack.seq \in Nat
      BY DEF LeaseInv, Process, FilesType, Ack
    <2> QED
      BY <2>1, <2>2 DEF FilesType, Ack, Nobody
  <1> QED
    BY <1>1, <1>2, <1>3, <1>4

(* The lease is kept and the files are well formed.                        *)
SuperInv == LeaseInv /\ FilesType

(* Every step of a process keeps both.                                     *)
LEMMA SuperStep == SuperInv /\ SuperNext => SuperInv'
  <1> SUFFICES ASSUME SuperInv, SuperNext PROVE SuperInv'
    OBVIOUS
  <1>1. FilesType'
    BY FilesTyped DEF SuperInv
  <1>2. LeaseInv'
    BY StartSteps, EndSteps, FlushSteps DEF SuperNext, SuperInv, FilesType
  <1> QED
    BY <1>1, <1>2 DEF SuperInv

(* Both hold before any process is born.                                   *)
LEMMA SuperStarts == Init => SuperInv
  <1> SUFFICES ASSUME SuperInit PROVE SuperInv
    BY DEF Init, SuperRests
  <1>1. ASSUME NEW place \in {"unborn", "start"} PROVE Waits(place) \in Process /\ Waits(place).at = place
    BY DEF Waits, Process, Places, Nobody
  <1>2. proc \in [Pids -> Process] /\ \A p \in Pids : proc[p].at \in {"unborn", "start"}
    BY <1>1 DEF SuperInit
  <1>3. LeaseInv
    BY <1>2 DEF SuperInit, LeaseInv, RightPlace, Guarded, Nobody
  <1>4. FilesType
    BY DEF SuperInit, FilesType, NoAck, Ack, Nobody
  <1> QED
    BY <1>3, <1>4 DEF SuperInv

(* Hence always, whatever the other parts of the commands do.              *)
LEMMA SuperAlways == Spec => []SuperInv
  <1>1. SuperInv /\ [Next]_vars => SuperInv'
    <2>1. ASSUME SuperInv, UNCHANGED superVars PROVE SuperInv'
      BY <2>1 DEF superVars, SuperInv, LeaseInv, FilesType
    <2> QED
      BY <2>1, SuperStep DEF Next, vars
  <1> QED
    BY <1>1, SuperStarts, PTL DEF Spec

(* Two supervisors never look after the same local files: whoever serves    *)
(* has the lease, from before its first look at other daemons to after its  *)
(* last deferred call, in whatever order launchers, children, standalone    *)
(* mounts and stops start, time out, are signalled and die.                 *)
THEOREM OneSupervises == Spec => []OneSupervisor
  <1>1. SuperInv => OneSupervisor
    BY DEF SuperInv, LeaseInv, Guarded, OneSupervisor, Supervises
  <1> QED
    BY <1>1, SuperAlways, PTL

-----------------------------------------------------------------------------
(* Flush barriers *)

(* A request that is alone and on its way to its signal finds nothing to be *)
(* served; from its signal on, what is served or answered covers it.        *)
Unserved(n) ==
    /\ pending = {}
    /\ \A d \in Pids : proc[d].at # "flushing"
    /\ ack.seq = proc[n].seq

(* From its signal on, what is served or answered covers it.               *)
Underway(n) ==
    /\ n \in asked[proc[n].ref]
    /\ proc[proc[n].ref].at = "flushing" => n \in proc[proc[n].ref].seen
    /\ ack.seq > proc[n].seq /\ ack.pid = proc[n].ref => n \in ack.covers

(* A request has found a daemon to signal.                                 *)
RefFound(n) == proc[n].at \in {"before", "kick", "poll"} => proc[n].ref \in Pids

(* How far an undisturbed request has come.                                *)
AloneServed(n) ==
    /\ role[n] = "notify"
    /\ proc[n].at \in {"kick", "poll", "done", "failed", "killed"}
    /\ proc[n].at = "kick" => Unserved(n)
    /\ proc[n].at = "poll" => Underway(n)
    /\ proc[n].at = "done" => n \in proc[n].seen

(* All requests that met no other.                                         *)
FlushInv ==
    /\ \A n \in Pids : RefFound(n)
    /\ alone \subseteq Pids
    /\ \A n \in alone : AloneServed(n)

(* Whoever moves is not on its way to an answer, and serves nothing new. *)
LEMMA OthersMove ==
    ASSUME FlushInv, UNCHANGED <<role, asked, ack, alone>>, pending' \subseteq pending,
           \A q \in Pids :
              \/ proc'[q] = proc[q]
              \/ proc'[q].at \in {"failed", "killed"}
              \/ role[q] # "notify" /\ proc'[q].at \notin {"flushing", "before", "kick", "poll"}
              \/ /\ proc[q].at \in {"start", "inspect"}
                 /\ proc'[q].at \in {"probing", "inspect", "before"}
                 /\ proc'[q].at = "before" => proc'[q].ref \in Pids
    PROVE  FlushInv'
  <1>1. ASSUME NEW n \in Pids PROVE RefFound(n)'
    BY DEF FlushInv, RefFound
  <1>2. ASSUME NEW n \in Pids, n \in alone' PROVE AloneServed(n)'
    <2>1. AloneServed(n) /\ RefFound(n)
      BY <1>2 DEF FlushInv
    <2>2. proc'[n] = proc[n] \/ proc'[n].at \in {"failed", "killed"}
      BY <2>1 DEF AloneServed
    <2>3. CASE proc'[n].at \in {"failed", "killed"}
      BY <2>1, <2>3 DEF AloneServed
    <2>4. CASE proc'[n] = proc[n] /\ proc[n].at \notin {"kick", "poll"}
      BY <2>1, <2>4 DEF AloneServed
    <2>5. CASE proc'[n] = proc[n] /\ proc[n].at = "kick"
      BY <2>1, <2>5 DEF AloneServed, Unserved
    <2>6. CASE proc'[n] = proc[n] /\ proc[n].at = "poll"
      <3>1. proc[n].ref \in Pids
        BY <2>1, <2>6 DEF RefFound
      <3>2. proc'[proc[n].ref].at = "flushing" => proc'[proc[n].ref] = proc[proc[n].ref]
        BY <3>1
      <3> QED
        BY <2>1, <2>6, <3>2 DEF AloneServed, Underway
    <2> QED
      BY <2>2, <2>3, <2>4, <2>5, <2>6
  <1> QED
    BY <1>1, <1>2 DEF FlushInv

(* The same of one process. *)
LEMMA OneMoves ==
    ASSUME SuperInv, FlushInv, UNCHANGED <<role, asked, ack, alone>>, pending' \subseteq pending,
           NEW p \in Pids, NEW place \in Places, GoesTo(p, place),
           \/ place \in {"failed", "killed"}
           \/ role[p] # "notify" /\ place \notin {"flushing", "before", "kick", "poll"}
           \/ proc[p].at = "start" /\ place \in {"probing", "inspect"}
    PROVE  FlushInv'
  <1>1. PICK r \in Process : proc' = [proc EXCEPT ![p] = r] /\ r.at = place
    BY Moved DEF SuperInv, LeaseInv
  <1>2. \A q \in Pids : proc'[q] = IF q = p THEN r ELSE proc[q]
    BY <1>1 DEF SuperInv, LeaseInv
  <1> QED
    BY <1>1, <1>2, OthersMove

(* Of the steps before and after a mirror is supervised. *)
LEMMA FlushUntouched ==
    ASSUME SuperInv, FlushInv, NEW p \in Pids,
           \/ acquireMountStartLock(p) \/ Acquire(p) \/ WriteMetadata(p)
           \/ runningMountDaemons(p) \/ ClearStale(p)
           \/ \E c \in Pids : spawnBackgroundMountProcess(p, c)
           \/ writeDaemonPIDStateIfAbsent(p) \/ waitForBackgroundMountRegistration(p)
           \/ writeDaemonPIDState(p)
           \/ Leave(p) \/ RemovePIDFile(p) \/ Release(p) \/ Kill(p)
           \/ signalDaemonStop(p) \/ forceDaemonStop(p) \/ waitForDaemonDiscoveryClear(p)
    PROVE  FlushInv'
  <1>0. RightPlace(proc[p].at, role[p]) /\ proc \in [Pids -> Process]
    BY DEF SuperInv, LeaseInv
  <1>u. UNCHANGED <<role, asked, ack, alone, pending>>
    BY DEF acquireMountStartLock, Acquire, WriteMetadata, runningMountDaemons, ClearStale,
           spawnBackgroundMountProcess, writeDaemonPIDStateIfAbsent,
           waitForBackgroundMountRegistration, writeDaemonPIDState, Leave, RemovePIDFile,
           Release, Kill, signalDaemonStop, forceDaemonStop, waitForDaemonDiscoveryClear
  <1>g. ASSUME NEW place \in Places, GoesTo(p, place),
               \/ place \in {"failed", "killed"}
               \/ role[p] # "notify" /\ place \notin {"flushing", "before", "kick", "poll"}
        PROVE  FlushInv'
    BY <1>g, <1>u, OneMoves
  <1>1. CASE acquireMountStartLock(p) \/ Acquire(p)
    <2>1. PICK place \in {"locked", "failed", "look", "leased"} : GoesTo(p, place)
      BY <1>1 DEF acquireMountStartLock, Acquire, Ends
    <2>2. role[p] # "notify" /\ place \in Places
      BY <1>1, <2>1 DEF acquireMountStartLock, Acquire, Places
    <2> QED
      BY <1>g, <2>1, <2>2
  <1>2. CASE WriteMetadata(p) \/ writeDaemonPIDStateIfAbsent(p) \/ writeDaemonPIDState(p)
             \/ Leave(p) \/ RemovePIDFile(p) \/ waitForDaemonDiscoveryClear(p)
    <2>1. PICK place \in {"serving", "look", "wait", "leaving", "parting", "done"} : GoesTo(p, place)
      BY <1>2 DEF WriteMetadata, writeDaemonPIDStateIfAbsent, writeDaemonPIDState, Leave,
                  RemovePIDFile, waitForDaemonDiscoveryClear
    <2>2. role[p] # "notify" /\ place \in Places
      BY <1>0, <1>2, <2>1
         DEF WriteMetadata, writeDaemonPIDStateIfAbsent, writeDaemonPIDState, Leave,
             RemovePIDFile, waitForDaemonDiscoveryClear, At, RightPlace, Places
    <2> QED
      BY <1>g, <2>1, <2>2
  <1>3. CASE ClearStale(p)
    <2>1. PICK place \in {"failed", "signal", "spawn", "register"} : GoesTo(p, place)
      BY <1>3 DEF ClearStale, Ends
    <2>2. role[p] # "notify" /\ place \in Places
      BY <1>0, <1>3, <2>1 DEF ClearStale, At, RightPlace, Places
    <2> QED
      BY <1>g, <2>1, <2>2
  <1>4. CASE waitForBackgroundMountRegistration(p) \/ Release(p) \/ Kill(p)
    <2>1. PICK place \in {"failed", "done", "killed"} : GoesTo(p, place)
      BY <1>4 DEF waitForBackgroundMountRegistration, Release, Kill, Ends
    <2>2. role[p] # "notify" /\ place \in Places
      BY <1>0, <1>4, <2>1
         DEF waitForBackgroundMountRegistration, Release, Kill, At, RightPlace, Places
    <2> QED
      BY <1>g, <2>1, <2>2
  <1>5. CASE runningMountDaemons(p)
    <2>1. \A q \in Pids : IF q = p THEN proc'[q].at = "clear" ELSE proc'[q] = proc[q]
      <3>1. /\ p \in Pids /\ DOMAIN proc = Pids
            /\ proc[p] \in [at : Places, ref : Nobody, seen : SUBSET Pids, seq : Nat, stale : BOOLEAN]
        BY <1>0 DEF Process
      <3> QED
        BY <1>5, <3>1 DEF runningMountDaemons
    <2>2. role[p] # "notify"
      BY <1>0, <1>5 DEF runningMountDaemons, At, RightPlace
    <2> QED
      BY <1>u, <2>1, <2>2, OthersMove
  <1>6. ASSUME NEW c \in Pids, spawnBackgroundMountProcess(p, c) PROVE FlushInv'
    <2>1. role[p] = "launcher" /\ role[c] = "child" /\ p # c
      BY <1>0, <1>6 DEF spawnBackgroundMountProcess, At, RightPlace
    <2>2. /\ proc'[p].at = "publish" /\ proc'[c].at = "start"
          /\ \A q \in Pids : q \notin {p, c} => proc'[q] = proc[q]
      <3>1. proc[p] \in Process /\ proc[c] \in Process
        BY <1>0
      <3>2. /\ proc'[p] = [proc[p] EXCEPT !.at = "publish", !.ref = c]
            /\ proc'[c] = [proc[c] EXCEPT !.at = "start"]
            /\ \A q \in Pids : q \notin {p, c} => proc'[q] = proc[q]
        BY <1>0, <1>6, <2>1 DEF spawnBackgroundMountProcess
      <3> QED
        BY <3>1, <3>2 DEF Process
    <2> QED
      BY <1>u, <2>1, <2>2, OthersMove
  <1>7. CASE signalDaemonStop(p) \/ forceDaemonStop(p)
    <2>1. role[p] = "stop" /\ \A q \in Pids :
            \/ q = p /\ proc'[q].at \in {"done", "await"}
            \/ proc'[q].at = "killed"
            \/ proc[q].at = "serving" /\ proc'[q].at = "leaving"
            \/ proc'[q] = proc[q]
      BY <1>7, StopReaches DEF SuperInv
    <2>2. \A q \in Pids : proc[q].at = "serving" => role[q] # "notify"
      BY DEF SuperInv, LeaseInv, RightPlace
    <2> QED
      BY <1>u, <2>1, <2>2, OthersMove
  <1> QED
    BY <1>1, <1>2, <1>3, <1>4, <1>5, <1>6, <1>7

(* The daemon's side of a flush.                                           *)
LEMMA FlushServed ==
    ASSUME SuperInv, FlushInv, NEW p \in Pids,
           \/ serviceFlushRequest(p)
           \/ \E ok, terminal \in BOOLEAN : recordFlushAck(p, ok, terminal)
    PROVE  FlushInv'
  <1>0. /\ RightPlace(proc[p].at, role[p]) /\ proc \in [Pids -> Process] /\ ack.seq \in Nat
        /\ \A n \in Pids : proc[n].seq \in Nat
    BY DEF SuperInv, LeaseInv, FilesType, Ack, Process
  <1>1. CASE serviceFlushRequest(p)
    <2>1. /\ UNCHANGED <<role, asked, ack, alone>> /\ p \in pending /\ role[p] = "binary"
          /\ \A q \in Pids : q # p => proc'[q] = proc[q]
          /\ proc'[p].at = "flushing" /\ proc'[p].seen = asked[p]
      BY <1>0, <1>1 DEF serviceFlushRequest, Process
    <2>2. ASSUME NEW n \in Pids PROVE RefFound(n)'
      BY <2>1 DEF FlushInv, RefFound
    <2>3. ASSUME NEW n \in Pids, n \in alone' PROVE AloneServed(n)'
      <3>1. AloneServed(n) /\ n # p /\ proc'[n] = proc[n] /\ proc[n].at # "kick" /\ RefFound(n)
        BY <2>1, <2>3 DEF FlushInv, AloneServed, Unserved
      <3>2. CASE proc[n].at = "poll"
        <4>1. proc[n].ref \in Pids /\ Underway(n)
          BY <3>1, <3>2 DEF AloneServed, RefFound
        <4>2. Underway(n)'
          BY <2>1, <3>1, <4>1 DEF Underway
        <4> QED
          BY <2>1, <3>1, <3>2, <4>2 DEF AloneServed
      <3>3. CASE proc[n].at # "poll"
        BY <2>1, <3>1, <3>3 DEF AloneServed
      <3> QED
        BY <3>2, <3>3
    <2> QED
      BY <2>1, <2>2, <2>3 DEF FlushInv
  <1>2. ASSUME NEW ok \in BOOLEAN, NEW terminal \in BOOLEAN, recordFlushAck(p, ok, terminal)
        PROVE  FlushInv'
    <2>0. PICK place \in {"leaving", "serving"} : GoesTo(p, place)
      BY <1>2 DEF recordFlushAck
    <2>1. /\ UNCHANGED <<role, asked, alone, pending>> /\ proc[p].at = "flushing" /\ role[p] = "binary"
          /\ \A q \in Pids : q # p => proc'[q] = proc[q]
          /\ proc'[p].at \in {"leaving", "serving"}
      BY <1>0, <1>2, <2>0 DEF recordFlushAck, GoesTo, Process, At, RightPlace
    <2>2. ack'.seq = ack.seq + 1 /\ ack'.pid = p /\ ack'.covers = proc[p].seen
      BY <1>2 DEF recordFlushAck, NextAck
    <2>3. ASSUME NEW n \in Pids PROVE RefFound(n)'
      BY <2>1 DEF FlushInv, RefFound
    <2>4. ASSUME NEW n \in Pids, n \in alone' PROVE AloneServed(n)'
      <3>1. AloneServed(n) /\ n # p /\ proc'[n] = proc[n] /\ proc[n].at # "kick" /\ RefFound(n)
        BY <2>1, <2>4 DEF FlushInv, AloneServed, Unserved
      <3>2. CASE proc[n].at = "poll"
        <4>1. proc[n].ref \in Pids /\ Underway(n)
          BY <3>1, <3>2 DEF AloneServed, RefFound
        <4>2. Underway(n)'
          BY <2>1, <2>2, <3>1, <4>1 DEF Underway
        <4> QED
          BY <2>1, <3>1, <3>2, <4>2 DEF AloneServed
      <3>3. CASE proc[n].at # "poll"
        BY <2>1, <3>1, <3>3 DEF AloneServed
      <3> QED
        BY <3>2, <3>3
    <2> QED
      BY <2>1, <2>3, <2>4 DEF FlushInv
  <1> QED
    BY <1>1, <1>2

(* The requester's side of a flush.                                        *)
LEMMA FlushAsked ==
    ASSUME SuperInv, FlushInv, NEW p \in Pids,
           \/ Probe(p) \/ GiveBack(p) \/ Inspect(p) \/ ReadFlushAck(p) \/ Kick(p)
           \/ notifyRunningMountFlush(p)
    PROVE  FlushInv'
  <1>0. /\ RightPlace(proc[p].at, role[p]) /\ proc \in [Pids -> Process] /\ ack.seq \in Nat
        /\ \A n \in Pids : proc[n].seq \in Nat
        /\ asked \in [Pids -> SUBSET Pids] /\ leaseMeta \in Nobody
    BY DEF SuperInv, LeaseInv, FilesType, Ack, Process
  <1>1. CASE Probe(p)
    <2>1. PICK place \in {"probing", "inspect"} : GoesTo(p, place)
      BY <1>1 DEF Probe
    <2>2. UNCHANGED <<role, asked, ack, alone, pending>> /\ proc[p].at = "start" /\ place \in Places
      BY <1>1, <2>1 DEF Probe, At, Places
    <2> QED
      BY <2>1, <2>2, OneMoves
  <1>2. CASE GiveBack(p)
    <2>1. UNCHANGED <<role, asked, ack, alone, pending>> /\ GoesTo(p, "failed") /\ "failed" \in Places
      BY <1>2 DEF GiveBack, Ends, Places
    <2> QED
      BY <2>1, OneMoves
  <1>3. CASE Inspect(p)
    <2>1. UNCHANGED <<role, asked, ack, alone, pending>> /\ proc[p].at = "inspect"
          /\ "failed" \in Places
      BY <1>3 DEF Inspect, At, Places
    <2>2. CASE GoesTo(p, "failed")
      BY <2>1, <2>2, OneMoves
    <2>3. CASE leaseMeta # NoPid /\ proc' = [proc EXCEPT ![p].at = "before", ![p].ref = leaseMeta]
      <3>1. \A q \in Pids : IF q = p THEN proc'[q].at = "before" /\ proc'[q].ref = leaseMeta
                             ELSE proc'[q] = proc[q]
        BY <1>0, <2>3 DEF Process
      <3>2. leaseMeta \in Pids
        BY <1>0, <2>3 DEF Nobody
      <3> QED
        BY <2>1, <3>1, <3>2, OthersMove
    <2> QED
      BY <1>3, <2>2, <2>3 DEF Inspect
  <1>4. CASE ReadFlushAck(p)
    <2>1. /\ UNCHANGED <<role, asked, ack, pending>> /\ proc[p].at = "before" /\ role[p] = "notify"
          /\ \A q \in Pids : q # p => proc'[q] = proc[q]
          /\ proc'[p].at = "kick" /\ proc'[p].seq = ack.seq /\ proc'[p].ref = proc[p].ref
      BY <1>0, <1>4 DEF ReadFlushAck, Process, At, RightPlace
    <2>2. p \notin alone
      BY <2>1 DEF FlushInv, AloneServed
    <2>3. /\ alone' \subseteq alone \cup {p}
          /\ p \in alone' => pending = {} /\ \A d \in Pids : proc[d].at # "flushing"
      BY <1>4, <2>2 DEF ReadFlushAck, At
    <2>4. ASSUME NEW n \in Pids PROVE RefFound(n)'
      BY <2>1 DEF FlushInv, RefFound
    <2>5. ASSUME NEW n \in Pids, n \in alone' PROVE AloneServed(n)'
      <3>1. CASE n = p
        BY <2>1, <2>3, <2>5, <3>1 DEF AloneServed, Unserved
      <3>2. CASE n # p
        <4>1. AloneServed(n) /\ proc'[n] = proc[n] /\ RefFound(n)
          BY <2>1, <2>3, <2>5, <3>2 DEF FlushInv
        <4>2. proc[n].at = "kick" => Unserved(n)'
          BY <2>1, <4>1 DEF AloneServed, Unserved
        <4>3. proc[n].at = "poll" => Underway(n)'
          BY <2>1, <4>1 DEF AloneServed, Underway, RefFound
        <4> QED
          BY <2>1, <4>1, <4>2, <4>3 DEF AloneServed
      <3> QED
        BY <3>1, <3>2
    <2> QED
      BY <2>3, <2>4, <2>5 DEF FlushInv
  <1>5. CASE Kick(p)
    <2> DEFINE d == proc[p].ref
    <2>1. UNCHANGED <<role, ack>> /\ proc[p].at = "kick" /\ role[p] = "notify" /\ d \in Pids
      BY <1>0, <1>5 DEF Kick, At, RightPlace, FlushInv, RefFound
    <2>2. CASE ~Alive(d)
      <3>1. GoesTo(p, "failed") /\ "failed" \in Places /\ UNCHANGED <<asked, pending, alone>>
        BY <1>5, <2>2 DEF Kick, Places
      <3> QED
        BY <2>1, <3>1, OneMoves
    <2>3. CASE Alive(d)
      <3>1. /\ asked' = [asked EXCEPT ![d] = @ \cup {p}] /\ GoesTo(p, "poll")
            /\ alone' = alone \ {m \in Pids \ {p} : proc[m].at = "kick"}
        BY <1>5, <2>3 DEF Kick, At
      <3>2. /\ \A q \in Pids : q # p => proc'[q] = proc[q]
            /\ proc'[p].at = "poll" /\ proc'[p].seq = proc[p].seq /\ proc'[p].ref = d
        BY <1>0, <3>1 DEF GoesTo, Process
      <3>3. p \in asked'[d] /\ \A q \in Pids : asked[q] \subseteq asked'[q]
        BY <1>0, <2>1, <3>1
      <3>4. ASSUME NEW n \in Pids PROVE RefFound(n)'
        BY <2>1, <3>2 DEF FlushInv, RefFound
      <3>5. ASSUME NEW n \in Pids, n \in alone' PROVE AloneServed(n)'
        <4>0. AloneServed(n) /\ RefFound(n) /\ (n # p => proc[n].at # "kick")
          BY <3>1, <3>5 DEF FlushInv
        <4>1. CASE n = p
          <5>1. Unserved(n)
            BY <2>1, <4>0, <4>1 DEF AloneServed
          <5>2. Underway(n)'
            <6>1. proc'[d].at # "flushing"
              BY <2>1, <3>2, <5>1 DEF Unserved
            <6>2. ~(ack'.seq > proc'[n].seq)
              BY <1>0, <2>1, <3>2, <4>1, <5>1 DEF Unserved
            <6> QED
              BY <3>2, <3>3, <4>1, <6>1, <6>2 DEF Underway
          <5> QED
            BY <2>1, <3>2, <4>0, <4>1, <5>2 DEF AloneServed
        <4>2. CASE n # p
          <5>1. proc'[n] = proc[n]
            BY <3>2, <4>2
          <5>2. proc[n].at = "poll" => Underway(n)'
            <6> SUFFICES ASSUME proc[n].at = "poll" PROVE Underway(n)'
              OBVIOUS
            <6>1. proc[n].ref \in Pids /\ Underway(n)
              BY <4>0 DEF AloneServed, RefFound
            <6>2. proc'[proc[n].ref].at = "flushing" => proc'[proc[n].ref] = proc[proc[n].ref]
              BY <3>2, <6>1
            <6> QED
              BY <2>1, <3>3, <5>1, <6>1, <6>2 DEF Underway
          <5> QED
            BY <2>1, <4>0, <4>2, <5>1, <5>2 DEF AloneServed
        <4> QED
          BY <4>1, <4>2
      <3> QED
        BY <3>1, <3>4, <3>5 DEF FlushInv
    <2> QED
      BY <2>2, <2>3
  <1>6. CASE notifyRunningMountFlush(p)
    <2>1. UNCHANGED <<role, asked, ack, alone, pending>> /\ proc[p].at = "poll" /\ role[p] = "notify"
      BY <1>0, <1>6 DEF notifyRunningMountFlush, At, RightPlace
    <2>2. CASE GoesTo(p, "failed")
      <3>1. "failed" \in Places
        BY DEF Places
      <3> QED
        BY <2>1, <2>2, <3>1, OneMoves
    <2>3. ASSUME Answers(p), NEW place \in {"done", "failed"},
                 proc' = [proc EXCEPT ![p].at = place, ![p].seen = ack.covers]
          PROVE  FlushInv'
      <3>1. /\ \A q \in Pids : q # p => proc'[q] = proc[q]
            /\ proc'[p].at = place /\ proc'[p].seen = ack.covers
        BY <1>0, <2>3 DEF Process
      <3>2. ASSUME NEW n \in Pids PROVE RefFound(n)'
        BY <3>1 DEF FlushInv, RefFound
      <3>3. ASSUME NEW n \in Pids, n \in alone' PROVE AloneServed(n)'
        <4>0. AloneServed(n) /\ RefFound(n)
          BY <2>1, <3>3 DEF FlushInv
        <4>1. CASE n = p
          <5>1. n \in ack.covers
            BY <2>1, <2>3, <4>0, <4>1 DEF AloneServed, Underway, Answers
          <5> QED
            BY <2>1, <3>1, <4>0, <4>1, <5>1 DEF AloneServed
        <4>2. CASE n # p
          <5>1. proc'[n] = proc[n] /\ \A q \in Pids : proc'[q].at = "flushing" => proc'[q] = proc[q]
            BY <3>1, <4>2
          <5>2. proc[n].at = "kick" => Unserved(n)'
            BY <2>1, <4>0, <5>1 DEF AloneServed, Unserved
          <5>3. proc[n].at = "poll" => Underway(n)'
            BY <2>1, <4>0, <5>1 DEF AloneServed, Underway, RefFound
          <5> QED
            BY <2>1, <4>0, <5>1, <5>2, <5>3 DEF AloneServed
        <4> QED
          BY <4>1, <4>2
      <3> QED
        BY <2>1, <3>2, <3>3 DEF FlushInv
    <2> QED
      BY <1>6, <2>2, <2>3 DEF notifyRunningMountFlush
  <1> QED
    BY <1>1, <1>2, <1>3, <1>4, <1>5, <1>6

(* A flush that is reported done is a barrier: for a request that met no    *)
(* other, the reconcile behind the acknowledgement began after the request, *)
(* also where the daemon was replaced, killed or busy in between.           *)
THEOREM FlushesAreBarriers == Spec => []FlushBarrier
  <1>1. Init => FlushInv
    <2>1. SuperInit => FlushInv
      BY DEF SuperInit, Waits, FlushInv, RefFound
    <2> QED
      BY <2>1 DEF Init, SuperRests
  <1>2. SuperInv /\ FlushInv /\ [Next]_vars => FlushInv'
    <2>1. ASSUME FlushInv, UNCHANGED superVars PROVE FlushInv'
      BY <2>1 DEF superVars, FlushInv, RefFound, AloneServed, Unserved, Underway
    <2>2. ASSUME SuperInv, FlushInv, SuperNext PROVE FlushInv'
      BY <2>2, FlushUntouched, FlushServed, FlushAsked DEF SuperNext
    <2> QED
      BY <2>1, <2>2 DEF Next, vars
  <1>3. FlushInv => FlushBarrier
    BY DEF FlushInv, AloneServed, FlushBarrier, At
  <1> QED
    BY <1>1, <1>2, <1>3, SuperAlways, PTL DEF Spec

-----------------------------------------------------------------------------
(* The mount loop *)

(* Where the timer's thread is, and what the variables hold.               *)
LoopPlaces == {"idle", "cycle", "auth", "reconcile", "refused", "again", "mark"}

LoopTypes ==
    /\ edited \subseteq Edits
    /\ watcher \in {"live", "broken", "off"} /\ scanning \in BOOLEAN /\ drift \in BOOLEAN
    /\ loop \in [at : LoopPlaces, before : SUBSET Edits, gone : SUBSET Edits]
    /\ callback \in [at : {"idle", "auth", "handle", "refused", "again"}, changes : SUBSET Edits]
    /\ UNION {batch, pushed, queued, dropped, lost} \subseteq Edits

(* Edits that are delivered, on their way, or let go for want of a           *)
(* credential.                                                              *)
Accounted == pushed \cup queued \cup batch \cup callback.changes \cup dropped \cup lost

(* While the watcher is healthy or a scan is due, every edit a cycle will  *)
(* vouch for is accounted for; a callback that was refused has left its    *)
(* changes in the queue.                                                   *)
LoopInv ==
    /\ LoopTypes
    /\ scanning <=> watcher = "off"
    /\ loop.before \subseteq edited
    /\ ~drift /\ watcher = "live" => edited \subseteq Accounted
    /\ ~drift /\ ~scanning /\ loop.at # "idle" => loop.before \subseteq Accounted
    /\ loop.at = "mark" => loop.before \subseteq Accounted
    /\ callback.at = "idle" => callback.changes = {}
    /\ callback.at = "refused" => callback.changes \subseteq queued \cup pushed
    /\ missed \subseteq dropped \cup lost

(* A step of the timer's thread that goes on with the same edits in mind and *)
(* does not conclude the cycle.                                             *)
LEMMA TurnsOver ==
    ASSUME LoopInv, NEW place \in LoopPlaces \ {"mark"}, loop' = [loop EXCEPT !.at = place],
           loop.at # "idle",
           UNCHANGED <<edited, watcher, scanning, drift, batch, pushed, callback, dropped, lost, missed>>,
           queued \subseteq queued', queued' \subseteq Edits
    PROVE  LoopInv'
  <1>1. /\ loop' \in [at : LoopPlaces, before : SUBSET Edits, gone : SUBSET Edits]
        /\ loop'.at = place /\ loop'.before = loop.before
    BY DEF LoopInv, LoopTypes, LoopPlaces
  <1>2. LoopTypes'
    BY <1>1 DEF LoopInv, LoopTypes
  <1>3. Accounted \subseteq Accounted'
    BY DEF Accounted
  <1> QED
    BY <1>1, <1>2, <1>3 DEF LoopInv

(* A step of the watcher's thread or of the world, which the timer's thread  *)
(* does not take part in.                                                   *)
LEMMA Aside ==
    ASSUME LoopInv, LoopTypes', UNCHANGED <<edited, watcher, scanning, drift, loop, missed>>,
           dropped \subseteq dropped', lost \subseteq lost',
           Accounted \subseteq Accounted',
           callback'.at = "idle" => callback'.changes = {},
           callback'.at = "refused" => callback'.changes \subseteq queued' \cup pushed'
    PROVE  LoopInv'
  BY DEF LoopInv

(* Nothing is edited at first.                                             *)
LEMMA LoopStarts == LoopInit => LoopInv
  <1> SUFFICES ASSUME LoopInit PROVE LoopInv
    OBVIOUS
  <1>1. LoopTypes
    BY DEF LoopInit, LoopTypes, LoopPlaces
  <1>2. loop.at = "cycle" /\ loop.before = edited /\ callback.at = "idle" /\ callback.changes = {}
    BY DEF LoopInit
  <1> QED
    BY <1>1, <1>2 DEF LoopInit, LoopInv

(* Edits, the watcher and the credentials change, and a socket's tick.     *)
LEMMA LoopWorld ==
    ASSUME LoopInv, 
           \/ \E e \in Edits : EditFile(e)
           \/ WatcherFails
           \/ \E c \in {"fresh", "aging", "dead"}, s \in {"good", "flaky", "gone"} : Turn(c, s)
           \/ HoldOffEnds \/ RealtimeTick
    PROVE  LoopInv'
  <1>1. CASE \E e \in Edits : EditFile(e)
    BY <1>1 DEF EditFile, LoopInv, LoopTypes, Accounted
  <1>2. CASE WatcherFails
    BY <1>2 DEF WatcherFails, LoopInv, LoopTypes, Accounted
  <1>3. CASE \/ \E c \in {"fresh", "aging", "dead"}, s \in {"good", "flaky", "gone"} : Turn(c, s)
             \/ HoldOffEnds \/ RealtimeTick
    BY <1>3 DEF Turn, HoldOffEnds, RealtimeTick, LoopInv, LoopTypes, Accounted
  <1> QED
    BY <1>1, <1>2, <1>3

(* A cycle begins.                                                         *)
LEMMA LoopTicks ==
    ASSUME LoopInv, TimerTick
    PROVE  LoopInv'
  <1>1. /\ loop' = [at |-> "cycle", before |-> edited, gone |-> dropped \cup lost]
        /\ watcher' = IF watcher = "broken" THEN "off" ELSE watcher
        /\ scanning' = (scanning \/ watcher = "broken")
        /\ UNCHANGED <<edited, drift, batch, pushed, queued, callback, dropped, lost, missed>>
    BY DEF TimerTick, WatcherSeenBroken
  <1>2. /\ loop' \in [at : LoopPlaces, before : SUBSET Edits, gone : SUBSET Edits]
        /\ loop'.at = "cycle" /\ loop'.before = edited
    BY <1>1 DEF LoopInv, LoopTypes, LoopPlaces
  <1>3. LoopTypes'
    BY <1>1, <1>2 DEF LoopInv, LoopTypes
  <1>4. Accounted' = Accounted
    BY <1>1 DEF Accounted
  <1>5. (scanning <=> watcher = "off")' /\ (~scanning' => watcher = "live")
    BY <1>1 DEF LoopInv, LoopTypes
  <1> QED
    BY <1>1, <1>2, <1>3, <1>4, <1>5 DEF LoopInv

(* A cycle renews its credential, fails, or tries again.                   *)
LEMMA LoopCycles ==
    ASSUME LoopInv, RecoverDegraded \/ CycleAuth \/ ReconcileFails \/ CycleReauth
    PROVE  LoopInv'
  <1>1. /\ loop.at # "idle"
        /\ UNCHANGED <<edited, watcher, scanning, drift, batch, pushed, queued, callback, dropped, lost, missed>>
    BY DEF RecoverDegraded, CycleAuth, ReconcileFails, CycleReauth
  <1>2. \E place \in {"idle", "auth", "reconcile", "again"} : loop' = [loop EXCEPT !.at = place]
    BY DEF RecoverDegraded, CycleAuth, ReconcileFails, CycleReauth, CycleFails
  <1>3. queued' \subseteq Edits
    BY <1>1 DEF LoopInv, LoopTypes
  <1> QED
    BY <1>1, <1>2, <1>3, TurnsOver DEF LoopPlaces

(* A cycle pushes what the watcher queued, or scans.                       *)
LEMMA LoopReconciles ==
    ASSUME LoopInv, Reconcile
    PROVE  LoopInv'
  <1>1. /\ loop.at \in {"reconcile", "again"}
        /\ UNCHANGED <<edited, watcher, scanning, batch, callback, dropped, lost, missed>>
    BY DEF Reconcile
  <1>2. Scanned \subseteq Edits /\ (drift \/ scanning => Scanned = edited \ pushed)
    BY DEF Scanned, LoopInv, LoopTypes
  <1>3. CASE cred # "dead"
    <2>1. /\ pushed' = pushed \cup queued \cup Scanned /\ queued' = {} /\ drift' = FALSE
          /\ loop' = [loop EXCEPT !.at = "mark"]
      BY <1>3 DEF Reconcile
    <2>2. /\ loop' \in [at : LoopPlaces, before : SUBSET Edits, gone : SUBSET Edits]
          /\ loop'.at = "mark" /\ loop'.before = loop.before
      BY <2>1 DEF LoopInv, LoopTypes, LoopPlaces
    <2>3. LoopTypes'
      BY <1>1, <1>2, <2>1, <2>2 DEF LoopInv, LoopTypes
    <2>4. Accounted \subseteq Accounted'
      BY <1>1, <2>1 DEF Accounted
    <2>5. drift \/ scanning => edited \subseteq Accounted'
      BY <1>2, <2>1 DEF Accounted
    <2>6. loop.before \subseteq Accounted' /\ (watcher = "live" => edited \subseteq Accounted')
      BY <1>1, <2>4, <2>5 DEF LoopInv, LoopTypes
    <2> QED
      BY <1>1, <2>1, <2>2, <2>3, <2>6 DEF LoopInv
  <1>4. CASE cred = "dead"
    <2>1. /\ queued \subseteq queued' /\ queued' \subseteq Edits /\ UNCHANGED <<pushed, drift>>
          /\ \E place \in {"refused", "idle"} : loop' = [loop EXCEPT !.at = place]
      BY <1>2, <1>4 DEF Reconcile, CycleFails, LoopInv, LoopTypes
    <2> QED
      BY <1>1, <2>1, TurnsOver DEF LoopPlaces
  <1> QED
    BY <1>3, <1>4

(* A cycle is recorded as a success.                                       *)
LEMMA LoopMarks ==
    ASSUME LoopInv, markCycleSuccess
    PROVE  LoopInv'
  <1>1. /\ loop.at = "mark" /\ loop' = [loop EXCEPT !.at = "idle"]
        /\ missed' = missed \cup ((loop.before \ (pushed \cup queued \cup batch \cup callback.changes))
                              \ ((dropped \cup lost) \ loop.gone))
        /\ UNCHANGED <<edited, watcher, scanning, drift, batch, pushed, queued, callback, dropped, lost>>
    BY DEF markCycleSuccess
  <1>2. missed' \subseteq dropped \cup lost
    BY <1>1 DEF LoopInv, Accounted
  <1>3. /\ loop' \in [at : LoopPlaces, before : SUBSET Edits, gone : SUBSET Edits]
        /\ loop'.at = "idle" /\ loop'.before = loop.before
    BY <1>1 DEF LoopInv, LoopTypes, LoopPlaces
  <1>4. LoopTypes'
    BY <1>1, <1>3 DEF LoopInv, LoopTypes
  <1>5. Accounted' = Accounted
    BY <1>1 DEF Accounted
  <1> QED
    BY <1>1, <1>2, <1>3, <1>4, <1>5 DEF LoopInv

(* The watcher's callback delivers, queues or lets go of a batch.          *)
LEMMA LoopBatches ==
    ASSUME LoopInv, LocalChangeBatch \/ CallbackAuth \/ HandleLocalChanges \/ HandleLocalChangesFails
    PROVE  LoopInv'
  <1>0. /\ UNCHANGED <<edited, watcher, scanning, drift, loop, missed>>
        /\ callback \in [at : {"idle", "auth", "handle", "refused", "again"}, changes : SUBSET Edits]
        /\ LoopTypes
    BY DEF LocalChangeBatch, CallbackAuth, HandleLocalChanges, HandleLocalChangesFails, LoopInv, LoopTypes
  <1>1. CASE LocalChangeBatch
    <2>1. LoopTypes' /\ dropped \subseteq dropped' /\ lost \subseteq lost' /\ callback'.at \in {"idle", "auth"}
      BY <1>0, <1>1 DEF LocalChangeBatch, LoopTypes
    <2>2. Accounted \subseteq Accounted' /\ (callback'.at = "idle" => callback'.changes = {})
      BY <1>0, <1>1 DEF LocalChangeBatch, Accounted, LoopInv
    <2> QED
      BY <1>0, <2>1, <2>2, Aside
  <1>2. CASE CallbackAuth
    <2>1. CASE callback' = [callback EXCEPT !.at = IF callback.at = "refused" THEN "again" ELSE "handle"] /\ UNCHANGED lost
      <3>1. callback'.at \in {"again", "handle"} /\ callback'.changes = callback.changes
        BY <1>0, <2>1
      <3>2. LoopTypes' /\ dropped' = dropped
        BY <1>0, <1>2, <2>1 DEF CallbackAuth, LoopTypes
      <3>3. Accounted \subseteq Accounted'
        BY <1>2, <2>1, <3>1 DEF CallbackAuth, Accounted
      <3> QED
        BY <1>0, <2>1, <3>1, <3>2, <3>3, Aside
    <2>2. CASE /\ callback' = [at |-> "idle", changes |-> {}]
               /\ lost' = IF callback.at = "refused" THEN lost ELSE lost \cup (callback.changes \ pushed)
      <3>1. callback'.at = "idle" /\ callback'.changes = {}
        BY <2>2
      <3>2. LoopTypes' /\ dropped' = dropped /\ lost \subseteq lost'
        BY <1>0, <1>2, <2>2 DEF CallbackAuth, LoopTypes
      <3>3. Accounted \subseteq Accounted'
        BY <1>2, <2>2, <3>1 DEF CallbackAuth, Accounted, LoopInv
      <3> QED
        BY <1>0, <3>1, <3>2, <3>3, Aside
    <2> QED
      BY <1>2, <2>1, <2>2 DEF CallbackAuth, CallbackFails, CallbackEnds
  <1>3. CASE HandleLocalChanges
    <2>1. LoopTypes' /\ UNCHANGED <<dropped, lost>> /\ callback'.at \in {"idle", "refused"}
      BY <1>0, <1>3 DEF HandleLocalChanges, CallbackEnds, LoopTypes
    <2>2. Accounted \subseteq Accounted'
      BY <1>0, <1>3 DEF HandleLocalChanges, CallbackEnds, Accounted
    <2>3. /\ callback'.at = "idle" => callback'.changes = {}
          /\ callback'.at = "refused" => callback'.changes \subseteq queued' \cup pushed'
      BY <1>0, <1>3 DEF HandleLocalChanges, CallbackEnds
    <2> QED
      BY <1>0, <2>1, <2>2, <2>3, Aside
  <1>4. CASE HandleLocalChangesFails
    <2>1. LoopTypes' /\ UNCHANGED <<dropped, lost>> /\ callback'.at = "idle" /\ callback'.changes = {}
      BY <1>0, <1>4 DEF HandleLocalChangesFails, CallbackEnds, LoopTypes
    <2>2. Accounted \subseteq Accounted'
      BY <1>0, <1>4 DEF HandleLocalChangesFails, CallbackEnds, Accounted
    <2> QED
      BY <1>0, <2>1, <2>2, Aside
  <1> QED
    BY <1>1, <1>2, <1>3, <1>4

(* No edit falls between the watcher and the scan: when runMountLoop       *)
(* records a cycle as a success, every edit made before it began is        *)
(* pushed, queued or in a batch, or was let go with its batch for want of  *)
(* a credential, for any number of edits and any interleaving of the       *)
(* timer, the watcher's callback and a watcher that breaks.                *)
THEOREM EditsAccounted == Spec => []NothingMissed
  <1>1. Init => LoopInv
    BY LoopStarts DEF Init, LoopRests
  <1>2. LoopInv /\ [Next]_vars => LoopInv'
    <2> SUFFICES ASSUME LoopInv, [Next]_vars PROVE LoopInv'
      OBVIOUS
    <2>1. CASE LoopNext
      BY <2>1, LoopWorld, LoopTicks, LoopCycles, LoopReconciles, LoopMarks, LoopBatches DEF LoopNext
    <2>2. CASE UNCHANGED loopVars
      BY <2>2 DEF loopVars, LoopInv, LoopTypes, Accounted
    <2> QED
      BY <2>1, <2>2 DEF Next, vars
  <1>3. LoopInv => NothingMissed
    BY DEF LoopInv, NothingMissed
  <1> QED
    BY <1>1, <1>2, <1>3, PTL DEF Spec

-----------------------------------------------------------------------------
(* One run *)

(* How a cycle ended, and what a scope's runner remembers.                 *)
Outcomes == {"none", "yield", "fail", "busy", "terminal"}

ScopeRunner == [at : {"splay", "cycle", "judge", "over"}, prior : BOOLEAN, last : Outcomes,
                checkpoint : Nat, stable : Nat, resumes : Nat]

(* The state files, the runners and the results hold records of their      *)
(* kinds.                                                                  *)
OnceTypes ==
    /\ public \in [MountScopes -> [block : Nat, reconciled : BOOLEAN]]
    /\ complete \in [MountScopes -> BOOLEAN]
    /\ runner \in [MountScopes -> ScopeRunner]
    /\ result \in [MountScopes -> {"", "ok", "resumable", "fatal"}]
    /\ cancelled \in BOOLEAN /\ signalled \in BOOLEAN

(* What a scope's runner knows when it judges, and what its result rests on. *)
Justified(s) ==
    /\ runner[s].at = "splay" => runner[s].resumes = 0
    /\ runner[s].at = "cycle" /\ runner[s].resumes # 0 => public[s].block # 0
    /\ runner[s].at = "judge" =>
         /\ runner[s].prior => complete[s]
         /\ public[s].block = 0 /\ (runner[s].resumes # 0 \/ runner[s].last = "none") => complete[s]
         /\ public[s].block = 0 /\ runner[s].last = "yield" => s \in unmarked
    /\ result[s] \in {"ok", "resumable"} => runner[s].at = "over"
    /\ result[s] = "ok" => complete[s] \/ (s \in unmarked /\ runner[s].last = "yield")
    /\ result[s] = "resumable" => runner[s].last \in {"none", "yield", "busy"} \/ cancelled

(* Every scope's result is justified, and a cancellation has a cause.      *)
OnceInv ==
    /\ OnceTypes
    /\ \A s \in MountScopes : Justified(s)
    /\ cancelled => signalled \/ \E s \in MountScopes : result[s] = "fatal"

(* The step of one scope leaves the others as they are.                     *)
LEMMA OthersJustified ==
    ASSUME OnceInv, OnceTypes', NEW s \in MountScopes, Justified(s)', UNCHANGED <<cancelled, signalled>>,
           \A q \in MountScopes \ {s} :
               /\ public'[q] = public[q] /\ complete'[q] = complete[q] /\ runner'[q] = runner[q]
               /\ result'[q] = result[q] /\ (q \in unmarked' <=> q \in unmarked),
           result[s] = "fatal" => result'[s] = "fatal"
    PROVE  OnceInv'
  <1>1. \A q \in MountScopes : Justified(q)'
    BY DEF OnceInv, Justified
  <1>2. cancelled' => signalled' \/ \E q \in MountScopes : result'[q] = "fatal"
    BY DEF OnceInv
  <1> QED
    BY <1>1, <1>2 DEF OnceInv

(* A run starts from any state an earlier run left.                        *)
LEMMA OnceStarts == OnceInit => OnceInv
  <1> SUFFICES ASSUME OnceInit PROVE OnceInv
    OBVIOUS
  <1>1. PICK shape \in [MountScopes -> Shapes] :
        /\ public = [s \in MountScopes |-> [block |-> shape[s].block, reconciled |-> shape[s].reconciled]]
        /\ complete = [s \in MountScopes |-> shape[s].complete]
    BY DEF OnceInit
  <1>2. \A s \in MountScopes : /\ shape[s].block \in Nat /\ shape[s].reconciled \in BOOLEAN
                                /\ shape[s].complete \in BOOLEAN
    <2>1. ASSUME NEW s \in MountScopes
          PROVE  /\ shape[s].block \in Nat /\ shape[s].reconciled \in BOOLEAN
                 /\ shape[s].complete \in BOOLEAN
      <3>1. \/ shape[s] \in [block : {0}, reconciled : {FALSE}, complete : {FALSE}]
            \/ shape[s] \in [block : {1}, reconciled : {FALSE}, complete : {FALSE}]
            \/ shape[s] \in [block : {0}, reconciled : {TRUE}, complete : BOOLEAN]
        BY Zenon DEF Shapes
      <3>2. shape[s].block \in {0, 1}
        BY <3>1
      <3>3. shape[s].reconciled \in BOOLEAN
        BY <3>1
      <3>4. shape[s].complete \in BOOLEAN
        BY <3>1
      <3> QED
        BY <3>2, <3>3, <3>4
    <2> QED
      BY <2>1
  <1>3. public \in [MountScopes -> [block : Nat, reconciled : BOOLEAN]] /\ complete \in [MountScopes -> BOOLEAN]
    BY <1>1, <1>2
  <1>4. /\ runner \in [MountScopes -> ScopeRunner]
        /\ \A s \in MountScopes : runner[s].at = "splay" /\ runner[s].resumes = 0
    BY DEF OnceInit, ScopeRunner, Outcomes
  <1>5. result \in [MountScopes -> {"", "ok", "resumable", "fatal"}] /\ \A s \in MountScopes : result[s] = ""
    BY DEF OnceInit
  <1>6. cancelled = FALSE /\ signalled = FALSE
    BY DEF OnceInit
  <1> QED
    BY <1>3, <1>4, <1>5, <1>6 DEF OnceInv, OnceTypes, Justified

(* A scope's start is delayed.                                             *)
LEMMA OnceSplays ==
    ASSUME OnceInv, NEW s \in MountScopes, waitStartupSplay(s)
    PROVE  OnceInv'
  <1>0. /\ runner[s].at = "splay" /\ result[s] = ""
        /\ UNCHANGED <<public, complete, cancelled, signalled, unmarked>>
        /\ runner[s] \in ScopeRunner
    BY DEF waitStartupSplay, Ended, OnceInv, OnceTypes
  <1>1. CASE result' = [result EXCEPT ![s] = "fatal"] /\ UNCHANGED runner
    <2>1. OnceTypes' /\ result'[s] = "fatal" /\ \A q \in MountScopes \ {s} : result'[q] = result[q]
      BY <1>0, <1>1 DEF OnceInv, OnceTypes
    <2>2. Justified(s)'
      BY <1>0, <1>1, <2>1 DEF Justified, OnceInv
    <2> QED
      BY <1>0, <1>1, <2>1, <2>2, OthersJustified
  <1>2. CASE UNCHANGED result /\ runner' = [runner EXCEPT ![s].at = "cycle", ![s].prior = ~InProgress(s) /\ public[s].reconciled]
    <2>1. PICK n : n = [runner[s] EXCEPT !.at = "cycle", !.prior = ~InProgress(s) /\ public[s].reconciled]
      OBVIOUS
    <2>2. (~InProgress(s) /\ public[s].reconciled) \in BOOLEAN
      BY DEF OnceInv, OnceTypes, InProgress
    <2>3. n \in ScopeRunner /\ n.at = "cycle" /\ n.resumes = runner[s].resumes
      BY <1>0, <2>1, <2>2 DEF ScopeRunner
    <2>4. runner' = [runner EXCEPT ![s] = n]
      BY <1>2, <2>1 DEF OnceInv, OnceTypes
    <2>5. OnceTypes' /\ runner'[s] = n /\ \A q \in MountScopes \ {s} : runner'[q] = runner[q]
      BY <1>0, <1>2, <2>3, <2>4 DEF OnceInv, OnceTypes
    <2>6. runner[s].resumes = 0
      BY <1>0 DEF OnceInv, Justified
    <2>7. runner'[s].at = "cycle" /\ runner'[s].resumes = 0 /\ result'[s] = ""
      BY <1>0, <1>2, <2>3, <2>5, <2>6
    <2>8. Justified(s)'
      BY <2>7 DEF Justified
    <2> QED
      BY <1>0, <1>2, <2>5, <2>8, OthersJustified
  <1> QED
    BY <1>1, <1>2 DEF waitStartupSplay

(* A cycle without a checkpoint in sight has completed the mirror, if it     *)
(* began with one or ended without an error.                                *)
LEMMA WhatCyclesLeave ==
    ASSUME OnceTypes, NEW s \in MountScopes, NEW r \in CycleResults(s)
    PROVE  /\ r.block \in Nat /\ r.done \in BOOLEAN
           /\ r.err \in {"none", "deadline", "busy", "fail", "terminal"}
           /\ r.block = 0 /\ (public[s].block # 0 \/ r.err = "none") => r.done = TRUE
  <1>1. public[s].block \in Nat
    BY DEF OnceTypes
  <1>2. CASE r \in [block : {0}, done : {TRUE}, err : {"none", "deadline", "busy", "fail"}]
    <2>1. r.block = 0 /\ r.err \in {"none", "deadline", "busy", "fail"}
      BY <1>2
    <2>2. r.done \in BOOLEAN
      BY <1>2
    <2>3. r.done = TRUE
      BY <1>2
    <2> QED
      BY <2>1, <2>2, <2>3
  <1>3. CASE r \in [block : {public[s].block, public[s].block + 1} \cap 1..MaxCheckpoint, done : {FALSE},
                    err : {"none", "deadline", "busy", "fail", "terminal"}]
    <2>1. r.block \in {public[s].block, public[s].block + 1} /\ r.block \in 1..MaxCheckpoint
      BY <1>3
    <2>2. r.block \in Nat /\ r.block # 0
      BY <1>1, <2>1, OnceBounds
    <2>3. r.done = FALSE /\ r.err \in {"none", "deadline", "busy", "fail", "terminal"}
      BY <1>3
    <2> QED
      BY <2>2, <2>3
  <1>4. CASE r \in [block : {public[s].block}, done : {FALSE}, err : {"deadline", "busy", "fail"}]
    BY <1>1, <1>4
  <1>5. \/ r \in [block : {0}, done : {TRUE}, err : {"none"}]
        \/ r \in [block : {0}, done : {TRUE}, err : {"deadline", "busy", "fail"}]
        \/ r \in [block : {public[s].block, public[s].block + 1} \cap 1..MaxCheckpoint, done : {FALSE},
                  err : {"none", "deadline", "busy", "fail", "terminal"}]
        \/ r \in [block : {public[s].block}, done : {FALSE}, err : {"deadline", "busy", "fail"}]
    BY Zenon DEF CycleResults
  <1> QED
    BY <1>2, <1>3, <1>4, <1>5

(* One cycle of a scope's bootstrap.                                       *)
LEMMA OnceCycles ==
    ASSUME OnceInv, NEW s \in MountScopes, reconcileCycle(s)
    PROVE  OnceInv'
  <1>1. PICK r \in CycleResults(s) :
            LET err == IF cancelled /\ r.err # "none" THEN "cancelled" ELSE r.err
                outcome == CycleOutcome(s, err, r.block, r.done) IN
            /\ public' = [public EXCEPT ![s] = [block |-> r.block, reconciled |-> @.reconciled \/ err = "none"]]
            /\ complete' = [complete EXCEPT ![s] = r.done]
            /\ runner' = [runner EXCEPT ![s].at = "judge", ![s].last = outcome,
                                        ![s].prior = @ /\ r.done,
                                        ![s].checkpoint = IF runner[s].resumes = 0 THEN r.block ELSE @]
            /\ unmarked' = IF outcome = "yield" /\ r.block = 0 THEN unmarked \cup {s} ELSE unmarked \ {s}
    BY DEF reconcileCycle
  <1>2. PICK err : err = IF cancelled /\ r.err # "none" THEN "cancelled" ELSE r.err
    OBVIOUS
  <1>3. PICK outcome : outcome = CycleOutcome(s, err, r.block, r.done)
    OBVIOUS
  <1>4. runner[s].at = "cycle" /\ UNCHANGED <<result, cancelled, signalled>> /\ runner[s] \in ScopeRunner
    BY DEF reconcileCycle, OnceInv, OnceTypes
  <1>5. /\ r.block \in Nat /\ r.done \in BOOLEAN
        /\ r.err \in {"none", "deadline", "busy", "fail", "terminal"}
        /\ r.block = 0 /\ (public[s].block # 0 \/ r.err = "none") => r.done = TRUE
    BY WhatCyclesLeave DEF OnceInv
  <1>6. outcome \in Outcomes /\ (outcome = "none" => r.err = "none")
    BY <1>2, <1>3, <1>5 DEF CycleOutcome, Outcomes
  <1>7. PICK p : p = [block |-> r.block, reconciled |-> public[s].reconciled \/ err = "none"]
    OBVIOUS
  <1>8. p \in [block : Nat, reconciled : BOOLEAN] /\ p.block = r.block
    BY <1>5, <1>7
  <1>9. PICK n : n = [runner[s] EXCEPT !.at = "judge", !.last = outcome, !.prior = @ /\ r.done,
                                       !.checkpoint = IF runner[s].resumes = 0 THEN r.block ELSE @]
    OBVIOUS
  <1>10. /\ n \in ScopeRunner /\ n.at = "judge" /\ n.last = outcome /\ n.resumes = runner[s].resumes
         /\ n.prior => r.done = TRUE
    BY <1>4, <1>5, <1>6, <1>9 DEF ScopeRunner
  <1>11. /\ public' = [public EXCEPT ![s] = p] /\ complete' = [complete EXCEPT ![s] = r.done]
         /\ runner' = [runner EXCEPT ![s] = n]
         /\ unmarked' = IF outcome = "yield" /\ r.block = 0 THEN unmarked \cup {s} ELSE unmarked \ {s}
    BY <1>1, <1>2, <1>3, <1>7, <1>9 DEF OnceInv, OnceTypes
  <1>12. /\ OnceTypes' /\ public'[s] = p /\ complete'[s] = r.done /\ runner'[s] = n
         /\ \A q \in MountScopes \ {s} :
               public'[q] = public[q] /\ complete'[q] = complete[q] /\ runner'[q] = runner[q]
    BY <1>4, <1>5, <1>8, <1>10, <1>11 DEF OnceInv, OnceTypes
  <1>13. /\ result[s] \notin {"ok", "resumable"}
         /\ runner[s].resumes # 0 => public[s].block # 0
    BY <1>4 DEF OnceInv, Justified
  <1>14. outcome = "yield" /\ r.block = 0 => s \in unmarked'
    BY <1>11
  <1>15. Justified(s)'
    BY <1>4, <1>5, <1>6, <1>8, <1>10, <1>12, <1>13, <1>14 DEF Justified
  <1>16. \A q \in MountScopes \ {s} : q \in unmarked' <=> q \in unmarked
    BY <1>11
  <1> QED
    BY <1>4, <1>12, <1>15, <1>16, OthersJustified

(* How the judgements may come out.                                         *)
LEMMA Judged ==
    ASSUME OnceTypes, NEW s \in MountScopes
    PROVE  /\ JudgeUnstarted(s) \in {"ok", "resumable", "fatal"}
           /\ JudgeUnstarted(s) = "ok" =>
                 runner[s].prior \/ runner[s].last = "none" \/ runner[s].last = "yield"
           /\ JudgeUnstarted(s) = "resumable" => runner[s].last \in {"yield", "busy"}
           /\ JudgeStarted(s) \in {"", "resumable", "fatal"}
           /\ JudgeStarted(s) = "resumable" => cancelled \/ runner[s].last # "fail"
  <1>1. runner[s].last \in Outcomes
    BY DEF OnceTypes, ScopeRunner
  <1>2. JudgeStarted(s) \in {"", "resumable", "fatal"} /\ (JudgeStarted(s) = "resumable" => cancelled \/ runner[s].last # "fail")
    BY DEF JudgeStarted
  <1>3. CASE runner[s].prior /\ ~forceFull
    BY <1>2, <1>3 DEF JudgeUnstarted
  <1>4. CASE ~(runner[s].prior /\ ~forceFull)
    <2> DEFINE judged == CASE runner[s].last = "none" -> "ok"
                           [] runner[s].last = "yield" -> IF cancelled THEN "resumable" ELSE "ok"
                           [] runner[s].last = "busy" -> "resumable"
                           [] OTHER -> "fatal"
    <2>1. JudgeUnstarted(s) = judged
      BY <1>4 DEF JudgeUnstarted
    <2>2. runner[s].last = "none" => judged = "ok"
      OBVIOUS
    <2>3. runner[s].last = "yield" => judged \in {"ok", "resumable"}
      OBVIOUS
    <2>4. runner[s].last = "busy" => judged = "resumable"
      OBVIOUS
    <2>5. runner[s].last \notin {"none", "yield", "busy"} => judged = "fatal"
      OBVIOUS
    <2> HIDE DEF judged
    <2> QED
      BY <1>1, <1>2, <2>1, <2>2, <2>3, <2>4, <2>5
  <1> QED
    BY <1>3, <1>4

(* Another cycle is a runner's state.                                      *)
LEMMA ResumedRuns ==
    ASSUME NEW run \in ScopeRunner, NEW block \in Nat
    PROVE  Resumed(run, block) \in ScopeRunner /\ Resumed(run, block).at = "cycle"
  <1>1. PICK stable \in Nat : stable = IF block = run.checkpoint /\ run.resumes > 0 THEN run.stable + 1 ELSE 0
    BY DEF ScopeRunner
  <1>2. PICK k \in Nat : k = run.resumes + 1
    BY DEF ScopeRunner
  <1>3. Resumed(run, block) = [run EXCEPT !.at = "cycle", !.resumes = k, !.checkpoint = block, !.stable = stable]
    BY <1>1, <1>2 DEF Resumed
  <1> QED
    BY <1>3 DEF ScopeRunner

(* A scope judges what its cycles have left.                               *)
LEMMA OnceJudges ==
    ASSUME OnceInv, NEW s \in MountScopes, finishInitialBootstrap(s)
    PROVE  OnceInv'
  <1>1. PICK verdict : verdict = IF ~InProgress(s) /\ ~(runner[s].resumes = 0) THEN "ok"
                                 ELSE IF runner[s].last = "terminal" THEN "fatal"
                                 ELSE IF InProgress(s) THEN JudgeStarted(s) ELSE JudgeUnstarted(s)
    OBVIOUS
  <1>2. PICK n : n = IF verdict # "" THEN [runner[s] EXCEPT !.at = "over"]
                     ELSE Resumed(runner[s], public[s].block)
    OBVIOUS
  <1>3. /\ runner[s].at = "judge" /\ result[s] = ""
        /\ result' = [result EXCEPT ![s] = verdict] /\ runner' = [runner EXCEPT ![s] = n]
        /\ UNCHANGED <<public, complete, cancelled, signalled, unmarked>>
    <2>1. /\ runner[s].at = "judge" /\ result[s] = ""
          /\ UNCHANGED <<public, complete, cancelled, signalled, unmarked>>
      BY DEF finishInitialBootstrap, Ended
    <2>2. result' = [result EXCEPT ![s] = verdict]
      BY <1>1 DEF finishInitialBootstrap
    <2>3. runner' = [runner EXCEPT ![s] = n]
      BY <1>1, <1>2 DEF finishInitialBootstrap
    <2> QED
      BY <2>1, <2>2, <2>3
  <1>4. runner[s] \in ScopeRunner /\ public[s].block \in Nat /\ runner[s].resumes \in Nat /\ runner[s].last \in Outcomes
    BY DEF OnceInv, OnceTypes, ScopeRunner
  <1>5. /\ verdict \in {"", "ok", "resumable", "fatal"}
        /\ verdict = "" => public[s].block # 0
        /\ verdict = "ok" => /\ public[s].block = 0
                             /\ runner[s].resumes # 0 \/ runner[s].prior \/ runner[s].last \in {"none", "yield"}
        /\ verdict = "resumable" => runner[s].last \in {"none", "yield", "busy"} \/ cancelled
    BY <1>1, <1>4, Judged DEF InProgress, OnceInv, Outcomes
  <1>6. CASE verdict = ""
    <2>1. n \in ScopeRunner /\ n.at = "cycle"
      BY <1>2, <1>4, <1>6, ResumedRuns
    <2>2. OnceTypes' /\ runner'[s] = n /\ result'[s] = "" /\ \A q \in MountScopes \ {s} : runner'[q] = runner[q] /\ result'[q] = result[q]
      BY <1>3, <1>6, <2>1 DEF OnceInv, OnceTypes
    <2>3. Justified(s)'
      BY <1>3, <1>5, <1>6, <2>1, <2>2 DEF Justified
    <2> QED
      BY <1>3, <2>2, <2>3, OthersJustified
  <1>7. CASE verdict # ""
    <2>1. n \in ScopeRunner /\ n.at = "over" /\ n.last = runner[s].last
      BY <1>2, <1>4, <1>7 DEF ScopeRunner
    <2>2. OnceTypes' /\ runner'[s] = n /\ result'[s] = verdict /\ \A q \in MountScopes \ {s} : runner'[q] = runner[q] /\ result'[q] = result[q]
      BY <1>3, <1>5, <2>1 DEF OnceInv, OnceTypes
    <2>3. verdict = "ok" => complete[s] \/ (s \in unmarked /\ runner[s].last = "yield")
      BY <1>3, <1>5 DEF OnceInv, Justified
    <2>4. Justified(s)'
      BY <1>3, <1>5, <1>7, <2>1, <2>2, <2>3 DEF Justified
    <2> QED
      BY <1>3, <2>2, <2>4, OthersJustified
  <1> QED
    BY <1>6, <1>7

(* The command collects a result, or is signalled.                         *)
LEMMA OnceCollects ==
    ASSUME OnceInv, (\E s \in MountScopes : runScopedPollingMountsWithRunner(s)) \/ Signal
    PROVE  OnceInv'
  <1>1. /\ UNCHANGED <<public, complete, runner, result, unmarked>> /\ cancelled' \in BOOLEAN
        /\ signalled' \in BOOLEAN /\ (cancelled => cancelled') /\ (signalled => signalled')
        /\ cancelled' /\ ~cancelled => signalled' \/ \E s \in MountScopes : result[s] = "fatal"
    BY DEF runScopedPollingMountsWithRunner, Signal, Cancels, OnceInv, OnceTypes
  <1>2. OnceTypes'
    BY <1>1 DEF OnceInv, OnceTypes
  <1>3. \A s \in MountScopes : Justified(s)'
    BY <1>1 DEF OnceInv, Justified
  <1> QED
    BY <1>1, <1>2, <1>3 DEF OnceInv

(* The exit code of relayfile-mount --once tells the truth about every     *)
(* scope (finishInitialBootstrap, mountProcessExitCode): 0 only for        *)
(* complete mirrors or a deadline before the first checkpoint, 75 only     *)
(* where running again is all it takes or a stop explains the failure, for *)
(* any number of scopes, checkpoints and resumes, and whichever scope      *)
(* fails first.                                                            *)
THEOREM ExitTold == Spec => []ExitCodeTruthful
  <1>1. Init => OnceInv
    BY OnceStarts DEF Init, OnceRests
  <1>2. OnceInv /\ [Next]_vars => OnceInv'
    <2> SUFFICES ASSUME OnceInv, [Next]_vars PROVE OnceInv'
      OBVIOUS
    <2>1. CASE OnceNext
      BY <2>1, OnceSplays, OnceCycles, OnceJudges, OnceCollects DEF OnceNext
    <2>2. CASE UNCHANGED onceVars
      BY <2>2 DEF onceVars, OnceInv, OnceTypes, Justified
    <2> QED
      BY <2>1, <2>2 DEF Next, vars
  <1>3. OnceInv => ExitCodeTruthful
    <2> SUFFICES ASSUME OnceInv, mountProcessExitCode \in {0, 75}
                 PROVE  /\ mountProcessExitCode = 0 => \A s \in MountScopes : complete[s] \/ s \in unmarked
                        /\ mountProcessExitCode = 75 =>
                             \A s \in MountScopes :
                                complete[s] \/ runner[s].last \in {"none", "yield", "busy"} \/ signalled
      BY DEF ExitCodeTruthful
    <2>1. \A s \in MountScopes : result[s] \in {"ok", "resumable"}
      BY DEF mountProcessExitCode, onlyInitialBootstrapIncomplete
    <2>2. cancelled => signalled
      BY <2>1 DEF OnceInv
    <2>3. mountProcessExitCode = 0 => \A s \in MountScopes : result[s] = "ok"
      BY DEF mountProcessExitCode
    <2> QED
      BY <2>1, <2>2, <2>3 DEF OnceInv, Justified
  <1> QED
    BY <1>1, <1>2, <1>3, PTL DEF Spec

-----------------------------------------------------------------------------
(* The stored session *)

(* Where a process has the session's lock directory. *)
Locked == {"reread", "refresh", "store", "revoke"}

(* No answer was lost, no lock taken over, no session given up.             *)
Clean == ~mishap /\ ~reclaimed /\ revoked = {}

(* A process between its second look at the session and its store has the  *)
(* lock directory; the token in its hand is one Cloud accepts; and the     *)
(* stored session is accepted, or whoever is about to store has its        *)
(* successor.                                                              *)
SessionInv ==
    /\ DOMAIN at = Users /\ DOMAIN hand = Users
    /\ issued \in Nat
    /\ lockDir \in [owner : Users \cup {NoUser}, old : BOOLEAN]
    /\ mishap \in BOOLEAN /\ reclaimed \in BOOLEAN
    /\ Clean =>
        /\ spent = {} /\ session # 0
        /\ \A u \in Users : at[u] # "remove" /\ (at[u] \in Locked => lockDir.owner = u)
        /\ \A u \in Users : at[u] \in {"refresh", "store"} => hand[u] \in cloud /\ hand[u] # 0
        /\ session \in cloud \/ \E u \in Users : at[u] = "store"

(* One process moves among the places without the lock directory.           *)
LEMMA MovesUnlocked ==
    ASSUME SessionInv, NEW u \in Users, NEW place, at' = [at EXCEPT ![u] = place],
           at[u] \notin Locked, place \notin Locked \cup {"remove"},
           DOMAIN hand' = Users, \A q \in Users \ {u} : hand'[q] = hand[q],
           issued' \in Nat, UNCHANGED <<lockDir, session, cloud, reclaimed, revoked, spent>>,
           mishap' \in BOOLEAN, mishap => mishap'
    PROVE  SessionInv'
  <1>1. DOMAIN at' = Users /\ at'[u] = place /\ \A q \in Users \ {u} : at'[q] = at[q]
    BY DEF SessionInv
  <1>2. Clean' => Clean
    BY DEF Clean
  <1>3. QED
    BY <1>1, <1>2 DEF SessionInv, Locked

(* One process gives the lock directory up, nothing else having changed.    *)
LEMMA LeavesSession ==
    ASSUME SessionInv, NEW u \in Users, NEW place, at' = [at EXCEPT ![u] = place],
           at[u] \in Locked \ {"store"}, place \notin Locked \cup {"remove"},
           lockDir' = NoDir, UNCHANGED <<hand, issued, session, cloud, mishap, reclaimed, revoked, spent>>
    PROVE  SessionInv'
  <1>1. DOMAIN at' = Users /\ at'[u] = place /\ \A q \in Users \ {u} : at'[q] = at[q]
    BY DEF SessionInv
  <1>2. Clean' <=> Clean
    BY DEF Clean
  <1>3. lockDir' \in [owner : Users \cup {NoUser}, old : BOOLEAN] /\ lockDir'.owner = NoUser
    BY DEF NoDir
  <1>4. QED
    BY <1>1, <1>2, <1>3 DEF SessionInv, Locked

(* The stored session is one Cloud accepts.                                *)
LEMMA SessionStarts == CredInit => SessionInv
  <1> SUFFICES ASSUME CredInit PROVE SessionInv
    OBVIOUS
  <1>1. lockDir \in [owner : Users \cup {NoUser}, old : BOOLEAN]
    BY DEF CredInit, NoDir
  <1>2. /\ DOMAIN at = Users /\ DOMAIN hand = Users /\ issued \in Nat
        /\ mishap \in BOOLEAN /\ reclaimed \in BOOLEAN
    BY DEF CredInit
  <1>3. \A u \in Users : at[u] = "start"
    BY DEF CredInit
  <1>4. spent = {} /\ session # 0 /\ session \in cloud
    BY DEF CredInit
  <1> QED
    BY <1>1, <1>2, <1>3, <1>4 DEF SessionInv, Locked

(* The delegated credentials have a lock and a file of their own.          *)
LEMMA SessionDelegated ==
    ASSUME SessionInv, NEW u \in Users,
           \/ \E force \in BOOLEAN : refreshDelegatedCredentials(u, force)
           \/ withDelegatedCredentialsLock(u) \/ AdoptLatest(u) \/ installCredsFileRefresh(u)
           \/ LoadForRenew(u) \/ Renew(u) \/ SaveAtomic(u) \/ remintDelegatedCredentialsFromCloud(u)
    PROVE  SessionInv'
  <1> USE DEF Goes, Holding, delegatedSame, sessionSame, ghostsSame
  <1>0. /\ DOMAIN hand = Users /\ issued \in Nat /\ mishap \in BOOLEAN
        /\ \A t : LET h == [hand EXCEPT ![u] = t] IN DOMAIN h = Users /\ \A q \in Users \ {u} : h[q] = hand[q]
    BY DEF SessionInv
  <1>1. CASE \E force \in BOOLEAN : refreshDelegatedCredentials(u, force)
    <2>1. PICK force \in BOOLEAN : refreshDelegatedCredentials(u, force) BY <1>1
    <2>2. PICK place \in {"done", "lockForced", "lock"} : at' = [at EXCEPT ![u] = place]
      BY <2>1 DEF refreshDelegatedCredentials
    <2>3. DOMAIN hand' = Users /\ \A q \in Users \ {u} : hand'[q] = hand[q]
      BY <2>1, <1>0 DEF refreshDelegatedCredentials
    <2> QED BY <2>1, <2>2, <2>3, <1>0, MovesUnlocked DEF refreshDelegatedCredentials, Locked
  <1>2. CASE withDelegatedCredentialsLock(u)
    <2>1. PICK place \in {"latest", "latestForced"} : at' = [at EXCEPT ![u] = place]
      BY <1>2 DEF withDelegatedCredentialsLock
    <2> QED BY <1>2, <2>1, <1>0, MovesUnlocked DEF withDelegatedCredentialsLock, Locked
  <1>3. CASE AdoptLatest(u)
    <2>1. PICK place \in {"done", "renew"} : at' = [at EXCEPT ![u] = place]
      BY <1>3 DEF AdoptLatest
    <2> QED BY <1>3, <2>1, <1>0, MovesUnlocked DEF AdoptLatest, Locked
  <1>4. CASE installCredsFileRefresh(u)
    <2>1. PICK place \in {"done", "renew"} : at' = [at EXCEPT ![u] = place]
      BY <1>4 DEF installCredsFileRefresh
    <2> QED BY <1>4, <2>1, <1>0, MovesUnlocked DEF installCredsFileRefresh, Locked
  <1>5. CASE LoadForRenew(u)
    <2>1. DOMAIN hand' = Users /\ \A q \in Users \ {u} : hand'[q] = hand[q]
      BY <1>5, <1>0 DEF LoadForRenew
    <2> QED BY <1>5, <2>1, <1>0, MovesUnlocked DEF LoadForRenew, Locked
  <1>6. CASE Renew(u)
    <2>1. PICK place \in {"save", "session", "failed"} : at' = [at EXCEPT ![u] = place]
      BY <1>6 DEF Renew, RenewFails
    <2>2. DOMAIN hand' = Users /\ \A q \in Users \ {u} : hand'[q] = hand[q]
      BY <1>6, <1>0 DEF Renew, RenewFails
    <2>3. issued' \in Nat
      BY <1>6, <1>0 DEF Renew, NewToken
    <2>5. mishap' = mishap \/ mishap' = TRUE
      BY <1>6 DEF Renew
    <2>4. UNCHANGED <<lockDir, session, cloud, reclaimed, revoked, spent>> /\ at[u] = "post"
      BY <1>6 DEF Renew
    <2> QED BY <1>0, <2>1, <2>2, <2>3, <2>4, <2>5, MovesUnlocked DEF Locked
  <1>7. CASE SaveAtomic(u)
    BY <1>7, <1>0, MovesUnlocked DEF SaveAtomic, Locked
  <1>8. CASE remintDelegatedCredentialsFromCloud(u)
    <2>1. PICK place \in {"save", "failed"} : at' = [at EXCEPT ![u] = place]
      BY <1>8 DEF remintDelegatedCredentialsFromCloud
    <2>2. DOMAIN hand' = Users /\ \A q \in Users \ {u} : hand'[q] = hand[q]
      BY <1>8, <1>0 DEF remintDelegatedCredentialsFromCloud
    <2>3. issued' \in Nat
      BY <1>8, <1>0 DEF remintDelegatedCredentialsFromCloud, NewToken
    <2>4. UNCHANGED <<lockDir, session, cloud, mishap, reclaimed, revoked, spent>> /\ at[u] = "mint"
      BY <1>8 DEF remintDelegatedCredentialsFromCloud
    <2> QED BY <1>0, <2>1, <2>2, <2>3, <2>4, MovesUnlocked DEF Locked
  <1> QED BY <1>1, <1>2, <1>3, <1>4, <1>5, <1>6, <1>7, <1>8

(* The steps around the session's lock directory.                          *)
LEMMA SessionSteps ==
    ASSUME SessionInv, NEW u \in Users,
           \/ ensureAgentRelayCloudSession(u) \/ acquireAgentRelayAuthLock(u) \/ RereadSession(u)
           \/ refreshAgentRelayStoredAuth(u) \/ writeAgentRelayStoredAuthFile(u)
           \/ revokeSession(u) \/ removeSession(u)
    PROVE  SessionInv'
  <1> USE DEF Goes, Holding, delegatedSame, sessionSame, ghostsSame
  <1>0. /\ DOMAIN hand = Users /\ DOMAIN at = Users /\ issued \in Nat /\ mishap \in BOOLEAN
        /\ reclaimed \in BOOLEAN /\ lockDir \in [owner : Users \cup {NoUser}, old : BOOLEAN]
        /\ NoDir \in [owner : Users \cup {NoUser}, old : BOOLEAN] /\ NoDir.owner = NoUser
        /\ NoUser \notin Users
        /\ \A t : LET h == [hand EXCEPT ![u] = t] IN
                  DOMAIN h = Users /\ h[u] = t /\ \A q \in Users \ {u} : h[q] = hand[q]
        /\ \A t : LET a == [at EXCEPT ![u] = t] IN
                  DOMAIN a = Users /\ a[u] = t /\ \A q \in Users \ {u} : a[q] = at[q]
    BY CredentialBounds DEF SessionInv, NoDir
  <1>1. CASE ensureAgentRelayCloudSession(u)
    <2>1. PICK place \in {"mint", "done", "failed", "mkdir"} : at' = [at EXCEPT ![u] = place]
      BY <1>1 DEF ensureAgentRelayCloudSession, SessionFails, SessionReady
    <2>2. DOMAIN hand' = Users /\ \A q \in Users \ {u} : hand'[q] = hand[q]
      BY <1>1, <1>0 DEF ensureAgentRelayCloudSession
    <2>3. /\ UNCHANGED <<lockDir, session, cloud, issued, mishap, reclaimed, revoked, spent>>
          /\ at[u] \in {"session", "start"}
      BY <1>1 DEF ensureAgentRelayCloudSession
    <2> QED BY <1>0, <2>1, <2>2, <2>3, MovesUnlocked DEF Locked
  <1>2. CASE acquireAgentRelayAuthLock(u)
    <2>1. CASE at[u] = "mkdir" /\ lockDir = NoDir
      <3>1. /\ lockDir' = [owner |-> u, old |-> FALSE] /\ at' = [at EXCEPT ![u] = "reread"]
            /\ UNCHANGED <<hand, session, cloud, issued, mishap, reclaimed, revoked, spent>>
        BY <1>2, <2>1 DEF acquireAgentRelayAuthLock
      <3>2. lockDir' \in [owner : Users \cup {NoUser}, old : BOOLEAN] /\ lockDir'.owner = u
        BY <3>1
      <3>3. Clean' <=> Clean BY <3>1 DEF Clean
      <3> QED BY <1>0, <2>1, <3>1, <3>2, <3>3 DEF SessionInv, Locked
    <2>2. CASE at[u] \in {"mkdir", "stat"} /\ ~(at[u] = "mkdir" /\ lockDir = NoDir)
      <3>1. PICK place \in {"stat", "failed", "reclaim", "mkdir"} : at' = [at EXCEPT ![u] = place]
        BY <1>2, <2>2 DEF acquireAgentRelayAuthLock, SessionFails
      <3>2. UNCHANGED <<hand, lockDir, session, cloud, issued, mishap, reclaimed, revoked, spent>>
        BY <1>2, <2>2 DEF acquireAgentRelayAuthLock
      <3> QED BY <1>0, <2>2, <3>1, <3>2, MovesUnlocked DEF Locked
    <2>3. CASE at[u] = "reclaim"
      <3>1. /\ reclaimed' = TRUE /\ lockDir' = NoDir /\ at' = [at EXCEPT ![u] = "mkdir"]
            /\ UNCHANGED <<hand, issued, mishap>>
        BY <1>2, <2>3 DEF acquireAgentRelayAuthLock
      <3>2. ~Clean' BY <3>1 DEF Clean
      <3> QED BY <1>0, <3>1, <3>2 DEF SessionInv
    <2> QED BY <1>2, <2>1, <2>2, <2>3 DEF acquireAgentRelayAuthLock
  <1>3. CASE RereadSession(u)
    <2>0. /\ at[u] = "reread"
          /\ UNCHANGED <<session, cloud, issued, mishap, reclaimed, revoked, spent>>
      BY <1>3 DEF RereadSession
    <2>1. CASE at' # [at EXCEPT ![u] = "revoke"] /\ at' # [at EXCEPT ![u] = "refresh"]
      <3>1. /\ \E place \in {"mint", "done", "failed"} : at' = [at EXCEPT ![u] = place]
            /\ lockDir' = NoDir /\ UNCHANGED hand
        BY <1>3, <2>1 DEF RereadSession, SessionFails, SessionReady
      <3> QED BY <2>0, <3>1, LeavesSession DEF Locked
    <2>2. CASE at' = [at EXCEPT ![u] = "revoke"] \/ at' = [at EXCEPT ![u] = "refresh"]
      <3>1. at'[u] \in {"revoke", "refresh"} /\ \A q \in Users \ {u} : at'[q] = at[q]
        BY <1>0, <2>2
      <3>2. lockDir' = lockDir /\ (hand' = [hand EXCEPT ![u] = session] \/ hand' = [hand EXCEPT ![u] = Authoritative(u)])
        BY <1>3, <3>1, <1>0 DEF RereadSession, SessionFails, SessionReady
      <3>3. Clean' <=> Clean BY <2>0 DEF Clean
      <3>4. Clean => hand'[u] = session /\ session # 0
        BY <1>0, <3>2 DEF SessionInv, Authoritative
      <3>5. Clean => session \in cloud
        BY <2>0, <1>0 DEF SessionInv, Locked
      <3>6. DOMAIN hand' = Users /\ \A q \in Users \ {u} : hand'[q] = hand[q]
        BY <1>0, <3>2
      <3>7. DOMAIN at' = Users BY <1>0, <2>2
      <3> QED BY <1>0, <2>0, <3>1, <3>2, <3>3, <3>4, <3>5, <3>6, <3>7 DEF SessionInv, Locked
    <2> QED BY <2>1, <2>2
  <1>4. CASE refreshAgentRelayStoredAuth(u)
    <2>0. at[u] = "refresh" /\ UNCHANGED <<session, revoked, reclaimed>>
      BY <1>4 DEF refreshAgentRelayStoredAuth
    <2>1. CASE hand[u] \notin cloud
      <3>1. ~Clean BY <2>0, <2>1 DEF SessionInv
      <3>2. /\ lockDir' = NoDir /\ at' = [at EXCEPT ![u] = "failed"]
            /\ UNCHANGED <<hand, issued, mishap>>
        BY <1>4, <2>1 DEF refreshAgentRelayStoredAuth, SessionFails
      <3>3. ~Clean' BY <3>1, <3>2, <2>0 DEF Clean
      <3> QED BY <1>0, <2>0, <3>2, <3>3 DEF SessionInv
    <2>2. CASE hand[u] \in cloud
      <3>1. /\ cloud' = (cloud \ {hand[u]}) \cup {issued + 1} /\ issued' = issued + 1
            /\ UNCHANGED spent
        BY <1>4, <2>2 DEF refreshAgentRelayStoredAuth, NewToken
      <3>2. CASE hand' = [hand EXCEPT ![u] = NewToken] /\ at' = [at EXCEPT ![u] = "store"] /\ UNCHANGED <<lockDir, mishap>>
        <4>1. Clean' <=> Clean BY <3>2, <2>0 DEF Clean
        <4>2. hand'[u] = issued + 1 /\ issued + 1 # 0 /\ issued + 1 \in Nat BY <3>2, <1>0 DEF NewToken
        <4>3. /\ DOMAIN hand' = Users /\ \A q \in Users \ {u} : hand'[q] = hand[q]
              /\ DOMAIN at' = Users /\ at'[u] = "store" /\ \A q \in Users \ {u} : at'[q] = at[q]
          BY <3>2, <1>0
        <4>4. Clean => \A q \in Users \ {u} : at[q] \notin Locked
          BY <2>0 DEF SessionInv, Locked
        <4> QED BY <1>0, <2>0, <3>1, <3>2, <4>1, <4>2, <4>3, <4>4 DEF SessionInv, Locked
      <3>3. CASE mishap' = TRUE /\ at' = [at EXCEPT ![u] = "failed"] /\ lockDir' = NoDir /\ UNCHANGED hand
        <4>1. ~Clean' BY <3>3 DEF Clean
        <4>2. DOMAIN at' = Users /\ issued' \in Nat BY <1>0, <3>1, <3>3
        <4> QED BY <1>0, <2>0, <3>1, <3>3, <4>1, <4>2 DEF SessionInv
      <3> QED BY <1>4, <2>2, <3>2, <3>3 DEF refreshAgentRelayStoredAuth, SessionFails
    <2> QED BY <2>1, <2>2
  <1>5. CASE writeAgentRelayStoredAuthFile(u)
    <2>1. /\ at[u] = "store" /\ session' = hand[u] /\ lockDir' = NoDir
          /\ UNCHANGED <<hand, cloud, issued, mishap, revoked, reclaimed, spent>>
          /\ \E place \in {"mint", "done"} : at' = [at EXCEPT ![u] = place]
      BY <1>5 DEF writeAgentRelayStoredAuthFile, SessionReady
    <2>2. PICK place \in {"mint", "done"} : at' = [at EXCEPT ![u] = place] BY <2>1
    <2>3. DOMAIN at' = Users /\ at'[u] = place /\ \A q \in Users \ {u} : at'[q] = at[q]
      BY <1>0, <2>2
    <2>4. Clean' <=> Clean BY <2>1 DEF Clean
    <2>5. Clean => \A q \in Users \ {u} : at[q] \notin Locked
      BY <2>1 DEF SessionInv, Locked
    <2> QED BY <1>0, <2>1, <2>3, <2>4, <2>5 DEF SessionInv, Locked
  <1>6. CASE revokeSession(u)
    <2>0. /\ at[u] = "revoke"
          /\ UNCHANGED <<hand, session, issued, mishap, reclaimed, spent>>
      BY <1>6 DEF revokeSession
    <2>1. CASE revoked' = revoked \cup {hand[u]} /\ at' = [at EXCEPT ![u] = "remove"] /\ lockDir' = lockDir
      <3>1. ~Clean' BY <2>1 DEF Clean
      <3> QED BY <1>0, <2>0, <2>1, <3>1 DEF SessionInv
    <2>2. CASE at' = [at EXCEPT ![u] = "failed"] /\ lockDir' = NoDir /\ UNCHANGED <<cloud, revoked>>
      BY <2>0, <2>2, LeavesSession DEF Locked
    <2> QED BY <1>6, <2>1, <2>2 DEF revokeSession
  <1>7. CASE removeSession(u)
    <2>1. /\ at[u] = "remove" /\ lockDir' = NoDir /\ at' = [at EXCEPT ![u] = "done"]
          /\ UNCHANGED <<hand, issued, mishap, revoked, reclaimed>>
      BY <1>7 DEF removeSession
    <2>2. ~Clean' BY <2>1 DEF SessionInv, Clean
    <2> QED BY <1>0, <2>1, <2>2 DEF SessionInv
  <1> QED BY <1>1, <1>2, <1>3, <1>4, <1>5, <1>6, <1>7

(* Tokens age, locks age, users sign in and processes die.                 *)
LEMMA SessionWorld ==
    ASSUME SessionInv, (\E t \in 1..MaxTokens : Age(t)) \/ SignIn \/ LockAges \/ (\E u \in Users : Die(u))
    PROVE  SessionInv'
  <1> USE DEF Goes, delegatedSame, sessionSame, ghostsSame
  <1>1. CASE \E t \in 1..MaxTokens : Age(t)
    BY <1>1 DEF Age, SessionInv, Clean
  <1>2. CASE SignIn
    <2>1. /\ session' = issued + 1 /\ cloud' = cloud \cup {issued + 1} /\ issued' = issued + 1
          /\ UNCHANGED <<at, hand, lockDir, mishap, revoked, reclaimed, spent>>
      BY <1>2 DEF SignIn, NewToken
    <2>2. issued + 1 \in Nat /\ issued + 1 # 0 BY DEF SessionInv
    <2> QED BY <2>1, <2>2 DEF SessionInv, Clean
  <1>3. CASE LockAges
    <2>1. lockDir' \in [owner : Users \cup {NoUser}, old : BOOLEAN] /\ lockDir'.owner = lockDir.owner
      BY <1>3 DEF LockAges, SessionInv
    <2> QED BY <1>3, <2>1 DEF LockAges, SessionInv, Clean
  <1>4. CASE \E u \in Users : Die(u)
    <2>1. PICK u \in Users : Die(u) BY <1>4
    <2>2. /\ at' = [at EXCEPT ![u] = "killed"] /\ mishap' = (mishap \/ at[u] \in {"save", "store"})
          /\ UNCHANGED <<hand, lockDir, session, cloud, issued, revoked, reclaimed, spent>>
      BY <2>1 DEF Die
    <2>3. DOMAIN at' = Users /\ at'[u] = "killed" /\ \A q \in Users \ {u} : at'[q] = at[q]
      BY <2>2 DEF SessionInv
    <2>4. mishap' \in BOOLEAN BY <2>2
    <2>5. Clean' => Clean /\ at[u] # "store" BY <2>2 DEF Clean
    <2> QED BY <2>2, <2>3, <2>4, <2>5 DEF SessionInv, Locked
  <1> QED BY <1>1, <1>2, <1>3, <1>4

(* Cloud is never shown a session token that was already replaced          *)
(* (refreshAgentRelayStoredAuth behind acquireAgentRelayAuthLock), for any *)
(* number of programs and rotations, unless an answer was lost, a program  *)
(* logged out, or a lock was taken for abandoned.                          *)
THEOREM SessionKept == Spec => []SessionNeverSpent
  <1>1. Init => SessionInv
    BY SessionStarts DEF Init, CredRests
  <1>2. SessionInv /\ [Next]_vars => SessionInv'
    <2> SUFFICES ASSUME SessionInv, [Next]_vars PROVE SessionInv'
      OBVIOUS
    <2>1. CASE CredNext
      BY <2>1, SessionDelegated, SessionSteps, SessionWorld DEF CredNext
    <2>2. CASE UNCHANGED credVars
      BY <2>2 DEF credVars, SessionInv, Clean
    <2> QED
      BY <2>1, <2>2 DEF Next, vars
  <1>3. SessionInv => SessionNeverSpent
    BY DEF SessionInv, Clean, SessionNeverSpent
  <1> QED
    BY <1>1, <1>2, <1>3, PTL DEF Spec

-----------------------------------------------------------------------------
(* Views *)

(* The places of a command, its kinds, and what the files may hold.        *)
CatPlaces == {"idle", "load", "save", "loadTouch", "touch", "loadBack", "saveBack", "loadDelete",
              "delete", "install", "unlink", "start"}
Kinds == {"none", "add", "remove", "mount", "use", "delete"}
RootOrNone == Roots \cup {NoRoot}
Lists == {NilViews} \cup SUBSET ViewDirs
WorkspaceRecord == [present : BOOLEAN, root : RootOrNone, views : SUBSET ViewDirs]
Copy == [root : RootOrNone, views : Lists]
CommandState == [kind : Kinds, at : CatPlaces, view : ViewDirs \cup {NoRoot}, replace : BOOLEAN,
            root : RootOrNone, copy : Copy, previous : Lists, loaded : WorkspaceRecord]
DaemonState == [at : {"off", "up", "refresh"}, root : RootOrNone, copy : Copy, loaded : WorkspaceRecord]

(* The catalog, the command and the daemon hold records of their kinds.    *)
CatTypes ==
    /\ catalog \in WorkspaceRecord /\ cmd \in CommandState /\ daemon \in DaemonState
    /\ DOMAIN links = ViewDirs /\ stale \in BOOLEAN
    /\ cmd.at = "unlink" => cmd.copy.views # NilViews

(* The views that are linked into a mirror.                                 *)
Linked == {v \in ViewDirs : links[v] \in Roots}

(* A list of views to be saved drops no view that is linked; nil keeps the *)
(* saved one.                                                              *)
Covers(list) == list = NilViews \/ Linked \subseteq list

(* Every link points into the recorded root and is registered.              *)
LinksFit ==
    /\ \A v \in Linked : links[v] = catalog.root
    /\ Linked \subseteq catalog.views

(* What a command has read is still so, and what it will save keeps the      *)
(* links where they point.                                                  *)
CommandFits(c) ==
    /\ c.at \in {"save", "touch", "saveBack", "delete"} => c.loaded = catalog
    /\ c.at \in {"load", "save", "loadBack", "saveBack"} =>
           Covers(c.copy.views) /\ (c.copy.root \in {NoRoot, catalog.root} \/ Linked = {})
    /\ c.at \in {"loadTouch", "touch"} => c.root = catalog.root \/ Linked = {}
    /\ c.at \in {"loadTouch", "touch", "unlink"} => c.kind # "add"
    /\ (c.at \in {"load", "save"} /\ c.kind = "add") \/ c.at = "install" =>
           /\ c.copy.root = catalog.root /\ c.copy.root \in Roots /\ Covers(c.previous)
           /\ c.copy.views # NilViews /\ c.view \in c.copy.views
    /\ c.at = "install" => c.view \in catalog.views
    /\ c.at = "unlink" => c.copy.root = catalog.root /\ Linked \subseteq c.copy.views

(* Until the daemon has saved an old record over a change, the links fit   *)
(* the catalog and the running command fits both.                          *)
CatInv == CatTypes /\ (~stale => LinksFit /\ CommandFits(cmd))

(* The empty records are records.                                          *)
LEMMA NothingCatalogued ==
    /\ NoRecord \in WorkspaceRecord /\ NoCopy \in Copy
    /\ NoCommand \in CommandState /\ NoCommand.at = "idle"
  <1>1. NoRecord \in WorkspaceRecord /\ NoCopy \in Copy
    BY DEF NoRecord, NoCopy, WorkspaceRecord, Copy, RootOrNone, Lists
  <1>2. NoRoot \in RootOrNone /\ NilViews \in Lists
    BY DEF RootOrNone, Lists
  <1> QED
    BY <1>1, <1>2 DEF NoCommand, CommandState, CatPlaces, Kinds

(* mergeWorkspaceRecords takes from the copy what the copy has.            *)
LEMMA Merged ==
    ASSUME NEW r \in WorkspaceRecord, NEW c \in Copy, NEW m, m = mergeWorkspaceRecords(r, c)
    PROVE  /\ m \in WorkspaceRecord
           /\ m.root = IF c.root # NoRoot THEN c.root ELSE r.root
           /\ m.views = IF c.views # NilViews THEN c.views ELSE r.views
  BY DEF mergeWorkspaceRecords, WorkspaceRecord, Copy, RootOrNone, Lists

(* What a command copies from a record.                                    *)
LEMMA Copied ==
    ASSUME NEW r \in WorkspaceRecord, NEW c, c = CopyOf(r)
    PROVE  /\ c \in Copy /\ c.root = r.root
           /\ (r.views = {} /\ c.views = NilViews) \/ (r.views # {} /\ c.views = r.views)
  BY DEF CopyOf, WorkspaceRecord, Copy, RootOrNone, Lists

(* A new catalog has no links.                                             *)
LEMMA CatStarts == CatInit => CatInv
  <1> SUFFICES ASSUME CatInit PROVE CatInv
    OBVIOUS
  <1>1. cmd \in CommandState /\ cmd.at = "idle" /\ catalog \in WorkspaceRecord
    BY NothingCatalogued DEF CatInit
  <1>2. daemon \in DaemonState
    BY NothingCatalogued DEF CatInit, DaemonState, RootOrNone
  <1>3. DOMAIN links = ViewDirs /\ Linked = {}
    BY CatalogBounds DEF CatInit, Linked
  <1>4. CatTypes
    BY <1>1, <1>2, <1>3 DEF CatTypes, CatInit
  <1>5. LinksFit
    BY <1>3 DEF LinksFit
  <1>6. CommandFits(cmd)
    BY <1>1 DEF CommandFits
  <1> QED
    BY <1>4, <1>5, <1>6 DEF CatInv

(* A command begins: nothing but the command changes.                       *)
LEMMA Begins ==
    ASSUME CatInv, NEW c, Starts(c), c \in CommandState,
           c.at = "unlink" => c.copy.views # NilViews,
           ~stale => CommandFits(c)
    PROVE  CatInv'
  BY DEF CatInv, CatTypes, Starts, LinksFit, CommandFits, Linked, Covers

(* The fields of a command whose place changes.                             *)
LEMMA NewPlace ==
    ASSUME NEW c \in CommandState, NEW place \in CatPlaces, NEW r, r = [c EXCEPT !.at = place]
    PROVE  /\ r \in CommandState /\ r.at = place /\ r.kind = c.kind /\ r.view = c.view
           /\ r.root = c.root /\ r.copy = c.copy /\ r.previous = c.previous /\ r.loaded = c.loaded
  BY DEF CommandState

(* A command reads the catalog.                                            *)
LEMMA CatLoads ==
    ASSUME CatInv, loadWorkspaceCatalog
    PROVE  CatInv'
  <1>1. PICK place \in {"save", "touch", "saveBack", "delete"} :
            /\ cmd' = [cmd EXCEPT !.loaded = catalog, !.at = place]
            /\ \/ cmd.at = "load" /\ place = "save"
               \/ cmd.at = "loadTouch" /\ place = "touch"
               \/ cmd.at = "loadBack" /\ place = "saveBack"
               \/ cmd.at = "loadDelete" /\ place = "delete"
    <2> DEFINE place == CASE cmd.at = "load" -> "save" [] cmd.at = "loadTouch" -> "touch"
                          [] cmd.at = "loadBack" -> "saveBack" [] OTHER -> "delete"
    <2>1. cmd.at \in {"load", "loadTouch", "loadBack", "loadDelete"}
          /\ cmd' = [cmd EXCEPT !.loaded = catalog, !.at = place]
      BY DEF loadWorkspaceCatalog
    <2>2. cmd.at = "load" => place = "save"
      OBVIOUS
    <2>3. cmd.at = "loadTouch" => place = "touch"
      OBVIOUS
    <2>4. cmd.at = "loadBack" => place = "saveBack"
      OBVIOUS
    <2>5. cmd.at = "loadDelete" => place = "delete"
      OBVIOUS
    <2> HIDE DEF place
    <2> QED
      BY <2>1, <2>2, <2>3, <2>4, <2>5
  <1>2. UNCHANGED <<catalog, links, daemon, stale>>
    BY DEF loadWorkspaceCatalog
  <1>3. /\ cmd' \in CommandState /\ cmd'.at = place /\ cmd'.kind = cmd.kind /\ cmd'.view = cmd.view
        /\ cmd'.root = cmd.root /\ cmd'.copy = cmd.copy /\ cmd'.previous = cmd.previous
        /\ cmd'.loaded = catalog
    BY <1>1 DEF CatInv, CatTypes, CommandState, CatPlaces
  <1>4. CatTypes'
    BY <1>1, <1>2, <1>3 DEF CatInv, CatTypes
  <1>5. LinksFit => LinksFit'
    BY <1>2 DEF LinksFit, Linked
  <1>6. CommandFits(cmd) => CommandFits(cmd)'
    BY <1>1, <1>2, <1>3 DEF CommandFits, Linked, Covers
  <1> QED
    BY <1>2, <1>4, <1>5, <1>6 DEF CatInv

(* A record that is saved with what covers the links keeps them.            *)
LEMMA SavedFits ==
    ASSUME CatTypes, LinksFit, NEW c \in Copy, catalog' = mergeWorkspaceRecords(catalog, c),
           UNCHANGED links, Covers(c.views), c.root \in {NoRoot, catalog.root} \/ Linked = {}
    PROVE  LinksFit'
  <1>1. /\ catalog'.root = IF c.root # NoRoot THEN c.root ELSE catalog.root
        /\ catalog'.views = IF c.views # NilViews THEN c.views ELSE catalog.views
    BY Merged DEF CatTypes
  <1>2. Linked' = Linked
    BY DEF Linked
  <1> QED
    BY <1>1, <1>2 DEF LinksFit, Covers

(* A command saves its copy merged over what it has read.                  *)
LEMMA CatSaves ==
    ASSUME CatInv, upsertWorkspaceDetails
    PROVE  CatInv'
  <1>1. /\ cmd.at = "save" /\ catalog' = mergeWorkspaceRecords(cmd.loaded, cmd.copy)
        /\ UNCHANGED <<links, daemon, stale>>
    BY DEF upsertWorkspaceDetails
  <1>2. /\ cmd \in CommandState /\ cmd.loaded \in WorkspaceRecord /\ cmd.copy \in Copy
        /\ cmd.kind \in Kinds
    BY DEF CatInv, CatTypes, CommandState
  <1>3. \/ cmd.kind = "add" /\ cmd' = [cmd EXCEPT !.at = "install"]
        \/ cmd.kind = "mount" /\ cmd' = [cmd EXCEPT !.at = "start"]
        \/ cmd' = NoCommand
    <2>1. CASE cmd.kind = "add"
      BY <2>1, Zenon DEF upsertWorkspaceDetails, Steps
    <2>2. CASE cmd.kind = "mount"
      BY <2>2 DEF upsertWorkspaceDetails, Steps
    <2>3. CASE cmd.kind \notin {"add", "mount"}
      BY <2>3 DEF upsertWorkspaceDetails, CommandEnds
    <2> QED
      BY <2>1, <2>2, <2>3
  <1>4. catalog' \in WorkspaceRecord
    BY <1>1, <1>2, Merged
  <1>5. cmd' \in CommandState /\ cmd'.at \in {"install", "start", "idle"}
    BY <1>2, <1>3, NothingCatalogued, NewPlace DEF CatPlaces
  <1>6. CatTypes'
    BY <1>1, <1>4, <1>5 DEF CatInv, CatTypes
  <1>7. ASSUME ~stale PROVE LinksFit' /\ CommandFits(cmd)'
    <2>1. cmd.loaded = catalog /\ LinksFit /\ CommandFits(cmd)
      BY <1>1, <1>7 DEF CatInv, CommandFits
    <2>2. LinksFit'
      BY <1>1, <1>2, <2>1, SavedFits DEF CatInv, CommandFits
    <2>3. Linked' = Linked
      BY <1>1 DEF Linked
    <2>4. CASE cmd.kind = "add" /\ cmd' = [cmd EXCEPT !.at = "install"]
      <3>1. /\ cmd.copy.root = catalog.root /\ cmd.copy.root \in Roots /\ Covers(cmd.previous)
            /\ cmd.copy.views # NilViews /\ cmd.view \in cmd.copy.views
        BY <1>1, <2>1, <2>4 DEF CommandFits
      <3>2. cmd'.at = "install" /\ cmd'.copy = cmd.copy /\ cmd'.view = cmd.view /\ cmd'.previous = cmd.previous
        BY <1>2, <2>4, NewPlace DEF CatPlaces
      <3>3. catalog'.root = catalog.root /\ catalog'.views = cmd.copy.views
        BY <1>1, <1>2, <2>1, <3>1, Merged, CatalogBounds
      <3> QED
        BY <2>2, <2>3, <3>1, <3>2, <3>3 DEF CommandFits, Covers
    <2>5. CASE cmd' # [cmd EXCEPT !.at = "install"]
      <3>1. cmd'.at \in {"start", "idle"}
        BY <1>2, <1>3, <2>5, NothingCatalogued, NewPlace DEF CatPlaces
      <3> QED
        BY <2>2, <3>1 DEF CommandFits
    <2>6. cmd' = [cmd EXCEPT !.at = "install"] => cmd.kind = "add"
      BY <1>2, <1>3, NothingCatalogued, NewPlace DEF CatPlaces
    <2> QED
      BY <2>4, <2>5, <2>6
  <1> QED
    BY <1>1, <1>6, <1>7 DEF CatInv

(* A view is added to the list.                                            *)
LEMMA CatAdds ==
    ASSUME CatInv, NEW v \in ViewDirs, NEW replace \in BOOLEAN, runWorkspaceViewAdd(v, replace)
    PROVE  CatInv'
  <1>1. PICK copy : copy = CopyOf(catalog)
    OBVIOUS
  <1>2. PICK list : list = ListOf(copy.views) \cup {v}
    OBVIOUS
  <1>3. PICK new : new = [copy EXCEPT !.views = list]
    OBVIOUS
  <1>4. PICK c : c = [NoCommand EXCEPT !.kind = "add", !.at = "load", !.view = v, !.replace = replace,
                                       !.copy = new, !.previous = copy.views]
    OBVIOUS
  <1>5. catalog.root # NoRoot /\ Starts(c)
    BY <1>1, <1>2, <1>3, <1>4 DEF runWorkspaceViewAdd
  <1>6. catalog \in WorkspaceRecord /\ catalog.root \in Roots /\ catalog.views \in SUBSET ViewDirs
    BY <1>5 DEF CatInv, CatTypes, WorkspaceRecord, RootOrNone
  <1>7. /\ copy \in Copy /\ copy.root = catalog.root
        /\ (catalog.views = {} /\ copy.views = NilViews) \/ (catalog.views # {} /\ copy.views = catalog.views)
    BY <1>1, <1>6, Copied
  <1>8. list = catalog.views \cup {v} /\ list \in SUBSET ViewDirs /\ copy.views \in Lists
    BY <1>2, <1>6, <1>7, CatalogBounds DEF ListOf, Lists
  <1>9. new \in Copy /\ new.root = catalog.root /\ new.views = list
    BY <1>3, <1>7, <1>8 DEF Copy, Lists
  <1>10. /\ c \in CommandState /\ c.at = "load" /\ c.kind = "add" /\ c.view = v /\ c.copy = new
         /\ c.previous = copy.views
    <2> HIDE DEF NoCommand
    <2> QED BY <1>4, <1>8, <1>9, NothingCatalogued DEF CommandState, CatPlaces, Kinds
  <1>11. list # NilViews
    BY <1>8, CatalogBounds
  <1>12. ASSUME ~stale PROVE CommandFits(c)
    <2>1. Linked \subseteq catalog.views
      BY <1>12 DEF CatInv, LinksFit
    <2>2. Covers(copy.views) /\ Covers(list)
      BY <2>1, <1>7, <1>8 DEF Covers
    <2> QED
      BY <1>6, <1>8, <1>9, <1>10, <1>11, <2>2 DEF CommandFits
  <1> QED
    BY <1>5, <1>10, <1>12, Begins

(* A view's link is installed.                                             *)
LEMMA CatInstalls ==
    ASSUME CatInv, installWorkspaceView
    PROVE  CatInv'
  <1>0. /\ cmd.at = "install" /\ UNCHANGED <<catalog, daemon, stale>>
        /\ cmd \in CommandState /\ cmd.copy \in Copy /\ cmd.previous \in Lists
    BY DEF installWorkspaceView, CatInv, CatTypes, CommandState
  <1>1. CASE links' = [links EXCEPT ![cmd.view] = cmd.copy.root] /\ CommandEnds
    <2>1. cmd' = NoCommand
      BY <1>1 DEF CommandEnds
    <2>2. CatTypes'
      BY <1>0, <1>1, <2>1, NothingCatalogued DEF CatInv, CatTypes
    <2>3. ASSUME ~stale PROVE LinksFit' /\ CommandFits(cmd)'
      <3>1. CommandFits(cmd)'
        BY <2>1, NothingCatalogued DEF CommandFits
      <3>2. LinksFit /\ cmd.copy.root = catalog.root /\ cmd.view \in catalog.views
        BY <1>0, <2>3 DEF CatInv, CommandFits
      <3>3. \A v \in ViewDirs : links'[v] = IF v = cmd.view THEN catalog.root ELSE links[v]
        BY <1>1, <3>2 DEF CatInv, CatTypes
      <3>4. ASSUME NEW v \in Linked' PROVE links'[v] = catalog.root /\ v \in catalog.views
        BY <3>2, <3>3, <3>4 DEF Linked, LinksFit
      <3> QED
        BY <1>0, <3>1, <3>4 DEF LinksFit
    <2> QED
      BY <1>0, <2>2, <2>3 DEF CatInv
  <1>2. CASE cmd' = [cmd EXCEPT !.at = "loadBack", !.copy.views = cmd.previous] /\ UNCHANGED links
    <2>1. PICK new : new = [cmd.copy EXCEPT !.views = cmd.previous]
      OBVIOUS
    <2>2. new \in Copy /\ new.root = cmd.copy.root /\ new.views = cmd.previous
      BY <1>0, <2>1 DEF Copy
    <2>3. cmd' \in CommandState /\ cmd'.at = "loadBack" /\ cmd'.copy = new
      BY <1>0, <1>2, <2>1, <2>2 DEF CommandState, CatPlaces
    <2>4. CatTypes'
      BY <1>0, <1>2, <2>3 DEF CatInv, CatTypes
    <2>5. ASSUME ~stale PROVE LinksFit' /\ CommandFits(cmd)'
      <3>1. LinksFit /\ cmd.copy.root = catalog.root /\ Covers(cmd.previous)
        BY <1>0, <2>5 DEF CatInv, CommandFits
      <3>2. Linked' = Linked
        BY <1>2 DEF Linked
      <3>3. Linked' = Linked /\ (cmd'.copy.views = NilViews \/ Linked \subseteq cmd'.copy.views)
        BY <3>1, <3>2, <2>2, <2>3 DEF Covers
      <3>4. CommandFits(cmd)'
        BY <1>0, <2>2, <2>3, <3>1, <3>3 DEF CommandFits, Covers
      <3> QED
        BY <1>0, <1>2, <3>1, <3>2, <3>4 DEF LinksFit
    <2> QED
      BY <1>0, <2>4, <2>5 DEF CatInv
  <1> QED
    BY <1>1, <1>2 DEF installWorkspaceView

(* The registration of a view that could not be linked is rolled back.     *)
LEMMA CatRollsBack ==
    ASSUME CatInv, rollBackView
    PROVE  CatInv'
  <1>1. /\ cmd.at = "saveBack" /\ catalog' = mergeWorkspaceRecords(cmd.loaded, cmd.copy)
        /\ cmd' = NoCommand /\ UNCHANGED <<links, daemon, stale>>
    BY DEF rollBackView, CommandEnds
  <1>2. cmd.loaded \in WorkspaceRecord /\ cmd.copy \in Copy
    BY DEF CatInv, CatTypes, CommandState
  <1>3. catalog' \in WorkspaceRecord
    BY <1>1, <1>2, Merged
  <1>4. CatTypes'
    BY <1>1, <1>3, NothingCatalogued DEF CatInv, CatTypes
  <1>5. CommandFits(cmd)'
    BY <1>1, NothingCatalogued DEF CommandFits
  <1>6. ~stale => LinksFit'
    BY <1>1, <1>2, SavedFits DEF CatInv, CommandFits
  <1> QED
    BY <1>1, <1>4, <1>5, <1>6 DEF CatInv

(* A view is taken from the list.                                          *)
LEMMA CatRemoves ==
    ASSUME CatInv, NEW v \in ViewDirs, runWorkspaceViewRemove(v)
    PROVE  CatInv'
  <1>1. PICK copy : copy = CopyOf(catalog)
    OBVIOUS
  <1>2. PICK c : c = [NoCommand EXCEPT !.kind = "remove", !.at = "unlink", !.view = v, !.copy = copy]
    OBVIOUS
  <1>3. v \in catalog.views /\ Starts(c)
    BY <1>1, <1>2 DEF runWorkspaceViewRemove
  <1>4. catalog \in WorkspaceRecord /\ catalog.views \in SUBSET ViewDirs
    BY DEF CatInv, CatTypes, WorkspaceRecord
  <1>5. copy \in Copy /\ copy.root = catalog.root /\ copy.views = catalog.views
    BY <1>1, <1>3, <1>4, Copied
  <1>6. c \in CommandState /\ c.at = "unlink" /\ c.copy = copy /\ c.kind = "remove"
    BY <1>2, <1>5, NothingCatalogued DEF CommandState, CatPlaces, Kinds
  <1>7. copy.views # NilViews
    BY <1>4, <1>5, CatalogBounds
  <1>8. ~stale => CommandFits(c)
    BY <1>5, <1>6 DEF CommandFits, CatInv, LinksFit
  <1> QED
    BY <1>3, <1>6, <1>7, <1>8, Begins

(* A view's link is removed, and then its registration.                    *)
LEMMA CatUnlinks ==
    ASSUME CatInv, removeWorkspaceViewLink
    PROVE  CatInv'
  <1>0. /\ cmd.at = "unlink" /\ UNCHANGED <<catalog, daemon, stale>>
        /\ cmd \in CommandState /\ cmd.copy \in Copy /\ cmd.copy.views \in SUBSET ViewDirs
    BY DEF removeWorkspaceViewLink, CatInv, CatTypes, CommandState, Copy, Lists
  <1>1. CASE cmd' = NoCommand /\ UNCHANGED links
    <2>1. CatTypes'
      BY <1>0, <1>1, NothingCatalogued DEF CatInv, CatTypes
    <2>2. CommandFits(cmd)'
      BY <1>1, NothingCatalogued DEF CommandFits
    <2>3. LinksFit => LinksFit'
      BY <1>0, <1>1 DEF LinksFit, Linked
    <2> QED
      BY <1>0, <2>1, <2>2, <2>3 DEF CatInv
  <1>2. CASE /\ links' = [links EXCEPT ![cmd.view] = "none"]
             /\ cmd' = [cmd EXCEPT !.at = "load", !.copy.views = @ \ {cmd.view}]
    <2>1. PICK new : new = [cmd.copy EXCEPT !.views = cmd.copy.views \ {cmd.view}]
      OBVIOUS
    <2>2. new \in Copy /\ new.root = cmd.copy.root /\ new.views = cmd.copy.views \ {cmd.view}
      BY <1>0, <2>1 DEF Copy, Lists
    <2>3. cmd' \in CommandState /\ cmd'.at = "load" /\ cmd'.copy = new /\ cmd'.kind = cmd.kind
      BY <1>0, <1>2, <2>1, <2>2 DEF CommandState, CatPlaces
    <2>4. CatTypes'
      BY <1>0, <1>2, <2>3 DEF CatInv, CatTypes
    <2>5. /\ Linked' \subseteq Linked \ {cmd.view} /\ \A v \in Linked' : links'[v] = links[v]
      BY <1>2, CatalogBounds DEF Linked, CatInv, CatTypes
    <2>6. ASSUME ~stale PROVE LinksFit' /\ CommandFits(cmd)'
      <3>1. /\ LinksFit /\ cmd.copy.root = catalog.root /\ Linked \subseteq cmd.copy.views
            /\ cmd.kind # "add"
        BY <1>0, <2>6 DEF CatInv, CommandFits
      <3>2. LinksFit'
        BY <1>0, <2>5, <3>1 DEF LinksFit
      <3>3. Linked' \subseteq new.views
        BY <2>2, <2>5, <3>1
      <3>4. CommandFits(cmd)'
        BY <1>0, <2>2, <2>3, <3>1, <3>3 DEF CommandFits, Covers
      <3> QED
        BY <3>2, <3>4
    <2> QED
      BY <1>0, <2>4, <2>6 DEF CatInv
  <1> QED
    BY <1>1, <1>2 DEF removeWorkspaceViewLink, CommandEnds

(* A mirror is mounted, at the recorded root or at another one.            *)
LEMMA CatMounts ==
    ASSUME CatInv, NEW root \in Roots, NEW rehome \in BOOLEAN, runMount(root, rehome)
    PROVE  CatInv'
  <1>1. PICK c : c = [NoCommand EXCEPT !.kind = "mount", !.at = "loadTouch", !.root = root]
    OBVIOUS
  <1>2. Starts(c) /\ (catalog.root \notin {NoRoot, root} => catalog.views = {})
    BY <1>1 DEF runMount, MayMount
  <1>3. c \in CommandState /\ c.at = "loadTouch" /\ c.kind = "mount" /\ c.root = root
    BY <1>1, NothingCatalogued DEF CommandState, CatPlaces, Kinds, RootOrNone
  <1>4. ASSUME ~stale PROVE CommandFits(c)
    <2>1. LinksFit
      BY <1>4 DEF CatInv
    <2>2. catalog.root = root \/ Linked = {}
      BY <1>2, <2>1, CatalogBounds DEF LinksFit, Linked
    <2> QED
      BY <1>3, <2>2 DEF CommandFits
  <1> QED
    BY <1>2, <1>3, <1>4, Begins

(* A mount records its root.                                               *)
LEMMA CatTouches ==
    ASSUME CatInv, upsertWorkspace
    PROVE  CatInv'
  <1>1. PICK copy : copy = CopyOf(catalog')
    OBVIOUS
  <1>2. PICK new : new = [copy EXCEPT !.root = cmd.root]
    OBVIOUS
  <1>3. /\ cmd.at = "touch" /\ catalog' = [cmd.loaded EXCEPT !.present = TRUE]
        /\ cmd' = [cmd EXCEPT !.at = "load", !.copy = new]
        /\ UNCHANGED <<links, daemon, stale>>
    BY <1>1, <1>2 DEF upsertWorkspace
  <1>4. cmd \in CommandState /\ cmd.loaded \in WorkspaceRecord /\ cmd.root \in RootOrNone
    BY DEF CatInv, CatTypes, CommandState
  <1>5. /\ catalog' \in WorkspaceRecord /\ catalog'.root = cmd.loaded.root
        /\ catalog'.views = cmd.loaded.views
    BY <1>3, <1>4 DEF WorkspaceRecord
  <1>6. /\ copy \in Copy
        /\ (catalog'.views = {} /\ copy.views = NilViews) \/ copy.views = catalog'.views
    BY <1>1, <1>5, Copied
  <1>7. new \in Copy /\ new.root = cmd.root /\ new.views = copy.views
    BY <1>2, <1>4, <1>6 DEF Copy
  <1>8. cmd' \in CommandState /\ cmd'.at = "load" /\ cmd'.copy = new /\ cmd'.kind = cmd.kind
    BY <1>3, <1>4, <1>7 DEF CommandState, CatPlaces
  <1>9. CatTypes'
    BY <1>3, <1>5, <1>8 DEF CatInv, CatTypes
  <1>10. ASSUME ~stale PROVE LinksFit' /\ CommandFits(cmd)'
    <2>1. /\ LinksFit /\ cmd.loaded = catalog /\ cmd.kind # "add"
          /\ cmd.root = catalog.root \/ Linked = {}
      BY <1>3, <1>10 DEF CatInv, CommandFits
    <2>2. Linked' = Linked
      BY <1>3 DEF Linked
    <2>3. LinksFit'
      BY <1>3, <1>5, <2>1, <2>2 DEF LinksFit
    <2>4. new.views = NilViews \/ Linked' \subseteq new.views
      BY <1>6, <1>7, <2>3 DEF LinksFit
    <2>5. CommandFits(cmd)'
      BY <1>5, <1>7, <1>8, <2>1, <2>2, <2>4 DEF CommandFits, Covers
    <2> QED
      BY <2>3, <2>5
  <1> QED
    BY <1>3, <1>9, <1>10 DEF CatInv

(* A command takes the workspace as it finds it.                           *)
LEMMA CatUses ==
    ASSUME CatInv, prepareWorkspaceCommandClient
    PROVE  CatInv'
  <1>1. PICK copy : copy = CopyOf(catalog)
    OBVIOUS
  <1>2. PICK c : c = [NoCommand EXCEPT !.kind = "use", !.at = "load", !.copy = copy]
    OBVIOUS
  <1>3. Starts(c)
    BY <1>1, <1>2 DEF prepareWorkspaceCommandClient
  <1>4. /\ copy \in Copy /\ copy.root = catalog.root
        /\ copy.views = NilViews \/ copy.views = catalog.views
    BY <1>1, Copied DEF CatInv, CatTypes
  <1>5. c \in CommandState /\ c.at = "load" /\ c.copy = copy /\ c.kind = "use"
    BY <1>2, <1>4, NothingCatalogued DEF CommandState, CatPlaces, Kinds
  <1>6. ~stale => CommandFits(c)
    BY <1>4, <1>5 DEF CommandFits, Covers, CatInv, LinksFit
  <1> QED
    BY <1>3, <1>5, <1>6, Begins

(* What leaves links and operator commands alone, or gives them up.         *)
LEMMA CatRest ==
    ASSUME CatInv,
           \/ startLoop \/ runStop \/ runWorkspaceDelete \/ removeWorkspace \/ refreshLoad \/ refreshSave
    PROVE  CatInv'
  <1>0. /\ catalog \in WorkspaceRecord /\ cmd \in CommandState /\ cmd.root \in RootOrNone
        /\ daemon \in DaemonState /\ daemon.loaded \in WorkspaceRecord /\ daemon.copy \in Copy
    BY DEF CatInv, CatTypes, CommandState, DaemonState
  <1>1. CASE startLoop
    <2>1. PICK copy : copy = CopyOf(catalog)
      OBVIOUS
    <2>2. copy \in Copy
      BY <1>0, <2>1, Copied
    <2>3. daemon' \in DaemonState
      BY <1>0, <1>1, <2>1, <2>2, NothingCatalogued DEF startLoop, DaemonState
    <2>4. cmd' = NoCommand /\ UNCHANGED <<catalog, links, stale>>
      BY <1>1 DEF startLoop, CommandEnds
    <2>5. CatTypes'
      BY <2>3, <2>4, NothingCatalogued DEF CatInv, CatTypes
    <2>6. CommandFits(cmd)' /\ (LinksFit => LinksFit')
      BY <2>4, NothingCatalogued DEF CommandFits, LinksFit, Linked
    <2> QED
      BY <2>4, <2>5, <2>6 DEF CatInv
  <1>2. CASE runStop \/ refreshLoad
    <2>1. daemon' \in DaemonState
      BY <1>0, <1>2 DEF runStop, refreshLoad, DaemonState
    <2>2. UNCHANGED <<catalog, links, cmd, stale>>
      BY <1>2 DEF runStop, refreshLoad
    <2> QED
      BY <2>1, <2>2 DEF CatInv, CatTypes, LinksFit, CommandFits, Linked, Covers
  <1>3. CASE runWorkspaceDelete
    <2>1. PICK c : c = [NoCommand EXCEPT !.kind = "delete", !.at = "loadDelete"]
      OBVIOUS
    <2>2. Starts(c)
      BY <1>3, <2>1 DEF runWorkspaceDelete
    <2>3. c \in CommandState /\ c.at = "loadDelete"
      BY <2>1, NothingCatalogued DEF CommandState, CatPlaces, Kinds
    <2> QED
      BY <2>2, <2>3, Begins DEF CommandFits
  <1>4. CASE removeWorkspace
    BY <1>4, NothingCatalogued DEF removeWorkspace, CommandEnds, CatInv, CatTypes
  <1>5. CASE refreshSave
    <2>1. /\ catalog' = mergeWorkspaceRecords(daemon.loaded, daemon.copy)
          /\ stale' = (stale \/ catalog' # catalog)
          /\ daemon' = [daemon EXCEPT !.at = "up", !.loaded = NoRecord]
          /\ UNCHANGED <<links, cmd>>
      BY <1>5 DEF refreshSave
    <2>2. catalog' \in WorkspaceRecord
      BY <1>0, <2>1, Merged
    <2>3. daemon' \in DaemonState
      BY <1>0, <2>1, NothingCatalogued DEF DaemonState
    <2>4. stale' \in BOOLEAN /\ (~stale' => ~stale /\ catalog' = catalog)
      BY <2>1
    <2>5. CatTypes'
      BY <2>1, <2>2, <2>3, <2>4 DEF CatInv, CatTypes
    <2>6. ASSUME ~stale' PROVE LinksFit' /\ CommandFits(cmd)'
      BY <2>1, <2>4, <2>6 DEF CatInv, LinksFit, CommandFits, Linked, Covers
    <2> QED
      BY <2>5, <2>6 DEF CatInv
  <1> QED
    BY <1>1, <1>2, <1>3, <1>4, <1>5

(* A view never points into a mirror that was moved away: every link the   *)
(* client installed (installWorkspaceView, runWorkspaceViewAdd) points     *)
(* into the root the catalog records, whatever commands were killed        *)
(* between a read, a save and a link, until a daemon saves the record it   *)
(* had in memory over a change.                                            *)
THEOREM ViewsFollow == Spec => []ViewsFollowMirror
  <1>1. Init => CatInv
    BY CatStarts DEF Init, CatRests
  <1>2. CatInv /\ [Next]_vars => CatInv'
    <2> SUFFICES ASSUME CatInv, [Next]_vars PROVE CatInv'
      OBVIOUS
    <2>1. CASE CatNext
      BY <2>1, CatLoads, CatSaves, CatAdds, CatInstalls, CatRollsBack, CatRemoves, CatUnlinks,
         CatMounts, CatTouches, CatUses, CatRest DEF CatNext
    <2>2. CASE UNCHANGED catVars
      BY <2>2 DEF catVars, CatInv, CatTypes, LinksFit, CommandFits, Linked, Covers
    <2> QED
      BY <2>1, <2>2 DEF Next, vars
  <1>3. CatInv => ViewsFollowMirror
    BY DEF CatInv, CatTypes, LinksFit, Linked, ViewsFollowMirror
  <1> QED
    BY <1>1, <1>2, <1>3, PTL DEF Spec

-----------------------------------------------------------------------------
(* File handles *)

(* Contents, requests and handles, by what they may hold.                  *)
Texts == {Empty} \cup ({"remote", "mount"} \X Nat)
FileState == [rev : Nat, text : Texts]
HandleState == [open : BOOLEAN, buf : Texts, revision : Nat, dirty : BOOLEAN,
                writeGen : Nat]
Flushing == {"flush", "release"}
Opening == {"open", "trunc", "create"}
RequestKinds == Flushing \cup Opening \cup {"none", "stat", "lookup", "readdir", "unlink"}
FlushPlaces == {"writing", "written", "cached"}
RequestPlaces == FlushPlaces \cup {"idle", "reading", "read", "materializing", "waiting", "looking",
                                   "listing", "listed", "deleting", "deleted"}
RequestState == [at : RequestPlaces, kind : RequestKinds, h : Handles \cup {"none"},
                 file : FileState, base : Nat, gen : Nat]

(* The variables hold what they may hold.                                  *)
FuseTypes ==
    /\ stored \in Seq(Texts) /\ server \in 0..Len(stored)
    /\ fileCache \in FileState /\ dirCache \in SUBSET Nat /\ repo \in {"unknown", "loading", "ready"}
    /\ handle \in [Handles -> HandleState]
    /\ request \in [Requests -> RequestState]
    /\ writes \in Nat

(* What the server stored as that revision. *)
IsStored(f) == f.rev \in DOMAIN stored /\ stored[f.rev] = f.text

(* An open handle that is clean holds bytes that were stored.              *)
HandleFits(hd) ==
    hd.open /\ ~hd.dirty => \E v \in DOMAIN stored : stored[v] = hd.buf

(* What a request has in hand was stored; where it is goes with what it    *)
(* is; a flush is on an open handle and replaces a revision that handle    *)
(* has read, an open on one that is not open yet.                          *)
RequestFits(n) ==
    /\ n.at \in {"read", "written", "cached"} => IsStored(n.file)
    /\ n.at \in FlushPlaces <=> n.kind \in Flushing
    /\ n.at = "idle" => n.kind = "none"
    /\ n.h \in Handles <=> n.kind \in Flushing \cup Opening
    /\ n.kind \in Flushing => handle[n.h].open
    /\ n.kind \in Opening => ~handle[n.h].open

(* Only flushes share a handle. *)
Apart(n, q) == n.h \in Handles /\ q.h = n.h => n.kind = "flush" /\ q.kind = "flush"

(* The cache, the requests and the handles fit what the server stored.     *)
FuseInv ==
    /\ FuseTypes
    /\ fileCache = NoFile \/ IsStored(fileCache)
    /\ \A r \in Requests : RequestFits(request[r])
    /\ \A h \in Handles : HandleFits(handle[h])
    /\ \A r, q \in Requests : r # q => Apart(request[r], request[q])

(* One request and one handle change, the server's contents do not.         *)
LEMMA FuseStep ==
    ASSUME FuseInv, FuseTypes', UNCHANGED stored,
           fileCache' = NoFile \/ IsStored(fileCache'),
           NEW r, \A q \in Requests \ {r} : request'[q] = request[q],
           NEW h, \A k \in Handles \ {h} : handle'[k] = handle[k],
           r \in Requests => RequestFits(request[r])',
           r \in Requests => \A q \in Requests \ {r} : Apart(request'[r], request[q]),
           h \in Handles => HandleFits(handle'[h]),
           \/ \A q \in Requests \ {r} : request[q].h # h
           \/ h \in Handles => handle'[h].open = handle[h].open
    PROVE  FuseInv'
  <1>1. ASSUME NEW q \in Requests PROVE RequestFits(request[q])'
    <2>1. CASE q = r
      BY <2>1
    <2>2. CASE q # r
      <3>1. request'[q] = request[q] /\ RequestFits(request[q])
        BY <2>2 DEF FuseInv
      <3>2. CASE request[q].h # h \/ h \notin Handles
        <4>1. request[q].h \in Handles => handle'[request[q].h] = handle[request[q].h]
          BY <3>2
        <4> QED
          BY <3>1, <4>1 DEF RequestFits, IsStored, FlushPlaces
      <3>3. CASE request[q].h = h /\ h \in Handles
        BY <2>2, <3>1, <3>3 DEF RequestFits, IsStored
      <3> QED
        BY <3>2, <3>3
    <2> QED
      BY <2>1, <2>2
  <1>2. ASSUME NEW k \in Handles PROVE HandleFits(handle[k])'
    BY DEF FuseInv, HandleFits
  <1>3. ASSUME NEW p \in Requests, NEW q \in Requests, p # q PROVE Apart(request[p], request[q])'
    BY <1>3 DEF FuseInv, Apart
  <1>4. (fileCache = NoFile \/ IsStored(fileCache))'
    BY DEF IsStored
  <1> QED
    BY <1>1, <1>2, <1>3, <1>4 DEF FuseInv

(* The server's contents grow, requests and handles staying as they are.    *)
LEMMA StoredGrows ==
    ASSUME FuseInv, NEW t \in Texts, stored' = Append(stored, t)
    PROVE  /\ stored' \in Seq(Texts) /\ Len(stored') = Len(stored) + 1 /\ Len(stored) \in Nat
           /\ stored'[Len(stored) + 1] = t
           /\ \A f : IsStored(f) => f.rev \in DOMAIN stored' /\ stored'[f.rev] = f.text
           /\ \A hd : HandleFits(hd) => (hd.open /\ ~hd.dirty
                                            => \E v \in DOMAIN stored' : stored'[v] = hd.buf)
  <1>1. stored \in Seq(Texts)
    BY DEF FuseInv, FuseTypes
  <1>2. /\ stored' \in Seq(Texts) /\ Len(stored') = Len(stored) + 1 /\ Len(stored) \in Nat
        /\ stored'[Len(stored) + 1] = t
        /\ \A v \in DOMAIN stored : v \in DOMAIN stored' /\ stored'[v] = stored[v]
    BY <1>1
  <1> QED
    BY <1>2 DEF IsStored, HandleFits

(* The server stores another revision.                                     *)
LEMMA ServerGrows ==
    ASSUME FuseInv, NEW t \in Texts, Stores(t), UNCHANGED <<fileCache, dirCache, repo, handle, request, writes>>
    PROVE  FuseInv'
  <1>1. stored' = Append(stored, t) /\ server' = Len(stored')
    BY DEF Stores
  <1>2. FuseTypes'
    BY <1>1, StoredGrows DEF FuseTypes, FuseInv
  <1>3. fileCache' = NoFile \/ IsStored(fileCache)'
    BY <1>1, StoredGrows DEF FuseInv, IsStored
  <1>4. ASSUME NEW r \in Requests PROVE RequestFits(request[r])'
    BY <1>1, StoredGrows DEF FuseInv, RequestFits, IsStored
  <1>5. ASSUME NEW h \in Handles PROVE HandleFits(handle[h])'
    BY <1>1, StoredGrows DEF FuseInv, HandleFits
  <1> QED
    BY <1>2, <1>3, <1>4, <1>5 DEF FuseInv, Apart

(* The empty records are records.                                          *)
LEMMA NothingFused ==
    /\ NoFile \in FileState /\ Closed \in HandleState /\ Closed.open = FALSE
    /\ NoRequest \in RequestState /\ NoRequest.at = "idle" /\ NoRequest.kind = "none" /\ NoRequest.h = "none"
  <1>1. Empty \in Texts /\ "none" \in Handles \cup {"none"}
    BY DEF Texts
  <1>2. NoFile \in FileState
    BY <1>1 DEF NoFile, FileState
  <1>3. Closed \in HandleState /\ Closed.open = FALSE
    BY <1>1 DEF Closed, HandleState
  <1>4. NoRequest \in RequestState /\ NoRequest.at = "idle" /\ NoRequest.kind = "none" /\ NoRequest.h = "none"
    BY <1>1, <1>2 DEF NoRequest, RequestState, RequestPlaces, RequestKinds
  <1> QED
    BY <1>2, <1>3, <1>4

(* A request that is over shares no handle.                                *)
LEMMA NoRequestFits ==
    /\ \A n \in RequestState : n.at = "idle" /\ n.kind = "none" /\ n.h = "none"
                                   => RequestFits(n) /\ \A q \in RequestState : Apart(n, q)
    /\ RequestFits(NoRequest) /\ \A q : Apart(NoRequest, q)
  BY NothingFused, FuseBounds DEF RequestFits, Apart, FlushPlaces, Flushing, Opening

(* At first nothing is open.                                               *)
LEMMA FuseStarts == FuseInit => FuseInv
  <1> SUFFICES ASSUME FuseInit PROVE FuseInv
    OBVIOUS
  <1>1. stored = <<>> /\ server = 0 /\ fileCache = NoFile /\ dirCache = {} /\ repo = "unknown" /\ writes = 0
    BY DEF FuseInit
  <1>2. handle \in [Handles -> HandleState] /\ \A h \in Handles : handle[h] = Closed
    BY NothingFused DEF FuseInit
  <1>3. request \in [Requests -> RequestState] /\ \A r \in Requests : request[r] = NoRequest
    BY NothingFused DEF FuseInit
  <1>4. stored \in Seq(Texts) /\ server \in 0..Len(stored)
    BY <1>1
  <1>5. FuseTypes
    BY <1>1, <1>2, <1>3, <1>4, NothingFused DEF FuseTypes
  <1>6. \A h \in Handles : HandleFits(handle[h])
    BY <1>2, NothingFused DEF HandleFits
  <1>7. \A r \in Requests : RequestFits(request[r])
    BY <1>3, NoRequestFits
  <1>8. \A r, q \in Requests : Apart(request[r], request[q])
    BY <1>3, NoRequestFits
  <1> QED
    BY <1>1, <1>5, <1>6, <1>7, <1>8 DEF FuseInv

(* A request ends, or goes on, and handles stay as they are.                 *)
LEMMA RequestStep ==
    ASSUME FuseInv, NEW r \in Requests, NEW n \in RequestState, request' = [request EXCEPT ![r] = n],
           UNCHANGED <<stored, handle, writes>>, server' \in {server, 0}, repo' \in {"unknown", "loading", "ready"},
           fileCache' \in FileState, fileCache' = NoFile \/ IsStored(fileCache'), dirCache' \in SUBSET Nat,
           RequestFits(n), \A q \in Requests \ {r} : Apart(n, request[q])
    PROVE  FuseInv'
  <1>1. /\ request' \in [Requests -> RequestState] /\ request'[r] = n
        /\ \A q \in Requests \ {r} : request'[q] = request[q]
    BY DEF FuseInv, FuseTypes
  <1>2. FuseTypes'
    BY <1>1 DEF FuseInv, FuseTypes
  <1>3. RequestFits(request[r])'
    BY <1>1 DEF RequestFits, IsStored
  <1>4. /\ "none" \notin Handles
        /\ \A k \in Handles \ {"none"} : handle'[k] = handle[k]
        /\ \A q \in Requests \ {r} : Apart(request'[r], request[q])
    BY <1>1, FuseBounds
  <1> QED
    BY <1>1, <1>2, <1>3, <1>4, FuseStep

(* Other clients, events, the socket and the caches' time to live.         *)
LEMMA FuseServer ==
    ASSUME FuseInv, RemoteWrites \/ RemoteDeletes \/ handleEvent \/ SocketFails \/ Connects \/ FileExpires \/ DirExpires
    PROVE  FuseInv'
  <1>1. CASE RemoteWrites
    <2>1. <<"remote", Len(stored) + 1>> \in Texts
      BY DEF FuseInv, FuseTypes, Texts
    <2> QED
      BY <1>1, <2>1, ServerGrows DEF RemoteWrites
  <1>2. CASE ~RemoteWrites
    <2>1. /\ UNCHANGED <<stored, repo, handle, request, writes>> /\ server' \in {server, 0}
          /\ fileCache' \in {fileCache, NoFile} /\ dirCache' \in {dirCache, {}}
      BY <1>2 DEF RemoteDeletes, handleEvent, SocketFails, Connects, FileExpires, DirExpires, invalidate, serverVars
    <2>2. FuseTypes'
      BY <2>1, NothingFused DEF FuseInv, FuseTypes
    <2> QED
      BY <2>1, <2>2 DEF FuseInv, RequestFits, HandleFits, Apart, IsStored
  <1> QED
    BY <1>1, <1>2

(* The fields of a request whose place changes.                             *)
LEMMA NewRequestPlace ==
    ASSUME NEW c \in RequestState, NEW place \in RequestPlaces, NEW n, n = [c EXCEPT !.at = place]
    PROVE  /\ n \in RequestState /\ n.at = place /\ n.kind = c.kind /\ n.h = c.h
           /\ n.file = c.file /\ n.base = c.base
  BY DEF RequestState

(* A request keeps its handle to itself while its kind and handle stay.     *)
LEMMA SameCompany ==
    ASSUME FuseInv, NEW r \in Requests, NEW n, n.kind = request[r].kind, n.h = request[r].h
    PROVE  \A q \in Requests \ {r} : Apart(n, request[q])
  BY DEF FuseInv, Apart

(* A request ends and leaves handles alone.                                  *)
LEMMA RequestOver ==
    ASSUME FuseInv, NEW r \in Requests, RequestEnds(r),
           UNCHANGED <<server, stored, handle, writes>>, repo' \in {"unknown", "loading", "ready"},
           fileCache' \in FileState, fileCache' = NoFile \/ IsStored(fileCache'), dirCache' \in SUBSET Nat
    PROVE  FuseInv'
  <1>1. request' = [request EXCEPT ![r] = NoRequest]
    BY DEF RequestEnds
  <1>2. NoRequest \in RequestState /\ RequestFits(NoRequest) /\ \A q \in Requests \ {r} : Apart(NoRequest, request[q])
    BY NothingFused, NoRequestFits
  <1> QED
    BY <1>1, <1>2, RequestStep

(* A handle changes and the request that changes it, if any, ends.          *)
LEMMA HandleStep ==
    ASSUME FuseInv, NEW r \in Requests, NEW h \in Handles, NEW hd \in HandleState,
           handle' = [handle EXCEPT ![h] = hd], UNCHANGED request \/ RequestEnds(r),
           UNCHANGED <<server, stored, repo>>, writes' \in Nat,
           fileCache' \in FileState, fileCache' = NoFile \/ IsStored(fileCache'), dirCache' \in SUBSET Nat,
           HandleFits(hd),
           \/ /\ \A q \in Requests \ {r} : request[q].h # h
              /\ RequestEnds(r) \/ request[r].h # h
           \/ hd.open = handle[h].open
    PROVE  FuseInv'
  <1>1. /\ handle' \in [Handles -> HandleState] /\ handle'[h] = hd
        /\ \A k \in Handles \ {h} : handle'[k] = handle[k]
    BY DEF FuseInv, FuseTypes
  <1>2. CASE RequestEnds(r)
    <2>1. /\ request' \in [Requests -> RequestState] /\ request'[r] = NoRequest
          /\ \A q \in Requests \ {r} : request'[q] = request[q]
      BY <1>2, NothingFused DEF FuseInv, FuseTypes, RequestEnds
    <2>2. FuseTypes'
      BY <1>1, <2>1 DEF FuseInv, FuseTypes
    <2>3. RequestFits(request[r])' /\ \A q \in Requests \ {r} : Apart(request'[r], request[q])
      BY <2>1, NothingFused, NoRequestFits, FuseBounds DEF RequestFits, FlushPlaces, Flushing, Opening
    <2>4. HandleFits(handle'[h])
      BY <1>1
    <2>5. \/ \A q \in Requests \ {r} : request[q].h # h
          \/ handle'[h].open = handle[h].open
      BY <1>1
    <2> QED
      BY <1>1, <2>1, <2>2, <2>3, <2>4, <2>5, FuseStep
  <1>3. CASE UNCHANGED request /\ ~RequestEnds(r)
    <2>1. FuseTypes'
      BY <1>1, <1>3 DEF FuseInv, FuseTypes
    <2>2. HandleFits(handle'[h])
      BY <1>1
    <2>3. \/ \A q \in Requests : request[q].h # h
          \/ handle'[h].open = handle[h].open
      BY <1>1, <1>3
    <2>4. RequestFits(request[r]) /\ \A q \in Requests \ {r} : Apart(request[r], request[q])
      BY DEF FuseInv
    <2>5. RequestFits(request[r])'
      <3>1. CASE request[r].h # h
        <4>1. request[r].h \in Handles => handle'[request[r].h] = handle[request[r].h]
          BY <1>1, <3>1
        <4> QED
          BY <1>3, <2>4, <4>1 DEF RequestFits, IsStored, FlushPlaces
      <3>2. CASE request[r].h = h
        BY <1>3, <2>3, <2>4, <3>2 DEF RequestFits, IsStored
      <3> QED
        BY <3>1, <3>2
    <2> QED
      BY <1>1, <1>3, <2>1, <2>2, <2>3, <2>4, <2>5, FuseStep
  <1> QED
    BY <1>2, <1>3

(* A handle opened from a stored file, or truncated, fits.                 *)
LEMMA OpenedFits ==
    ASSUME FuseInv, NEW f \in FileState, NEW kind, IsStored(f) \/ kind = "trunc"
    PROVE  Opened(f, kind) \in HandleState /\ HandleFits(Opened(f, kind))
  <1>1. /\ f.rev \in Nat /\ f.text \in Texts /\ Empty \in Texts
    BY DEF FileState, Texts
  <1>2. PICK b \in Texts : b = IF kind = "trunc" THEN Empty ELSE f.text
    BY <1>1
  <1>3. PICK d \in BOOLEAN : d = (kind = "trunc")
    OBVIOUS
  <1>4. PICK o : o = [open |-> TRUE, buf |-> b, revision |-> f.rev, dirty |-> d, writeGen |-> 0]
    OBVIOUS
  <1>5. Opened(f, kind) = o
    BY <1>2, <1>3, <1>4 DEF Opened
  <1>6. o \in HandleState /\ o.revision = f.rev /\ o.dirty = d /\ o.buf = b
    BY <1>1, <1>4 DEF HandleState
  <1>7. ~d => b = f.text /\ kind # "trunc"
    BY <1>2, <1>3
  <1> QED
    BY <1>5, <1>6, <1>7 DEF HandleFits, IsStored

(* A free request has no handle, a free handle no request.                 *)
LEMMA FuseFree ==
    /\ \A r : Idle(r) => r \in Requests /\ request[r].at = "idle"
    /\ \A h : Unopened(h) => h \in Handles /\ ~handle[h].open /\ \A q \in Requests : request[q].h # h
  BY DEF Idle, Unopened, OnHandle

(* Nothing of this changes.                                                *)
LEMMA FuseSame ==
    ASSUME FuseInv, UNCHANGED <<server, stored, fileCache, dirCache, repo, handle, request, writes>>
    PROVE  FuseInv'
  BY DEF FuseInv, FuseTypes, RequestFits, HandleFits, Apart, IsStored

(* An open or a lookup reads from the cache or asks the server.            *)
LEMMA FuseReadBegins ==
    ASSUME FuseInv, NEW r, NEW h, NEW kind, ReadBegins(r, h, kind),
           kind \in {"open", "trunc"} \/ (kind = "stat" /\ h = "none")
    PROVE  FuseInv'
  <1>0. /\ r \in Requests /\ UNCHANGED <<server, stored, fileCache, dirCache, repo, writes>>
        /\ kind # "stat" => h \in Handles /\ ~handle[h].open /\ \A q \in Requests : request[q].h # h
        /\ fileCache \in FileState /\ dirCache \in SUBSET Nat /\ repo \in {"unknown", "loading", "ready"}
        /\ writes \in Nat /\ (fileCache = NoFile \/ IsStored(fileCache))
    BY FuseFree DEF ReadBegins, serverVars, FuseInv, FuseTypes
  <1>1. CASE fileCache # NoFile
    <2>1. UNCHANGED request /\ HasRead(h, kind, fileCache)
      BY <1>1 DEF ReadBegins
    <2>2. CASE kind = "stat"
      BY <1>0, <2>1, <2>2, FuseSame DEF HasRead
    <2>3. CASE kind # "stat"
      <3>1. handle' = [handle EXCEPT ![h] = Opened(fileCache, kind)]
        BY <2>1, <2>3 DEF HasRead
      <3>2. Opened(fileCache, kind) \in HandleState /\ HandleFits(Opened(fileCache, kind))
        BY <1>0, <1>1, OpenedFits
      <3> QED
        BY <1>0, <2>1, <2>3, <3>1, <3>2, HandleStep
    <2> QED
      BY <2>2, <2>3
  <1>2. CASE fileCache = NoFile
    <2>1. PICK n : n = [NoRequest EXCEPT !.at = "reading", !.kind = kind, !.h = h]
      OBVIOUS
    <2>2. request' = [request EXCEPT ![r] = n] /\ UNCHANGED handle
      BY <1>2, <2>1 DEF ReadBegins
    <2>3. kind \in RequestKinds /\ h \in Handles \cup {"none"}
      BY <1>0 DEF RequestKinds, Opening
    <2>4. n \in RequestState /\ n.at = "reading" /\ n.kind = kind /\ n.h = h
      BY <2>1, <2>3, NothingFused DEF RequestState, RequestPlaces
    <2>5. RequestFits(n)
      BY <1>0, <2>4, FuseBounds DEF RequestFits, FlushPlaces, Flushing, Opening
    <2>6. \A q \in Requests \ {r} : Apart(n, request[q])
      BY <1>0, <2>4, FuseBounds DEF Apart
    <2> QED
      BY <1>0, <2>2, <2>4, <2>5, <2>6, RequestStep
  <1> QED
    BY <1>1, <1>2

(* The server answers a read.                                              *)
LEMMA FuseReadAnswered ==
    ASSUME FuseInv, NEW r \in Requests, ReadAnswered(r)
    PROVE  FuseInv'
  <1>0. /\ request[r].at = "reading" /\ server # 0
        /\ UNCHANGED <<server, stored, fileCache, dirCache, repo, handle, writes>>
        /\ fileCache \in FileState /\ dirCache \in SUBSET Nat /\ repo \in {"unknown", "loading", "ready"}
        /\ (fileCache = NoFile \/ IsStored(fileCache))
        /\ request[r] \in RequestState /\ RequestFits(request[r])
    BY DEF ReadAnswered, serverVars, FuseInv, FuseTypes
  <1>1. PICK f : f = [rev |-> server, text |-> stored[server]]
    OBVIOUS
  <1>2. server \in DOMAIN stored /\ server \in Nat /\ stored[server] \in Texts
    BY <1>0 DEF FuseInv, FuseTypes
  <1>3. f \in FileState /\ IsStored(f)
    BY <1>1, <1>2 DEF FileState, IsStored
  <1>4. PICK n : n = [request[r] EXCEPT !.at = "read", !.file = f]
    OBVIOUS
  <1>5. request' = [request EXCEPT ![r] = n]
    BY <1>1, <1>4 DEF ReadAnswered, FuseInv, FuseTypes
  <1>6. n \in RequestState /\ n.at = "read" /\ n.file = f /\ n.kind = request[r].kind /\ n.h = request[r].h
    BY <1>0, <1>3, <1>4 DEF RequestState, RequestPlaces
  <1>7. RequestFits(n)
    BY <1>0, <1>3, <1>6 DEF RequestFits, FlushPlaces
  <1>8. \A q \in Requests \ {r} : Apart(n, request[q])
    BY <1>6, SameCompany
  <1> QED
    BY <1>0, <1>5, <1>6, <1>7, <1>8, RequestStep

(* The answer is cached, and a handle opened on it.                        *)
LEMMA FuseReadEnds ==
    ASSUME FuseInv, NEW r \in Requests, ReadEnds(r)
    PROVE  FuseInv'
  <1>1. PICK q : q = request[r]
    OBVIOUS
  <1>2. /\ q.at = "read" /\ fileCache' = q.file /\ HasRead(q.h, q.kind, q.file) /\ RequestEnds(r)
        /\ UNCHANGED <<server, stored, dirCache, repo, writes>>
    BY <1>1 DEF ReadEnds, serverVars
  <1>3. /\ q \in RequestState /\ q.file \in FileState /\ RequestFits(q)
        /\ dirCache \in SUBSET Nat /\ repo \in {"unknown", "loading", "ready"} /\ writes \in Nat
    BY <1>1 DEF FuseInv, FuseTypes, RequestState
  <1>4. IsStored(q.file)
    BY <1>2, <1>3 DEF RequestFits
  <1>5. CASE q.kind \in {"open", "trunc"}
    <2>1. handle' = [handle EXCEPT ![q.h] = Opened(q.file, q.kind)]
      BY <1>2, <1>5 DEF HasRead
    <2>2. Opened(q.file, q.kind) \in HandleState /\ HandleFits(Opened(q.file, q.kind))
      BY <1>3, <1>4, OpenedFits
    <2>3. q.h \in Handles
      BY <1>3, <1>5 DEF RequestFits, Opening
    <2>4. \A p \in Requests \ {r} : request[p].h # q.h
      BY <1>1, <1>5, <2>3 DEF FuseInv, Apart
    <2> QED
      BY <1>2, <1>3, <1>4, <2>1, <2>2, <2>3, <2>4, HandleStep
  <1>6. CASE q.kind \notin {"open", "trunc"}
    <2>1. handle' = handle
      BY <1>2, <1>6 DEF HasRead
    <2> QED
      BY <1>2, <1>3, <1>4, <2>1, RequestOver
  <1> QED
    BY <1>5, <1>6

(* Requests that end, or go on, beside the handles.                         *)
LEMMA FuseCalls ==
    ASSUME FuseInv, NEW r \in Requests,
           CallFails(r) \/ FlushCaches(r) \/ ListAnswered(r) \/ (\E unheard \in BOOLEAN : UnlinkAccepted(r, unheard)) \/ UnlinkEnds(r)
    PROVE  FuseInv'
  <1>0. /\ fileCache \in FileState /\ dirCache \in SUBSET Nat /\ repo \in {"unknown", "loading", "ready"}
        /\ (fileCache = NoFile \/ IsStored(fileCache)) /\ NoFile \in FileState
        /\ request[r] \in RequestState /\ request[r].file \in FileState /\ RequestFits(request[r]) /\ server \in Nat
    BY NothingFused DEF FuseInv, FuseTypes, RequestState
  <1>1. CASE CallFails(r)
    BY <1>0, <1>1, RequestOver DEF CallFails, serverVars
  <1>2. CASE UnlinkEnds(r)
    BY <1>0, <1>2, RequestOver DEF UnlinkEnds, serverVars, invalidate
  <1>3. CASE FlushCaches(r)
    <2>1. /\ request[r].at = "written" /\ fileCache' = request[r].file /\ dirCache' = {}
          /\ UNCHANGED <<server, stored, repo, handle, writes>>
      BY <1>3 DEF FlushCaches, serverVars
    <2>2. PICK n : n = [request[r] EXCEPT !.at = "cached"]
      OBVIOUS
    <2>3. request' = [request EXCEPT ![r] = n]
      BY <1>3, <2>2 DEF FlushCaches, RequestAt, FuseInv, FuseTypes
    <2>4. n \in RequestState /\ n.at = "cached" /\ n.kind = request[r].kind /\ n.h = request[r].h /\ n.file = request[r].file
      BY <1>0, <2>2, NewRequestPlace DEF RequestPlaces, FlushPlaces
    <2>5. RequestFits(n) /\ IsStored(request[r].file)
      BY <1>0, <2>1, <2>4 DEF RequestFits, FlushPlaces
    <2>6. \A q \in Requests \ {r} : Apart(n, request[q])
      BY <2>4, SameCompany
    <2> QED
      BY <1>0, <2>1, <2>3, <2>4, <2>5, <2>6, RequestStep
  <1>4. CASE ListAnswered(r)
    <2>1. /\ request[r].at = "listing"
          /\ UNCHANGED <<server, stored, repo, handle, writes, fileCache, dirCache>>
      BY <1>4 DEF ListAnswered, serverVars
    <2>2. PICK n : n = [request[r] EXCEPT !.at = "listed", !.base = server]
      OBVIOUS
    <2>3. request' = [request EXCEPT ![r] = n]
      BY <1>4, <2>2 DEF ListAnswered, FuseInv, FuseTypes
    <2>4. n \in RequestState /\ n.at = "listed" /\ n.kind = request[r].kind /\ n.h = request[r].h
      BY <1>0, <2>2 DEF RequestState, RequestPlaces
    <2>5. RequestFits(n)
      BY <1>0, <2>1, <2>4 DEF RequestFits, FlushPlaces
    <2>6. \A q \in Requests \ {r} : Apart(n, request[q])
      BY <2>4, SameCompany
    <2> QED
      BY <1>0, <2>1, <2>3, <2>4, <2>5, <2>6, RequestStep
  <1>5. CASE \E unheard \in BOOLEAN : UnlinkAccepted(r, unheard)
    <2>1. /\ request[r].at = "deleting" /\ server' = 0
          /\ UNCHANGED <<stored, repo, handle, writes, fileCache, dirCache>>
      BY <1>5 DEF UnlinkAccepted
    <2>2. PICK place \in {"deleting", "deleted"} : request' = [request EXCEPT ![r].at = place]
      <3>1. request = [request EXCEPT ![r].at = "deleting"]
        BY <1>0, <2>1 DEF FuseInv, FuseTypes, RequestState
      <3> QED
        BY <1>5, <3>1 DEF UnlinkAccepted
    <2>3. PICK n : n = [request[r] EXCEPT !.at = place]
      OBVIOUS
    <2>4. request' = [request EXCEPT ![r] = n]
      BY <2>2, <2>3 DEF FuseInv, FuseTypes
    <2>5. n \in RequestState /\ n.at = place /\ n.kind = request[r].kind /\ n.h = request[r].h
      BY <1>0, <2>3, NewRequestPlace DEF RequestPlaces
    <2>6. RequestFits(n)
      BY <1>0, <2>1, <2>5 DEF RequestFits, FlushPlaces
    <2>7. \A q \in Requests \ {r} : Apart(n, request[q])
      BY <2>5, SameCompany
    <2> QED
      BY <1>0, <2>1, <2>4, <2>5, <2>6, <2>7, RequestStep
  <1> QED
    BY <1>1, <1>2, <1>3, <1>4, <1>5

(* The kernel writes into a handle's buffer.                               *)
LEMMA FuseWrites ==
    ASSUME FuseInv, NEW h \in Handles, Write(h)
    PROVE  FuseInv'
  <1>0. /\ handle[h] \in HandleState /\ handle[h].open /\ HandleFits(handle[h]) /\ writes \in Nat
        /\ UNCHANGED <<server, stored, fileCache, dirCache, repo, request>> /\ writes' = writes + 1
    BY DEF Write, serverVars, FuseInv, FuseTypes
  <1>1. PICK text \in Texts : text = <<"mount", writes + 1>>
    <2>1. <<"mount", writes + 1>> \in Texts
      BY <1>0 DEF Texts
    <2> QED
      BY <2>1
  <1>2. PICK gen \in Nat : gen = handle[h].writeGen + 1
    BY <1>0 DEF HandleState
  <1>3. PICK hd : hd = [handle[h] EXCEPT !.buf = text, !.dirty = TRUE, !.writeGen = gen]
    OBVIOUS
  <1>4. handle' = [handle EXCEPT ![h] = hd]
    BY <1>1, <1>2, <1>3 DEF Write, FuseInv, FuseTypes
  <1>5. /\ hd \in HandleState /\ hd.open = handle[h].open
        /\ hd.revision = handle[h].revision /\ hd.dirty = TRUE
    BY <1>0, <1>3 DEF HandleState
  <1>6. HandleFits(hd)
    BY <1>0, <1>5 DEF HandleFits
  <1>7. /\ handle' \in [Handles -> HandleState] /\ handle'[h] = hd
        /\ \A k \in Handles \ {h} : handle'[k] = handle[k]
    BY <1>4, <1>5 DEF FuseInv, FuseTypes
  <1>8. FuseTypes'
    BY <1>0, <1>7 DEF FuseInv, FuseTypes
  <1>9. \A q \in Requests : RequestFits(request[q])'
    <2>1. ASSUME NEW k \in Handles PROVE handle'[k].open = handle[k].open
      BY <1>5, <1>7
    <2> QED
      BY <1>0, <2>1 DEF FuseInv, RequestFits, IsStored, FlushPlaces
  <1>10. \A k \in Handles : HandleFits(handle[k])'
    BY <1>0, <1>6, <1>7 DEF FuseInv, HandleFits
  <1> QED
    BY <1>0, <1>8, <1>9, <1>10 DEF FuseInv, IsStored, Apart

(* A flush or a release sends the buffer.                                  *)
LEMMA FuseFlushBegins ==
    ASSUME FuseInv, NEW r, NEW h \in Handles, NEW kind \in Flushing, FlushBegins(r, h, kind)
    PROVE  FuseInv'
  <1>0. /\ r \in Requests /\ UNCHANGED <<server, stored, fileCache, dirCache, repo, writes>>
        /\ fileCache \in FileState /\ dirCache \in SUBSET Nat /\ repo \in {"unknown", "loading", "ready"}
        /\ writes \in Nat /\ (fileCache = NoFile \/ IsStored(fileCache))
        /\ handle[h].open /\ handle[h] \in HandleState /\ HandleFits(handle[h])
        /\ \A q \in Requests : request[q].h = h => kind = "flush" /\ request[q].kind = "flush"
    BY FuseFree DEF FlushBegins, OnHandle, serverVars, FuseInv, FuseTypes
  <1>1. CASE handle[h].dirty
    <2>1. PICK f : f = [rev |-> 0, text |-> handle[h].buf]
      OBVIOUS
    <2>2. PICK n : n = [at |-> "writing", kind |-> kind, h |-> h, base |-> handle[h].revision,
                        gen |-> handle[h].writeGen, file |-> f]
      OBVIOUS
    <2>3. request' = [request EXCEPT ![r] = n] /\ UNCHANGED handle
      BY <1>1, <2>1, <2>2 DEF FlushBegins
    <2>4. f \in FileState /\ handle[h].revision \in Nat /\ handle[h].writeGen \in Nat
      BY <1>0, <2>1 DEF FileState, HandleState
    <2>5. /\ n \in RequestState /\ n.at = "writing" /\ n.kind = kind /\ n.h = h
          /\ n.base = handle[h].revision
      BY <2>2, <2>4 DEF RequestState, RequestPlaces, FlushPlaces, RequestKinds
    <2>6. RequestFits(n)
      BY <1>0, <2>5 DEF RequestFits, HandleFits, FlushPlaces, Flushing, Opening
    <2>7. \A q \in Requests \ {r} : Apart(n, request[q])
      BY <1>0, <2>5 DEF Apart
    <2> QED
      BY <1>0, <2>3, <2>5, <2>6, <2>7, RequestStep
  <1>2. CASE ~handle[h].dirty
    <2>1. kind = "release" /\ handle' = [handle EXCEPT ![h] = Closed] /\ UNCHANGED request
      BY <1>2 DEF FlushBegins
    <2>2. \A q \in Requests : request[q].h # h
      BY <1>0, <2>1
    <2>3. Closed \in HandleState /\ HandleFits(Closed)
      BY NothingFused DEF HandleFits
    <2> QED
      BY <1>0, <2>1, <2>2, <2>3, HandleStep
  <1> QED
    BY <1>1, <1>2

(* The server stores a flush, and its answer arrives or is lost.           *)
LEMMA FuseWriteAccepted ==
    ASSUME FuseInv, NEW r \in Requests, NEW unheard \in BOOLEAN, WriteAccepted(r, unheard)
    PROVE  FuseInv'
  <1>0. /\ request[r] \in RequestState /\ request[r].file \in FileState /\ RequestFits(request[r])
        /\ request[r].at = "writing" /\ request[r].base = server
        /\ UNCHANGED <<fileCache, dirCache, repo, handle, writes>>
    BY DEF WriteAccepted, FuseInv, FuseTypes, RequestState
  <1>1. PICK t \in Texts : t = request[r].file.text
    BY <1>0 DEF FileState
  <1>2. stored' = Append(stored, t) /\ server' = Len(stored') /\ Stores(t)
    BY <1>1 DEF WriteAccepted, Stores
  <1>4. CASE unheard
    <2>1. UNCHANGED request
      BY <1>4 DEF WriteAccepted
    <2> QED
      BY <1>0, <1>2, <2>1, ServerGrows
  <1>5. CASE ~unheard
    <2>1. PICK k \in Nat : k = Len(stored) + 1
      BY <1>2, StoredGrows
    <2>2. PICK f : f = [request[r].file EXCEPT !.rev = k]
      OBVIOUS
    <2>3. f \in FileState /\ f.rev = k /\ f.text = t
      BY <1>0, <1>1, <2>1, <2>2 DEF FileState
    <2>4. PICK n : n = [request[r] EXCEPT !.at = "written", !.file = f]
      OBVIOUS
    <2>5. request' = [request EXCEPT ![r] = n]
      BY <1>5, <2>1, <2>2, <2>4 DEF WriteAccepted, FuseInv, FuseTypes
    <2>6. n \in RequestState /\ n.at = "written" /\ n.file = f /\ n.kind = request[r].kind /\ n.h = request[r].h
      BY <1>0, <2>3, <2>4 DEF RequestState, RequestPlaces, FlushPlaces
    <2>7. /\ request' \in [Requests -> RequestState] /\ request'[r] = n
          /\ \A q \in Requests \ {r} : request'[q] = request[q]
      BY <2>5, <2>6 DEF FuseInv, FuseTypes
    <2>8. FuseTypes'
      BY <1>0, <1>2, <2>7, StoredGrows DEF FuseTypes, FuseInv
    <2>9. f.rev \in DOMAIN stored' /\ stored'[f.rev] = f.text
      BY <1>2, <2>1, <2>3, StoredGrows
    <2>10. RequestFits(request[r])'
      BY <1>0, <2>6, <2>7, <2>9 DEF RequestFits, IsStored, FlushPlaces
    <2>11. ASSUME NEW q \in Requests \ {r} PROVE RequestFits(request[q])'
      BY <1>0, <1>2, <2>7, StoredGrows DEF FuseInv, RequestFits, IsStored
    <2>12. fileCache' = NoFile \/ IsStored(fileCache)'
      BY <1>0, <1>2, StoredGrows DEF FuseInv, IsStored
    <2>13. ASSUME NEW h \in Handles PROVE HandleFits(handle[h])'
      BY <1>0, <1>2, StoredGrows DEF FuseInv, HandleFits
    <2>14. ASSUME NEW p \in Requests, NEW q \in Requests, p # q PROVE Apart(request[p], request[q])'
      BY <2>6, <2>7, <2>14 DEF FuseInv, Apart
    <2> QED
      BY <2>8, <2>10, <2>11, <2>12, <2>13, <2>14 DEF FuseInv
  <1> QED
    BY <1>4, <1>5

(* A handle after its flush fits what the server stored.                   *)
LEMMA FlushedFits ==
    ASSUME FuseInv, NEW hd \in HandleState, HandleFits(hd), NEW q \in RequestState, IsStored(q.file)
    PROVE  /\ Flushed(hd, q) \in HandleState /\ HandleFits(Flushed(hd, q))
           /\ Flushed(hd, q).open = hd.open
  <1>1. q.file.rev \in Nat /\ q.file.text \in Texts
    BY DEF RequestState, FileState
  <1>2. PICK b \in Texts : b = IF hd.writeGen = q.gen THEN q.file.text ELSE hd.buf
    BY <1>1 DEF HandleState
  <1>3. PICK d \in BOOLEAN : d = IF hd.writeGen = q.gen THEN FALSE ELSE hd.dirty
    BY DEF HandleState
  <1>5. PICK new : new = [hd EXCEPT !.revision = q.file.rev, !.buf = b, !.dirty = d]
    OBVIOUS
  <1>6. Flushed(hd, q) = new
    BY <1>2, <1>3, <1>5 DEF Flushed
  <1>7. /\ new \in HandleState /\ new.open = hd.open /\ new.revision = q.file.rev
        /\ new.buf = b /\ new.dirty = d
    BY <1>1, <1>5 DEF HandleState
  <1>8. HandleFits(new)
    <2>1. CASE hd.writeGen = q.gen
      BY <1>2, <1>3, <1>7, <2>1 DEF HandleFits, IsStored
    <2>2. CASE hd.writeGen # q.gen
      BY <1>2, <1>3, <1>7, <2>2 DEF HandleFits
    <2> QED
      BY <2>1, <2>2
  <1> QED
    BY <1>6, <1>7, <1>8

(* A flush comes back to its handle.                                       *)
LEMMA FuseFlushEnds ==
    ASSUME FuseInv, NEW r \in Requests, FlushEnds(r) \/ WriteRefused(r)
    PROVE  FuseInv'
  <1>1. PICK q : q = request[r]
    OBVIOUS
  <1>2. /\ q.at \in {"writing", "cached"} /\ RequestEnds(r)
        /\ UNCHANGED <<server, stored, fileCache, dirCache, repo, writes>>
    BY <1>1 DEF FlushEnds, WriteRefused, serverVars
  <1>3. /\ q \in RequestState /\ RequestFits(q)
        /\ fileCache \in FileState /\ dirCache \in SUBSET Nat /\ repo \in {"unknown", "loading", "ready"}
        /\ writes \in Nat /\ (fileCache = NoFile \/ IsStored(fileCache))
    BY <1>1 DEF FuseInv, FuseTypes
  <1>4. q.kind \in Flushing /\ q.h \in Handles
    BY <1>2, <1>3 DEF RequestFits, FlushPlaces
  <1>5. CASE q.kind = "release"
    <2>1. handle' = [handle EXCEPT ![q.h] = Closed]
      BY <1>1, <1>5 DEF FlushEnds, WriteRefused, Released
    <2>2. Closed \in HandleState /\ HandleFits(Closed)
      BY NothingFused DEF HandleFits
    <2>3. \A p \in Requests \ {r} : request[p].h # q.h
      BY <1>1, <1>4, <1>5 DEF FuseInv, Apart
    <2> QED
      BY <1>2, <1>3, <1>4, <2>1, <2>2, <2>3, HandleStep
  <1>6. CASE q.kind # "release" /\ FlushEnds(r)
    <2>1. handle' = [handle EXCEPT ![q.h] = Flushed(handle[q.h], q)] /\ q.at = "cached"
      BY <1>1, <1>6 DEF FlushEnds
    <2>2. handle[q.h] \in HandleState /\ HandleFits(handle[q.h]) /\ IsStored(q.file)
      BY <1>3, <1>4, <2>1 DEF FuseInv, FuseTypes, RequestFits
    <2>3. PICK new : new = Flushed(handle[q.h], q)
      OBVIOUS
    <2>4. /\ new \in HandleState /\ HandleFits(new)
          /\ new.open = handle[q.h].open
      BY <1>3, <2>2, <2>3, FlushedFits
    <2>5. handle' = [handle EXCEPT ![q.h] = new]
      BY <2>1, <2>3
    <2> QED
      BY <1>2, <1>3, <1>4, <2>4, <2>5, HandleStep
  <1>7. CASE q.kind # "release" /\ WriteRefused(r)
    <2>1. UNCHANGED handle
      BY <1>1, <1>7 DEF WriteRefused, Released
    <2> QED
      BY <1>2, <1>3, <2>1, RequestOver
  <1> QED
    BY <1>5, <1>6, <1>7

(* A lookup, a listing or a creation needs the directory.                  *)
LEMMA FuseListBegins ==
    ASSUME FuseInv, NEW r, NEW h, NEW kind \in Listing, ListBegins(r, h, kind)
    PROVE  FuseInv'
  <1>0. /\ r \in Requests /\ UNCHANGED <<server, stored, fileCache, dirCache, handle, writes>>
        /\ fileCache \in FileState /\ dirCache \in SUBSET Nat /\ repo \in {"unknown", "loading", "ready"}
        /\ repo' \in {"unknown", "loading", "ready"} /\ (fileCache = NoFile \/ IsStored(fileCache))
        /\ kind = "create" => h \in Handles /\ ~handle[h].open /\ \A q \in Requests : request[q].h # h
        /\ kind # "create" => h = "none"
    BY FuseFree DEF ListBegins, serverVars, FuseInv, FuseTypes
  <1>1. PICK place \in {"materializing", "waiting", "looking"} :
            request' = [request EXCEPT ![r] = [NoRequest EXCEPT !.kind = kind, !.h = h, !.at = place]]
    <2> DEFINE place == CASE repo = "unknown" -> "materializing"
                          [] repo = "loading" -> "waiting"
                          [] repo = "ready" -> "looking"
    <2>1. repo = "unknown" => place = "materializing"
      OBVIOUS
    <2>2. repo = "loading" => place = "waiting"
      OBVIOUS
    <2>3. repo = "ready" => place = "looking"
      OBVIOUS
    <2>4. request' = [request EXCEPT ![r] = [NoRequest EXCEPT !.kind = kind, !.h = h, !.at = place]]
      BY DEF ListBegins
    <2> HIDE DEF place
    <2> QED
      BY <1>0, <2>1, <2>2, <2>3, <2>4
  <1>2. PICK n : n = [NoRequest EXCEPT !.kind = kind, !.h = h, !.at = place]
    OBVIOUS
  <1>3. kind \in RequestKinds /\ kind \notin Flushing /\ (kind \in Opening => kind = "create") /\ h \in Handles \cup {"none"} /\ kind # "none"
    BY <1>0 DEF RequestKinds, Opening, Listing, Flushing
  <1>4. n \in RequestState /\ n.at = place /\ n.kind = kind /\ n.h = h
    BY <1>2, <1>3, NothingFused DEF RequestState, RequestPlaces
  <1>5. RequestFits(n)
    BY <1>0, <1>3, <1>4, FuseBounds DEF RequestFits, FlushPlaces, Opening
  <1>6. \A q \in Requests \ {r} : Apart(n, request[q])
    BY <1>0, <1>4, FuseBounds DEF Apart
  <1>7. request' = [request EXCEPT ![r] = n]
    BY <1>1, <1>2
  <1> QED
    BY <1>0, <1>4, <1>5, <1>6, <1>7, RequestStep

(* A request that waited for the repository looks at the directory now.     *)
Continues(n, c) ==
    /\ n.kind = c.kind /\ n.h = c.h /\ n.file = c.file /\ n.base = c.base
    /\ n.at = c.at \/ (c.at \in {"waiting", "materializing"} /\ n.at = "looking")

(* Requests that waited for a materialization go on as they were.          *)
LEMMA FreedContinue ==
    ASSUME FuseInv, NEW r \in Requests, NEW next \in RequestState, Freed(r, next)
    PROVE  /\ request' \in [Requests -> RequestState] /\ request'[r] = next
           /\ \A q \in Requests \ {r} : Continues(request'[q], request[q])
  <1>1. ASSUME NEW q \in Requests
        PROVE  /\ request'[q] \in RequestState
               /\ q = r => request'[q] = next
               /\ q # r => Continues(request'[q], request[q])
    <2>1. request[q] \in RequestState
      BY DEF FuseInv, FuseTypes
    <2>2. request'[q] = IF q = r THEN next
                        ELSE IF request[q].at = "waiting" THEN [request[q] EXCEPT !.at = "looking"]
                        ELSE request[q]
      BY DEF Freed
    <2>3. CASE q # r /\ request[q].at = "waiting"
      <3>1. "looking" \in RequestPlaces /\ request'[q] = [request[q] EXCEPT !.at = "looking"]
        BY <2>2, <2>3 DEF RequestPlaces
      <3> QED
        BY <2>1, <2>3, <3>1, NewRequestPlace DEF Continues
    <2>4. CASE q = r \/ request[q].at # "waiting"
      BY <2>1, <2>2, <2>4 DEF Continues
    <2> QED
      BY <2>3, <2>4
  <1>2. request' = [q \in Requests |-> request'[q]]
    BY DEF Freed
  <1> QED
    BY <1>1, <1>2

(* A request that goes on as it was fits as it did.                        *)
LEMMA ContinuesFits ==
    ASSUME NEW n, NEW c, Continues(n, c)
    PROVE  /\ RequestFits(c) => RequestFits(n)
           /\ \A q : (Apart(c, q) => Apart(n, q)) /\ (Apart(q, c) => Apart(q, n))
  BY DEF Continues, RequestFits, Apart, FlushPlaces

(* The directory is materialized.                                          *)
LEMMA FuseMaterializes ==
    ASSUME FuseInv, NEW r \in Requests, Materialized(r)
    PROVE  FuseInv'
  <1>0. /\ request[r] \in RequestState /\ request[r].at = "materializing"
        /\ UNCHANGED <<fileCache, dirCache, handle, writes>> /\ repo' = "ready"
    BY DEF Materialized, FuseInv, FuseTypes
  <1>1. PICK next : next = [request[r] EXCEPT !.at = "looking"]
    OBVIOUS
  <1>2. next \in RequestState /\ Continues(next, request[r])
    BY <1>0, <1>1, NewRequestPlace DEF Continues, RequestPlaces
  <1>3. Freed(r, next)
    BY <1>1 DEF Materialized
  <1>4. request' \in [Requests -> RequestState] /\ \A q \in Requests : Continues(request'[q], request[q])
    BY <1>2, <1>3, FreedContinue
  <1>5. \A q \in Requests : RequestFits(request'[q])
    BY <1>4, ContinuesFits DEF FuseInv
  <1>6. \A p, q \in Requests : p # q => Apart(request'[p], request'[q])
    BY <1>4 DEF FuseInv, Apart, Continues
  <1>7. CASE UNCHANGED <<server, stored>>
    <2>1. FuseTypes'
      BY <1>0, <1>4, <1>7 DEF FuseInv, FuseTypes
    <2>2. \A q \in Requests : RequestFits(request[q])'
      BY <1>0, <1>5, <1>7 DEF RequestFits, IsStored
    <2> QED
      BY <1>0, <1>6, <1>7, <2>1, <2>2 DEF FuseInv, HandleFits, IsStored, Apart
  <1>8. CASE Stores(<<"remote", Len(stored) + 1>>)
    <2>1. PICK t \in Texts : stored' = Append(stored, t) /\ server' = Len(stored')
      <3>1. <<"remote", Len(stored) + 1>> \in Texts
        BY DEF FuseInv, FuseTypes, Texts
      <3> QED
        BY <1>8, <3>1 DEF Stores
    <2>2. FuseTypes'
      BY <1>0, <1>4, <2>1, StoredGrows DEF FuseTypes, FuseInv
    <2>3. fileCache' = NoFile \/ IsStored(fileCache)'
      BY <1>0, <2>1, StoredGrows DEF FuseInv, IsStored
    <2>4. ASSUME NEW q \in Requests PROVE RequestFits(request[q])'
      BY <1>0, <1>5, <2>1, StoredGrows DEF RequestFits, IsStored
    <2>5. ASSUME NEW h \in Handles PROVE HandleFits(handle[h])'
      BY <1>0, <2>1, StoredGrows DEF FuseInv, HandleFits
    <2> QED
      BY <1>0, <1>6, <2>2, <2>3, <2>4, <2>5 DEF FuseInv, Apart
  <1> QED
    BY <1>7, <1>8 DEF Materialized

(* The directory's materialization fails.                                  *)
LEMMA FuseMaterializeFails ==
    ASSUME FuseInv, NEW r \in Requests, MaterializeFails(r)
    PROVE  FuseInv'
  <1>0. /\ UNCHANGED <<server, stored, fileCache, dirCache, handle, writes>> /\ repo' = "unknown"
        /\ Freed(r, NoRequest)
    BY DEF MaterializeFails, serverVars
  <1>1. /\ request' \in [Requests -> RequestState] /\ request'[r] = NoRequest
        /\ \A q \in Requests \ {r} : Continues(request'[q], request[q])
    BY <1>0, NothingFused, FreedContinue
  <1>2. \A q \in Requests : RequestFits(request'[q])
    BY <1>1, ContinuesFits, NoRequestFits DEF FuseInv
  <1>3. ASSUME NEW p \in Requests, NEW q \in Requests, p # q PROVE Apart(request'[p], request'[q])
    <2>1. CASE p = r \/ q = r
      BY <1>1, <2>1, NothingFused, FuseBounds DEF Apart
    <2>2. CASE p # r /\ q # r
      BY <1>1, <1>3, <2>2 DEF FuseInv, Apart, Continues
    <2> QED
      BY <2>1, <2>2
  <1>4. FuseTypes'
    BY <1>0, <1>1 DEF FuseInv, FuseTypes
  <1>5. \A q \in Requests : RequestFits(request[q])'
    BY <1>0, <1>2 DEF RequestFits, IsStored
  <1> QED
    BY <1>0, <1>3, <1>4, <1>5 DEF FuseInv, HandleFits, IsStored, Apart

(* A request goes on with a listing.                                       *)
LEMMA FuseProceeds ==
    ASSUME FuseInv, NEW r \in Requests, NEW listed \in Nat, Proceeds(r, listed),
           request[r].at \in {"looking", "listed"},
           UNCHANGED <<server, stored, repo, writes>>
    PROVE  FuseInv'
  <1>0. /\ request[r] \in RequestState /\ RequestFits(request[r]) /\ request[r].kind \in RequestKinds
        /\ fileCache \in FileState /\ dirCache \in SUBSET Nat /\ repo \in {"unknown", "loading", "ready"}
        /\ writes \in Nat /\ (fileCache = NoFile \/ IsStored(fileCache)) /\ NoFile \in FileState
    BY NothingFused DEF FuseInv, FuseTypes, RequestState
  <1>1. CASE request[r].kind = "create" /\ listed = 0
    <2>1. /\ handle' = [handle EXCEPT ![request[r].h] = Opened(NoFile, "trunc")] /\ RequestEnds(r)
          /\ fileCache' = NoFile /\ dirCache' = {}
      BY <1>1 DEF Proceeds, invalidate
    <2>2. request[r].h \in Handles
      BY <1>0, <1>1 DEF RequestFits, Opening
    <2>3. Opened(NoFile, "trunc") \in HandleState /\ HandleFits(Opened(NoFile, "trunc"))
      BY <1>0, OpenedFits
    <2>4. \A q \in Requests \ {r} : request[q].h # request[r].h
      BY <1>1, <2>2 DEF FuseInv, Apart
    <2> QED
      BY <1>0, <2>1, <2>2, <2>3, <2>4, HandleStep
  <1>2. ASSUME NEW place \in {"deleting", "reading"},
               request' = [request EXCEPT ![r].at = place, ![r].base = listed],
               dirCache' = {listed}, UNCHANGED <<handle, fileCache>>
        PROVE  FuseInv'
    <2>1. PICK n : n = [request[r] EXCEPT !.at = place, !.base = listed]
      OBVIOUS
    <2>2. request' = [request EXCEPT ![r] = n]
      BY <1>2, <2>1 DEF FuseInv, FuseTypes
    <2>3. n \in RequestState /\ n.at = place /\ n.kind = request[r].kind /\ n.h = request[r].h
      BY <1>0, <2>1 DEF RequestState, RequestPlaces
    <2>4. RequestFits(n)
      BY <1>0, <2>3 DEF RequestFits, FlushPlaces
    <2>5. \A q \in Requests \ {r} : Apart(n, request[q])
      BY <2>3, SameCompany
    <2> QED
      BY <1>0, <1>2, <2>2, <2>3, <2>4, <2>5, RequestStep
  <1>3. CASE request[r].kind = "unlink" /\ listed # 0
    <2>1. /\ request' = [request EXCEPT ![r].at = "deleting", ![r].base = listed]
          /\ dirCache' = {listed} /\ UNCHANGED <<handle, fileCache>>
      BY <1>3 DEF Proceeds
    <2> QED
      BY <1>2, <2>1
  <1>4. CASE request[r].kind = "lookup" /\ listed # 0
    <2>1. /\ dirCache' = {listed} /\ UNCHANGED fileCache
          /\ IF fileCache # NoFile THEN HasRead(request[r].h, request[r].kind, fileCache) /\ RequestEnds(r)
             ELSE /\ request' = [request EXCEPT ![r].at = "reading", ![r].base = listed]
                  /\ UNCHANGED <<node, handle>>
      BY <1>4 DEF Proceeds
    <2>2. CASE fileCache # NoFile
      <3>1. UNCHANGED handle
        BY <1>4, <2>1, <2>2 DEF HasRead
      <3> QED
        BY <1>0, <2>1, <2>2, <3>1, RequestOver
    <2>3. CASE fileCache = NoFile
      BY <1>2, <2>1, <2>3
    <2> QED
      BY <2>2, <2>3
  <1>5. CASE /\ ~(request[r].kind = "create" /\ listed = 0) /\ ~(request[r].kind = "unlink" /\ listed # 0)
             /\ ~(request[r].kind = "lookup" /\ listed # 0)
    <2>1. RequestEnds(r) /\ dirCache' = {listed} /\ UNCHANGED <<handle, fileCache>>
      BY <1>5 DEF Proceeds
    <2> QED
      BY <1>0, <2>1, RequestOver
  <1> QED
    BY <1>1, <1>3, <1>4, <1>5

(* A request goes on from the directory's cache or its answer.             *)
LEMMA FuseLooks ==
    ASSUME FuseInv, NEW r \in Requests, Looks(r) \/ ListEnds(r)
    PROVE  FuseInv'
  <1>0. /\ UNCHANGED <<server, stored, repo, writes>> /\ request[r].at \in {"looking", "listed"}
        /\ request[r] \in RequestState /\ RequestFits(request[r]) /\ request[r].base \in Nat
        /\ fileCache \in FileState /\ dirCache \in SUBSET Nat /\ repo \in {"unknown", "loading", "ready"}
        /\ (fileCache = NoFile \/ IsStored(fileCache))
    BY DEF Looks, ListEnds, serverVars, FuseInv, FuseTypes, RequestState
  <1>1. CASE \E listed \in Nat : Proceeds(r, listed)
    BY <1>0, <1>1, FuseProceeds
  <1>2. CASE RequestAt(r, "listing") /\ UNCHANGED <<handle, fileCache, dirCache>>
    <2>1. PICK n : n = [request[r] EXCEPT !.at = "listing"]
      OBVIOUS
    <2>2. request' = [request EXCEPT ![r] = n]
      BY <1>2, <2>1 DEF RequestAt, FuseInv, FuseTypes
    <2>3. n \in RequestState /\ n.at = "listing" /\ n.kind = request[r].kind /\ n.h = request[r].h
      BY <1>0, <2>1, NewRequestPlace DEF RequestPlaces
    <2>4. RequestFits(n)
      BY <1>0, <2>3 DEF RequestFits, FlushPlaces
    <2>5. \A q \in Requests \ {r} : Apart(n, request[q])
      BY <2>3, SameCompany
    <2> QED
      BY <1>0, <1>2, <2>2, <2>3, <2>4, <2>5, RequestStep
  <1>3. (\E listed \in Nat : Proceeds(r, listed)) \/ (RequestAt(r, "listing") /\ UNCHANGED <<handle, fileCache, dirCache>>)
    BY <1>0 DEF Looks, ListEnds
  <1> QED
    BY <1>1, <1>2, <1>3

(* A handle that calls itself clean holds bytes the server stored          *)
(* (FileHandle.flush, readFile and the caches of mountfuse), for any       *)
(* number of handles and requests, with answers lost, caches stale, and    *)
(* events in any order.                                                    *)
THEOREM HandlesHold == Spec => []HandlesTruthful
  <1>1. Init => FuseInv
    BY FuseStarts DEF Init, FuseRests
  <1>2. FuseInv /\ [Next]_vars => FuseInv'
    <2> SUFFICES ASSUME FuseInv, [Next]_vars PROVE FuseInv'
      OBVIOUS
    <2>1. CASE FuseNext
      <3> USE <2>1
      <3>1. CASE RemoteWrites \/ RemoteDeletes \/ handleEvent \/ SocketFails \/ Connects \/ FileExpires \/ DirExpires
        BY <3>1, FuseServer
      <3>2. CASE \E h \in Handles : Write(h)
        BY <3>2, FuseWrites
      <3>3. CASE \/ \E r \in Requests, h \in Handles, kind \in {"open", "trunc"} : ReadBegins(r, h, kind)
                 \/ \E r \in Requests : ReadBegins(r, "none", "stat")
        BY <3>3, FuseReadBegins
      <3>4. CASE \E r \in Requests, h \in Handles, kind \in {"flush", "release"} : FlushBegins(r, h, kind)
        BY <3>4, FuseFlushBegins DEF Flushing
      <3>5. CASE \/ \E r \in Requests, h \in Handles : ListBegins(r, h, "create")
                 \/ \E r \in Requests, kind \in Listing \ {"create"} : ListBegins(r, "none", kind)
        BY <3>5, FuseListBegins DEF Listing
      <3>6. CASE \E r \in Requests, unheard \in BOOLEAN : WriteAccepted(r, unheard) \/ UnlinkAccepted(r, unheard)
        BY <3>6, FuseWriteAccepted, FuseCalls
      <3>7. CASE \E r \in Requests :
                  \/ ReadAnswered(r) \/ ReadEnds(r) \/ CallFails(r)
                  \/ WriteRefused(r) \/ FlushCaches(r) \/ FlushEnds(r)
                  \/ Materialized(r) \/ MaterializeFails(r)
                  \/ Looks(r) \/ ListAnswered(r) \/ ListEnds(r) \/ UnlinkEnds(r)
        BY <3>7, FuseReadAnswered, FuseReadEnds, FuseCalls, FuseFlushEnds, FuseMaterializes,
           FuseMaterializeFails, FuseLooks
      <3> QED
        BY <3>1, <3>2, <3>3, <3>4, <3>5, <3>6, <3>7 DEF FuseNext
    <2>2. CASE UNCHANGED fuseVars
      BY <2>2, FuseSame DEF fuseVars
    <2> QED
      BY <2>1, <2>2 DEF Next, vars
  <1>3. FuseInv => HandlesTruthful
    BY DEF FuseInv, HandlesTruthful, HandleFits
  <1> QED
    BY <1>1, <1>2, <1>3, PTL DEF Spec
=============================================================================
