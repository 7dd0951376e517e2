------------------------- MODULE MountSupervisors -------------------------
(***************************************************************************)
(* The processes that may look after one local mirror: `relayfile mount` in *)
(* the foreground, its `--background` launcher and the daemonized child it  *)
(* spawns, the standalone `relayfile-mount`, and the commands that reach a  *)
(* running one, `relayfile stop` and `relayfile-mount --notify-flush`.      *)
(* They meet in files: the mount-start lock, the lease with the pid of its  *)
(* holder, the pid file and the flush acknowledgement.  A step is one access *)
(* to one of them, and a process may be killed between any two.             *)
(***************************************************************************)
EXTENDS Naturals

CONSTANTS
    Pids,        \* the processes; a pid is not used again
    NoPid,       \* nobody
    Situations,  \* which command each process runs: functions from Pids
    MaxKills     \* processes killed from outside

ASSUME SupervisorBounds == NoPid \notin Pids /\ MaxKills \in Nat

VARIABLES
    role,        \* the command each process runs
    proc,        \* pid |-> [at, ref, seen, seq]: where it is and what it has read
    startLock,   \* who holds the mount-start lock of this root
    lease,       \* who holds the lock of the lease file
    leaseMeta,   \* the pid written in the lease file
    pidFile,     \* [pid, registered] of .relay/mount.pid; pid is NoPid when absent
    ack,         \* the flush acknowledgement: [seq, pid, ok], and whom it covers
    pending,     \* daemons with a flush request waiting in their channel
    asked,       \* ghost: daemon |-> notifiers whose signal it has received
    alone,       \* ghost: notifiers whose request met no other
    kills

superVars == <<role, proc, startLock, lease, leaseMeta, pidFile, ack, pending, asked, alone, kills>>

NoPidFile == [pid |-> NoPid, registered |-> FALSE]
NoAck == [seq |-> 0, pid |-> NoPid, ok |-> FALSE, covers |-> {}]
Waits(at) == [at |-> at, ref |-> NoPid, seen |-> {}, seq |-> 0, stale |-> FALSE]

SuperInit ==
    /\ role \in Situations
    /\ proc = [p \in Pids |-> Waits(IF role[p] \in {"child", "none"} THEN "unborn" ELSE "start")]
    /\ startLock = NoPid /\ lease = NoPid /\ leaseMeta = NoPid
    /\ pidFile = NoPidFile /\ ack = NoAck
    /\ pending = {} /\ asked = [p \in Pids |-> {}] /\ alone = {}
    /\ kills = 0

At(p, place) == proc[p].at = place
GoesTo(p, place) == proc' = [proc EXCEPT ![p].at = place]
Alive(p) == proc[p].at \notin {"unborn", "done", "failed", "killed"}
Command(p) == role[p] \in {"mount", "child"}    \* seen by a scan of the process list
Supervises(p) == proc[p].at \in {"serving", "flushing", "leaving"}

(* Locks of a process that ends are released by the kernel.                 *)
ReleaseAll(P) ==
    /\ startLock' = IF startLock \in P THEN NoPid ELSE startLock
    /\ lease' = IF lease \in P THEN NoPid ELSE lease

Ends(p, how) == GoesTo(p, how) /\ ReleaseAll({p})

--------------------------------------------------------------------------
(* Starting.                                                                *)

(* Daemonized children run under the launcher's lock.                       *)
acquireMountStartLock(p) ==
    /\ At(p, "start") /\ role[p] \in {"mount", "launcher", "child"}
    /\ IF role[p] = "child" THEN GoesTo(p, "locked") /\ UNCHANGED <<startLock, lease>>
       ELSE IF startLock = NoPid
       THEN startLock' = p /\ GoesTo(p, "locked") /\ UNCHANGED lease
       ELSE Ends(p, "failed")
    /\ UNCHANGED <<role, leaseMeta, pidFile, ack, pending, asked, alone, kills>>

(* A child that trusts what its launcher has checked.                       *)
TakesLeaseUnlessSpawned(p) == role[p] \notin {"launcher", "child"}

TakesLease(p) == role[p] # "launcher"

(* mountlease.Acquire: the lock is tried, never waited for.                 *)
Acquire(p) ==
    /\ IF role[p] = "binary" THEN At(p, "start") ELSE At(p, "locked")
    /\ role[p] # "notify" /\ role[p] # "stop"
    /\ IF ~TakesLease(p) THEN GoesTo(p, "look") /\ UNCHANGED <<startLock, lease>>
       ELSE IF lease = NoPid
       THEN lease' = p /\ GoesTo(p, "leased") /\ UNCHANGED startLock
       ELSE Ends(p, "failed")
    /\ UNCHANGED <<role, leaseMeta, pidFile, ack, pending, asked, alone, kills>>

(* The holder replaces what an earlier one left in the file.                *)
WriteMetadata(p) ==
    /\ At(p, "leased")
    /\ leaseMeta' = p
    /\ GoesTo(p, IF role[p] = "binary" THEN "serving" ELSE "look")
    /\ UNCHANGED <<role, startLock, lease, pidFile, ack, pending, asked, alone, kills>>

(* Other mount commands by their command lines, and a pid file whose        *)
(* process is gone.                                                         *)
runningMountDaemons(p) ==
    /\ At(p, "look") \/ (role[p] = "stop" /\ At(p, "start"))
    /\ proc' = [proc EXCEPT
         ![p].at = "clear",
         ![p].seen = {q \in Pids \ {p} : Command(q) /\ Alive(q)},
         ![p].stale = pidFile.pid \notin {NoPid, p} /\ ~Alive(pidFile.pid)]
    /\ UNCHANGED <<role, startLock, lease, leaseMeta, pidFile, ack, pending, asked, alone, kills>>

(* What was stale when it was read is removed by name.                      *)
ClearStale(p) ==
    /\ At(p, "clear")
    /\ pidFile' = IF proc[p].stale THEN NoPidFile ELSE pidFile
    /\ IF role[p] = "stop"
       THEN /\ IF proc[p].seen = {} THEN GoesTo(p, "failed") ELSE GoesTo(p, "signal")
            /\ UNCHANGED <<startLock, lease>>
       ELSE IF proc[p].seen # {} THEN Ends(p, "failed")
       ELSE GoesTo(p, IF role[p] = "launcher" THEN "spawn" ELSE "register") /\ UNCHANGED <<startLock, lease>>
    /\ UNCHANGED <<role, leaseMeta, ack, pending, asked, alone, kills>>

spawnBackgroundMountProcess(p, c) ==
    /\ At(p, "spawn") /\ role[c] = "child" /\ At(c, "unborn")
    /\ proc' = [proc EXCEPT ![p].at = "publish", ![p].ref = c, ![c].at = "start"]
    /\ UNCHANGED <<role, startLock, lease, leaseMeta, pidFile, ack, pending, asked, alone, kills>>

writeDaemonPIDStateIfAbsent(p) ==
    /\ At(p, "publish")
    /\ pidFile' = IF pidFile.pid = NoPid THEN [pid |-> proc[p].ref, registered |-> FALSE] ELSE pidFile
    /\ GoesTo(p, "wait")
    /\ UNCHANGED <<role, startLock, lease, leaseMeta, ack, pending, asked, alone, kills>>

(* Registered, exited or too slow: a dead child's record is removed, a slow  *)
(* child's is kept.                                                         *)
waitForBackgroundMountRegistration(p) ==
    /\ At(p, "wait")
    /\ LET c == proc[p].ref IN
       \/ pidFile = [pid |-> c, registered |-> TRUE] /\ Ends(p, "done") /\ UNCHANGED pidFile
       \/ ~Alive(c) /\ Ends(p, "failed")
            /\ pidFile' = IF pidFile.pid = c THEN NoPidFile ELSE pidFile
       \/ Alive(c) /\ Ends(p, "failed") /\ UNCHANGED pidFile
    /\ UNCHANGED <<role, leaseMeta, ack, pending, asked, alone, kills>>

writeDaemonPIDState(p) ==
    /\ At(p, "register")
    /\ pidFile' = [pid |-> p, registered |-> TRUE]
    /\ GoesTo(p, "serving")
    /\ UNCHANGED <<role, startLock, lease, leaseMeta, ack, pending, asked, alone, kills>>

--------------------------------------------------------------------------
(* Ending.                                                                  *)

(* A supervisor that leaves by itself: an interrupt, a terminal error.       *)
Leave(p) ==
    /\ At(p, "serving")
    /\ GoesTo(p, "leaving")
    /\ UNCHANGED <<role, startLock, lease, leaseMeta, pidFile, ack, pending, asked, alone, kills>>

(* The deferred calls, last one first: the pid file, whoever it names, then  *)
(* the lease and the lock.                                                  *)
RemovePIDFile(p) ==
    /\ At(p, "leaving")
    /\ pidFile' = IF Command(p) THEN NoPidFile ELSE pidFile
    /\ GoesTo(p, "parting")
    /\ UNCHANGED <<role, startLock, lease, leaseMeta, ack, pending, asked, alone, kills>>

Release(p) ==
    /\ At(p, "parting")
    /\ Ends(p, "done")
    /\ UNCHANGED <<role, leaseMeta, pidFile, ack, pending, asked, alone, kills>>

(* Killed: the locks go, the files stay.                                    *)
Kill(p) ==
    /\ kills < MaxKills /\ Alive(p) /\ role[p] # "notify"
    /\ Ends(p, "killed")
    /\ kills' = kills + 1
    /\ UNCHANGED <<role, leaseMeta, pidFile, ack, pending, asked, alone>>

(* SIGTERM: the loop's context ends once its handler is in place, a process  *)
(* that is still starting dies.                                             *)
signalDaemonStop(p) ==
    /\ At(p, "signal")
    /\ LET hit == {q \in proc[p].seen : Alive(q)}
           dying == {q \in hit : ~Supervises(q) /\ ~At(q, "parting")} IN
       /\ proc' = [q \in Pids |->
            CASE q = p -> [proc[q] EXCEPT !.at = IF hit = {} THEN "done" ELSE "await", !.seen = hit]
              [] q \in dying -> [proc[q] EXCEPT !.at = "killed"]
              [] q \in hit /\ At(q, "serving") -> [proc[q] EXCEPT !.at = "leaving"]
              [] OTHER -> proc[q]]
       /\ ReleaseAll(dying)
       /\ pidFile' = IF hit # proc[p].seen THEN NoPidFile ELSE pidFile
    /\ UNCHANGED <<role, leaseMeta, ack, pending, asked, alone, kills>>

(* Too slow: SIGKILL.                                                       *)
forceDaemonStop(p) ==
    /\ At(p, "await") /\ \E q \in proc[p].seen : Alive(q)
    /\ proc' = [q \in Pids |-> IF q \in proc[p].seen /\ Alive(q)
                               THEN [proc[q] EXCEPT !.at = "killed"] ELSE proc[q]]
    /\ ReleaseAll({q \in proc[p].seen : Alive(q)})
    /\ UNCHANGED <<role, leaseMeta, pidFile, ack, pending, asked, alone, kills>>

waitForDaemonDiscoveryClear(p) ==
    /\ At(p, "await") /\ \A q \in proc[p].seen : ~Alive(q)
    /\ pidFile' = NoPidFile
    /\ GoesTo(p, "done")
    /\ UNCHANGED <<role, startLock, lease, leaseMeta, ack, pending, asked, alone, kills>>

--------------------------------------------------------------------------
(* A flush on request.                                                      *)

(* Requests coalesce in a channel of one place, read between cycles.        *)
serviceFlushRequest(d) ==
    /\ role[d] = "binary" /\ At(d, "serving") /\ d \in pending
    /\ pending' = pending \ {d}
    /\ proc' = [proc EXCEPT ![d].at = "flushing", ![d].seen = asked[d]]
    /\ UNCHANGED <<role, startLock, lease, leaseMeta, pidFile, ack, asked, alone, kills>>

NextAck(d, ok) == [seq |-> ack.seq + 1, pid |-> d, ok |-> ok, covers |-> proc[d].seen]

(* The reconcile has ended, well or not; a terminal failure ends the daemon.*)
recordFlushAck(d, ok, terminal) ==
    /\ At(d, "flushing") /\ ~(ok /\ terminal)
    /\ ack' = NextAck(d, ok)
    /\ GoesTo(d, IF terminal THEN "leaving" ELSE "serving")
    /\ UNCHANGED <<role, startLock, lease, leaseMeta, pidFile, pending, asked, alone, kills>>

(* Inspect: a lock it can take is given back and means that nobody holds it. *)
Probe(n) ==
    /\ role[n] = "notify" /\ At(n, "start")
    /\ IF lease = NoPid THEN lease' = n /\ GoesTo(n, "probing")
       ELSE GoesTo(n, "inspect") /\ UNCHANGED lease
    /\ UNCHANGED <<role, startLock, leaseMeta, pidFile, ack, pending, asked, alone, kills>>

GiveBack(n) ==
    /\ At(n, "probing")
    /\ Ends(n, "failed")
    /\ UNCHANGED <<role, leaseMeta, pidFile, ack, pending, asked, alone, kills>>

(* The file may still name an earlier holder.                               *)
Inspect(n) ==
    /\ At(n, "inspect")
    /\ IF leaseMeta = NoPid \/ ~Alive(leaseMeta) THEN GoesTo(n, "failed")
       ELSE proc' = [proc EXCEPT ![n].at = "before", ![n].ref = leaseMeta]
    /\ UNCHANGED <<role, startLock, lease, leaseMeta, pidFile, ack, pending, asked, alone, kills>>

ReadFlushAck(n) ==
    /\ At(n, "before")
    /\ proc' = [proc EXCEPT ![n].at = "kick", ![n].seq = ack.seq]
    /\ alone' = IF pending = {} /\ \A d \in Pids : ~At(d, "flushing") THEN alone \cup {n} ELSE alone
    /\ UNCHANGED <<role, startLock, lease, leaseMeta, pidFile, ack, pending, asked, kills>>

(* SIGUSR1: only the standalone mount listens, from before it has the lease. *)
(* A request that meets another on its way to its signal is not alone.      *)
Kick(n) ==
    /\ At(n, "kick")
    /\ LET d == proc[n].ref IN
       IF ~Alive(d) THEN GoesTo(n, "failed") /\ UNCHANGED <<pending, asked, alone>>
       ELSE /\ pending' = IF role[d] = "binary" THEN pending \cup {d} ELSE pending
            /\ asked' = [asked EXCEPT ![d] = @ \cup {n}]
            /\ alone' = alone \ {m \in Pids \ {n} : At(m, "kick")}
            /\ GoesTo(n, "poll")
    /\ UNCHANGED <<role, startLock, lease, leaseMeta, pidFile, ack, kills>>

(* An acknowledgement that was already there is taken for an answer.        *)
AnswersAny(n) == ack.pid = proc[n].ref

Answers(n) == ack.seq > proc[n].seq /\ ack.pid = proc[n].ref

notifyRunningMountFlush(n) ==
    /\ At(n, "poll")
    /\ \/ Answers(n) /\ proc' = [proc EXCEPT ![n].at = IF ack.ok THEN "done" ELSE "failed",
                                              ![n].seen = ack.covers]
       \/ ~Answers(n) /\ GoesTo(n, "failed")       \* the wait is over
    /\ UNCHANGED <<role, startLock, lease, leaseMeta, pidFile, ack, pending, asked, alone, kills>>

SuperNext ==
    \E p \in Pids :
        \/ acquireMountStartLock(p) \/ Acquire(p) \/ WriteMetadata(p)
        \/ runningMountDaemons(p) \/ ClearStale(p)
        \/ \E c \in Pids : spawnBackgroundMountProcess(p, c)
        \/ writeDaemonPIDStateIfAbsent(p) \/ waitForBackgroundMountRegistration(p)
        \/ writeDaemonPIDState(p)
        \/ Leave(p) \/ RemovePIDFile(p) \/ Release(p) \/ Kill(p)
        \/ signalDaemonStop(p) \/ forceDaemonStop(p) \/ waitForDaemonDiscoveryClear(p)
        \/ serviceFlushRequest(p)
        \/ \E ok, terminal \in BOOLEAN : recordFlushAck(p, ok, terminal)
        \/ Probe(p) \/ GiveBack(p) \/ Inspect(p) \/ ReadFlushAck(p) \/ Kick(p)
        \/ notifyRunningMountFlush(p)

--------------------------------------------------------------------------
(* Two supervisors never look after the same local files, however launchers, *)
(* children and standalone mounts start, time out, are stopped and die.     *)
OneSupervisor == \A p, q \in Pids : Supervises(p) /\ Supervises(q) => p = q

(* A flush that is reported done is a barrier: the reconcile behind the      *)
(* acknowledgement began after the request, for a request that met no other. *)
FlushBarrier ==
    \A n \in alone : role[n] = "notify" /\ At(n, "done") => n \in proc[n].seen

(* The same of every request: the acknowledgement of an earlier request that *)
(* was still being served answers a later one too.                          *)
EveryFlushBarrier ==
    \A n \in Pids : role[n] = "notify" /\ At(n, "done") => n \in proc[n].seen

(* A supervisor is refused the lease only because another one has it: who    *)
(* inspects the lease does not take it.                                     *)
InspectTakesNothing == [][\A p \in Pids :
    (Acquire(p) /\ proc'[p].at = "failed") => role[lease] # "notify"]_superVars
=============================================================================
