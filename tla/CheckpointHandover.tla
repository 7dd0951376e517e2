---- MODULE CheckpointHandover ----
(****************************************************************************)
(* A live session handed from a source host to a destination host and back  *)
(* (cmd/relayfile-cli/checkpoint_lifecycle.go with the checkpoint calls of  *)
(* internal/mountsync/syncer.go): the commands                              *)
(*                                                                          *)
(*   mount checkpoint-seal   stop the source, drain it, have a seal issued  *)
(*   mount verify-seal       prove that the destination has what was sealed *)
(*   mount handback-seal     stop the destination, drain it, release it     *)
(*   mount resume-seal       take ownership back, restart the source        *)
(*                                                                          *)
(* with their lifecycle files. One command runs at a time for a host (the   *)
(* lifecycle lock), may be killed between any two steps and be run again.   *)
(* The controller that runs them, and the agents that edit, are external.   *)
(****************************************************************************)
EXTENDS CheckpointSeals, TLC

CONSTANTS
    Source, Dests,  \* the hosts
    Gens,           \* generations, 1..n
    Handbacks,      \* ids of handbacks, 1..n
    Configs         \* the scenarios

ASSUME CheckpointAssumption ==
    /\ Source \notin Dests /\ NoOne \notin Dests
    /\ Gens \subseteq Nat \ {0} /\ Handbacks \subseteq Nat \ {0}

VARIABLES
    cfg,     \* the scenario
    cloud,   \* the workspace's state
    seals, last, bound,      \* checkpointSeals, -Generations, -ConsumerKeys
    late,    \* requests for a seal whose client has given up waiting
    hosts,   \* host -> daemon and mount
    life,    \* generation -> the source's lifecycle file
    checks,  \* destination, generation -> the verification's file
    backs,   \* handback id -> the handback's file
    cmd,     \* host -> the command that is running
    told, receipt,   \* what the controller was answered: tokens, consumers
    used     \* what was spent of the scenario's budget

server == <<cloud, seals, last, bound, late>>
files == <<life, checks, backs>>
vars == <<cfg, server, hosts, files, cmd, told, receipt, used>>

Hosts == {Source} \union Dests
Idle == [op |-> "none", id |-> 0, pc |-> "idle", scan |-> {}, token |-> 0]
Run(op, id, pc) == [Idle EXCEPT !.op = op, !.id = id, !.pc = pc]
NewLife == [status |-> "none", token |-> 0, proof |-> FALSE, at |-> State({}, 0)]
NewBack == [status |-> "none", gen |-> 0, host |-> NoOne]

Init ==
    /\ cfg \in Configs
    /\ cloud = State({}, 0)
    /\ seals = [g \in Gens |-> NoSeal]
    /\ last = 0 /\ bound = [d \in Dests |-> 0] /\ late = {}
    /\ hosts = [h \in Hosts |-> [daemon |-> IF h = Source THEN "up" ELSE "down",
                                 synced |-> h = Source,
                                 local |-> {}, base |-> {}, cursor |-> 0]]
    /\ life = [g \in Gens |-> NewLife]
    /\ checks = [d \in Dests, g \in Gens |-> "none"]
    /\ backs = [h \in Handbacks |-> NewBack]
    /\ cmd = [h \in Hosts |-> Idle]
    /\ told = [g \in Gens |-> 0] /\ receipt = [g \in Gens |-> NoOne]
    /\ used = [faults |-> 0, edits |-> 0, strays |-> 0, events |-> 0]

Spend(what) ==
    /\ used[what] < cfg[what]
    /\ used' = [used EXCEPT ![what] = @ + 1]

Fault == Spend("faults")

-----------------------------------------------------------------------------
(* Hosts. A daemon that was told to stop goes on until it has.                *)

(* syncOnce: local edits are pushed, the rest is pulled (MountSync).          *)
Sync(h) ==
    LET m == hosts[h]
        new == cloud.files \union m.local
        tip == cloud.cursor + IF m.local \subseteq cloud.files THEN 0 ELSE 1
    IN /\ m.daemon # "down"
       /\ \/ ~m.synced
          \/ m.local # cloud.files \/ m.base # m.local \/ m.cursor # cloud.cursor
       /\ cloud' = State(new, tip)
       /\ hosts' = [hosts EXCEPT ![h] = [@ EXCEPT !.local = new, !.base = new,
                                                  !.cursor = tip, !.synced = TRUE]]
       /\ UNCHANGED <<cfg, seals, last, bound, late, files, cmd, told, receipt, used>>

Stopped(h) == [hosts EXCEPT ![h].daemon = "down", ![h].synced = FALSE]

Die(h) ==
    /\ hosts[h].daemon = "stopping"
    /\ hosts' = Stopped(h)
    /\ UNCHANGED <<cfg, server, files, cmd, told, receipt, used>>

(* An agent's turn, where the controller has admitted one.                    *)
Admitted(h) ==
    IF h = Source
    THEN \A g \in Gens : life[g].status \in {"none", "ready", "preseal-failed-source-ready"}
    ELSE \E g \in Gens : receipt[g] = h /\ checks[<<h, g>>] = "converged"

Turn(h) ==
    /\ hosts[h].daemon = "up" /\ cmd[h] = Idle /\ Admitted(h)
    /\ Spend("edits")
    /\ hosts' = [hosts EXCEPT ![h].local = @ \union {used.edits + 1}]
    /\ UNCHANGED <<cfg, server, files, cmd, told, receipt>>

(* A process nobody stopped writes while a command is draining the mount.     *)
Stray(h) ==
    /\ hosts[h].daemon = "down"
    /\ cmd[h].pc \in {"issue", "final", "prepare", "commit", "finish"}
    /\ Spend("strays")
    /\ hosts' = [hosts EXCEPT ![h].local = @ \union {100 + used.strays}]
    /\ UNCHANGED <<cfg, server, files, cmd, told, receipt>>

(* Another writer of the workspace: a file, or an event without one.          *)
External ==
    /\ Spend("events")
    /\ \E new \in {cloud.files, cloud.files \union {200 + used.events}} :
          cloud' = State(new, cloud.cursor + 1)
    /\ UNCHANGED <<cfg, seals, last, bound, late, hosts, files, cmd, told, receipt>>

(* ensureCheckpointSourceReady: a mount is started unless a daemon is alive,  *)
(* also one that is on its way out, and is ready (waitCheckpointMountReady)   *)
(* when it has synchronised once; the deadline may pass first.                *)
Started(h) == [hosts EXCEPT ![h].daemon = "up", ![h].synced = FALSE]
Ready(h) == hosts[h].daemon # "down" /\ hosts[h].synced
Ensured(h) == Ready(h) /\ UNCHANGED hosts
EnsureFails(h) == Fault /\ UNCHANGED hosts

Ensuring ==
    {"seal"} \X {"recover", "unsaved"} \union {"resume"} \X {"restart", "ensure"}
    \union {"verify"} \X {"again", "ensure", "diverged", "failed"}
    \union {"handback"} \X {"recover", "unsaved"}

StartMount(h) ==
    /\ hosts[h].daemon = "down" /\ <<cmd[h].op, cmd[h].pc>> \in Ensuring
    /\ hosts' = Started(h)
    /\ UNCHANGED <<cfg, server, files, cmd, told, receipt, used>>

(* stopCheckpointMount; the deadline may pass first.                          *)
StopTimesOut(h) ==
    /\ Fault
    /\ hosts' = [hosts EXCEPT ![h].daemon = "stopping"]

(* checkpointLocalDigestLocked: a file that is not what the mount tracks has  *)
(* no digest.                                                                 *)
DigestIs(h, digest) == hosts[h].local = hosts[h].base /\ hosts[h].base = digest

(* The two passes of pushLocal and settleCheckpointOutbox. A mutant records   *)
(* the server's files as the mount's.                                         *)
DrainAdopts(h) ==
    LET new == hosts[h].local \ hosts[h].base
    IN /\ cloud' = State(cloud.files \union new,
                         cloud.cursor + IF new = {} THEN 0 ELSE 1)
       /\ hosts' = [hosts EXCEPT ![h].base = cloud'.files]

Drain(h) ==
    LET m == hosts[h]
        new == m.local \ m.base
    IN /\ cloud' = State(cloud.files \union new,
                         cloud.cursor + IF new = {} THEN 0 ELSE 1)
       /\ hosts' = [hosts EXCEPT ![h].base = m.local]

Goto(h, pc) == cmd' = [cmd EXCEPT ![h].pc = pc]
Exit(h) == cmd' = [cmd EXCEPT ![h] = Idle]

(* A command is killed, with its host or by its controller.                   *)
Kill(h) ==
    /\ cmd[h] # Idle /\ Fault /\ Exit(h)
    /\ UNCHANGED <<cfg, server, hosts, files, told, receipt>>

(* A request is processed; its answer may not arrive.                         *)
Apply(g, out) == seals' = [seals EXCEPT ![g] = out.seal]
-----------------------------------------------------------------------------
(* runMountCheckpointSeal.                                                    *)

(* The controller leaves a lifecycle alone once it has begun a newer one.     *)
Newest(g) == cfg.stale \/ \A n \in Gens : n > g => life[n].status = "none"

SetLife(g, status) == life' = [life EXCEPT ![g].status = status]

SealBegin(g) ==
    /\ cmd[Source] = Idle
    /\ \A n \in Gens : life[n].status # "none" => n < g
    /\ cfg.stale \/ \A n \in Gens : life[n].status \notin
                                      {"preparing", "stopped", "sealed", "resuming"}
    /\ hosts[Source].daemon = "up" /\ Ready(Source)
    /\ SetLife(g, "preparing")
    /\ cmd' = [cmd EXCEPT ![Source] = Run("seal", g, "stop")]
    /\ UNCHANGED <<cfg, server, hosts, checks, backs, told, receipt, used>>

(* The same lifecycle id again: a seal that was made is told again, one that  *)
(* was not is given up.                                                       *)
SealAgain(g) ==
    /\ cmd[Source] = Idle /\ Newest(g)
    /\ \/ /\ life[g].status = "sealed" /\ told[g] # life[g].token
          /\ told' = [told EXCEPT ![g] = life[g].token]
          /\ UNCHANGED cmd
       \/ /\ life[g].status \in {"preparing", "stopped"}
          /\ cmd' = [cmd EXCEPT ![Source] = Run("seal", g, "recover")]
          /\ UNCHANGED told
    /\ UNCHANGED <<cfg, server, hosts, files, receipt, used>>

Sealing(pc) == cmd[Source].op = "seal" /\ cmd[Source].pc = pc

SealStop ==
    /\ Sealing("stop")
    /\ \/ /\ hosts' = Stopped(Source) /\ SetLife(cmd[Source].id, "stopped")
          /\ Goto(Source, "drain") /\ UNCHANGED used
       \/ StopTimesOut(Source) /\ Goto(Source, "recover") /\ UNCHANGED life
    /\ UNCHANGED <<cfg, server, checks, backs, told, receipt>>

(* CheckpointAndSeal up to the request: drained, and scanned twice.           *)
SealDrain ==
    /\ Sealing("drain")
    /\ \/ /\ Drain(Source)
          /\ cmd' = [cmd EXCEPT ![Source].pc = "issue", ![Source].scan = hosts[Source].local]
          /\ UNCHANGED used
       \/ Fault /\ Goto(Source, "recover") /\ UNCHANGED <<cloud, hosts>>
    /\ UNCHANGED <<cfg, seals, last, bound, late, files, told, receipt>>

Issue(g, digest) ==
    LET out == issueCheckpointSeal(seals[g], g, last, digest, cloud)
    IN /\ Apply(g, out)
       /\ last' = IF out.code = "ok" /\ g > last THEN g ELSE last

SealIssue ==
    LET g == cmd[Source].id
        digest == cmd[Source].scan
        out == issueCheckpointSeal(seals[g], g, last, digest, cloud)
    IN /\ Sealing("issue")
       /\ \/ /\ Issue(g, digest)
             /\ \/ /\ cmd' = [cmd EXCEPT ![Source].pc = IF out.code = "ok" THEN "final" ELSE "recover",
                                         ![Source].token = out.seal.token]
                   /\ UNCHANGED used
                \/ Fault /\ (UNCHANGED cmd \/ Goto(Source, "recover"))
             /\ UNCHANGED late
          \/ /\ cfg.delays /\ Fault
             /\ late' = late \union {[gen |-> g, digest |-> digest]}
             /\ UNCHANGED <<seals, last, cmd>>
       /\ UNCHANGED <<cfg, cloud, bound, hosts, files, told, receipt>>

(* A request the client has long repeated.                                    *)
IssueLate ==
    /\ \E r \in late : Issue(r.gen, r.digest) /\ late' = late \ {r}
    /\ UNCHANGED <<cfg, cloud, bound, hosts, files, cmd, told, receipt, used>>

(* The closing scan, and the lifecycle file with the token in it, which is    *)
(* then told; a command that is killed in between is asked again (SealAgain). *)
(* A mutant leaves the scan out.                                              *)
SealFinalBlind ==
    LET c == cmd[Source]
    IN /\ Sealing("final")
       /\ life' = [life EXCEPT ![c.id] = [@ EXCEPT !.status = "sealed", !.token = c.token]]
       /\ told' = [told EXCEPT ![c.id] = c.token]
       /\ Exit(Source)
       /\ UNCHANGED <<cfg, server, hosts, checks, backs, receipt, used>>

SealFinal ==
    LET c == cmd[Source]
    IN /\ Sealing("final")
       /\ \/ /\ DigestIs(Source, c.scan)
             /\ life' = [life EXCEPT ![c.id] = [@ EXCEPT !.status = "sealed", !.token = c.token]]
             /\ \/ told' = [told EXCEPT ![c.id] = c.token] /\ UNCHANGED used
                \/ Fault /\ UNCHANGED told
             /\ Exit(Source)
          \/ ~DigestIs(Source, c.scan) /\ Goto(Source, "recover") /\ UNCHANGED <<life, told, used>>
          \/ Fault /\ Goto(Source, "unsaved") /\ UNCHANGED <<life, told>>
       /\ UNCHANGED <<cfg, server, hosts, checks, backs, receipt>>

(* A seal that failed: the source is started again.                           *)
SealRecover ==
    /\ Sealing("recover") \/ Sealing("unsaved")
    /\ \/ /\ Ensured(Source) /\ UNCHANGED used
          /\ IF Sealing("recover") THEN SetLife(cmd[Source].id, "preseal-failed-source-ready")
                                   ELSE UNCHANGED life
       \/ /\ EnsureFails(Source)
          /\ IF Sealing("recover") THEN SetLife(cmd[Source].id, "recovery-failed")
                                   ELSE UNCHANGED life
    /\ Exit(Source)
    /\ UNCHANGED <<cfg, server, checks, backs, told, receipt>>
-----------------------------------------------------------------------------
(* runMountResumeSeal.                                                        *)
ResumeBegin(g) ==
    /\ cmd[Source] = Idle /\ Newest(g)
    /\ \/ /\ life[g].status \in {"preparing", "stopped", "preseal-failed-source-ready"}
          /\ cmd' = [cmd EXCEPT ![Source] = Run("resume", g, "restart")]
          /\ UNCHANGED life
       \/ /\ life[g].status \in {"sealed", "resuming"}
          /\ SetLife(g, "resuming")
          /\ cmd' = [cmd EXCEPT ![Source] =
                       Run("resume", g, IF life[g].proof THEN "ensure" ELSE "burn")]
    /\ UNCHANGED <<cfg, server, hosts, checks, backs, told, receipt, used>>

Resuming(pc) == cmd[Source].op = "resume" /\ cmd[Source].pc = pc

(* Nothing was sealed: the source is started.                                 *)
ResumeRestart ==
    LET g == cmd[Source].id
    IN /\ Resuming("restart")
       /\ \/ Ensured(Source) /\ SetLife(g, "ready") /\ UNCHANGED used
          \/ EnsureFails(Source) /\ SetLife(g, "recovery-failed")
       /\ Exit(Source)
       /\ UNCHANGED <<cfg, server, checks, backs, told, receipt>>

(* burnCheckpointReceiptForResume; the proof is saved before anything starts. *)
ResumeBurn ==
    LET g == cmd[Source].id
        out == resumeCheckpointSeal(seals[g], life[g].token, cloud)
    IN /\ Resuming("burn")
       /\ Apply(g, out)
       /\ \/ /\ out.code = "ok"
             /\ life' = [life EXCEPT ![g] = [@ EXCEPT !.proof = TRUE, !.at = out.seal.back]]
             /\ Goto(Source, "ensure") /\ UNCHANGED used
          \/ /\ out.code = "handback_required"
             /\ SetLife(g, "sealed") /\ Exit(Source) /\ UNCHANGED used
          \/ /\ out.code = "resume_conflict"
             /\ SetLife(g, "ownership-conflict") /\ Exit(Source) /\ UNCHANGED used
          \/ /\ out.code = "not_found" \/ Fault
             /\ Exit(Source) /\ UNCHANGED life
             /\ out.code = "not_found" => UNCHANGED used
       /\ UNCHANGED <<cfg, cloud, last, bound, late, hosts, checks, backs, told, receipt>>

ResumeEnsure ==
    /\ Resuming("ensure")
    /\ \/ Ensured(Source) /\ Goto(Source, "proof") /\ UNCHANGED used
       \/ EnsureFails(Source) /\ Exit(Source)
    /\ UNCHANGED <<cfg, server, files, told, receipt>>

(* waitCheckpointSourceProof: the source has exactly what was handed back.    *)
Proven(proof) == DigestIs(Source, proof.files) /\ hosts[Source].cursor = proof.cursor

ResumeProofBlind ==
    /\ Resuming("proof")
    /\ life' = [life EXCEPT ![cmd[Source].id] = [@ EXCEPT !.status = "ready", !.token = 0]]
    /\ Exit(Source)
    /\ UNCHANGED <<cfg, server, hosts, checks, backs, told, receipt, used>>

ResumeProof ==
    LET g == cmd[Source].id
        never == hosts[Source].cursor > life[g].at.cursor
    IN /\ Resuming("proof")
       /\ \/ /\ Proven(life[g].at)
             /\ life' = [life EXCEPT ![g] = [@ EXCEPT !.status = "ready", !.token = 0]]
             /\ UNCHANGED used
          \/ (IF never THEN UNCHANGED used ELSE Fault) /\ UNCHANGED life
       /\ Exit(Source)
       /\ UNCHANGED <<cfg, server, hosts, checks, backs, told, receipt>>
-----------------------------------------------------------------------------
(* The controller: a destination consumes the seal and is started.            *)
Consume(d, g) ==
    LET out == consumeCheckpointSeal(seals[g], g, told[g], d, bound[d], cloud)
    IN /\ d \in cfg.contenders /\ told[g] # 0 /\ receipt[g] = NoOne
       /\ Apply(g, out)
       /\ bound' = [bound EXCEPT ![d] = IF out.code = "ok" THEN g ELSE @]
       /\ \/ receipt' = [receipt EXCEPT ![g] = IF out.code = "ok" THEN d ELSE @]
             /\ UNCHANGED used
          \/ Fault /\ out.code = "ok" /\ UNCHANGED receipt
       /\ UNCHANGED <<cfg, cloud, last, late, hosts, files, cmd, told>>

(* RecoverConsumedCheckpointSeal, when the answer was lost.                   *)
RecoverConsume(d, g) ==
    LET out == recoverConsumed(seals[g], g, d, bound[d])
    IN /\ receipt[g] = NoOne /\ out.code = "ok"
       /\ receipt' = [receipt EXCEPT ![g] = d]
       /\ UNCHANGED <<cfg, server, hosts, files, cmd, told, used>>

HandbacksOf(d, g) == {h \in Handbacks : backs[h].host = d /\ backs[h].gen = g}
GivenUp == {"failed-destination-ready", "recovery-failed"}
Owns(d, g) ==
    /\ receipt[g] = d
    /\ \A h \in HandbacksOf(d, g) : backs[h].status \in GivenUp

(* relayfile mount, on the host that has the receipt.                         *)
StartDestination(d, g) ==
    /\ Owns(d, g) /\ cmd[d] = Idle /\ hosts[d].daemon = "down"
    /\ checks[<<d, g>>] \notin {"preparing", "stopped", "verifying", "verified"}
    /\ hosts' = Started(d)
    /\ UNCHANGED <<cfg, server, files, cmd, told, receipt, used>>

(* Time: a seal's TTL, and the retention of a seal that was resumed, which    *)
(* outlasts the retries of the commands that use it.                          *)
Expire(g) ==
    /\ seals[g].issued /\ ~seals[g].expired
    /\ seals' = [seals EXCEPT ![g].expired = TRUE]
    /\ UNCHANGED <<cfg, cloud, last, bound, late, hosts, files, cmd, told, receipt, used>>

Purge(g) ==
    /\ seals[g].resumed # "no"
    /\ life[g].status \notin {"sealed", "resuming"}
    /\ \A h \in Handbacks : backs[h].gen = g => backs[h].status \in GivenUp \union {"released"}
    /\ seals' = [seals EXCEPT ![g] = NoSeal]
    /\ bound' = [d \in Dests |-> IF seals[g].consumer = d THEN 0 ELSE bound[d]]
    /\ UNCHANGED <<cfg, cloud, last, late, hosts, files, cmd, told, receipt, used>>

(* An administrator who sees the source running.                              *)
Reconcile(g) ==
    LET out == reconcileCheckpointSealSource(seals[g], Status(seals[g]))
    IN /\ hosts[Source].daemon = "up" /\ seals[g].resumed = "no"
       /\ out.code = "ok"
       /\ Apply(g, out)
       /\ bound' = [d \in Dests |-> IF seals[g].consumer = d THEN 0 ELSE bound[d]]
       /\ UNCHANGED <<cfg, cloud, last, late, hosts, files, cmd, told, receipt, used>>
-----------------------------------------------------------------------------
(* runMountVerifySeal.  A verification that goes on and finds a daemon waits  *)
(* half a second for it to be ready before it stops it, or fails.             *)
SetCheck(d, g, status) == checks' = [checks EXCEPT ![<<d, g>>] = status]
Verifying(d, pc) == cmd[d].op = "verify" /\ cmd[d].pc = pc

VerifyBegin(d, g) ==
    /\ Owns(d, g) /\ cmd[d] = Idle
    /\ \/ /\ checks[<<d, g>>] = "none" /\ hosts[d].daemon = "up" /\ Ready(d)
          /\ SetCheck(d, g, "preparing")
          /\ cmd' = [cmd EXCEPT ![d] = Run("verify", g, "stop")]
       \/ /\ checks[<<d, g>>] = "preparing" /\ UNCHANGED checks
          /\ cmd' = [cmd EXCEPT ![d] = Run("verify", g, "again")]
       \/ /\ checks[<<d, g>>] \in {"stopped", "verifying"} /\ UNCHANGED checks
          /\ \E pc \in IF hosts[d].daemon = "down" THEN {"check"}
                       ELSE {"stop", "failed"} :
                cmd' = [cmd EXCEPT ![d] = Run("verify", g, pc)]
       \/ /\ checks[<<d, g>>] = "verified" /\ UNCHANGED checks
          /\ cmd' = [cmd EXCEPT ![d] = Run("verify", g, "ensure")]
    /\ UNCHANGED <<cfg, server, hosts, life, backs, told, receipt, used>>

(* Interrupted before it had stopped the daemon: started over.                *)
VerifyAgain(d) ==
    /\ Verifying(d, "again")
    /\ \/ Ensured(d) /\ Goto(d, "stop") /\ UNCHANGED used
       \/ EnsureFails(d) /\ Exit(d)
    /\ UNCHANGED <<cfg, server, files, told, receipt>>

VerifyStop(d) ==
    /\ Verifying(d, "stop")
    /\ \/ /\ hosts' = Stopped(d) /\ SetCheck(d, cmd[d].id, "stopped")
          /\ Goto(d, "check") /\ UNCHANGED used
       \/ StopTimesOut(d) /\ Goto(d, "failed") /\ UNCHANGED checks
    /\ UNCHANGED <<cfg, server, life, backs, told, receipt>>

(* VerifyCheckpoint: the mount's digest and cursor are the receipt's, and the *)
(* server's word on the seal.                                                 *)
VerifyCheck(d) ==
    LET g == cmd[d].id
        same == /\ DigestIs(d, seals[g].at.files) /\ hosts[d].cursor = seals[g].at.cursor
                /\ verifyConsumed(seals[g], d, cloud).code = "ok"
    IN /\ Verifying(d, "check")
       /\ \/ same /\ SetCheck(d, g, "verified") /\ Goto(d, "ensure") /\ UNCHANGED used
          \/ ~same /\ SetCheck(d, g, "verifying") /\ Goto(d, "diverged") /\ UNCHANGED used
          \/ Fault /\ SetCheck(d, g, "verifying") /\ (Goto(d, "diverged") \/ Goto(d, "failed"))
       /\ UNCHANGED <<cfg, server, hosts, life, backs, told, receipt>>

(* The destination is started again, also when it is not what was sealed      *)
(* (recoverDestinationAfterVerificationFailure).                              *)
VerifyEnd(d) ==
    LET g == cmd[d].id
    IN /\ cmd[d].op = "verify" /\ cmd[d].pc \in {"ensure", "diverged", "failed"}
       /\ \/ /\ Ensured(d) /\ UNCHANGED used
             /\ SetCheck(d, g, CASE cmd[d].pc = "ensure" -> "converged"
                                  [] cmd[d].pc = "diverged" -> "diverged-source-ready"
                                  [] OTHER -> "failed-source-ready")
          \/ EnsureFails(d) /\ SetCheck(d, g, "recovery-failed")
       /\ Exit(d)
       /\ UNCHANGED <<cfg, server, life, backs, told, receipt>>
-----------------------------------------------------------------------------
(* runMountHandbackSeal.                                                      *)
SetBack(h, status) == backs' = [backs EXCEPT ![h].status = status]
Returning(d, pc) == cmd[d].op = "handback" /\ cmd[d].pc = pc

HandbackBegin(h, d, g) ==
    /\ Owns(d, g) /\ cmd[d] = Idle
    /\ backs[h].status = "none" /\ \A k \in 1..(h - 1) : backs[k].status # "none"
    /\ hosts[d].daemon = "up" /\ Ready(d)
    /\ backs' = [backs EXCEPT ![h] = [status |-> "preparing", gen |-> g, host |-> d]]
    /\ cmd' = [cmd EXCEPT ![d] = Run("handback", h, "stop")]
    /\ UNCHANGED <<cfg, server, hosts, life, checks, told, receipt, used>>

(* The same id again (acquireStoppedHandbackLease): only an attempt that had  *)
(* not stopped the destination yet may stop it now.                           *)
HandbackAgain(h) ==
    LET d == backs[h].host
    IN /\ d # NoOne /\ cmd[d] = Idle
       /\ backs[h].status \in {"preparing", "stopped", "handing-back", "handback-unknown"}
       /\ \/ /\ hosts[d].daemon = "down" /\ SetBack(h, "handing-back")
             /\ cmd' = [cmd EXCEPT ![d] = Run("handback", h, "drain")]
          \/ /\ hosts[d].daemon = "up" /\ backs[h].status = "preparing"
             /\ cmd' = [cmd EXCEPT ![d] = Run("handback", h, "stop")]
             /\ UNCHANGED backs
       /\ UNCHANGED <<cfg, server, hosts, life, checks, told, receipt, used>>

HandbackStop(d) ==
    LET h == cmd[d].id
    IN /\ Returning(d, "stop")
       /\ \/ /\ hosts' = Stopped(d) /\ SetBack(h, "handing-back")
             /\ Goto(d, "drain") /\ UNCHANGED used
          \/ StopTimesOut(d) /\ Goto(d, "recover") /\ UNCHANGED backs
          \/ Fault /\ hosts' = Stopped(d) /\ Goto(d, "unsaved") /\ UNCHANGED backs
       /\ UNCHANGED <<cfg, server, life, checks, told, receipt>>

(* finishCheckpointHandback, with HandbackCheckpoint: whatever is not a       *)
(* definite refusal leaves the destination stopped, to be retried.            *)
Unknown(d) == SetBack(cmd[d].id, "handback-unknown") /\ Exit(d)

HandbackDrain(d) ==
    /\ Returning(d, "drain")
    /\ \/ /\ Drain(d)
          /\ cmd' = [cmd EXCEPT ![d].pc = "prepare", ![d].scan = hosts[d].local]
          /\ UNCHANGED <<backs, used>>
       \/ Fault /\ Unknown(d) /\ UNCHANGED <<cloud, hosts>>
    /\ UNCHANGED <<cfg, seals, last, bound, late, life, checks, told, receipt>>

(* definitiveCheckpointHandbackHTTPFailure.                                   *)
Definitive(code) == code = "diverged"

HandbackCall(d, phase) ==
    LET h == cmd[d].id
        g == backs[h].gen
        out == handbackCheckpointSeal(seals[g], d, phase, h, cmd[d].scan, cloud)
        done == out.seal.released
    IN /\ Apply(g, out)
       /\ \/ /\ out.code = "ok" /\ out.seal.resumed = "no"
             /\ Goto(d, IF done THEN "finish" ELSE "commit")
             /\ UNCHANGED <<backs, used>>
          \/ /\ Definitive(out.code)
             /\ Goto(d, "recover") /\ UNCHANGED <<backs, used>>
          \/ /\ ~Definitive(out.code)
             /\ out.code # "ok" \/ out.seal.resumed # "no"
             /\ Unknown(d) /\ UNCHANGED used
          \/ Fault /\ (Unknown(d) \/ (UNCHANGED <<backs, cmd>>))
       /\ UNCHANGED <<cfg, cloud, last, bound, late, hosts, life, checks, told, receipt>>

HandbackPrepare(d) == Returning(d, "prepare") /\ HandbackCall(d, "prepare")

(* The closing scan comes first.                                              *)
HandbackCommit(d) ==
    /\ Returning(d, "commit")
    /\ IF DigestIs(d, cmd[d].scan) THEN HandbackCall(d, "commit")
       ELSE /\ Unknown(d)
            /\ UNCHANGED <<cfg, server, hosts, life, checks, told, receipt, used>>

(* The scan after the commit, and the file that says it is released.          *)
HandbackFinishBlind(d) ==
    /\ Returning(d, "finish")
    /\ SetBack(cmd[d].id, "released") /\ Exit(d)
    /\ UNCHANGED <<cfg, server, hosts, life, checks, told, receipt, used>>

HandbackFinish(d) ==
    /\ Returning(d, "finish")
    /\ \/ DigestIs(d, cmd[d].scan) /\ SetBack(cmd[d].id, "released") /\ UNCHANGED used /\ Exit(d)
       \/ ~DigestIs(d, cmd[d].scan) /\ Unknown(d) /\ UNCHANGED used
       \/ Fault /\ Exit(d) /\ UNCHANGED backs
    /\ UNCHANGED <<cfg, server, hosts, life, checks, told, receipt>>

(* The handback was refused, or nothing was asked yet: back to work.          *)
HandbackRecover(d) ==
    LET h == cmd[d].id
    IN /\ Returning(d, "recover") \/ Returning(d, "unsaved")
       /\ \/ /\ Ensured(d) /\ UNCHANGED used
             /\ IF Returning(d, "recover") THEN SetBack(h, "failed-destination-ready")
                                           ELSE UNCHANGED backs
          \/ /\ EnsureFails(d)
             /\ IF Returning(d, "recover") THEN SetBack(h, "recovery-failed")
                                           ELSE UNCHANGED backs
       /\ Exit(d)
       /\ UNCHANGED <<cfg, server, life, checks, told, receipt>>
-----------------------------------------------------------------------------
SourceStep ==
    \/ SealStop \/ SealDrain \/ SealIssue \/ SealFinal \/ SealRecover
    \/ ResumeRestart \/ ResumeBurn \/ ResumeEnsure \/ ResumeProof
    \/ StartMount(Source)

DestStep(d) ==
    \/ VerifyAgain(d) \/ VerifyStop(d) \/ VerifyCheck(d) \/ VerifyEnd(d)
    \/ HandbackStop(d) \/ HandbackDrain(d) \/ HandbackPrepare(d)
    \/ HandbackCommit(d) \/ HandbackFinish(d) \/ HandbackRecover(d)
    \/ StartMount(d)

Next ==
    \/ External \/ IssueLate \/ SourceStep
    \/ \E h \in Hosts : Sync(h) \/ Die(h) \/ Turn(h) \/ Stray(h) \/ Kill(h)
    \/ \E g \in Gens : \/ SealBegin(g) \/ SealAgain(g) \/ ResumeBegin(g)
                       \/ Expire(g) \/ Purge(g) \/ Reconcile(g)
    \/ \E d \in Dests : DestStep(d)
    \/ \E d \in Dests, g \in Gens : \/ Consume(d, g) \/ RecoverConsume(d, g)
                                   \/ StartDestination(d, g) \/ VerifyBegin(d, g)
    \/ \E d \in Dests, g \in Gens, h \in Handbacks : HandbackBegin(h, d, g)
    \/ \E h \in Handbacks : HandbackAgain(h)

Spec == Init /\ [][Next]_vars

(* Daemons synchronise and stop, commands run on, and the controller repeats  *)
(* what was not answered: it hands back and resumes in the end.               *)
Fairness ==
    /\ WF_vars(SourceStep)
    /\ \A h \in Hosts : WF_vars(Sync(h)) /\ WF_vars(Die(h))
    /\ \A g \in Gens : WF_vars(ResumeBegin(g))
    /\ \A d \in Dests :
          /\ WF_vars(DestStep(d))
          /\ \A g \in Gens : /\ WF_vars(RecoverConsume(d, g))
                             /\ WF_vars(StartDestination(d, g))
                             /\ WF_vars(VerifyBegin(d, g))
                             /\ WF_vars(\E h \in Handbacks : HandbackBegin(h, d, g))
    /\ \A h \in Handbacks : WF_vars(HandbackAgain(h))

FairSpec == Spec /\ Fairness
-----------------------------------------------------------------------------
SealOf(d) == {g \in Gens : seals[g].consumer = d /\ Status(seals[g]) = "consumed"}

TypeOK ==
    /\ cloud.cursor \in Nat
    /\ \A g \in Gens :
          /\ seals[g].consumer \in Dests \union {NoOne}
          /\ seals[g].prepared \in Handbacks \union {NoOne}
          /\ seals[g].resumed \in {"no", "source", "admin"}
          /\ life[g].status \in {"none", "preparing", "stopped", "sealed", "resuming",
                 "ready", "preseal-failed-source-ready", "recovery-failed",
                 "ownership-conflict"}
    /\ last \in Gens \union {0}
    /\ \A d \in Dests : bound[d] \in Gens \union {0}
    /\ \A h \in Hosts : /\ hosts[h].daemon \in {"up", "stopping", "down"}
                        /\ hosts[h].base \subseteq hosts[h].local
    /\ \A d \in Dests, g \in Gens :
          checks[<<d, g>>] \in {"none", "preparing", "stopped", "verifying", "verified",
             "converged", "diverged-source-ready", "failed-source-ready", "recovery-failed"}
    /\ \A h \in Handbacks :
          backs[h].status \in {"none", "preparing", "handing-back", "handback-unknown",
             "released"} \union GivenUp

(* Never two writers: a daemon runs on a destination only while the server    *)
(* has it as the owner, and on the source only while no destination owns the  *)
(* session, through kills, lost answers and retries of every command          *)
(* ("never restart into split-brain", finishCheckpointHandback).              *)
OneWriter ==
    /\ \A d \in Dests : hosts[d].daemon # "down" => SealOf(d) # {}
    /\ hosts[Source].daemon # "down" => \A d \in Dests : SealOf(d) = {}

(* While a destination owns the session the source holds no edit that the     *)
(* workspace lacks: what was sealed is all there was (the scans of            *)
(* CheckpointAndSeal around the request).                                     *)
NothingStranded ==
    \A d \in Dests : SealOf(d) # {} => hosts[Source].local \subseteq cloud.files

(* No turn of the destination is lost: a handback that reports success leaves *)
(* nothing behind on the destination, and a source that reports ready has all *)
(* that was handed back (HandbackCheckpoint, VerifyCheckpointOwnership).      *)
TurnsKept ==
    [][/\ \A h \in Handbacks :
             backs'[h].status = "released" /\ backs[h].status # "released" =>
                hosts[backs[h].host].local \subseteq cloud.files
       /\ \A g \in Gens :
             life'[g].status = "ready" /\ life[g].status = "resuming" =>
                seals[g].back.files \subseteq hosts[Source].local]_vars

(* A source that was stopped for a handover comes back, whatever is killed or *)
(* lost on the way. A mount that is written to while it is handed back, an    *)
(* event of someone else's, or a late duplicate of a request leave it stopped *)
(* (OwnershipEnds).                                                           *)
Undisturbed == cfg.strays = 0 /\ cfg.events = 0 /\ ~cfg.delays
SourceReturns ==
    \A g \in Gens : Undisturbed /\ life[g].status \in {"sealed", "resuming"}
                      ~> life[g].status = "ready"

(* A destination's ownership ends: records that are not resumed are retained  *)
(* "until an ordinary source resume or an explicit break-glass administrative *)
(* reconciliation" (GetCheckpointSealRetentionSummary).                       *)
OwnershipEnds ==
    \A g \in Gens : Status(seals[g]) = "consumed" ~> Status(seals[g]) # "consumed"
=============================================================================
