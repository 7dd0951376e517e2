----------------------------- MODULE MountLoop -----------------------------
(***************************************************************************)
(* The loop of a mirroring daemon (runMountLoopWithAuthLock of the command  *)
(* line client): timer cycles that reconcile, a file watcher whose batches  *)
(* are pushed by a callback of its own, the two sharing one credential,     *)
(* and the degraded state they enter when it can no longer be renewed.      *)
(*                                                                         *)
(* Reconcile and HandleLocalChanges hold the synchroniser's lock and are    *)
(* single steps here (MountSync has their inside): what matters is which    *)
(* local edits they look at.  With a live watcher a reconcile looks at no   *)
(* file after the first one (pushLocal returns early), without one it scans *)
(* them all.                                                                *)
(***************************************************************************)
EXTENDS Naturals, FiniteSets

CONSTANTS
    Edits,         \* edits of local files, each made at most once
    MaxTurns,      \* changes of the credential and of the sign-in
    MaxTicks       \* timer ticks

VARIABLES
    edited,        \* edits made so far
    watcher,       \* "live", "broken" (unnoticed) or "off"
    scanning,      \* localWatcherActive /\ ~pollLocalChanges is false
    drift,         \* recoverStartupDrift: the first scan is still to come
    batch,         \* edits the watcher has reported and no callback has taken
    pushed,        \* edits the server has
    queued,        \* edits the synchroniser has marked and not pushed
    cred,          \* the bearer: "fresh", "aging" (to be renewed), "dead"
    signIn,        \* what a renewal meets: "good", "flaky", "gone"
    degraded,      \* the daemon pushes nothing until a renewal succeeds
    holdOff,       \* the next attempt is in the future
    stall,         \* the reason published in the state file is not empty
    loop,          \* the timer's thread: [at, before, gone]: edited and let go at its tick
    callback,      \* the watcher's thread: [at, changes]
    turns, ticks,
    dropped,       \* ghost: edits whose batch was let go while degraded
    lost,          \* ghost: edits whose batch was let go when a renewal failed
    missed         \* ghost: edits that a successful cycle left behind

loopVars == <<edited, watcher, scanning, drift, batch, pushed, queued, cred, signIn, degraded,
              holdOff, stall, loop, callback, turns, ticks, dropped, lost, missed>>

LoopInit ==
    /\ edited \in SUBSET Edits      \* made while no daemon was running
    /\ batch = {} /\ pushed = {} /\ queued = {} /\ dropped = {} /\ lost = {} /\ missed = {}
    /\ \E w \in {"live", "off"} : watcher = w /\ scanning = (w = "off")
    /\ drift = TRUE
    /\ cred = "fresh" /\ signIn = "good" /\ degraded = FALSE /\ holdOff = FALSE /\ stall = FALSE
    /\ loop = [at |-> "cycle", before |-> edited, gone |-> {}]
    /\ callback = [at |-> "idle", changes |-> {}]
    /\ turns = 0 /\ ticks = 0

--------------------------------------------------------------------------
(* The user, the watcher and the credential.                                *)

EditFile(e) ==
    /\ e \notin edited
    /\ edited' = edited \cup {e}
    /\ batch' = IF watcher = "live" THEN batch \cup {e} ELSE batch
    /\ UNCHANGED <<watcher, scanning, drift, pushed, queued, cred, signIn, degraded, holdOff,
                   stall, loop, callback, turns, ticks, dropped, lost, missed>>

(* fsnotify fails asynchronously; the loop sees it at its next tick.        *)
WatcherFails ==
    /\ watcher = "live"
    /\ watcher' = "broken"
    /\ UNCHANGED <<edited, scanning, drift, batch, pushed, queued, cred, signIn, degraded,
                   holdOff, stall, loop, callback, turns, ticks, dropped, lost, missed>>

Turn(c, s) ==
    /\ turns < MaxTurns /\ <<c, s>> # <<cred, signIn>> /\ (c # cred => c # "fresh")
    /\ cred' = c /\ signIn' = s /\ turns' = turns + 1
    /\ UNCHANGED <<edited, watcher, scanning, drift, batch, pushed, queued, degraded, holdOff,
                   stall, loop, callback, ticks, dropped, lost, missed>>

(* The backoff runs out.                                                    *)
HoldOffEnds ==
    /\ holdOff
    /\ holdOff' = FALSE
    /\ UNCHANGED <<edited, watcher, scanning, drift, batch, pushed, queued, cred, signIn,
                   degraded, stall, loop, callback, turns, ticks, dropped, lost, missed>>

--------------------------------------------------------------------------
(* Renewing the credential, under authMu: how it may end.                   *)
refreshMountAuth(force) ==
    IF ~force /\ cred # "aging" THEN "kept"
    ELSE CASE signIn = "good" -> "renewed" [] signIn = "flaky" -> "failed" [] OTHER -> "expired"

CredentialAfter(force) == cred' = IF refreshMountAuth(force) = "renewed" THEN "fresh" ELSE cred

(* enterDegraded keeps the first cause; degradation clears the backoff.     *)
enterDegraded ==
    /\ degraded' = TRUE
    /\ holdOff' = IF degraded THEN holdOff ELSE FALSE
    /\ stall' = IF degraded THEN stall ELSE TRUE

--------------------------------------------------------------------------
(* The timer's thread.                                                      *)

(* The watcher is not asked how it is.                                      *)
WatcherSeenNever == FALSE

WatcherSeenBroken == watcher = "broken"

TimerTick ==
    /\ loop.at = "idle" /\ ticks < MaxTicks
    /\ ticks' = ticks + 1
    /\ watcher' = IF WatcherSeenBroken THEN "off" ELSE watcher
    /\ scanning' = (scanning \/ WatcherSeenBroken)
    /\ loop' = [at |-> "cycle", before |-> edited, gone |-> dropped \cup lost]
    /\ UNCHANGED <<edited, drift, batch, pushed, queued, cred, signIn, degraded, holdOff,
                   stall, callback, turns, dropped, lost, missed>>

(* A tick on which the websocket and the watcher carry the traffic only     *)
(* refreshes the published state.                                           *)
RealtimeTick ==
    /\ loop.at = "idle" /\ ticks < MaxTicks /\ watcher = "live"
    /\ ticks' = ticks + 1
    /\ UNCHANGED <<edited, watcher, scanning, drift, batch, pushed, queued, cred, signIn, degraded,
                   holdOff, stall, loop, callback, turns, dropped, lost, missed>>

(* runCycle: a degraded daemon tries to renew first, unless it holds off.   *)
RecoverDegraded ==
    /\ loop.at = "cycle" /\ degraded
    /\ IF holdOff
       THEN loop' = [loop EXCEPT !.at = "idle"] /\ UNCHANGED <<cred, degraded, holdOff, stall>>
       ELSE /\ CredentialAfter(TRUE)
            /\ IF refreshMountAuth(TRUE) = "renewed"
               THEN /\ degraded' = FALSE /\ stall' = FALSE
                    /\ loop' = [loop EXCEPT !.at = "auth"] /\ UNCHANGED holdOff
               ELSE /\ holdOff' = TRUE
                    /\ stall' = (stall \/ refreshMountAuth(TRUE) = "expired")
                    /\ loop' = [loop EXCEPT !.at = "idle"] /\ UNCHANGED degraded
    /\ UNCHANGED <<edited, watcher, scanning, drift, batch, pushed, queued, signIn, callback,
                   turns, ticks, dropped, lost, missed>>

(* How a cycle ends that did not succeed.                                   *)
CycleFails(expired) ==
    /\ loop' = [loop EXCEPT !.at = "idle"]
    /\ IF expired THEN enterDegraded ELSE stall' = TRUE /\ UNCHANGED <<degraded, holdOff>>

(* withAuthRefresh, before the operation.                                   *)
CycleAuth ==
    /\ loop.at = "auth" \/ (loop.at = "cycle" /\ ~degraded)
    /\ CredentialAfter(FALSE)
    /\ IF refreshMountAuth(FALSE) \in {"kept", "renewed"}
       THEN loop' = [loop EXCEPT !.at = "reconcile"] /\ UNCHANGED <<degraded, holdOff, stall>>
       ELSE CycleFails(refreshMountAuth(FALSE) = "expired")
    /\ UNCHANGED <<edited, watcher, scanning, drift, batch, pushed, queued, signIn, callback,
                   turns, ticks, dropped, lost, missed>>

(* The files a reconcile looks at.                                          *)
Scanned == IF drift \/ scanning THEN edited \ pushed ELSE {}

(* Reconcile pushes what it scanned and what was queued; refused, it may    *)
(* have marked the files before the answer came.                            *)
Reconcile ==
    /\ loop.at \in {"reconcile", "again"}
    /\ IF cred # "dead"
       THEN /\ pushed' = pushed \cup queued \cup Scanned
            /\ queued' = {} /\ drift' = FALSE
            /\ loop' = [loop EXCEPT !.at = "mark"]
            /\ UNCHANGED <<degraded, holdOff, stall>>
       ELSE /\ queued' \in {queued, queued \cup Scanned}
            /\ UNCHANGED <<pushed, drift>>
            /\ IF loop.at = "reconcile"
               THEN loop' = [loop EXCEPT !.at = "refused"] /\ UNCHANGED <<degraded, holdOff, stall>>
               ELSE CycleFails(FALSE)
    /\ UNCHANGED <<edited, watcher, scanning, batch, cred, signIn, callback, turns, ticks, dropped, lost, missed>>

(* A reconcile that fails for another reason, or runs out of time.          *)
ReconcileFails ==
    /\ loop.at \in {"reconcile", "again"}
    /\ CycleFails(FALSE)
    /\ UNCHANGED <<edited, watcher, scanning, drift, batch, pushed, queued, cred, signIn, callback,
                   turns, ticks, dropped, lost, missed>>

(* An authorization error: one forced renewal, one more try.                *)
CycleReauth ==
    /\ loop.at = "refused"
    /\ CredentialAfter(TRUE)
    /\ IF refreshMountAuth(TRUE) = "renewed"
       THEN loop' = [loop EXCEPT !.at = "again"] /\ UNCHANGED <<degraded, holdOff, stall>>
       ELSE CycleFails(refreshMountAuth(TRUE) = "expired")
    /\ UNCHANGED <<edited, watcher, scanning, drift, batch, pushed, queued, signIn, callback,
                   turns, ticks, dropped, lost, missed>>

(* markCycleSuccess clears the reason, also one set meanwhile.              *)
markCycleSuccess ==
    /\ loop.at = "mark"
    /\ stall' = FALSE
    /\ loop' = [loop EXCEPT !.at = "idle"]
    /\ missed' = missed \cup ((loop.before \ (pushed \cup queued \cup batch \cup callback.changes))
                              \ ((dropped \cup lost) \ loop.gone))
    /\ UNCHANGED <<edited, watcher, scanning, drift, batch, pushed, queued, cred, signIn, degraded,
                   holdOff, callback, turns, ticks, dropped, lost>>

--------------------------------------------------------------------------
(* The watcher's thread.                                                    *)

(* A batch that arrives while degraded is not handed to the synchroniser.   *)
LocalChangeBatch ==
    /\ callback.at = "idle" /\ batch # {}
    /\ batch' = {}
    /\ IF degraded THEN dropped' = dropped \cup (batch \ pushed) /\ UNCHANGED callback
       ELSE callback' = [at |-> "auth", changes |-> batch] /\ UNCHANGED dropped
    /\ UNCHANGED <<edited, watcher, scanning, drift, pushed, queued, cred, signIn, degraded,
                   holdOff, stall, loop, turns, ticks, lost, missed>>

CallbackEnds == callback' = [at |-> "idle", changes |-> {}]

CallbackFails(expired) ==
    /\ CallbackEnds
    /\ IF expired THEN enterDegraded ELSE UNCHANGED <<degraded, holdOff, stall>>

CallbackAuth ==
    /\ callback.at \in {"auth", "refused"}
    /\ LET force == callback.at = "refused" IN
       /\ CredentialAfter(force)
       /\ IF refreshMountAuth(force) \in {"kept", "renewed"}
          THEN /\ callback' = [callback EXCEPT !.at = IF force THEN "again" ELSE "handle"]
               /\ UNCHANGED <<degraded, holdOff, stall, lost>>
          ELSE /\ CallbackFails(refreshMountAuth(force) = "expired")
               /\ lost' = IF force THEN lost ELSE lost \cup (callback.changes \ pushed)
    /\ UNCHANGED <<edited, watcher, scanning, drift, batch, pushed, queued, signIn, loop,
                   turns, ticks, dropped, missed>>

(* The changes are marked and queued durably before they are pushed.        *)
HandleLocalChanges ==
    /\ callback.at \in {"handle", "again"}
    /\ IF cred # "dead"
       THEN /\ pushed' = pushed \cup callback.changes
            /\ queued' = queued \ callback.changes
            /\ CallbackEnds
       ELSE /\ queued' = queued \cup (callback.changes \ pushed)
            /\ IF callback.at = "handle" THEN callback' = [callback EXCEPT !.at = "refused"] ELSE CallbackEnds
            /\ UNCHANGED pushed
    /\ UNCHANGED <<edited, watcher, scanning, drift, batch, cred, signIn, degraded, holdOff, stall,
                   loop, turns, ticks, dropped, lost, missed>>

(* Any other failure of the push: the changes stay queued.                  *)
HandleLocalChangesFails ==
    /\ callback.at \in {"handle", "again"}
    /\ queued' = queued \cup (callback.changes \ pushed)
    /\ CallbackEnds
    /\ UNCHANGED <<edited, watcher, scanning, drift, batch, pushed, cred, signIn, degraded, holdOff,
                   stall, loop, turns, ticks, dropped, lost, missed>>

LoopNext ==
    \/ \E e \in Edits : EditFile(e)
    \/ WatcherFails
    \/ \E c \in {"fresh", "aging", "dead"}, s \in {"good", "flaky", "gone"} : Turn(c, s)
    \/ HoldOffEnds
    \/ TimerTick \/ RealtimeTick \/ RecoverDegraded \/ CycleAuth \/ Reconcile \/ ReconcileFails
    \/ CycleReauth \/ markCycleSuccess
    \/ LocalChangeBatch \/ CallbackAuth \/ HandleLocalChanges \/ HandleLocalChangesFails

--------------------------------------------------------------------------
(* No edit falls between the watcher and the scan: an edit made before a     *)
(* cycle that succeeds is pushed, or still on its way in a batch or a queue, *)
(* or was let go with its batch for want of a credential, also when the      *)
(* watcher breaks unnoticed.                                                *)
NothingMissed == missed \subseteq dropped \cup lost

(* "Leave the dirty state in place so the next successful cycle after        *)
(* re-login picks it up": no successful cycle leaves behind an edit that was *)
(* let go while degraded.                                                   *)
DegradedEditsDelivered == missed \cap dropped = {}
=============================================================================
