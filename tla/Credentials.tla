---------------------------- MODULE Credentials ----------------------------
(***************************************************************************)
(* The two credential files the processes of one user share.  Both hold a   *)
(* refresh token that its issuer accepts once and replaces by the next:     *)
(* the delegated relayfile credentials, renewed by the command line client  *)
(* under a kernel lock and by the standalone mount under none, and the      *)
(* Cloud session (cloud-auth.json), rotated under a lock directory that     *)
(* Agent Relay's own commands use too.  A renewal that is rejected falls    *)
(* back to the Cloud session and has new credentials minted.                *)
(*                                                                         *)
(* A token stands for its bearer and its refresh token.  A step is one file *)
(* access or one request; a process may be killed between any two.          *)
(***************************************************************************)
EXTENDS Naturals

CONSTANTS
    Users,        \* processes
    NoUser,       \* nobody
    Programs,     \* what each runs: functions from Users to "cli" (renews and
                  \* falls back), "mount" (relayfile-mount), "cloud" (needs a
                  \* session), "logout"
    MaxTokens,    \* tokens issued
    MaxDeaths     \* processes killed

VARIABLES
    program,
    at,           \* user |-> where it is
    hand,         \* user |-> the token it read, or was answered with
    flock,        \* holder of the delegated credentials' lock
    lockDir,      \* the session's lock directory: [owner, old]
    file,         \* the token in the delegated credentials file
    relayAuth,    \* refresh tokens the authorization server accepts
    session,      \* the token in cloud-auth.json, 0 when there is none
    cloud,        \* refresh tokens Cloud accepts
    aged,         \* tokens within their renewal window
    issued,       \* tokens issued so far
    deaths,
    mishap,       \* ghost: an answer with a new token reached nobody
    revoked,      \* ghost: tokens given up by a logout
    reclaimed,    \* ghost: a lock directory was taken for a dead one's
    spent         \* ghost: tokens presented to Cloud after their replacement

(* Nobody is not a process; the bound is a number.                          *)
ASSUME CredentialBounds == NoUser \notin Users /\ MaxTokens \in Nat

credVars == <<program, at, hand, flock, lockDir, file, relayAuth, session, cloud, aged, issued,
              deaths, mishap, revoked, reclaimed, spent>>

NoDir == [owner |-> NoUser, old |-> FALSE]

CredInit ==
    /\ program \in Programs
    /\ at = [u \in Users |-> "start"] /\ hand = [u \in Users |-> 0]
    /\ flock = NoUser /\ lockDir = NoDir
    /\ file = 1 /\ relayAuth = {1}
    /\ session = 2 /\ cloud = {2}
    /\ aged \in SUBSET {1, 2} /\ issued = 2
    /\ deaths = 0 /\ mishap = FALSE /\ revoked = {} /\ reclaimed = FALSE /\ spent = {}

Goes(u, place) == at' = [at EXCEPT ![u] = place]
Holding(u, t, place) == Goes(u, place) /\ hand' = [hand EXCEPT ![u] = t]
NotRunning == {"done", "failed", "killed"}
NewToken == issued + 1
CanIssue == issued < MaxTokens

delegatedSame == UNCHANGED <<flock, file, relayAuth>>
sessionSame == UNCHANGED <<lockDir, session, cloud>>
ghostsSame == UNCHANGED <<mishap, revoked, reclaimed, spent>>

(* The kernel's lock goes with the process that has it.                     *)
Unflock(u) == flock' = IF flock = u THEN NoUser ELSE flock

--------------------------------------------------------------------------
(* The world: tokens age, a person signs in, a process dies, its lock       *)
(* directory gets old (a living holder is done before that: the request it   *)
(* waits for is given up after a third of the time).                        *)

Age(t) ==
    /\ t \in 1..issued \ aged
    /\ aged' = aged \cup {t}
    /\ UNCHANGED <<program, at, hand, issued, deaths>> /\ delegatedSame /\ sessionSame /\ ghostsSame

(* Another program's sign-in.                                               *)
SignIn ==
    /\ CanIssue
    /\ session' = NewToken /\ cloud' = cloud \cup {NewToken} /\ issued' = NewToken
    /\ UNCHANGED <<program, at, hand, lockDir, aged, deaths>> /\ delegatedSame /\ ghostsSame

Die(u) ==
    /\ deaths < MaxDeaths /\ at[u] \notin NotRunning \cup {"start"}
    /\ Goes(u, "killed") /\ Unflock(u) /\ deaths' = deaths + 1
    /\ mishap' = (mishap \/ at[u] \in {"save", "store"})
    /\ UNCHANGED <<program, hand, lockDir, file, relayAuth, session, cloud, aged, issued, revoked,
                   reclaimed, spent>>

LockAges ==
    /\ lockDir.owner # NoUser /\ at[lockDir.owner] = "killed" /\ ~lockDir.old
    /\ lockDir' = [lockDir EXCEPT !.old = TRUE]
    /\ UNCHANGED <<program, at, hand, session, cloud, aged, issued, deaths>> /\ delegatedSame /\ ghostsSame

--------------------------------------------------------------------------
(* The delegated credentials.                                               *)

(* refreshDelegatedCredentials: what is still good is used as it is, unless  *)
(* an authorization error forces a renewal.                                 *)
refreshDelegatedCredentials(u, force) ==
    /\ program[u] = "cli" /\ at[u] = "start"
    /\ IF ~force /\ file \notin aged THEN Goes(u, "done") /\ UNCHANGED hand
       ELSE Holding(u, file, IF force THEN "lockForced" ELSE "lock")
    /\ UNCHANGED <<program, aged, issued, deaths>> /\ delegatedSame /\ sessionSame /\ ghostsSame

withDelegatedCredentialsLock(u) ==
    /\ at[u] \in {"lock", "lockForced"} /\ flock = NoUser
    /\ flock' = u
    /\ Goes(u, IF at[u] = "lock" THEN "latest" ELSE "latestForced")
    /\ UNCHANGED <<program, hand, file, relayAuth, aged, issued, deaths>> /\ sessionSame /\ ghostsSame

(* Under the lock: another process may have renewed meanwhile.               *)
AdoptLatest(u) ==
    /\ at[u] \in {"latest", "latestForced"}
    /\ IF file \notin aged /\ (file # hand[u] \/ at[u] = "latest")
       THEN Goes(u, "done") /\ Unflock(u) ELSE Goes(u, "renew") /\ UNCHANGED flock
    /\ UNCHANGED <<program, hand, file, relayAuth, aged, issued, deaths>> /\ sessionSame /\ ghostsSame

(* relayfile-mount after a 401: a bearer that is not the refused one and not *)
(* expired is taken over, otherwise it renews (whichever it was).  No lock.  *)
installCredsFileRefresh(u) ==
    /\ program[u] = "mount" /\ at[u] = "start"
    /\ \E next \in {"renew", "done"} : Goes(u, next)
    /\ UNCHANGED <<program, hand, aged, issued, deaths>> /\ delegatedSame /\ sessionSame /\ ghostsSame

(* RenewFile reads the file itself.                                         *)
LoadForRenew(u) ==
    /\ at[u] = "renew"
    /\ Holding(u, file, "post")
    /\ UNCHANGED <<program, aged, issued, deaths>> /\ delegatedSame /\ sessionSame /\ ghostsSame

(* The refresh token of the old pair is kept with the new bearer.           *)
RenewedKeepingOld(u) == hand[u]

Renewed(u) == NewToken

(* Rejected, timed out or broken off: the client mints new credentials from  *)
(* the Cloud session, the mount reports the error.                          *)
RenewFails(u) ==
    /\ Goes(u, IF program[u] = "cli" THEN "session" ELSE "failed")
    /\ UNCHANGED <<hand, flock>>

(* One request: a token is accepted once; its answer may be lost.           *)
Renew(u) ==
    /\ at[u] = "post"
    /\ IF hand[u] \in relayAuth
       THEN /\ CanIssue
            /\ relayAuth' = (relayAuth \ {hand[u]}) \cup {NewToken} /\ issued' = NewToken
            /\ \/ Holding(u, Renewed(u), "save") /\ UNCHANGED <<mishap, flock>>
               \/ mishap' = TRUE /\ RenewFails(u)
       ELSE RenewFails(u) /\ UNCHANGED <<relayAuth, issued, mishap>>
    /\ UNCHANGED <<program, file, aged, deaths, revoked, reclaimed, spent>> /\ sessionSame

SaveAtomic(u) ==
    /\ at[u] = "save"
    /\ file' = hand[u]
    /\ Goes(u, "done") /\ Unflock(u)
    /\ UNCHANGED <<program, hand, relayAuth, aged, issued, deaths>> /\ sessionSame /\ ghostsSame

(* A refused mint leaves the file as it is.                                 *)
remintDelegatedCredentialsFromCloud(u) ==
    /\ at[u] = "mint"
    /\ \/ /\ CanIssue
          /\ relayAuth' = relayAuth \cup {NewToken} /\ issued' = NewToken
          /\ Holding(u, NewToken, "save") /\ UNCHANGED flock
       \/ Goes(u, "failed") /\ Unflock(u) /\ UNCHANGED <<hand, relayAuth, issued>>
    /\ UNCHANGED <<program, file, aged, deaths>> /\ sessionSame /\ ghostsSame

--------------------------------------------------------------------------
(* The Cloud session.                                                       *)

SessionReady(u) == IF program[u] = "cli" THEN Goes(u, "mint") /\ UNCHANGED flock ELSE Goes(u, "done") /\ UNCHANGED flock
SessionFails(u) == Goes(u, "failed") /\ Unflock(u)

(* ensureAgentRelayCloudSession, before the lock; a logout only asks whether *)
(* there is a file.                                                         *)
ensureAgentRelayCloudSession(u) ==
    /\ at[u] = "session" \/ (at[u] = "start" /\ program[u] \in {"cloud", "logout"})
    /\ IF session = 0 THEN SessionFails(u) /\ UNCHANGED hand
       ELSE IF program[u] # "logout" /\ session \notin aged THEN SessionReady(u) /\ UNCHANGED hand
       ELSE Holding(u, session, "mkdir") /\ UNCHANGED flock
    /\ UNCHANGED <<program, file, relayAuth, aged, issued, deaths>> /\ sessionSame /\ ghostsSame

(* acquireAgentRelayAuthLock: make the directory, look how old it is, remove *)
(* one that is too old, whoever made the one that is there by then.         *)
acquireAgentRelayAuthLock(u) ==
    /\ \/ /\ at[u] = "mkdir" /\ lockDir = NoDir
          /\ lockDir' = [owner |-> u, old |-> FALSE] /\ Goes(u, "reread")
          /\ UNCHANGED <<flock, reclaimed>>
       \/ /\ at[u] = "mkdir" /\ lockDir # NoDir
          /\ \/ Goes(u, "stat") /\ UNCHANGED flock
             \/ SessionFails(u)                    \* waited too long
          /\ UNCHANGED <<lockDir, reclaimed>>
       \/ /\ at[u] = "stat"
          /\ Goes(u, IF lockDir.old THEN "reclaim" ELSE "mkdir")
          /\ UNCHANGED <<flock, lockDir, reclaimed>>
       \/ /\ at[u] = "reclaim"
          /\ lockDir' = NoDir /\ reclaimed' = TRUE /\ Goes(u, "mkdir")
          /\ UNCHANGED flock
    /\ UNCHANGED <<program, hand, file, relayAuth, session, cloud, aged, issued, deaths, mishap,
                   revoked, spent>>

(* What was read before the lock is presented.                              *)
AuthoritativeBeforeLock(u) == hand[u]

(* The file as it is now, unless it is gone.                                *)
Authoritative(u) == IF session # 0 THEN session ELSE hand[u]

(* Under the lock the file is read again and adopted.                       *)
RereadSession(u) ==
    /\ at[u] = "reread"
    /\ IF program[u] = "logout"
       THEN /\ IF session = 0 THEN SessionFails(u) /\ lockDir' = NoDir /\ UNCHANGED hand
               ELSE Holding(u, session, "revoke") /\ UNCHANGED <<flock, lockDir>>
       ELSE IF session # 0 /\ session \notin aged
       THEN SessionReady(u) /\ lockDir' = NoDir /\ UNCHANGED hand
       ELSE Holding(u, Authoritative(u), "refresh") /\ UNCHANGED <<flock, lockDir>>
    /\ UNCHANGED <<program, file, relayAuth, session, cloud, aged, issued, deaths>> /\ ghostsSame

refreshAgentRelayStoredAuth(u) ==
    /\ at[u] = "refresh"
    /\ IF hand[u] \in cloud
       THEN /\ CanIssue
            /\ cloud' = (cloud \ {hand[u]}) \cup {NewToken} /\ issued' = NewToken
            /\ \/ Holding(u, NewToken, "store") /\ UNCHANGED <<flock, lockDir, mishap>>
               \/ mishap' = TRUE /\ SessionFails(u) /\ lockDir' = NoDir /\ UNCHANGED hand
            /\ UNCHANGED spent
       ELSE /\ SessionFails(u) /\ lockDir' = NoDir
            /\ spent' = spent \cup {hand[u]}
            /\ UNCHANGED <<hand, cloud, issued, mishap>>
    /\ UNCHANGED <<program, file, relayAuth, session, aged, deaths, revoked, reclaimed>>

writeAgentRelayStoredAuthFile(u) ==
    /\ at[u] = "store"
    /\ session' = hand[u] /\ lockDir' = NoDir
    /\ SessionReady(u)
    /\ UNCHANGED <<program, hand, file, relayAuth, cloud, aged, issued, deaths>> /\ ghostsSame

(* Logout: revoked first, removed when that has been answered.              *)
revokeSession(u) ==
    /\ at[u] = "revoke"
    /\ \/ cloud' = cloud \ {hand[u]} /\ revoked' = revoked \cup {hand[u]} /\ Goes(u, "remove") /\ UNCHANGED lockDir
       \/ Goes(u, "failed") /\ lockDir' = NoDir /\ UNCHANGED <<cloud, revoked>>
    /\ UNCHANGED <<program, hand, session, aged, issued, deaths, mishap, reclaimed, spent>> /\ delegatedSame

removeSession(u) ==
    /\ at[u] = "remove"
    /\ session' = 0 /\ lockDir' = NoDir
    /\ Goes(u, "done")
    /\ UNCHANGED <<program, hand, cloud, aged, issued, deaths>> /\ delegatedSame /\ ghostsSame

CredNext ==
    \/ \E t \in 1..MaxTokens : Age(t)
    \/ SignIn \/ LockAges
    \/ \E u \in Users :
        \/ Die(u)
        \/ \E force \in BOOLEAN : refreshDelegatedCredentials(u, force)
        \/ withDelegatedCredentialsLock(u) \/ AdoptLatest(u) \/ installCredsFileRefresh(u)
        \/ LoadForRenew(u) \/ Renew(u) \/ SaveAtomic(u) \/ remintDelegatedCredentialsFromCloud(u)
        \/ ensureAgentRelayCloudSession(u) \/ acquireAgentRelayAuthLock(u) \/ RereadSession(u)
        \/ refreshAgentRelayStoredAuth(u) \/ writeAgentRelayStoredAuthFile(u)
        \/ revokeSession(u) \/ removeSession(u)

--------------------------------------------------------------------------
(* No rotation is thrown away: while no answer was lost, a process that has  *)
(* ended or is idle leaves a delegated token in the file that the server     *)
(* still accepts, though the mount renews it without the client's lock.     *)
RotationKept ==
    ~mishap => file \in relayAuth \/ \E u \in Users : at[u] = "save" /\ hand[u] \in relayAuth

(* Cloud is never shown a token that was already replaced: a "needs sign-in" *)
(* answer means an answer was lost, a logout, or a lock that was reclaimed.  *)
SessionNeverSpent == spent # {} => mishap \/ reclaimed \/ revoked # {}

(* "cannot interleave on the same file": also when a lock was reclaimed.     *)
SessionRefreshesSerial == spent # {} => mishap \/ revoked # {}
=============================================================================
