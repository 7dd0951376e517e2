---- MODULE CheckpointSeals ----
(****************************************************************************)
(* The checkpoint seals of internal/relayfile/checkpoint_seal.go: the       *)
(* server's record of who may write a workspace while its live session is   *)
(* moved from one host (the source) to another (the destination) and back.  *)
(*                                                                          *)
(*   issue     the stopped source's state is attested, a token is given out *)
(*   consume   the one destination that shows the token becomes the owner   *)
(*   handback  prepare, then commit: the destination gives ownership back   *)
(*   resume    the source, with the token, is the owner again               *)
(*                                                                          *)
(* Every operation runs under the store's mutex and is saved before it is   *)
(* answered, so each is a function of the record and of the workspace's     *)
(* state: an outcome [code, seal], where "ok" alone carries a new record.   *)
(* One workspace, its full root and one session; a seal is named by its     *)
(* generation, since a session is issued at most one seal for each.         *)
(****************************************************************************)
EXTENDS Integers, FiniteSets

CONSTANT NoOne

(* The content, as the set of edits in it, and the last event's id. The       *)
(* digest covers revisions, so that a state that was left never comes back.   *)
State(files, cursor) == [files |-> files, cursor |-> cursor]

NoSeal ==
    [issued |-> FALSE, token |-> 0, at |-> State({}, 0), expired |-> FALSE,
     consumer |-> NoOne, prepared |-> NoOne, back |-> State({}, 0),
     released |-> FALSE, resumed |-> "no"]

Refused(code, seal) == [code |-> code, seal |-> seal]
Done(seal) == [code |-> "ok", seal |-> seal]

(* checkpointOwnershipStatus.                                                 *)
Status(seal) ==
    IF seal.resumed # "no" THEN "source-resumed"
    ELSE IF seal.released THEN "released"
    ELSE IF seal.consumer # NoOne THEN "consumed" ELSE "unconsumed"

-----------------------------------------------------------------------------
(* IssueCheckpointSeal. The key of the request is made of the generation and  *)
(* the digest, so that the seal it finds is one issued for the same content:  *)
(* a retry gets the same seal and a token of its own, and the token of the    *)
(* answer that was lost opens nothing any more.                               *)
issueReplayed(seal, state) ==
    IF Status(seal) # "unconsumed" THEN Refused("replayed", seal)
    ELSE IF seal.expired THEN Refused("expired", seal)
    ELSE IF state # seal.at THEN Refused("stale", seal)
    ELSE Done([seal EXCEPT !.token = @ + 1])

(* A mutant: what the source sees need not be what the server has.            *)
issueCheckpointSealUnattested(seal, g, last, digest, state) ==
    IF seal.issued /\ seal.at.files = digest THEN issueReplayed(seal, state)
    ELSE IF g <= last THEN Refused("generation_stale", seal)
    ELSE Done([NoSeal EXCEPT !.issued = TRUE, !.token = 1, !.at = state])

issueCheckpointSeal(seal, g, last, digest, state) ==
    IF seal.issued /\ seal.at.files = digest THEN issueReplayed(seal, state)
    ELSE IF g <= last THEN Refused("generation_stale", seal)
    ELSE IF state.files # digest THEN Refused("diverged", seal)
    ELSE Done([NoSeal EXCEPT !.issued = TRUE, !.token = 1, !.at = state])

(* ConsumeCheckpointSeal by destination d, whose key may be bound to the seal *)
(* of another generation (0 is none).                                         *)
consumeCheckpointSeal(seal, g, token, d, bound, state) ==
    IF bound \notin {0, g} THEN Refused("consumer_conflict", seal)
    ELSE IF ~seal.issued \/ seal.token # token THEN Refused("not_found", seal)
    ELSE IF Status(seal) \in {"released", "source-resumed"} THEN Refused("replayed", seal)
    ELSE IF seal.consumer = d THEN Done(seal)
    ELSE IF seal.consumer # NoOne THEN Refused("replayed", seal)
    ELSE IF seal.expired THEN Refused("expired", seal)
    ELSE IF state # seal.at THEN Refused("stale", seal)
    ELSE Done([seal EXCEPT !.consumer = d])

(* RecoverConsumedCheckpointSeal: the receipt again, by the consumer's key.   *)
recoverConsumed(seal, g, d, bound) ==
    IF bound = 0 THEN Refused("not_found", seal)
    ELSE IF bound # g THEN Refused("consumer_conflict", seal)
    ELSE IF seal.consumer # d THEN Refused("not_found", seal)
    ELSE Done(seal)

(* VerifyConsumedCheckpointSeal: the seal still describes the workspace.      *)
verifyConsumed(seal, d, state) ==
    IF ~seal.issued THEN Refused("not_found", seal)
    ELSE IF seal.consumer = NoOne THEN Refused("unconsumed", seal)
    ELSE IF Status(seal) # "consumed" THEN Refused("replayed", seal)
    ELSE IF seal.consumer # d THEN Refused("consumer_conflict", seal)
    ELSE IF state # seal.at THEN Refused("stale", seal)
    ELSE Done(seal)

(* HandbackCheckpointSeal. What was prepared is tied to the handback's id and *)
(* to the state it was prepared for.                                          *)
handbackCheckpointSeal(seal, d, phase, h, digest, state) ==
    LET ours == seal.prepared = h /\ seal.back.files = digest
    IN IF ~seal.issued THEN Refused("not_found", seal)
       ELSE IF seal.consumer = NoOne THEN Refused("unconsumed", seal)
       ELSE IF seal.consumer # d THEN Refused("consumer_conflict", seal)
       ELSE IF seal.released
            THEN IF ours THEN Done(seal) ELSE Refused("handback_conflict", seal)
       ELSE IF seal.resumed # "no" THEN Refused("resume_conflict", seal)
       ELSE IF seal.prepared # NoOne
            THEN IF ~ours THEN Refused("handback_conflict", seal)
                 ELSE IF state # seal.back THEN Refused("diverged", seal)
                 ELSE Done([seal EXCEPT !.released = (phase = "commit")])
       ELSE IF phase = "commit" THEN Refused("handback_unprepared", seal)
       ELSE IF state.files # digest THEN Refused("diverged", seal)
       ELSE Done([seal EXCEPT !.prepared = h, !.back = state])

(* ResumeCheckpointSeal: the source's key is the lifecycle's, so that a       *)
(* second resume is the first one's retry; an administrator's is another's.   *)
(* The first mutant does not ask for a handback.                              *)
resumeCheckpointSealUngated(seal, token, state) ==
    IF ~seal.issued \/ seal.token # token THEN Refused("not_found", seal)
    ELSE IF seal.resumed = "source" THEN Done(seal)
    ELSE IF seal.resumed = "admin" THEN Refused("resume_conflict", seal)
    ELSE Done([seal EXCEPT !.back = IF seal.released THEN @ ELSE state,
                           !.released = TRUE, !.resumed = "source"])

(* A mutant: a resume is not recognised when it is repeated.                  *)
resumeCheckpointSealOnce(seal, token, state) ==
    IF ~seal.issued \/ seal.token # token THEN Refused("not_found", seal)
    ELSE IF seal.resumed # "no" THEN Refused("resume_conflict", seal)
    ELSE IF Status(seal) = "consumed" THEN Refused("handback_required", seal)
    ELSE Done([seal EXCEPT !.back = IF seal.released THEN @ ELSE state,
                           !.released = TRUE, !.resumed = "source"])

resumeCheckpointSeal(seal, token, state) ==
    IF ~seal.issued \/ seal.token # token THEN Refused("not_found", seal)
    ELSE IF seal.resumed = "source" THEN Done(seal)
    ELSE IF seal.resumed = "admin" THEN Refused("resume_conflict", seal)
    ELSE IF Status(seal) = "consumed" THEN Refused("handback_required", seal)
    ELSE Done([seal EXCEPT !.back = IF seal.released THEN @ ELSE state,
                           !.released = TRUE, !.resumed = "source"])

(* ReconcileCheckpointSealSource: an administrator vouches for the source.    *)
reconcileCheckpointSealSource(seal, expected) ==
    IF ~seal.issued THEN Refused("not_found", seal)
    ELSE IF seal.resumed = "admin" THEN Done(seal)
    ELSE IF seal.resumed = "source" THEN Refused("admin_conflict", seal)
    ELSE IF Status(seal) = "consumed" THEN Refused("handback_required", seal)
    ELSE IF Status(seal) # expected THEN Refused("admin_conflict", seal)
    ELSE Done([seal EXCEPT !.resumed = "admin"])
====
