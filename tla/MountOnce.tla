----------------------------- MODULE MountOnce -----------------------------
(***************************************************************************)
(* `relayfile-mount --once`: the scopes of one mount are bootstrapped in    *)
(* parallel, each by cycles that yield at a deadline and resume from a      *)
(* checkpoint, and the process reports the lot in one exit code: 0 done,    *)
(* 75 run me again, 1 failed.  What a cycle does inside is MountBootstrap;  *)
(* here it is how far it got, what it left in the two state files (the      *)
(* public one others read, the private one that is authoritative) and how   *)
(* it ended.                                                                *)
(***************************************************************************)
EXTENDS Naturals

CONSTANTS
    MountScopes,     \* the remote paths of the mount
    MaxCheckpoint,   \* the checkpoints a bootstrap may leave
    StableLimit,     \* onceBootstrapStableCycleLimit
    MaxResumes       \* maxOnceBootstrapResumeCycles

VARIABLES
    forceFull,    \* --full-reconcile
    public,       \* scope |-> [block, reconciled]: the bootstrap block's checkpoint or 0
    complete,     \* scope |-> the private state says the bootstrap is complete
    runner,       \* scope |-> [at, prior, last, checkpoint, stable, resumes]
    result,       \* scope |-> "", "ok", "resumable", "fatal", not yet collected or collected
    collected,    \* scopes whose result the parent has seen
    cancelled,    \* the runners' context has ended
    signalled,    \* the process was told to stop
    unmarked      \* ghost: scopes whose last cycle yielded before any checkpoint

(* The bounds are numbers.                                                  *)
ASSUME OnceBounds == MaxCheckpoint \in Nat /\ StableLimit \in Nat /\ MaxResumes \in Nat

onceVars == <<forceFull, public, complete, runner, result, collected, cancelled, signalled, unmarked>>

(* What an earlier run may have left: nothing, a checkpoint, a complete      *)
(* mirror, one whose mode has changed since, or files without a record.     *)
Shapes == [block : {0}, reconciled : {FALSE}, complete : {FALSE}]
            \cup [block : {1}, reconciled : {FALSE}, complete : {FALSE}]
            \cup [block : {0}, reconciled : {TRUE}, complete : BOOLEAN]

OnceInit ==
    /\ forceFull \in BOOLEAN
    /\ \E shape \in [MountScopes -> Shapes] :
        /\ public = [s \in MountScopes |-> [block |-> shape[s].block, reconciled |-> shape[s].reconciled]]
        /\ complete = [s \in MountScopes |-> shape[s].complete]
    /\ runner = [s \in MountScopes |-> [at |-> "splay", prior |-> FALSE, last |-> "none",
                                        checkpoint |-> 0, stable |-> 0, resumes |-> 0]]
    /\ result = [s \in MountScopes |-> ""]
    /\ collected = {} /\ cancelled = FALSE /\ signalled = FALSE /\ unmarked = {}

InProgress(s) == public[s].block # 0
Ended(s) == result[s] # ""

--------------------------------------------------------------------------
(* One scope.                                                               *)

(* bootstrapAlreadyComplete is asked before anything has run.               *)
waitStartupSplay(s) ==
    /\ runner[s].at = "splay" /\ ~Ended(s)
    /\ IF cancelled
       THEN result' = [result EXCEPT ![s] = "fatal"] /\ UNCHANGED runner
       ELSE /\ runner' = [runner EXCEPT ![s].at = "cycle",
                                        ![s].prior = ~InProgress(s) /\ public[s].reconciled]
            /\ UNCHANGED result
    /\ UNCHANGED <<forceFull, public, complete, collected, cancelled, signalled, unmarked>>

(* How a cycle's error is kept (run): a terminal one is returned, a deadline *)
(* while a bootstrap is under way and a busy server are yields.             *)
CycleOutcome(s, err, block, done) ==
    IF err = "deadline" /\ (block # 0 \/ (~done /\ ~cancelled)) THEN "yield"
    ELSE IF err \in {"deadline", "cancelled"} THEN "fail" ELSE err

(* The checkpoint and the completion a cycle may leave, and its error.      *)
CycleResults(s) ==
    [block : {0}, done : {TRUE}, err : {"none"}] \cup
    (IF complete[s] THEN [block : {0}, done : {TRUE}, err : {"deadline", "busy", "fail"}]
     ELSE [block : {public[s].block, public[s].block + 1} \cap 1..MaxCheckpoint, done : {FALSE},
           err : {"none", "deadline", "busy", "fail", "terminal"}]
          \cup [block : {public[s].block}, done : {FALSE}, err : {"deadline", "busy", "fail"}])

reconcileCycle(s) ==
    /\ runner[s].at = "cycle"
    /\ \E r \in CycleResults(s) :
        LET err == IF cancelled /\ r.err # "none" THEN "cancelled" ELSE r.err
            outcome == CycleOutcome(s, err, r.block, r.done) IN
        /\ public' = [public EXCEPT ![s] = [block |-> r.block, reconciled |-> @.reconciled \/ err = "none"]]
        /\ complete' = [complete EXCEPT ![s] = r.done]
        /\ runner' = [runner EXCEPT ![s].at = "judge", ![s].last = outcome,
                                    ![s].prior = @ /\ r.done,
                                    ![s].checkpoint = IF runner[s].resumes = 0 THEN r.block ELSE @]
        /\ unmarked' = IF outcome = "yield" /\ r.block = 0 THEN unmarked \cup {s} ELSE unmarked \ {s}
    /\ UNCHANGED <<forceFull, result, collected, cancelled, signalled>>

(* A busy server is forgiven like a deadline.                               *)
JudgeUnstartedLenient(s) ==
    IF runner[s].prior /\ ~forceFull THEN "ok"
    ELSE CASE runner[s].last = "none" -> "ok"
           [] runner[s].last \in {"yield", "busy"} /\ cancelled -> "resumable"
           [] runner[s].last \in {"yield", "busy"} /\ ~cancelled -> "ok"
           [] OTHER -> "fatal"

(* No checkpoint in the public state after the first cycle.                 *)
JudgeUnstarted(s) ==
    IF runner[s].prior /\ ~forceFull THEN "ok"
    ELSE CASE runner[s].last = "none" -> "ok"
           [] runner[s].last = "yield" -> IF cancelled THEN "resumable" ELSE "ok"
           [] runner[s].last = "busy" -> "resumable"
           [] OTHER -> "fatal"

(* A checkpoint after a cycle: "" goes on.                                  *)
JudgeStarted(s) ==
    LET first == runner[s].resumes = 0
        stuck == ~first /\ public[s].block = runner[s].checkpoint IN
    IF cancelled THEN "resumable"
    ELSE IF runner[s].last = "fail" THEN "fatal"
    ELSE IF (stuck /\ runner[s].stable + 1 >= StableLimit) \/ runner[s].resumes >= MaxResumes THEN "resumable"
    ELSE ""

(* One more cycle; a checkpoint that has not moved is counted.              *)
Resumed(run, block) ==
    [run EXCEPT !.at = "cycle", !.resumes = @ + 1, !.checkpoint = block,
                !.stable = IF block = run.checkpoint /\ run.resumes > 0 THEN @ + 1 ELSE 0]

(* finishInitialBootstrap, after each cycle; the state on disk outranks a    *)
(* cancellation and an error.                                               *)
finishInitialBootstrap(s) ==
    /\ runner[s].at = "judge" /\ ~Ended(s)
    /\ LET first == runner[s].resumes = 0
           verdict == IF ~InProgress(s) /\ ~first THEN "ok"
                      ELSE IF runner[s].last = "terminal" THEN "fatal"
                      ELSE IF InProgress(s) THEN JudgeStarted(s) ELSE JudgeUnstarted(s) IN
       /\ result' = [result EXCEPT ![s] = verdict]
       /\ runner' = [runner EXCEPT ![s] = IF verdict # "" THEN [@ EXCEPT !.at = "over"]
                                          ELSE Resumed(@, public[s].block)]
    /\ UNCHANGED <<forceFull, public, complete, collected, cancelled, signalled, unmarked>>

--------------------------------------------------------------------------
(* The parent.                                                              *)

(* Every error but a resumable one ends the siblings too.                   *)
Cancels(s) == result[s] = "fatal"

runScopedPollingMountsWithRunner(s) ==
    /\ Ended(s) /\ s \notin collected
    /\ collected' = collected \cup {s}
    /\ cancelled' = (cancelled \/ Cancels(s))
    /\ UNCHANGED <<forceFull, public, complete, runner, result, signalled, unmarked>>

(* SIGINT, SIGTERM.                                                         *)
Signal ==
    /\ ~signalled
    /\ signalled' = TRUE /\ cancelled' = TRUE
    /\ UNCHANGED <<forceFull, public, complete, runner, result, collected, unmarked>>

OnceNext ==
    \/ \E s \in MountScopes : \/ waitStartupSplay(s) \/ reconcileCycle(s) \/ finishInitialBootstrap(s)
                              \/ runScopedPollingMountsWithRunner(s)
    \/ Signal

(* One resumable branch is enough.                                          *)
onlyInitialBootstrapIncompleteAny ==
    \E s \in MountScopes : result[s] = "resumable"

onlyInitialBootstrapIncomplete ==
    \A s \in MountScopes : result[s] \in {"ok", "resumable"}

mountProcessExitCode ==
    IF \A s \in MountScopes : result[s] = "ok" THEN 0
    ELSE IF onlyInitialBootstrapIncomplete THEN 75 ELSE 1

--------------------------------------------------------------------------
Exited == collected = MountScopes

(* The exit code tells the truth about every scope: 0 means complete mirrors *)
(* (except after a deadline that left no checkpoint), 75 that running again  *)
(* is all it takes, and a failure that no stop explains is never reported as *)
(* either.                                                                  *)
ExitCodeTruthful ==
    Exited =>
      /\ mountProcessExitCode = 0 => \A s \in MountScopes : complete[s] \/ s \in unmarked
      /\ mountProcessExitCode = 75 =>
           \A s \in MountScopes : complete[s] \/ runner[s].last \in {"none", "yield", "busy"} \/ signalled

(* "Every incomplete exit returns a typed error so --once cannot report      *)
(* success while the persisted checkpoint still requires work."             *)
OnceHonest == Exited /\ mountProcessExitCode = 0 => \A s \in MountScopes : complete[s]
=============================================================================
