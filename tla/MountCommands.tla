--------------------------- MODULE MountCommands ---------------------------
(***************************************************************************)
(* The commands around a mirror: who may supervise it, the daemon's loop,   *)
(* the credentials it shares with other commands, the one-shot mount, the   *)
(* catalog of workspaces and the FUSE mount.  They meet in files of which   *)
(* every part follows its own, so that a behaviour exercises one part while *)
(* the others rest.                                                         *)
(***************************************************************************)
EXTENDS MountSupervisors, MountLoop, Credentials, MountOnce, WorkspaceCatalog, FuseMount

CONSTANT Parts   \* the parts that are exercised

VARIABLE part

vars == <<part, superVars, loopVars, credVars, onceVars, catVars, fuseVars>>

SuperRests == SuperInit /\ role = CHOOSE r \in Situations : TRUE
LoopRests == LoopInit /\ edited = {} /\ watcher = "off"
CredRests == CredInit /\ program = (CHOOSE p \in Programs : TRUE) /\ aged = {}
OnceRests == OnceInit /\ ~forceFull /\ \A s \in MountScopes : complete[s]
CatRests == CatInit /\ \A v \in ViewDirs : links[v] = "none"
FuseRests == FuseInit /\ uses = CHOOSE u \in Uses : TRUE

Init ==
    /\ part \in Parts
    /\ IF part = "supervisors" THEN SuperInit ELSE SuperRests
    /\ IF part = "loop" THEN LoopInit ELSE LoopRests
    /\ IF part = "credentials" THEN CredInit ELSE CredRests
    /\ IF part = "once" THEN OnceInit ELSE OnceRests
    /\ IF part = "catalog" THEN CatInit ELSE CatRests
    /\ IF part = "fuse" THEN FuseInit ELSE FuseRests

Next ==
    \/ part = "supervisors" /\ SuperNext /\ UNCHANGED <<part, loopVars, credVars, onceVars, catVars, fuseVars>>
    \/ part = "loop" /\ LoopNext /\ UNCHANGED <<part, superVars, credVars, onceVars, catVars, fuseVars>>
    \/ part = "credentials" /\ CredNext /\ UNCHANGED <<part, superVars, loopVars, onceVars, catVars, fuseVars>>
    \/ part = "once" /\ OnceNext /\ UNCHANGED <<part, superVars, loopVars, credVars, catVars, fuseVars>>
    \/ part = "catalog" /\ CatNext /\ UNCHANGED <<part, superVars, loopVars, credVars, onceVars, fuseVars>>
    \/ part = "fuse" /\ FuseNext /\ UNCHANGED <<part, superVars, loopVars, credVars, onceVars, catVars>>

Spec == Init /\ [][Next]_vars
=============================================================================
