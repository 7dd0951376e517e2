------------------------------ MODULE Server ------------------------------
(***************************************************************************)
(* The request side of the server: the gate that every request passes, the  *)
(* file handlers, the merge endpoint and the tarball imports.  They share   *)
(* no state but the store's files, of which every part follows its own, so  *)
(* that a behaviour exercises one of them while the others rest.            *)
(***************************************************************************)
EXTENDS MergeFile, ApiGate, HttpApi, GithubImport

CONSTANTS
    Parts,   \* the parts that are exercised
    Texts    \* the inputs of the line merge by itself

VARIABLE part

vars == <<part, mergeVars, gateVars, apiVars, importVars>>

MergeRests ==
    /\ situation = NoFile /\ live = NoFile /\ ledger = <<>> /\ mergeOps = {}
    /\ editor = <<>> /\ handler = <<>> /\ applied = {}

GateRests ==
    /\ clock = 0 /\ published = {} /\ lastServed = <<>> /\ jwks = NoEntry
    /\ call = [r \in Callers |-> Over] /\ limiter = NoEntry

ApiRests ==
    /\ plan = [op |-> "none"] /\ files = <<>> /\ log = <<>> /\ changes = 0
    /\ client = [cursor |-> 0, got |-> <<>>, steady |-> {}, status |-> "rests"]
    /\ req = NoReq /\ effects = {}

NoInput == <<<<>>, <<>>, <<>>>>

Init ==
    /\ part \in Parts
    /\ IF part = "merge" THEN MergeInit ELSE MergeRests
    /\ IF part = "lines" THEN input \in Texts \X Texts \X Texts ELSE input = NoInput
    /\ IF part = "gate" THEN GateInit ELSE GateRests
    /\ IF part = "files" THEN ApiInit ELSE ApiRests
    /\ ImportInit

Next ==
    \/ part = "merge" /\ MergeNext /\ UNCHANGED <<part, gateVars, apiVars, importVars>>
    \/ part = "gate" /\ GateNext /\ UNCHANGED <<part, mergeVars, apiVars, importVars>>
    \/ part = "files" /\ ApiNext /\ UNCHANGED <<part, mergeVars, gateVars, importVars>>
    \/ part = "import" /\ ImportNext /\ UNCHANGED <<part, mergeVars, gateVars, apiVars>>

Spec == Init /\ [][Next]_vars
=============================================================================
