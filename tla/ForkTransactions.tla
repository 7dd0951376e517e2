-------------------------- MODULE ForkTransactions --------------------------
(***************************************************************************)
(* What the workspace store promises to the authors of forks: a fork is an *)
(* optimistic transaction on the tree.  It remembers, for every path it    *)
(* touches, the file its author was looking at, and it either commits all  *)
(* of its edits in one step over exactly those files, or it goes away      *)
(* without a trace.  There are no revisions, indexes, timers, locks or     *)
(* crashes here.                                                           *)
(***************************************************************************)
EXTENDS Integers

CONSTANTS Workspaces, Paths, ForkIds, Absent, NoEntry, NoFork, Committed

VARIABLES
    tree,   \* per workspace and path, the file or Absent
    txns    \* open transactions: [ws, edits], an edit being [new, seen]

vars == <<tree, txns>>

Init ==
    /\ tree = [w \in Workspaces |-> [p \in Paths |-> Absent]]
    /\ txns = [f \in ForkIds |-> NoFork]

(* A client or a provider changes some paths of one workspace. *)
LiveWrite ==
    /\ \E w \in Workspaces : \A v \in Workspaces \ {w} : tree'[v] = tree[v]
    /\ UNCHANGED txns

(* A transaction opens, untouched; others that are overdue may go with it. *)
Begin ==
    /\ \E f \in ForkIds, S \in SUBSET ForkIds, w \in Workspaces :
         /\ txns[f] = NoFork
         /\ txns' = [g \in ForkIds |->
              IF g = f THEN [ws |-> w, edits |-> [p \in Paths |-> NoEntry]]
              ELSE IF g \in S /\ txns[g] # Committed THEN NoFork ELSE txns[g]]
    /\ UNCHANGED tree

(* An edit keeps what the author saw first, or is made over the tree as it *)
(* is now.  Several paths may be edited at once.                           *)
Edited(f, p, e) ==
    \/ e = txns[f].edits[p]
    \/ /\ e # NoEntry
       /\ \/ e.seen = tree[txns[f].ws][p]
          \/ txns[f].edits[p] # NoEntry /\ e.seen = txns[f].edits[p].seen

Edit ==
    /\ \E f \in ForkIds :
         /\ txns[f] \notin {NoFork, Committed}
         /\ txns'[f] \notin {NoFork, Committed}
         /\ txns'[f].ws = txns[f].ws
         /\ \A p \in Paths : Edited(f, p, txns'[f].edits[p])
         /\ txns' = [txns EXCEPT ![f] = txns'[f]]
    /\ UNCHANGED tree

Abort ==
    /\ \E S \in SUBSET ForkIds :
         txns' = [g \in ForkIds |-> 
           IF g \in S /\ txns[g] # Committed THEN NoFork ELSE txns[g]]
    /\ UNCHANGED tree

Commit ==
    \E f \in ForkIds :
      /\ txns[f] \notin {NoFork, Committed}
      /\ LET w     == txns[f].ws
             edits == txns[f].edits
         IN  /\ \A p \in Paths :
                  edits[p] # NoEntry => tree[w][p] = edits[p].seen
             /\ \A v \in Workspaces \ {w} : tree'[v] = tree[v]
             /\ \A p \in Paths :
                  IF edits[p] = NoEntry THEN tree'[w][p] = tree[w][p]
                  ELSE IF edits[p].new = Absent THEN tree'[w][p] = Absent
                  ELSE /\ tree'[w][p] # Absent
                       /\ tree'[w][p].content = edits[p].new
      /\ txns' = [txns EXCEPT ![f] = Committed]

Next == LiveWrite \/ Begin \/ Edit \/ Abort \/ Commit

Spec == Init /\ [][Next]_vars
=============================================================================
