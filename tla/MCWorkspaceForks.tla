-------------------------- MODULE MCWorkspaceForks --------------------------
(* Two instances of WorkspaceForks that one run explores: the many writes   *)
(* of one fork over two paths, and the competition of two workspaces for    *)
(* proposals, with one path each.                                          *)
EXTENDS WorkspaceForks, TLC

CONSTANTS w1, w2, p1, p2, v1, f1, f2, q1, q2

VARIABLE scope   \* which of the two; never changes

Scopes ==
    {[workspaces |-> {w1}, paths |-> {p1, p2}, forks |-> {f1}, proposals |-> {q1},
      revs |-> 3, overlay |-> 2],
     [workspaces |-> {w1, w2}, paths |-> {p1}, forks |-> {f1, f2}, proposals |-> {q1, q2},
      revs |-> 1, overlay |-> 0]}

(* A commit in progress will take the revisions it still needs.             *)
RevisionsPlanned == revCounter + IF lock.kind = "commit" THEN Cardinality(lock.todo) ELSE 0

InScope ==
    /\ RevisionsPlanned <= scope.revs
    /\ \A w \in Workspaces, p \in Paths :
         files[w][p] # Absent => w \in scope.workspaces /\ p \in scope.paths
    /\ used \subseteq scope.forks
    /\ \A f \in LiveForks :
         /\ forks[f].ws \in scope.workspaces
         /\ forks[f].proposal \in scope.proposals
         /\ forks[f].counter <= scope.overlay
         /\ \A p \in Paths : Touched(f, p) => p \in scope.paths

MCInit == Init /\ scope \in Scopes
MCNext == UNCHANGED scope /\ Next /\ InScope'

(* Only calls that clients make are left out: what is fair goes on.         *)
MCSpec == MCInit /\ [][MCNext]_<<vars, scope>> /\ Fairness
=============================================================================
