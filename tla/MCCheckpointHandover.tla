---- MODULE MCCheckpointHandover ----
EXTENDS CheckpointHandover

Plain == [faults |-> 0, edits |-> 0, strays |-> 0, events |-> 0, delays |-> FALSE,
          stale |-> FALSE, contenders |-> {CHOOSE d \in Dests : TRUE}]

Scenarios ==
    {[Plain EXCEPT !.faults = 2],
     [Plain EXCEPT !.contenders = Dests],
     [Plain EXCEPT !.faults = 1, !.edits = 1],
     [Plain EXCEPT !.strays = 1, !.edits = 1],
     [Plain EXCEPT !.events = 1, !.edits = 1],
     [Plain EXCEPT !.faults = 1, !.delays = TRUE]}

(* An event between a handback's preparation and its commit.                  *)
Busy == {[Plain EXCEPT !.events = 1]}

(* A lifecycle that was given up is run again after a newer one.              *)
Stale == {[Plain EXCEPT !.faults = 1, !.stale = TRUE]}

(* A request for a seal that arrives after its retry.                         *)
Delayed == {[Plain EXCEPT !.faults = 1, !.delays = TRUE]}
====
