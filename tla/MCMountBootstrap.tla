---- MODULE MCMountBootstrap ----
EXTENDS MountBootstrap

(* Two files and a directory with a third one.                                *)
Tree3 == 10 :> <<1, 2, 11>> @@ 11 :> <<3>>

Plain ==
    [budget |-> 0, chunk |-> 2, dirs |-> 9, stalls |-> 2, socket |-> FALSE,
     export |-> FALSE, denied |-> {}, writes |-> 0, deletes |-> 0, faults |-> 0,
     degraded |-> 0, crashes |-> 0, raises |-> 0]

Scenarios ==
    {[Plain EXCEPT !.budget = 2, !.chunk = 1, !.faults = 1, !.crashes = 1],
     [Plain EXCEPT !.chunk = 1, !.writes = 2, !.crashes = 1],
     [Plain EXCEPT !.writes = 1, !.deletes = 1, !.faults = 1],
     [Plain EXCEPT !.dirs = 1, !.crashes = 1, !.raises = 1],
     [Plain EXCEPT !.denied = {1, 2, 3}, !.crashes = 1, !.raises = 1],
     [Plain EXCEPT !.denied = {1}, !.writes = 1, !.faults = 1],
     [Plain EXCEPT !.socket = TRUE, !.writes = 1, !.deletes = 1],
     [Plain EXCEPT !.writes = 2, !.degraded = 2],
     [Plain EXCEPT !.writes = 2, !.deletes = 1],
     [Plain EXCEPT !.export = TRUE, !.writes = 1, !.faults = 1],
     [Plain EXCEPT !.faults = MaxBound]}

(* A server that loses a file while the first bootstrap is between two        *)
(* cycles in the middle of a page.                                            *)
Deleting == {[Plain EXCEPT !.budget = 1, !.deletes = 1]}
====
