---- MODULE MCMountSync ----
EXTENDS MountSync

(* A mount with a watcher and one that scans: one save by the agent against   *)
(* one change by another client.                                              *)
Watching ==
    [poll |-> FALSE, canWrite |-> TRUE, granted |-> TRUE, merges |-> FALSE,
     refused |-> {}, edits |-> 1, writes |-> 1, faults |-> 0, gaps |-> 0,
     crashes |-> 0]
Polling == [Watching EXCEPT !.poll = TRUE]

(* Lost requests, merges, bodies the schema refuses, mounts that may not      *)
(* write by the server's ACL or by the token's scopes, reconcile events and   *)
(* expired cursors, crashes, and an agent that saves twice.                   *)
Scenarios ==
    {[Watching EXCEPT !.faults = 1],
     [Watching EXCEPT !.merges = TRUE],
     [Watching EXCEPT !.refused = {{1}}],
     [Watching EXCEPT !.granted = FALSE],
     [Watching EXCEPT !.canWrite = FALSE],
     [Watching EXCEPT !.gaps = 1, !.crashes = 1, !.writes = 0],
     [Watching EXCEPT !.gaps = 1, !.crashes = 1, !.edits = 0],
     [Watching EXCEPT !.edits = 2, !.writes = 0],
     [Polling EXCEPT !.faults = 1],
     [Polling EXCEPT !.canWrite = FALSE],
     [Polling EXCEPT !.granted = FALSE],
     [Polling EXCEPT !.crashes = 1]}

(* A crash of a mount whose agent has saved while another client wrote.       *)
Crashing == {[Watching EXCEPT !.crashes = 1]}

(* Three changes that a pull takes before the socket does, after which the    *)
(* agent puts the newest body or the one before it back.                      *)
Behind == {[Watching EXCEPT !.writes = 3]}

Trailing ==
    /\ cursor >= ws.pos
    /\ edits = 1 => writes = 3 /\ lastEdit \in {{103}, {104}}
    /\ \A i \in DOMAIN history : history[i].body # Absent
    /\ \A c \in DOMAIN ops : ops[c].status \notin {"succeeded", "failed"}
====
