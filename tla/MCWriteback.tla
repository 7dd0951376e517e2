---------------------------- MODULE MCWriteback -----------------------------
(* Instances of Writeback for TLC. *)
EXTENDS Writeback, TLC

(* The workers run the same code. *)
WorkerSymmetry == Permutations(Workers)

Setup(batchMax, maxAttempts, ackOps, maxReplays, maxCrashes) ==
    [batchMax |-> batchMax, maxAttempts |-> maxAttempts, ackOps |-> ackOps,
     maxReplays |-> maxReplays, maxCrashes |-> maxCrashes]

(* Calls that fail, are retried and replayed.                              *)
Retried == {Setup(1, 2, {}, 1, 1)}

(* The same, and with somebody who acknowledges; and the no-op provider,    *)
(* whose workers drain the queue in bursts, over two restarts.              *)
Shared == Retried \cup {Setup(1, 2, {1}, 0, 1), Setup(1, 1, {1}, 1, 1), Setup(2, 1, {1}, 0, 2)}

(* The consumer of the external mode acknowledges everything.               *)
Consumed == {Setup(1, 2, OpIds, 0, 0)}
=============================================================================
