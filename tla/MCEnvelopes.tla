---------------------------- MODULE MCEnvelopes -----------------------------
(* Instances of Envelopes for TLC: deliveries are numbered by ReceivedAt.   *)
EXTENDS Envelopes, TLC

OneObject == [d \in Deliveries |-> CHOOSE o \in Objects : TRUE]
ByNumber  == [d \in Deliveries |-> d]

WorkerSymmetry == Permutations(Workers)
=============================================================================
