------------------------ MODULE MCProviderProjection ------------------------
(* Instances of ProviderProjection for TLC. *)
EXTENDS ProviderProjection, TLC

CONSTANTS p1, p2, o1, o2

(* Both objects have the same name once it is made a file name; the second *)
(* path is free for either.                                                *)
OneName == [o \in Objects |-> <<p1, p2>>]

(* The objects' ids are told apart by nothing else. *)
ObjectSymmetry == Permutations({o1, o2})
=============================================================================
