--------------------------- MODULE MCSharedPointer ---------------------------
(* Instances of SharedPointer: the memory of outer has elements. *)
EXTENDS SharedPointer, TLC

CONSTANTS outer, inner1, inner2

MCPointee  == [c \in Counters |-> c]
MCDepth    == [c \in Counters |-> IF c = outer THEN 1 ELSE 0]
MCSymmetry == Permutations(Threads) \cup Permutations(Pointers) \cup Permutations({inner1, inner2})
=============================================================================
