--------------------------- MODULE MCEntropyStore ---------------------------
(* EntropyStore with three concurrent requests and five records.           *)
EXTENDS EntropyStore, TLC

CONSTANTS r1, r2, r3, x1, x2, x3, x4, x5

MCRequests == {r1, r2, r3}
MCRecords == {x1, x2, x3, x4, x5}
MCAmounts == {1, 2}

MCSymmetry == Permutations(MCRequests) \cup Permutations(MCRecords)

=============================================================================
