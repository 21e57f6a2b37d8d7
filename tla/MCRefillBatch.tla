--------------------------- MODULE MCRefillBatch ---------------------------
(* RefillBatch with two workers: the smallest number for which one worker   *)
(* fails while another is still fetching and a job is on offer.             *)
EXTENDS RefillBatch

CONSTANTS w1, w2

MCWorkers == {w1, w2}

=============================================================================
