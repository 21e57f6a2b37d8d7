--------------------------- MODULE MCEntropyPool ---------------------------
(* EntropyPool with two concurrent requests.                               *)
EXTENDS EntropyPool

CONSTANTS c1, c2

MCClients == {c1, c2}

=============================================================================
