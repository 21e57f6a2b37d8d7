--------------------------- MODULE MCKeyLifecycle ---------------------------
(* KeyLifecycle with three concurrent requests and two keys.               *)
EXTENDS KeyLifecycle

CONSTANTS r1, r2, r3, a1, a2

MCRequests == {r1, r2, r3}
MCAliases == {a1, a2}

=============================================================================
