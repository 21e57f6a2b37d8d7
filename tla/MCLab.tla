------------------------------- MODULE MCLab -------------------------------
(* Lab with pools of at most two rows of at most two bytes, and two whose   *)
(* samples have 16 bytes: the shortest that reach the second block length   *)
(* of the block frequency test and the second pattern length of the serial  *)
(* test.                                                                    *)
EXTENDS Lab

Row(values, n) == [1..n -> values]

Ramp(n, first) == [i \in 1..n |-> (first + 37 * i) % 256]

MCValues == {54, 128, 165, 255}

MCPools ==
  {<<r>> : r \in UNION {Row(MCValues, n) : n \in 0..2}}
    \cup {<<r, s>> : r \in Row({}, 0) \cup Row({54, 165}, 1), s \in Row({54, 165}, 1)}
    \cup {<<Ramp(10, 0), Ramp(10, 99)>>, <<[i \in 1..17 |-> 255]>>}

MCSizes == {-1, 0, 1}

MCSuiteIds == {"structure", "entropy"}

=============================================================================
