---------------------------- MODULE MCConnection ----------------------------
(* Connection with two publishers and one Close.                           *)
EXTENDS Connection

CONSTANTS p1, p2, k1, s1, s2, s3, ch1, ch2, ch3, ch4

MCCallers == {p1, p2}
MCClosers == {k1}
MCSessions == {s1, s2, s3}
MCChannels == {ch1, ch2, ch3, ch4}

=============================================================================
