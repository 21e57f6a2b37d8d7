---------------------------- MODULE MCQuantumApi ----------------------------
(* QuantumApi with four clients for two places at the device.              *)
EXTENDS QuantumApi

MCLengths == {2, 5}

=============================================================================
