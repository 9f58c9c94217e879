--------------------------- MODULE MCCanaryTraffic ---------------------------
EXTENDS CanaryTraffic, TLC

MCWeights == <<50, 100>>
MCResponses == [error : {FALSE}, latency : {10, 30}] \cup {[error |-> TRUE, latency |-> 0]}
MCSlots == {20, 70}
MCSymmetry == Permutations(Connections)
=============================================================================
