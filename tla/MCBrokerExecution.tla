-------------------------- MODULE MCBrokerExecution --------------------------
EXTENDS ExecutionRecord, TLC

CONSTANTS w1, w2

Symmetry == Permutations(Workers)
=============================================================================
