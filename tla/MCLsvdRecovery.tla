---------------------------- MODULE MCLsvdRecovery ----------------------------
(* Model-checking instance of LsvdRecovery: one LBA, no reader.           *)
EXTENDS LsvdRecovery, TLC

CONSTANTS v1, v2

MCLBAs1 == {0}
MCValues == {v1, v2}
MCNoReaders == {}

\* Block contents are interchangeable: no property names one.
MCSymmetry == Permutations(MCValues)
=============================================================================
