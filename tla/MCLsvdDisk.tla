----------------------------- MODULE MCLsvdDisk -----------------------------
(* Model-checking instance of LsvdDisk: small volumes and value sets.      *)
EXTENDS LsvdDisk, TLC

CONSTANTS v1, v2, r1, r2

MCLBAs1 == {0}
MCLBAs2 == {0, 1}
MCValues == {v1, v2}
MCValues1 == {v1}
MCReaders1 == {r1}
MCReaders2 == {r1, r2}
MCNoReaders == {}

\* Block contents and readers are interchangeable: no property names one.
MCSymmetry == Permutations(MCValues)
=============================================================================
