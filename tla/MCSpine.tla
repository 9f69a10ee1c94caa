------------------------------ MODULE MCSpine ------------------------------
EXTENDS Spine, TLC

CONSTANTS r1, r2, p1, p2

TwoRuns    == {r1, r2}
TwoPresets == {p1, p2}

\* Runs are interchangeable (safety runs only).
Symmetry == Permutations(Runs)
=============================================================================
