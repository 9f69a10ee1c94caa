----------------------------- MODULE MCDatasets -----------------------------
(* Instances of Datasets for TLC.                                          *)
EXTENDS Datasets, TLC

CONSTANTS a1, a2, train, notrain, name, k1, k2

TwoAssets == {a1, a2}
BothPresets == {train, notrain}
OneName == {name}
OneSnap == {k1}
TwoSnaps == {k1, k2}

Symmetry == Permutations(Assets) \cup Permutations(Snaps)
=============================================================================
