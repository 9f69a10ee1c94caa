----------------------------- MODULE MCRequests -----------------------------
(* Instances of Requests for TLC.                                          *)
EXTENDS Requests, TLC

CONSTANTS lab, ann, w1, w2, p1, p2, q1, q2, i1, i2, i3, s1, s2

BothAccounts == {lab, ann}
OneLab == {lab}
OneWork == {w1}
TwoWorks == {w1, w2}
\* Both works are the creator's; alone, the one work is.
AnnsWorks == [a \in Assets |-> ann]
TwoPresets == {p1, p2}
OneRequest == {q1}
TwoRequests == {q1, q2}
TwoSubs == {i1, i2}
ThreeSubs == {i1, i2, i3}
TwoSessions == {s1, s2}
\* 15 has a tenth that is not a whole number; 2 is its rounded tenth.
SomeAmounts == {0, 2, 15}

Symmetry == Permutations(Subs) \cup Permutations(Sessions) \cup Permutations(Presets)
              \cup Permutations(Assets)
=============================================================================
