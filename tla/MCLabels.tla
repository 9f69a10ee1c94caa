------------------------------ MODULE MCLabels ------------------------------
(* Instances of Labels for TLC.                                            *)
EXTENDS Labels, TLC

CONSTANTS genre, turns, p1, x1, x2, x3, x4, x5, c1, c2, w1, w2, b1, b2

OneKey == {genre}
TwoKeys == {genre, turns}
\* Every labeler writes the one key.
SameKey == [t \in Types |-> IF t = "text_pairwise_preference" THEN {} ELSE {genre}]
\* The structural labeler writes one key, the models the other.
OneKeyEach == [t \in Types |-> IF t = "trace_structural" THEN {turns}
                               ELSE IF t = "text_pairwise_preference" THEN {} ELSE {genre}]
OnePair == {p1}
NoPair == {}
ThreeJurors == {x1, x2, x3}
FourJurors == ThreeJurors \cup {x4}
FiveJurors == FourJurors \cup {x5}
\* One juror is of the family that wrote the candidates.
OneFromGpt == [x \in Jurors |-> IF x = x1 THEN "gpt" ELSE "other"]
FromGpt == [p \in Pairs |-> "gpt"]
\* For one candidate in both orders, for the other, for the one shown first, for none.
SomeAnswers == {<<"a", "b">>, <<"b", "a">>, <<"a", "a">>, <<"tie", "tie">>}
\* For the one candidate in both orders, or for the one shown first: of four
\* such votes three are just enough, of three two are not.
TwoAnswers == {<<"a", "b">>, <<"a", "a">>}
TwoCallers == {c1, c2}
OneCaller == {c1}
TwoWorkers == {w1, w2}
OneTab == {b1}
TwoTabs == {b1, b2}

Symmetry == Permutations(Callers) \cup Permutations(Workers) \cup Permutations(Tabs)
=============================================================================
