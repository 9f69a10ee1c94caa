------------------------------- MODULE Answer -------------------------------
(***************************************************************************)
(* What a data request promises for each work: it is answered at most once *)
(* at a time, an answer may be taken back until it is decided, and a       *)
(* decision is final.                                                      *)
(***************************************************************************)
CONSTANT Pairs        \* (request, asset)

VARIABLE answer       \* answer[p]: the statuses of the submissions of p

Init == answer = [p \in Pairs |-> {}]

Submit(p) == answer[p] = {} /\ answer' = [answer EXCEPT ![p] = {"pending"}]

Retract(p) == answer[p] = {"pending"} /\ answer' = [answer EXCEPT ![p] = {}]

Decide(p) ==
  /\ answer[p] = {"pending"}
  /\ \E d \in {"accepted", "rejected"} : answer' = [answer EXCEPT ![p] = {d}]

Next == \E p \in Pairs : Submit(p) \/ Retract(p) \/ Decide(p)

Spec == Init /\ [][Next]_answer
=============================================================================
