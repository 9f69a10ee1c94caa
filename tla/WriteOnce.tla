------------------------------ MODULE WriteOnce ------------------------------
(***************************************************************************)
(* What the audit provider promises its callers: each slot of a record --- *)
(* its registration and every update number --- takes the first document   *)
(* offered and keeps it; a caller is told "held" only of the document the  *)
(* slot has, and "taken" only when it has another one.                     *)
(***************************************************************************)
CONSTANTS Calls, Slots, Documents

VARIABLES
  slot,      \* slot[s]: what slot s has taken, one document at most
  verdict    \* verdict[k]: what call k was told, of which slot and document

vars == <<slot, verdict>>

Init == slot = [s \in Slots |-> {}] /\ verdict = [k \in Calls |-> {}]

Take(s, d) ==
  /\ slot[s] = {}
  /\ slot' = [slot EXCEPT ![s] = {d}]
  /\ UNCHANGED verdict

Tell(k, s, d) ==
  /\ verdict[k] = {}
  /\ slot[s] # {}
  /\ verdict' = [verdict EXCEPT ![k] = {<<s, d, IF slot[s] = {d} THEN "held" ELSE "taken">>}]
  /\ UNCHANGED slot

Next == \E s \in Slots, d \in Documents : Take(s, d) \/ \E k \in Calls : Tell(k, s, d)

Spec == Init /\ [][Next]_vars

=============================================================================
