------------------------------- MODULE Ledger -------------------------------
(***************************************************************************)
(* What the event log promises about a stage made of ordered sub-steps,    *)
(* whichever handler writes it: sub-step s is recorded once, only after    *)
(* every sub-step before it, and what was recorded never changes.  A       *)
(* handler may redo external work; the ledger may not be redone.           *)
(***************************************************************************)
EXTENDS Naturals

CONSTANT Depth \* number of sub-steps of the stage

VARIABLE entry \* entry[s]: what sub-step s recorded, 0 before it did

Init == entry = [s \in 1..Depth |-> 0]

Commit(s) ==
  /\ entry[s] = 0
  /\ \A t \in 1..(s - 1) : entry[t] # 0
  /\ entry'[s] # 0
  /\ entry' = [entry EXCEPT ![s] = entry'[s]]

Next == \E s \in 1..Depth : Commit(s)

Spec == Init /\ [][Next]_entry
=============================================================================
