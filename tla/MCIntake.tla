------------------------------ MODULE MCIntake ------------------------------
(* Instances of Intake (and of the accounts it extends) for TLC.           *)
EXTENDS Intake, TLC

CONSTANTS b1, b2, w1, w2, f

OneBrowser == {b1}
TwoBrowsers == {b1, b2}
TwoWallets == {w1, w2}
OneFile == {f}
Anything == TwoWallets \cup {None}
First == [b \in OneBrowser |-> {w1}]
Shared == [b \in OneBrowser |-> TwoWallets]
Own == [b \in TwoBrowsers |-> IF b = b1 THEN {w1} ELSE {w2}]
Same == [b \in TwoBrowsers |-> {w1}]
=============================================================================
