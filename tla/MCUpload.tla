------------------------------ MODULE MCUpload ------------------------------
EXTENDS Upload, TLC

CONSTANTS t1, t2, d1, d2, k1, k2

TwoTabs    == {t1, t2}
TwoDevices == {d1, d2}
OneDevice  == {d1}
TwoKeys    == {k1, k2}
Apart      == t1 :> d1 @@ t2 :> d2
Together   == t1 :> d1 @@ t2 :> d1
BothStores == {"fs", "parts"}
NoFaults   == {}
=============================================================================
