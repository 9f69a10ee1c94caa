------------------------------ MODULE MCSettle ------------------------------
EXTENDS Settle, TLC

CONSTANTS s1, s2, b1, b2

OneSession  == {s1}
TwoSessions == {s1, s2}
OneBuyer    == {b1}
TwoBuyers   == {b1, b2}

NoFaults   == {}
PortFault  == {"port"}
ReplyFault == {"reply"}
StopFault  == {"stop"}

\* Sessions and buyers are interchangeable (safety runs only).
Symmetry == Permutations(Sessions) \cup Permutations(Buyers)
=============================================================================
