----------------------------- MODULE MCRegister -----------------------------
EXTENDS Register, TLC

CONSTANTS r1, r2, r3, p1, p2

Attempts2 == {r1, r2}
Attempts3 == {r1, r2, r3}
OnePreset == {p1}
TwoPresets == {p1, p2}

NoFaults   == {}
PortFaults == {"port", "reply"}
ReplyOrDbFault == {"reply", "db"}

\* Attempts and presets are interchangeable (safety runs only).
Symmetry == Permutations(Runs) \cup Permutations(Presets)
=============================================================================
