---------------------------- MODULE MCTraceClient ----------------------------
(* Instances of TraceClient for TLC.                                       *)
EXTENDS TraceClient

CONSTANTS k1, k2, d1, d2, d3

TwoCalls == {k1, k2}
\* d3 names its contributor.
SomeDocuments == {d1, d2, d3}
OneLeaks == {d3}
\* At MaxUpdates = 1 the count 1 is the cap.
UpToCap == 0..MaxUpdates
=============================================================================
