--------------------------- MODULE MCTraceParser ---------------------------
(* The instance of TraceParser that TLC explores.                          *)
EXTENDS TraceParser
=============================================================================
