---------------------------- MODULE MCMatchingLoop ----------------------------
(* Instance of MatchingLoop: one stack below the image and one above it.   *)
EXTENDS MatchingLoop
===============================================================================
