--------------------------- MODULE MCFlagArithmetic ---------------------------
(* Instance of FlagArithmetic with bytes of two bits.                      *)
EXTENDS FlagArithmetic
AllWords == SUBSET (0..3) \cup {0..7, 4..7, {7}, {0, 7}, {1, 3, 5, 7}}
===============================================================================
