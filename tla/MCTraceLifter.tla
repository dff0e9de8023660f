---------------------------- MODULE MCTraceLifter ----------------------------
(* The instances of TraceLifter that TLC explores.                         *)
EXTENDS TraceLifter

B(shift, deltas, succ, const) ==
  [shift |-> shift, deltas |-> deltas, succ |-> succ, const |-> const]

(* What a jump to the targets may store: one of them if it is the only     *)
(* one, no integer, or one that names no block.                            *)
Consts(succ) == {0, 150} \cup {b \in succ : succ = {b}}

(* Three blocks behind the entry, read in both directions; the last leaves *)
(* the machine.                                                            *)
Programs3 ==
  UNION {UNION {UNION {
    {[b \in {90, 100, 200, 300} |->
        CASE b = 90 -> B(4, <<-16, -8, 16>>, first, c1)
          [] b = 100 -> B(4, <<-8, d>>, second, c2)
          [] b = 200 -> B(-4, <<8>>, third, c3)
          [] OTHER -> B(4, <<-8, 16>>, {}, 0)] :
      c1 \in Consts(first), c2 \in Consts(second), c3 \in Consts(third), d \in {0, 8}}
    : third \in {{100}, {300}, {100, 300}}}
    : second \in {{100}, {200}, {100, 200}, {300}}}
    : first \in {{100}, {200, 300}}}

(* Two blocks behind the entry, to be traced with handlers missed anywhere.*)
Programs2 ==
  UNION {
    {[b \in {90, 100, 200} |->
        CASE b = 90 -> B(4, <<-16, 8>>, first, 0)
          [] b = 100 -> B(4, <<-8, 8>>, second, c)
          [] OTHER -> B(-4, <<8>>, third, 0)] :
      first \in {{100}, {100, 200}}, c \in Consts(second), third \in SUBSET {100}}
    : second \in {{200}, {100, 200}}}

ProgramsAll == Programs2 \cup Programs3
=============================================================================
