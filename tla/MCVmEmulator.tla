---------------------------- MODULE MCVmEmulator ----------------------------
(* Small programs: chains of blocks with every choice of a few accesses,   *)
(* and loops and branches with fixed ones.                                 *)
EXTENDS VmEmulator

Read(off, size) == [write |-> FALSE, vsp |-> FALSE, off |-> off, size |-> size]
Write(off, size) == [Read(off, size) EXCEPT !.write = TRUE]
OnStack(access) == [access EXCEPT !.vsp = TRUE]

AccessesAll ==
  {Read(0, 1), Read(0, 2), Read(1, 1), Write(0, 2), Write(1, 1)}
    \cup {OnStack(Read(-2, 2)), OnStack(Write(-2, 2)), OnStack(Read(1, 2)), OnStack(Read(2, 1))}
Block(accesses, succ) == [accesses |-> accesses, succ |-> succ, byData |-> FALSE]
ByData(accesses, succ) == [Block(accesses, succ) EXCEPT !.byData = TRUE]

Chains ==
  {(90 :> Block(<<a, b>>, {100})) @@ (100 :> Block(<<c, d>>, {})) :
     a, b, c, d \in AccessesAll}
Loops ==
  LET reads == <<Read(0, 2), Write(0, 2)>>
      saves == <<OnStack(Write(-2, 2)), OnStack(Read(-2, 2))>>
  IN {(90 :> Block(reads, {100})) @@ (100 :> Block(saves, {100, 200})) @@ (200 :> Block(reads, s)) :
        s \in {{}, {100}, {100, 200}}}
     \cup {(90 :> Block(reads, {100})) @@ (100 :> Block(saves, {200})) @@ (200 :> Block(reads, {}))}
     \cup {(90 :> Block(reads, {100})) @@ (100 :> ByData(saves, {100, 200})) @@ (200 :> Block(reads, {}))}
ProgramsAll == Chains \cup Loops
=============================================================================
