--------------------------- MODULE MCBlockLifter ---------------------------
(* The instances of BlockLifter that TLC explores.                         *)
EXTENDS BlockLifter

H(op, d, arg) == [op |-> op, d |-> d, arg |-> arg]

(* Pushes and pops that cut slots and put them together, arithmetic whose  *)
(* flags go to a register, addresses of the stack, an entry and an exit.   *)
MachineHandlers ==
  {H("PushConst", 8, 8), H("PushConst", 2, 0),
   H("Pop", 8, 0), H("Pop", 4, 0), H("Pop", 1, 0), H("PushReg", 8, 0), H("PushReg", 1, 0),
   H("Add", 8, 0), H("Nor", 4, 0), H("Shr", 2, 0), H("Shrd", 4, 0),
   H("PushVsp", 8, 0), H("ReadMem", 4, 0), H("WriteMem", 8, 0), H("WriteMem", 1, 0),
   H("Jmp", 8, 0), H("Entry", 8, 0), H("Exit", 8, 0)}

(* They are those for which the refinement is proved.                      *)
ASSUME MachineIsRegular == \A h \in MachineHandlers : WholeWords(h)

(* More depths, and the handlers that stop the lifter or lead it astray.   *)
AllHandlers == MachineHandlers \cup
  {H("PushConst", 4, 0), H("Pop", 2, 0), H("Pop", 8, 8), H("PushReg", 4, 4),
   H("PushReg", 8, 8), H("PushVsp", 4, 0), H("PopVsp", 8, 0), H("ReadMem", 8, 0),
   H("ReadMem", 1, 0), H("Add", 1, 0), H("Nand", 1, 0), H("Shl", 8, 0), H("Shl", 1, 0),
   H("Shld", 4, 0), H("Shrd", 8, 0), H("Shrd", 1, 0)}

(* Traces on which the lifter does not do what its comments say.           *)
PartialPops == {H("PushConst", 8, 0), H("Pop", 2, 0), H("Pop", 8, 0)}
Duplicates == {H("PushConst", 8, 0), H("PushVsp", 8, 0), H("ReadMem", 8, 0), H("Pop", 8, 0)}
FlagsAcross == {H("PushConst", 8, 0), H("Add", 8, 0), H("Pop", 8, 0), H("Jmp", 8, 0)}
NotDrained == Assumptions \ {"MemoryDrained"}
FlagsAnywhere == Assumptions \ {"FlagsDeadAtJump"}

NoRegs == <<>>
OneReg == <<0>>
=============================================================================
