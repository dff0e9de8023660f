--------------------------- MODULE MCFunctionLifter ---------------------------
(* The instance of FunctionLifter that TLC explores.                       *)
EXTENDS FunctionLifter

H(op, d, arg) == [op |-> op, d |-> d, arg |-> arg]

(* Pushes and pops that cut slots and put them together, arithmetic of     *)
(* several widths, addresses of the stack, a jump, an entry and an exit.   *)
BlockHandlers ==
  {H("PushConst", 8, 8), H("PushConst", 1, 0),
   H("Pop", 8, 0), H("Pop", 4, 0), H("Pop", 1, 0), H("PushReg", 8, 0),
   H("Add", 8, 0), H("Nor", 1, 0), H("Shr", 2, 0), H("Shrd", 4, 0),
   H("PushVsp", 8, 0), H("PopVsp", 8, 0), H("ReadMem", 4, 0), H("ReadMem", 1, 0), H("WriteMem", 1, 0),
   H("WriteMem", 8, 0),
   H("Jmp", 8, 0), H("Entry", 8, 0), H("Exit", 8, 0)}

(* The handlers and registers are those that the proofs are about.         *)
ASSUME BlockIsRegular == \A h \in BlockHandlers : WholeWords(h)
ASSUME EntryIsIndexed == \A i \in DOMAIN EntryRegs : EntryRegs[i] # -1

OneReg == <<0>>
=============================================================================
