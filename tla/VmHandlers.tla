----------------------------- MODULE VmHandlers -----------------------------
(***************************************************************************)
(* The vocabulary shared by the reference machine and by the lifters: the  *)
(* handlers of a matched trace and the symbolic bytes they move.           *)
(*                                                                         *)
(* A handler is a record [op, d, arg]: op is the VmHandlerType, d the      *)
(* HandlerBitDepth in bytes, and arg the one datum of matchData that       *)
(* decides the effect: the context offset of VmPop and VmPushReg, the      *)
(* value of VmPushConst; it is 0 for the other handlers.                   *)
(*                                                                         *)
(* A value is a sequence of bytes, low byte first, so that its length is   *)
(* its width.  A byte is <<kind, id, k>>: the k-th byte of the value that  *)
(* kind and id name.  Truncation, shifting by whole slots, or-ing halves   *)
(* and zero extension are then exact; arithmetic is uninterpreted, and the *)
(* result and the flags of the n-th handler are fresh values named by n.   *)
(***************************************************************************)
EXTENDS Integers, Sequences, SequencesExt

PtrSize == 8           \* BitDepth_64, the width of addresses and of flags

Binary == {"Add", "Nor", "Nand"}     \* pop two operands of one depth
Shift  == {"Shl", "Shr"}             \* pop a value and a 16-bit count
DoubleShift == {"Shld", "Shrd"}      \* pop dst, src and a 16-bit count
Alu == Binary \cup Shift \cup DoubleShift

Ops == Alu \cup {"Pop", "PushReg", "PushConst", "PushVsp", "PopVsp",
                 "ReadMem", "WriteMem", "Jmp", "Entry", "Exit"}

Handler == [op: Ops, d: {1, 2, 4, 8}, arg: Int]

Byte == {"mem", "ctx", "res", "flg", "cst", "vsp", "nat", "zero", "mix"} \X Int \X Int

(* The stack holds no single byte: 8-bit handlers move 16 bits.            *)
StackDepth(d) == IF d = 1 THEN 2 ELSE d

Word(kind, id, n) == [k \in 1..n |-> <<kind, id, k>>]

Trunc(v, n) == SubSeq(v, 1, n)
ZeroExtend(v, n) == v \o Word("zero", 0, n - Len(v))

(* The value is the address of the stack byte at this offset from the base.*)
StackAddress(off) == Word("vsp", off, PtrSize)
IsStackAddress(v) ==
  /\ Len(v) = PtrSize
  /\ v[1][1] = "vsp"
  /\ v = StackAddress(v[1][2])
OffsetOf(v) == v[1][2]

IsConstant(v) == v # <<>> /\ v[1][1] = "cst" /\ v = Word("cst", v[1][2], Len(v))

(* The sum that the n-th handler computes: stack addresses are displaced by*)
(* constants, every other sum is a fresh value.                            *)
SumOf(a, b, n) ==
  IF IsStackAddress(a) /\ IsConstant(b) THEN StackAddress(a[1][2] + b[1][2])
  ELSE IF IsStackAddress(b) /\ IsConstant(a) THEN StackAddress(b[1][2] + a[1][2])
  ELSE Word("res", n, Len(a))

FlagsOf(n) == Word("flg", n, PtrSize)

NativeReg(index) == Word("nat", index, PtrSize)
ImageBaseDif == Word("nat", 16, PtrSize)    \* the second argument, not a register
=============================================================================
