--------------------------- MODULE VirtualMachine ---------------------------
(***************************************************************************)
(* What a matched handler does to the virtual machine of the protected     *)
(* program: the abstract specification that the code emitted by the        *)
(* basic-block lifter has to implement.  It is read off the recognisers of *)
(* VmHandlerMatcher.cpp: the number of bytes by which each handler moves   *)
(* VSP, what it reads from the stack and what it leaves there.             *)
(*                                                                         *)
(* The stack is the sequence of the bytes from VSP up to the top of the    *)
(* stack array, so its first byte is the one VSP points to.                *)
(***************************************************************************)
EXTENDS VmHandlers

CONSTANTS
  Handlers,      \* the handler instances that the trace may hold
  MaxLength,     \* bound: handlers in the trace
  Above, Below,  \* bytes of the stack array above and below its middle
  ContextSize,   \* bytes of the register file VmReg_0 ...
  EntryRegs,     \* native registers that VM_ENTRY pushes, in that order
  ExitRegs       \* native registers that VM_EXIT pops, in that order

VARIABLES
  running,    \* FALSE once VM_EXIT has left the machine
  stack,      \* live stack bytes, VSP first
  context,    \* bytes of the register file
  pos,        \* number of handlers executed
  executed    \* the last handler and what it consumed: popped, stored, jumped to

vars == <<running, stack, context, pos, executed>>

Vsp == Above - Len(stack)

Under(m, n) == SubSeq(stack, m + 1, m + n)
Drop(n) == SubSeq(stack, n + 1, Len(stack))

Init ==
  /\ running = TRUE
  /\ stack = Word("mem", 0, Above)
  /\ context = Word("ctx", 0, ContextSize)
  /\ pos = 0
  /\ executed = <<>>

(* Handler h takes n bytes off the stack and leaves new as the stack.       *)
Step(h, n, new, consumed) ==
  /\ running
  /\ pos < MaxLength
  /\ n <= Len(stack)
  /\ Len(new) <= Above + Below
  /\ stack' = new
  /\ executed' = <<h, consumed>>
  /\ pos' = pos + 1

Pop(h) ==
  /\ h.op = "Pop"
  /\ LET n == StackDepth(h.d)
         v == Trunc(stack, h.d)
     IN /\ Step(h, n, Drop(n), <<v>>)
        /\ context' = [x \in DOMAIN context |->
                         IF x \in (h.arg + 1)..(h.arg + h.d)
                         THEN v[x - h.arg] ELSE context[x]]
  /\ UNCHANGED running

PushReg(h) ==
  /\ h.op = "PushReg"
  /\ LET v == SubSeq(context, h.arg + 1, h.arg + h.d)
     IN Step(h, 0, ZeroExtend(v, StackDepth(h.d)) \o stack, <<v>>)
  /\ UNCHANGED <<context, running>>

PushConst(h) ==
  /\ h.op = "PushConst"
  /\ Step(h, 0, ZeroExtend(Word("cst", h.arg, h.d), StackDepth(h.d)) \o stack, <<>>)
  /\ UNCHANGED <<context, running>>

PushVsp(h) ==
  /\ h.op = "PushVsp"
  /\ Step(h, 0, Trunc(StackAddress(Vsp), StackDepth(h.d)) \o stack, <<>>)
  /\ UNCHANGED <<context, running>>

(* VSP becomes the address on the top of the stack.                        *)
PopVsp(h) ==
  /\ h.op = "PopVsp"
  /\ PtrSize <= Len(stack)
  /\ LET a == Trunc(stack, PtrSize)
     IN /\ IsStackAddress(a)
        /\ OffsetOf(a) \in (Vsp + PtrSize)..Above
        /\ Step(h, PtrSize, Drop(OffsetOf(a) - Vsp), <<a>>)
  /\ UNCHANGED <<context, running>>

(* Reads of other addresses than the stack's return a value of their own.  *)
ReadMem(h) ==
  /\ h.op = "ReadMem"
  /\ PtrSize <= Len(stack)
  /\ LET a == Trunc(stack, PtrSize)
         i == OffsetOf(a) - Vsp
         v == IF IsStackAddress(a) THEN Under(i, h.d) ELSE Word("res", pos + 1, h.d)
     IN /\ IsStackAddress(a) => i \in PtrSize..(Len(stack) - h.d)
        /\ Step(h, PtrSize, ZeroExtend(v, StackDepth(h.d)) \o Drop(PtrSize), <<a>>)
  /\ UNCHANGED <<context, running>>

WriteMem(h) ==
  /\ h.op = "WriteMem"
  /\ LET n == PtrSize + StackDepth(h.d) IN
     /\ n <= Len(stack)
     /\ LET a == Trunc(stack, PtrSize)
            v == Under(PtrSize, h.d)
            i == OffsetOf(a) - (Vsp + n)
            rest == Drop(n)
            written == [x \in DOMAIN rest |->
                          IF x \in (i + 1)..(i + h.d) THEN v[x - i] ELSE rest[x]]
        IN /\ IsStackAddress(a) => i \in 0..(Len(rest) - h.d)
           /\ Step(h, n, IF IsStackAddress(a) THEN written ELSE rest, <<a, v>>)
  /\ UNCHANGED <<context, running>>

(* The arithmetic handlers leave the result and, above it, the flags.      *)
Compute(h, n, result, consumed) ==
  /\ Step(h, n, FlagsOf(pos + 1) \o ZeroExtend(result, StackDepth(h.d)) \o Drop(n), consumed)
  /\ UNCHANGED <<context, running>>

BinaryAlu(h) ==
  /\ h.op \in Binary
  /\ LET n == StackDepth(h.d)
         b == Trunc(stack, h.d)
         a == Under(n, h.d)
         result == IF h.op = "Add" THEN SumOf(a, b, pos + 1) ELSE Word("res", pos + 1, h.d)
     IN 2 * n <= Len(stack) /\ Compute(h, 2 * n, result, <<b, a>>)

ShiftAlu(h) ==
  /\ h.op \in Shift
  /\ LET n == StackDepth(h.d)
     IN Compute(h, n + 2, Word("res", pos + 1, h.d), <<Trunc(stack, h.d), Under(n, 1)>>)

DoubleShiftAlu(h) ==
  /\ h.op \in DoubleShift
  /\ LET n == StackDepth(h.d)
     IN Compute(h, 2 * n + 2, Word("res", pos + 1, h.d),
                <<Trunc(stack, h.d), Under(n, h.d), Under(2 * n, 1)>>)

Jmp(h) ==
  /\ h.op = "Jmp"
  /\ Step(h, PtrSize, Drop(PtrSize), <<Trunc(stack, PtrSize)>>)
  /\ UNCHANGED <<context, running>>

(* Two return addresses, the native registers and, on the top, the image   *)
(* base difference.                                                        *)
Entry(h) ==
  /\ h.op = "Entry"
  /\ LET r == Len(EntryRegs)
         frame == [i \in 1..(r + 3) |->
                     IF i = 1 THEN ImageBaseDif
                     ELSE IF i <= r + 1 THEN NativeReg(EntryRegs[r + 2 - i])
                     ELSE Word("cst", 0, PtrSize)]
     IN Step(h, 0, FlattenSeq(frame) \o stack, <<>>)
  /\ UNCHANGED <<context, running>>

(* The native registers, then the exit address and the return address; the *)
(* machine is gone.                                                        *)
Exit(h) ==
  /\ h.op = "Exit"
  /\ LET r == Len(ExitRegs) + 2
     IN Step(h, PtrSize * r, <<>>,
             [i \in 1..r |-> Under(PtrSize * (i - 1), PtrSize)])
  /\ running' = FALSE
  /\ context' = <<>>

Next == \E h \in Handlers :
  \/ Pop(h) \/ PushReg(h) \/ PushConst(h) \/ PushVsp(h) \/ PopVsp(h)
  \/ ReadMem(h) \/ WriteMem(h)
  \/ BinaryAlu(h) \/ ShiftAlu(h) \/ DoubleShiftAlu(h)
  \/ Jmp(h) \/ Entry(h) \/ Exit(h)

Spec == Init /\ [][Next]_vars
=============================================================================
