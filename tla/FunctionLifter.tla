---------------------------- MODULE FunctionLifter ----------------------------
(***************************************************************************)
(* LLVMFunctionLifter, the older path: LiftVirtualCode makes one function  *)
(* of one virtual block.  The function works on a register file of its     *)
(* own, keeps VSP in a local variable and publishes it when it returns;    *)
(* values wait on a shadow stack until VSP is pushed or the function ends. *)
(* A behaviour of this module is the lifting of one function, and          *)
(* stackArray and virtualContext are what the code emitted so far leaves.  *)
(*                                                                         *)
(* The two forms of a memory access, by load and store and by the hooks,   *)
(* do the same to the stack and are not told apart; other addresses answer *)
(* a read with a fresh value.  Flags are the ones recorded in the trace.   *)
(* VM_ROL and VM_ROR are not modelled.                                     *)
(***************************************************************************)
EXTENDS VmHandlers, FiniteSets

CONSTANTS
  Handlers,      \* the handler instances that the block may hold
  MaxLength,     \* bound: handlers in the block
  Above, Below,  \* bytes of the stack above and below VSP at the call
  ContextSize,   \* bytes of virtual_ctx
  EntryRegs,     \* indexes in NativeContext (-1: none) of popedRegsOrder
  ExitRegs

(* Blocks that push VSP as a word, as all stack traffic of protected code, *)
(* and only registers that are in virtual_ctx.                             *)
WholeWords(h) ==
  /\ h.op = "PushVsp" => h.d # 1
  /\ h.op = "PushReg" => h.arg >= 0 /\ h.arg + h.d <= ContextSize
Regular == \A h \in Handlers : WholeWords(h)

ASSUME HandlersAssumption == Handlers \subseteq Handler
ASSUME SizesAssumption ==
  /\ MaxLength \in Nat /\ Above \in Nat /\ Below \in Nat /\ ContextSize \in Nat
ASSUME RegsAssumption == EntryRegs \in Seq(Int) /\ ExitRegs \in Seq(Int)

VARIABLES
  vspLocal,        \* vsp_local_cursor
  vspPtr,          \* *vsp_ptr
  shadowStack,     \* slots [value, depth], the last one on the top
  stackArray, virtualContext,
  pos, executed,   \* handlers lifted; the last one and what it consumes
  cut,             \* history: a pop has cut a slot
  status           \* "ok", "jump", "exit", "end", or "badIR"

vars == <<vspLocal, vspPtr, shadowStack, stackArray, virtualContext, pos, executed, cut, status>>

Initially(x) == <<"mem", 0, x + 1>>
Load(vsp, n) ==
  [k \in 1..n |-> LET x == vsp + k - 1
                  IN IF x \in DOMAIN stackArray THEN stackArray[x] ELSE Initially(x)]
Store(array, at, v) ==
  [x \in DOMAIN array |-> IF x \in at..(at + Len(v) - 1) THEN v[x - at + 1] ELSE array[x]]

(* Bytes by which a pointer to a value of d bytes moves: an i48 takes 8.   *)
AllocSize(d) == IF d = 6 THEN 8 ELSE d

-----------------------------------------------------------------------------
Slot(v, d) == [value |-> v, depth |-> d]
(* What a cut leaves keeps the width of the value, shifted down.  A slip:  *)
(* the part that was popped is what stays.                                 *)
LowRemainder(slot, d) == Slot(Trunc(slot.value, d), slot.depth - d)
Remainder(slot, d) ==
  Slot(ZeroExtend(SubSeq(slot.value, d + 1, Len(slot.value)), Len(slot.value)), slot.depth - d)

(* FromTop(sh, n) is the n-th slot from the top, and TopDepth(sh)[n] the   *)
(* bytes of the n topmost ones.                                            *)
FromTop(sh, n) == sh[Len(sh) + 1 - n]
TopDepth(sh) ==
  LET sum[n \in 0..Len(sh)] == IF n = 0 THEN 0 ELSE sum[n - 1] + FromTop(sh, n).depth
  IN sum
DepthOf(sh) == TopDepth(sh)[Len(sh)]

(* The parts of a value are or-ed at their places, the topmost one lowest. *)
IsZero(byte) == byte[1] = "zero"
Merged(parts, place, d) ==
  [k \in 1..d |->
     LET at == {i \in DOMAIN parts : k - place[i] \in 1..Len(parts[i])}
         set == {i \in at : ~IsZero(parts[i][k - place[i]])}
         i == CHOOSE i \in (IF set = {} THEN at ELSE set) : TRUE
     IN IF Cardinality(set) > 1 THEN <<"mix", 0, k>> ELSE parts[i][k - place[i]]]

(* A part cannot be extended to less than its own width: the lowest parts  *)
(* to what is wanted from them on, the last one to what was still wanted   *)
(* when it was popped.                                                     *)
PartFits(sh, place, d, i) ==
  Len(FromTop(sh, i).value) <= d - place[IF place[i + 1] = d THEN i - 1 ELSE i]

(* The topmost whole slots that hold no more than d bytes, and what is     *)
(* still missing, cut from the next slot or, when there is none, loaded.   *)
WholeSlots(sh, d) == Cardinality({n \in 1..Len(sh) : TopDepth(sh)[n] <= d})
PopParts(sh, vsp, d, whole, need) ==
  LET n == Len(sh) - whole
      cuts == need > 0 /\ n > 0
      rest == IF cuts THEN Trunc(sh[n].value, need) ELSE Load(vsp, need)
      parts == [i \in 1..whole |-> FromTop(sh, i).value]
      place == [i \in 1..(whole + 1) |-> TopDepth(sh)[i - 1]]
  IN [value |-> Merged(Append(parts, rest), place, d),
      sh |-> IF cuts THEN Append(SubSeq(sh, 1, n - 1), Remainder(sh[n], need))
             ELSE SubSeq(sh, 1, n),
      vsp |-> IF cuts THEN vsp ELSE vsp + AllocSize(need),
      ok |-> \A i \in 1..whole : PartFits(sh, place, d, i),
      cuts |-> cuts]

(* ShadowPop: the topmost slot as it is if it has the depth, else parts.   *)
ShadowPop(sh, vsp, d) ==
  IF sh # <<>> /\ sh[Len(sh)].depth = d
  THEN [value |-> sh[Len(sh)].value, sh |-> SubSeq(sh, 1, Len(sh) - 1), vsp |-> vsp,
        ok |-> TRUE, cuts |-> FALSE]
  ELSE PopParts(sh, vsp, d, WholeSlots(sh, d), d - TopDepth(sh)[WholeSlots(sh, d)])

PopsOf(h) ==
  LET n == StackDepth(h.d) IN
  CASE h.op = "Pop" -> <<n>>
    [] h.op \in {"PopVsp", "ReadMem", "Jmp"} -> <<PtrSize>>
    [] h.op = "WriteMem" -> <<PtrSize, n>>
    [] h.op \in Binary -> <<n, n>>
    [] h.op \in Shift -> <<n, 2>>
    [] h.op \in DoubleShift -> <<n, n, 2>>
    [] h.op = "Exit" -> [i \in 1..(Len(ExitRegs) + 2) |-> PtrSize]
    [] OTHER -> <<>>

(* The pops of a handler, one after the other; taken is what they want.    *)
PopAll(depths) ==
  LET pop[n \in 0..Len(depths)] ==
        IF n = 0
        THEN [values |-> <<>>, taken |-> 0, sh |-> shadowStack, vsp |-> vspLocal,
              ok |-> TRUE, cuts |-> FALSE]
        ELSE LET p == pop[n - 1]
                 q == ShadowPop(p.sh, p.vsp, depths[n])
             IN [values |-> Append(p.values, q.value), taken |-> p.taken + depths[n],
                 sh |-> q.sh, vsp |-> q.vsp, ok |-> p.ok /\ q.ok, cuts |-> p.cuts \/ q.cuts]
  IN pop[Len(depths)]

(* FlushVspToMemory stores the slots sh one below the other, each value    *)
(* with its own width.  A plausible slip: the topmost one first.           *)
LegacyPush(m, slot) ==
  LET below == m.vsp - AllocSize(slot.depth)
  IN [array |-> Store(m.array, below, slot.value), vsp |-> below]
FlushedTopFirst(sh, vsp) ==
  LET push[n \in 0..Len(sh)] ==
        IF n = 0 THEN [array |-> stackArray, vsp |-> vsp]
        ELSE LegacyPush(push[n - 1], FromTop(sh, n))
  IN push[Len(sh)]
FlushVspToMemory(sh, vsp) ==
  LET push[n \in 0..Len(sh)] ==
        IF n = 0 THEN [array |-> stackArray, vsp |-> vsp] ELSE LegacyPush(push[n - 1], sh[n])
  IN push[Len(sh)]

-----------------------------------------------------------------------------
(* The stack that the code stands for, and after it returned, the one its  *)
(* caller finds.                                                           *)
Returned == status \in {"jump", "exit", "end"}
Base == IF Returned THEN vspPtr ELSE vspLocal
LiveStack ==
  FlattenSeq([i \in 1..Len(shadowStack) |->
                Trunc(FromTop(shadowStack, i).value, FromTop(shadowStack, i).depth)])
    \o Load(Base, Above - Base)

(* How protected code is assumed to use the stack: the parts of a value    *)
(* are put together from whole words; nothing waits when a byte of the     *)
(* stack is accessed, or above an address that becomes VSP; a count has    *)
(* nothing in its upper byte; and the stack bytes used are live ones.      *)
Disciplined(h, p) ==
  LET a == p.values[1]
      under == p.vsp - DepthOf(p.sh)
  IN /\ p.taken = under - (vspLocal - DepthOf(shadowStack))
     /\ p.vsp <= Above
     /\ h.op \in {"ReadMem", "WriteMem"} /\ IsStackAddress(a) =>
          OffsetOf(a) \in p.vsp..(Above - h.d)
     /\ h.op = "PopVsp" =>
          IsStackAddress(a) /\ OffsetOf(a) \in p.vsp..Above /\ p.sh = <<>>
     /\ h.op \in Shift \cup DoubleShift => p.values[Len(p.values)][2][1] = "zero"

Init ==
  /\ vspLocal = 0 /\ vspPtr = 0
  /\ shadowStack = <<>>
  /\ stackArray = [x \in (-Below)..(Above - 1) |-> Initially(x)]
  /\ virtualContext = Word("ctx", 0, ContextSize)
  /\ pos = 0 /\ executed = <<>>
  /\ cut = FALSE
  /\ status = "ok"

Starts(h) ==
  /\ status = "ok"
  /\ pos < MaxLength
  /\ Disciplined(h, PopAll(PopsOf(h)))

(* A pop that put a wide part into a narrow whole, or operands of two      *)
(* widths: the instruction cannot be made.                                 *)
SameWidth(h, p) == h.op \in Binary /\ h.d # 1 => Len(p.values[1]) = Len(p.values[2])
FitsWidth(h, p) ==
  /\ h.op \in Shift /\ h.d # 1 => Len(p.values[1]) = h.d /\ Len(p.values[2]) <= h.d
  /\ h.op \in DoubleShift /\ h.d # 1 => Len(p.values[1]) = h.d /\ Len(p.values[2]) = h.d
Lifts(h, p) == p.ok /\ SameWidth(h, p) /\ FitsWidth(h, p)

CannotLift(h) ==
  /\ Starts(h)
  /\ ~Lifts(h, PopAll(PopsOf(h)))
  /\ status' = "badIR"
  /\ cut' = (cut \/ PopAll(PopsOf(h)).cuts)
  /\ UNCHANGED <<vspLocal, vspPtr, shadowStack, stackArray, virtualContext, pos, executed>>

(* The slots sh wait after h, and p is what it popped.                     *)
Emit(h, p, sh, consumed) ==
  /\ p.vsp - DepthOf(sh) >= -Below
  /\ shadowStack' = sh
  /\ executed' = <<h, consumed>>
  /\ pos' = pos + 1
  /\ cut' = (cut \/ p.cuts)

LiftVmPop(h) ==
  /\ h.op = "Pop" /\ Starts(h)
  /\ \E p \in {PopAll(PopsOf(h))} :
       /\ Lifts(h, p)
       /\ LET v == IF h.d = 1 THEN Trunc(p.values[1], 1) ELSE p.values[1]
          IN /\ virtualContext' = Store(virtualContext, h.arg + 1, v)
             /\ Emit(h, p, p.sh, <<v>>)
       /\ vspLocal' = p.vsp
  /\ UNCHANGED <<vspPtr, stackArray, status>>

(* What an 8-bit handler pushes is extended to 16 bits.  Slips: it is not, *)
(* or everything is, to the width of a register.                           *)
AllExtended(v, d) == Slot(ZeroExtend(v, PtrSize), StackDepth(d))
NotExtended(v, d) == Slot(v, StackDepth(d))
Extended(v, d) == Slot(IF d = 1 THEN ZeroExtend(v, 2) ELSE v, StackDepth(d))

Push(h, v, consumed) ==
  /\ Emit(h, PopAll(<<>>), Append(shadowStack, Extended(v, h.d)), consumed)
  /\ UNCHANGED <<vspLocal, vspPtr, stackArray, virtualContext, status>>

LiftVmPushReg(h) ==
  /\ h.op = "PushReg" /\ Starts(h)
  /\ LET v == SubSeq(virtualContext, h.arg + 1, h.arg + h.d) IN Push(h, v, <<v>>)
LiftVmPushConst(h) ==
  /\ h.op = "PushConst" /\ Starts(h)
  /\ Push(h, Word("cst", h.arg, h.d), <<>>)

LiftVmPushVsp(h) ==
  /\ h.op = "PushVsp" /\ Starts(h)
  /\ \E m \in {FlushVspToMemory(shadowStack, vspLocal)} :
       /\ m.vsp - h.d >= -Below
       /\ stackArray' = m.array
       /\ vspLocal' = m.vsp /\ vspPtr' = m.vsp
       /\ Emit(h, PopAll(<<>>), <<Slot(Trunc(StackAddress(m.vsp), h.d), h.d)>>, <<>>)
  /\ UNCHANGED <<virtualContext, status>>

(* The slots that wait are not stored first.                               *)
LiftVmPopVsp(h) ==
  /\ h.op = "PopVsp" /\ Starts(h)
  /\ \E p \in {PopAll(PopsOf(h))} :
       /\ Lifts(h, p)
       /\ vspLocal' = OffsetOf(p.values[1])
       /\ Emit(h, p, p.sh, p.values)
  /\ UNCHANGED <<vspPtr, stackArray, virtualContext, status>>

LiftVmReadMem(h) ==
  /\ h.op = "ReadMem" /\ Starts(h)
  /\ \E p \in {PopAll(PopsOf(h))} :
       LET a == p.values[1]
           v == IF IsStackAddress(a) THEN Load(OffsetOf(a), h.d) ELSE Word("res", pos + 1, h.d)
       IN /\ Lifts(h, p)
          /\ vspLocal' = p.vsp
          /\ Emit(h, p, Append(p.sh, Extended(v, h.d)), <<a>>)
  /\ UNCHANGED <<vspPtr, stackArray, virtualContext, status>>

LiftVmWriteMem(h) ==
  /\ h.op = "WriteMem" /\ Starts(h)
  /\ \E p \in {PopAll(PopsOf(h))} :
       LET a == p.values[1]
           v == Trunc(p.values[2], h.d)
       IN /\ Lifts(h, p)
          /\ stackArray' = IF IsStackAddress(a) THEN Store(stackArray, OffsetOf(a), v)
                           ELSE stackArray
          /\ vspLocal' = p.vsp
          /\ Emit(h, p, p.sh, <<a, v>>)
  /\ UNCHANGED <<vspPtr, virtualContext, status>>

(* Add, Nor, Nand, Shl, Shr, Shld and Shrd: the result, and above it the   *)
(* flags of the trace.  An 8-bit handler cuts its operands to 8 bits, and  *)
(* every count is used as one byte where its upper byte is zero.           *)
Operand(h, v) == IF h.d = 1 THEN Trunc(v, 1) ELSE v
LiftVmAlu(h) ==
  /\ h.op \in Alu /\ Starts(h)
  /\ \E p \in {PopAll(PopsOf(h))} :
       LET hasCount == h.op \notin Binary
           operands == [i \in DOMAIN p.values |->
                          IF hasCount /\ i = Len(p.values) THEN Trunc(p.values[i], 1)
                          ELSE Operand(h, p.values[i])]
           result == IF h.op = "Add" THEN SumOf(operands[2], operands[1], pos + 1)
                     ELSE Word("res", pos + 1, Len(operands[1]))
       IN /\ Lifts(h, p)
          /\ vspLocal' = p.vsp
          /\ Emit(h, p, p.sh \o <<Extended(result, h.d), Slot(FlagsOf(pos + 1), PtrSize)>>,
                  operands)
  /\ UNCHANGED <<vspPtr, stackArray, virtualContext, status>>

(* Registers without an index in NativeContext are not pushed.             *)
LiftVmEntry(h) ==
  /\ h.op = "Entry" /\ Starts(h)
  /\ LET zero == Slot(Word("cst", 0, PtrSize), PtrSize)
         regs == [i \in 1..Len(EntryRegs) |->
                    IF EntryRegs[i] = -1 THEN <<>> ELSE <<Slot(NativeReg(EntryRegs[i]), PtrSize)>>]
     IN Emit(h, PopAll(<<>>), shadowStack \o <<zero, zero>> \o FlattenSeq(regs)
                                \o <<Slot(ImageBaseDif, PtrSize)>>, <<>>)
  /\ UNCHANGED <<vspLocal, vspPtr, stackArray, virtualContext, status>>

(* The function stores what waits, publishes VSP and returns.  A slip: it  *)
(* publishes the VSP it was called with.                                   *)
PublishedEarly(m) == vspLocal
Published(m) == m.vsp
Return(sh, vsp) ==
  /\ \E m \in {FlushVspToMemory(sh, vsp)} :
       /\ m.vsp >= -Below
       /\ stackArray' = m.array
       /\ vspLocal' = m.vsp
       /\ vspPtr' = Published(m)
  /\ UNCHANGED virtualContext

LiftVmJmpIndirect(h) ==
  /\ h.op = "Jmp" /\ Starts(h)
  /\ \E p \in {PopAll(PopsOf(h))} :
       Lifts(h, p) /\ Return(p.sh, p.vsp) /\ Emit(h, p, <<>>, p.values)
  /\ status' = "jump"

(* The native registers, those without an index popped for nothing, the    *)
(* exit address and the return address.                                    *)
LiftVmExit(h) ==
  /\ h.op = "Exit" /\ Starts(h)
  /\ \E p \in {PopAll(PopsOf(h))} :
       Lifts(h, p) /\ Return(p.sh, p.vsp) /\ Emit(h, p, <<>>, p.values)
  /\ status' = "exit"

(* The block ends without a jump: the function returns 2.                  *)
EndFunction ==
  /\ status = "ok"
  /\ Return(shadowStack, vspLocal)
  /\ shadowStack' = <<>>
  /\ status' = "end"
  /\ UNCHANGED <<pos, executed, cut>>

LiftHandler(h) ==
  \/ CannotLift(h)
  \/ LiftVmPop(h) \/ LiftVmPushReg(h) \/ LiftVmPushConst(h)
  \/ LiftVmPushVsp(h) \/ LiftVmPopVsp(h) \/ LiftVmReadMem(h) \/ LiftVmWriteMem(h)
  \/ LiftVmAlu(h) \/ LiftVmJmpIndirect(h) \/ LiftVmEntry(h) \/ LiftVmExit(h)

Next == EndFunction \/ \E h \in Handlers : LiftHandler(h)

Spec == Init /\ [][Next]_vars

-----------------------------------------------------------------------------
(* As long as no pop has cut a slot, the lifted code is the machine of the *)
(* trace: each handler leaves the same stack and the same registers and    *)
(* consumes the same operands, and the caller of the function finds that   *)
(* stack at the VSP that it published.                                     *)
Gone == status = "exit"
VM == INSTANCE VirtualMachine WITH
        running <- ~Gone,
        stack <- IF Gone THEN <<>> ELSE LiveStack,
        context <- IF Gone THEN <<>> ELSE virtualContext
FunctionIsMachine ==
  VM!Init /\ [][cut' \/ status' = "badIR" \/ VM!Next \/ UNCHANGED VM!vars]_vars

(* As long as no pop has cut a slot, a value that waits is as wide as its  *)
(* slot, so that storing it spoils no other byte.                          *)
SlotsExact ==
  ~cut => \A i \in DOMAIN shadowStack : Len(shadowStack[i].value) = shadowStack[i].depth

(* Only what a cut has left makes an instruction that cannot be made.      *)
StopsOnlyCut == status = "badIR" => cut

(* On every trace, cut slots or not, each slot has at least one byte, its  *)
(* value has all of them, and a wider value is a whole i64 or smaller.     *)
SlotsCovered ==
  \A i \in DOMAIN shadowStack :
    /\ shadowStack[i].depth \in {2, 4, 6, 8}
    /\ Len(shadowStack[i].value) \in {2, 4, 6, 8}
    /\ shadowStack[i].depth <= Len(shadowStack[i].value)
=============================================================================
