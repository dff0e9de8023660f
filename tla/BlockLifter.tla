----------------------------- MODULE BlockLifter -----------------------------
(***************************************************************************)
(* LLVMBasicBlockLifter: translates a trace of matched handlers, block by  *)
(* block, into straight-line code on a stack array and a register file.    *)
(* Values that the trace pushes are not stored at once: they wait on a     *)
(* compile-time shadow stack, and flags wait there (or, once popped into a *)
(* register, in flagCalculators) as a promise to compute them if anybody   *)
(* asks.                                                                   *)
(*                                                                         *)
(* One step lifts one handler.  stackArray and virtualContext are what the *)
(* code emitted so far leaves in the two arrays when it runs, so that the  *)
(* lifted code can be compared with the machine it was lifted from         *)
(* (module VirtualMachine) after every handler.                            *)
(*                                                                         *)
(* Abstractions: values are symbolic bytes (module VmHandlers); the memory *)
(* outside the stack array answers every read with a fresh value; logging  *)
(* calls are left out.                                                     *)
(***************************************************************************)
EXTENDS VmHandlers, FiniteSets

CONSTANTS
  Handlers,      \* the handler instances that the trace may hold
  MaxLength,     \* bound: handlers in the trace
  Above, Below,  \* bytes of the stack array above and below its middle
  ContextSize,   \* bytes of virtual_ctx
  EntryRegs,     \* indexes in NativeContext (-1: none) of popedRegsOrder
  ExitRegs,
  Discipline     \* what is assumed of the trace, a subset of Assumptions

(* How protected code is assumed to use the stack: the flags of a handler  *)
(* are popped into a register by the next one; such a register is only     *)
(* accessed as a whole; no flags are live across a jump; nothing else is   *)
(* on the shadow stack when memory is accessed; addresses of the stack are *)
(* used for an access while the lifter still knows them as such.           *)
Assumptions == {"FlagsPopped", "FlagsWhole", "FlagsDeadAtJump",
                "MemoryDrained", "VspDirect"}

(* Traces of whole words: VSP is not moved, the 8-bit handlers are those   *)
(* that agree with their machine ones, and a register that is popped or    *)
(* pushed is in the register file, as a whole word if it is one of 64 bits;*)
(* VM_ENTRY and VM_EXIT know all their registers.                          *)
WholeWords(h) ==
  /\ h.op # "PopVsp"
  /\ h.op \in (Alu \ {"Nor", "Nand"}) \cup {"ReadMem"} => h.d # 1
  /\ h.op \in {"Pop", "PushReg"} =>
       h.arg >= 0 /\ h.arg + h.d <= ContextSize /\ (h.d = PtrSize => h.arg % PtrSize = 0)
Regular ==
  /\ Discipline = Assumptions
  /\ \A h \in Handlers : WholeWords(h)
  /\ -1 \notin Range(EntryRegs) /\ -1 \notin Range(ExitRegs)

ASSUME HandlersAssumption == Handlers \subseteq Handler
ASSUME SizesAssumption ==
  /\ MaxLength \in Nat /\ Above \in Nat /\ Below \in Nat /\ ContextSize \in Nat
ASSUME RegsAssumption == EntryRegs \in Seq(Int) /\ ExitRegs \in Seq(Int)
ASSUME DisciplineAssumption == Discipline \subseteq Assumptions

VARIABLES
  stackOffset,      \* compile-time offset of the stored stack from its base
  shadowStack,      \* slots not stored yet, the last one on the top
  flagCalculators,  \* context offset -> promise
  stackArray,       \* vsp_array, by offset from its middle
  virtualContext,   \* virtual_ctx
  inBlock,          \* a block is being lifted
  vspAfter,         \* VSP as the trace records it, from the stack's base
  pos,              \* number of handlers lifted
  executed,         \* the last handler and what its code consumes
  status            \* "ok", or why the lifter stopped

vars == <<stackOffset, shadowStack, flagCalculators, stackArray,
          virtualContext, inBlock, vspAfter, pos, executed, status>>

NoPromise == 0      \* a promise is named by the position of its handler
NoCalculators == [key \in {} |-> NoPromise]

(* A value's width is its own; the slot's depth is what the stack loses.   *)
Slot == [value: Seq(Byte), depth: Nat, ptr: BOOLEAN, isVspPush: BOOLEAN,
         flagsPromise: Nat]

(* Plausible slips, each in place of the definition after it: a pushed VSP *)
(* that is not marked, a cut slot that keeps its marks, its width, or the  *)
(* difference the wrong way round, a register that keeps its promise.      *)
ValueSlot(v, depth) ==
  [value |-> v, depth |-> depth, ptr |-> FALSE, isVspPush |-> FALSE,
   flagsPromise |-> NoPromise]
UnmarkedPointerSlot(v) == [ValueSlot(v, PtrSize) EXCEPT !.ptr = TRUE]
PointerSlot(v) == [ValueSlot(v, PtrSize) EXCEPT !.ptr = TRUE, !.isVspPush = TRUE]
FlagsSlot(n) == [ValueSlot(<<>>, PtrSize) EXCEPT !.flagsPromise = n]

(* What is left of a slot after its n low bytes were popped.               *)
MarkedRemainder(slot, n) ==
  [slot EXCEPT !.value = SubSeq(slot.value, n + 1, Len(slot.value)),
               !.depth = Len(slot.value) - n]
WideRemainder(slot, n) ==
  ValueSlot(ZeroExtend(SubSeq(slot.value, n + 1, Len(slot.value)), Len(slot.value)),
            Len(slot.value) - n)
NegativeRemainder(slot, n) ==
  ValueSlot(SubSeq(slot.value, n + 1, Len(slot.value)), n - Len(slot.value))
Remainder(slot, n) ==
  ValueSlot(SubSeq(slot.value, n + 1, Len(slot.value)), Len(slot.value) - n)

IsPowerOfTwo(n) == n \in {1, 2, 4, 8, 16, 32, 64}

(* TopDepth(sh)[n]: the bytes of the n topmost slots.                      *)
FromTop(sh, i) == sh[Len(sh) + 1 - i]
TopDepth(sh) ==
  LET sum[n \in 0..Len(sh)] == IF n = 0 THEN 0 ELSE sum[n - 1] + FromTop(sh, n).depth
  IN sum
ShadowDepth(sh) == TopDepth(sh)[Len(sh)]

Load(off, n) == [k \in 1..n |-> stackArray[off + k - 1]]
Store(array, off, v) ==
  [x \in DOMAIN array |-> IF x \in off..(off + Len(v) - 1) THEN v[x - off + 1] ELSE array[x]]

-----------------------------------------------------------------------------
(* What stops the lifter at a slot s when need bytes are wanted from it on *)
(* and they are not exactly the topmost slot: "strange" is the assertion   *)
(* of that name, "null" a null llvm::Value, "badIR" an operand of a type   *)
(* the instruction does not take.  The slot's value is extended to need if *)
(* the slot is too short, else to wanted, the need at the slot above it.   *)
AlwaysSliced(s, need, wanted) ==      \* a plausible slip
  IF ~IsPowerOfTwo(s.depth) \/ (s.depth >= need /\ ~IsPowerOfTwo(s.depth - need))
  THEN "strange" ELSE "ok"
SlotError(s, need, wanted) ==
  LET left == Len(s.value) - need      \* what a slice leaves in the slot
      width == IF s.depth < need THEN need ELSE wanted
  IN IF ~IsPowerOfTwo(s.depth) THEN "strange"
     ELSE IF s.flagsPromise # NoPromise THEN "null"
     ELSE IF s.depth < need /\ ~IsPowerOfTwo(need - s.depth) THEN "strange"
     ELSE IF s.depth <= need /\ Len(s.value) > width THEN "badIR"
     ELSE IF s.depth > need /\ left < 0 THEN "badIR"
     ELSE IF s.depth > need /\ ~IsPowerOfTwo(left) THEN "strange"
     ELSE "ok"

FirstError(errors) ==
  LET first == SelectInSeq(errors, LAMBDA e : e # "ok")
  IN IF first = 0 THEN "ok" ELSE errors[first]

(* The pieces are or-ed at their places, the topmost lowest: one that is   *)
(* wider than its slot spoils the next.                                    *)
Merged(pieces, depth, d) ==
  [k \in 1..d |->
     LET at == {i \in DOMAIN pieces : k - depth[i - 1] \in 1..Len(pieces[i])}
         i == CHOOSE i \in at : TRUE
     IN IF Cardinality(at) = 1 THEN pieces[i][k - depth[i - 1]] ELSE <<"mix", 0, k>>]

Failed(sh, off, error) ==
  [value |-> <<>>, ptr |-> FALSE, isVspPush |-> FALSE, flagsPromise |-> NoPromise,
   sh |-> sh, off |-> off, err |-> error]

(* d bytes: the whole topmost slots, and the need bytes that are missing   *)
(* from the next slot or, when there is none, from the stack array.        *)
PopPieces(sh, off, d, depth, whole, need) ==
  LET cut == need > 0 /\ whole < Len(sh)
      slot == sh[Len(sh) - whole]
      top == [i \in 1..whole |-> ZeroExtend(FromTop(sh, i).value, FromTop(sh, i).depth)]
      rest == IF cut THEN Trunc(slot.value, need) ELSE Load(off, need)
      errors == [i \in 1..(IF cut THEN whole + 1 ELSE whole) |->
                   SlotError(FromTop(sh, i), d - depth[i - 1],
                             IF i = 1 THEN d ELSE d - depth[i - 2])]
  IN IF FirstError(errors) # "ok" THEN Failed(sh, off, FirstError(errors))
     ELSE [value |-> Merged(Append(top, rest), depth, d),
           ptr |-> FALSE, isVspPush |-> FALSE, flagsPromise |-> NoPromise,
           sh |-> IF cut
                  THEN Append(SubSeq(sh, 1, Len(sh) - whole - 1), Remainder(slot, need))
                  ELSE SubSeq(sh, 1, Len(sh) - whole),
           off |-> IF cut THEN off ELSE off + need,
           err |-> "ok"]

PopSlot(sh, off, top) ==
  [value |-> top.value, ptr |-> top.ptr, isVspPush |-> top.isVspPush,
   flagsPromise |-> top.flagsPromise, sh |-> SubSeq(sh, 1, Len(sh) - 1), off |-> off,
   err |-> IF IsPowerOfTwo(top.depth) THEN "ok" ELSE "strange"]

(* ShadowPop: the topmost slot as it is if it has the depth, else pieces.  *)
WholeSlots(sh, d) == Cardinality({k \in 1..Len(sh) : TopDepth(sh)[k] <= d})
ShadowPop(sh, off, d) ==
  IF sh # <<>> /\ sh[Len(sh)].depth = d
  THEN PopSlot(sh, off, sh[Len(sh)])
  ELSE PopPieces(sh, off, d, TopDepth(sh), WholeSlots(sh, d),
                 d - TopDepth(sh)[WholeSlots(sh, d)])

(* The next pop after p, unless the lifter has already stopped.            *)
PopAfter(p, d) == IF p.err = "ok" THEN ShadowPop(p.sh, p.off, d) ELSE p

PopTop(d) == ShadowPop(shadowStack, stackOffset, d)

(* Slots with a promise are skipped; the others are stored downwards from  *)
(* the stored stack, each with its own width.                              *)
FlushedDepth(sh, n) ==
  LET sum[i \in 0..n] == IF i = 0 THEN 0
                         ELSE sum[i - 1] + (IF sh[i].flagsPromise = NoPromise
                                            THEN sh[i].depth ELSE 0)
  IN sum[n]
Flushed(array, sh, off) ==
  LET at(i) == off - FlushedDepth(sh, i)
      writers(x) == {i \in 1..Len(sh) : /\ sh[i].flagsPromise = NoPromise
                                        /\ x \in at(i)..(at(i) + Len(sh[i].value) - 1)}
  IN [x \in DOMAIN array |->
        IF writers(x) = {} THEN array[x]
        ELSE LET i == CHOOSE i \in writers(x) : \A j \in writers(x) : j <= i
             IN sh[i].value[x - at(i) + 1]]
FlushedOffset(sh, off) == off - FlushedDepth(sh, Len(sh))

(* flagCalculators.erase: the promise of the register that holds offset.   *)
NotErased(offset) == flagCalculators
Erased(offset) ==
  LET register == (offset \div PtrSize) * PtrSize
  IN [key \in DOMAIN flagCalculators \ {register} |-> flagCalculators[key]]

CurrentVsp == stackOffset - ShadowDepth(shadowStack)    \* GetCurrentVspVal

-----------------------------------------------------------------------------
(* The stack and the register file that the lifter stands for: slots are   *)
(* stored, promises are kept.                                              *)
SlotBytes(s) ==
  IF s.flagsPromise # NoPromise THEN FlagsOf(s.flagsPromise)
  ELSE SubSeq(ZeroExtend(s.value, s.depth), 1, s.depth)
LiveStack ==
  FlattenSeq([i \in 1..Len(shadowStack) |-> SlotBytes(FromTop(shadowStack, i))])
    \o Load(stackOffset, Above - stackOffset)
Promised(x) == {key \in DOMAIN flagCalculators : x \in (key + 1)..(key + PtrSize)}
LiveContext ==
  [x \in 1..ContextSize |->
     IF Promised(x) = {} THEN virtualContext[x]
     ELSE LET key == CHOOSE key \in Promised(x) : TRUE
          IN FlagsOf(flagCalculators[key])[x - key]]

(* Bytes that a handler takes off the stack.                               *)
Popped(h) ==
  CASE h.op = "Pop" -> StackDepth(h.d)
    [] h.op \in {"PopVsp", "ReadMem", "Jmp"} -> PtrSize
    [] h.op = "WriteMem" -> PtrSize + StackDepth(h.d)
    [] h.op \in Binary -> 2 * StackDepth(h.d)
    [] h.op \in Shift -> StackDepth(h.d) + 2
    [] h.op \in DoubleShift -> 2 * StackDepth(h.d) + 2
    [] h.op = "Exit" -> PtrSize * (Len(ExitRegs) + 2)
    [] OTHER -> 0

(* Bytes that it leaves there.                                             *)
Pushed(h) ==
  CASE h.op \in {"PushReg", "PushConst", "PushVsp", "ReadMem"} -> StackDepth(h.d)
    [] h.op \in Alu -> StackDepth(h.d) + PtrSize
    [] h.op = "Entry" -> PtrSize * (Len(EntryRegs) + 3)
    [] OTHER -> 0

RecordedVsp(h) ==
  IF h.op = "PopVsp" THEN OffsetOf(Trunc(LiveStack, PtrSize))
  ELSE vspAfter + Popped(h) - Pushed(h)

(* The assumptions of Discipline, for a trace that goes on with h.         *)
Disciplined(h) ==
  LET n == Len(shadowStack)
      knownVsp == n > 0 /\ shadowStack[n].isVspPush
      accesses == h.op \in {"ReadMem", "WriteMem"}
  IN /\ "FlagsPopped" \in Discipline =>
          (n > 0 /\ shadowStack[n].flagsPromise # NoPromise => h.op = "Pop" /\ h.d = PtrSize)
     /\ "FlagsWhole" \in Discipline =>
          (h.op \in {"Pop", "PushReg"} =>
             \A key \in DOMAIN flagCalculators :
               h.arg + h.d > key /\ h.arg < key + PtrSize => h.arg = key /\ h.d = PtrSize)
     /\ "FlagsDeadAtJump" \in Discipline =>
          (h.op = "Jmp" => DOMAIN flagCalculators = {})
     /\ "MemoryDrained" \in Discipline =>
          (accesses => ShadowDepth(shadowStack) <= Popped(h))
     /\ "VspDirect" \in Discipline =>
          (accesses => (knownVsp <=> IsStackAddress(Trunc(LiveStack, PtrSize))))

(* The trace is one the machine can run: the stack holds what the handler  *)
(* takes, and the stack addresses it uses are those of live bytes.         *)
Legal(h) ==
  LET n == Popped(h)
      a == Trunc(LiveStack, PtrSize)
  IN /\ n <= Above - vspAfter
     /\ n <= Above - CurrentVsp
     /\ h.op \in {"ReadMem", "WriteMem"} =>
          IF IsStackAddress(a) THEN OffsetOf(a) \in (vspAfter + n)..(Above - h.d)
          ELSE shadowStack # <<>> => ~shadowStack[Len(shadowStack)].isVspPush
     /\ h.op = "PopVsp" =>
          IsStackAddress(a) /\ OffsetOf(a) \in (vspAfter + n)..Above
     /\ Disciplined(h)

-----------------------------------------------------------------------------
Init ==
  /\ stackOffset = 0
  /\ shadowStack = <<>>
  /\ flagCalculators = NoCalculators
  /\ stackArray = [x \in (-Below)..(Above - 1) |-> <<"mem", 0, x + 1>>]
  /\ virtualContext = Word("ctx", 0, ContextSize)
  /\ inBlock = FALSE
  /\ vspAfter = 0
  /\ pos = 0
  /\ executed = <<>>
  /\ status = "ok"

(* LiftBasicBlock starts on an empty shadow stack, and on the stackOffset  *)
(* and the promises that the block lifted before left.                     *)
LiftBasicBlock ==
  /\ ~inBlock
  /\ status = "ok"
  /\ pos < MaxLength
  /\ inBlock' = TRUE
  /\ shadowStack' = <<>>
  /\ UNCHANGED <<stackOffset, flagCalculators, stackArray, virtualContext,
                 vspAfter, pos, executed, status>>

Starts(h, op) ==
  /\ h.op = op
  /\ inBlock
  /\ status = "ok"
  /\ pos < MaxLength
  /\ Legal(h)

Emit(h, sh, off, consumed) ==
  /\ off - ShadowDepth(sh) >= -Below      \* bound: the trace stays in the array
  /\ shadowStack' = sh
  /\ stackOffset' = off
  /\ executed' = <<h, consumed>>
  /\ vspAfter' = RecordedVsp(h)
  /\ pos' = pos + 1

Stop(error) ==
  /\ error \in {"strange", "null", "badIR"}
  /\ status' = error
  /\ UNCHANGED <<stackOffset, shadowStack, flagCalculators, stackArray,
                 virtualContext, inBlock, vspAfter, pos, executed>>

(* VM_POP and VM_POP_VSP only pop.                                         *)
StopInPop(h) ==
  /\ h.op \in {"Pop", "PopVsp"}
  /\ Starts(h, h.op)
  /\ Stop(PopTop(Popped(h)).err)

(* What stops the lifter in a handler that pops the slots ps and puts      *)
(* their values into an instruction.                                       *)
UseError(ps, pointersAllowed) ==
  LET last == ps[Len(ps)]
  IN IF last.err # "ok" THEN last.err
     ELSE IF \E i \in DOMAIN ps : ps[i].flagsPromise # NoPromise THEN "null"
     ELSE IF ~pointersAllowed /\ \E i \in DOMAIN ps : ps[i].ptr THEN "badIR"
     ELSE "ok"

LiftVmPop(h) ==
  /\ Starts(h, "Pop")
  /\ LET p == PopTop(StackDepth(h.d))
         kept == Erased(h.arg)
         v == IF h.d = 1 THEN Trunc(p.value, 1) ELSE p.value
         promise == [key \in DOMAIN kept \cup {h.arg} |->
                       IF key = h.arg THEN p.flagsPromise ELSE kept[key]]
     IN /\ p.err = "ok"
        /\ \/ /\ p.flagsPromise # NoPromise
              /\ flagCalculators' = promise
              /\ Emit(h, p.sh, p.off, <<FlagsOf(p.flagsPromise)>>)
              /\ UNCHANGED virtualContext
           \/ /\ p.flagsPromise = NoPromise
              /\ flagCalculators' = kept
              /\ virtualContext' = [x \in DOMAIN virtualContext |->
                                      IF x \in (h.arg + 1)..(h.arg + Len(v))
                                      THEN v[x - h.arg] ELSE virtualContext[x]]
              /\ Emit(h, p.sh, p.off, <<v>>)
  /\ UNCHANGED <<stackArray, inBlock, status>>

LiftVmPushReg(h) ==
  /\ Starts(h, "PushReg")
  /\ LET promised == h.arg \in DOMAIN flagCalculators
         v == IF promised THEN FlagsOf(flagCalculators[h.arg])
              ELSE SubSeq(virtualContext, h.arg + 1, h.arg + h.d)
         n == StackDepth(h.d)
     IN \/ promised /\ h.d = 1 /\ Stop("badIR")      \* zext of i64 to i16
        \/ /\ ~(promised /\ h.d = 1)
           /\ Emit(h, Append(shadowStack,
                          ValueSlot(IF h.d = 1 THEN ZeroExtend(v, n) ELSE v, n)),
                   stackOffset, <<v>>)
           /\ UNCHANGED <<flagCalculators, stackArray, virtualContext, inBlock, status>>

LiftVmPushConst(h) ==
  /\ Starts(h, "PushConst")
  /\ LET n == StackDepth(h.d)
     IN Emit(h, Append(shadowStack, ValueSlot(ZeroExtend(Word("cst", h.arg, h.d), n), n)),
             stackOffset, <<>>)
  /\ UNCHANGED <<flagCalculators, stackArray, virtualContext, inBlock, status>>

LiftVmPushVsp(h) ==
  /\ Starts(h, "PushVsp")
  /\ LET n == StackDepth(h.d)
         vsp == StackAddress(CurrentVsp)
     IN Emit(h, Append(shadowStack, IF h.d = PtrSize THEN PointerSlot(vsp)
                                 ELSE ValueSlot(Trunc(vsp, n), n)),
             stackOffset, <<>>)
  /\ UNCHANGED <<flagCalculators, stackArray, virtualContext, inBlock, status>>

(* matchData.offset is the recorded vspAfter - vspBefore; the popped value *)
(* itself is not used.                                                     *)
LiftVmPopVsp(h) ==
  /\ Starts(h, "PopVsp")
  /\ LET p == PopTop(PtrSize)
         a == Trunc(LiveStack, PtrSize)
         offset == RecordedVsp(h) - vspAfter
     IN /\ p.err = "ok"
        /\ stackArray' = Flushed(stackArray, p.sh, p.off)
        /\ Emit(h, <<>>, FlushedOffset(p.sh, p.off) + offset, <<a>>)
  /\ UNCHANGED <<flagCalculators, virtualContext, inBlock, status>>

(* GenerateMemoryAccess: the shadow stack sh is flushed but not cleared,   *)
(* then a stack address known as such goes to the stack array and every    *)
(* other address to the memory hooks.  No value means a read; the hooks    *)
(* push 16 bits for the 8 they read, the stack access does not.  An        *)
(* assertion stops the lifter unless a stack address is a pointer and      *)
(* every other address is none; what the step leaves is then not used.     *)
GenerateMemoryAccess(h, a, sh, off, reads, v, consumed) ==
  LET array == Flushed(stackArray, sh, off)
      flushed == FlushedOffset(sh, off)
      at == OffsetOf(a.value)
      read == IF a.isVspPush
              THEN ValueSlot([k \in 1..h.d |-> array[at + k - 1]], h.d)
              ELSE ValueSlot(Word("res", pos + 1, h.d), StackDepth(h.d))
  IN /\ stackArray' = IF a.isVspPush /\ ~reads THEN Store(array, at, v) ELSE array
     /\ Emit(h, IF reads THEN Append(sh, read) ELSE sh, flushed, consumed)
     /\ status' = IF a.isVspPush = a.ptr THEN "ok" ELSE "address"
     /\ UNCHANGED <<flagCalculators, virtualContext, inBlock>>

LiftVmReadMem(h) ==
  /\ Starts(h, "ReadMem")
  /\ LET a == PopTop(PtrSize)
         error == UseError(<<a>>, TRUE)
     IN \/ Stop(error)
        \/ /\ error = "ok"
           /\ GenerateMemoryAccess(h, a, a.sh, a.off, TRUE, <<>>, <<a.value>>)

(* A promise has no value, and a write without a value is a read.          *)
LiftVmWriteMem(h) ==
  /\ Starts(h, "WriteMem")
  /\ LET a == PopTop(PtrSize)
         p == PopAfter(a, StackDepth(h.d))
         v == IF h.d = 1 THEN Trunc(p.value, 1) ELSE p.value
         noValue == p.flagsPromise # NoPromise
         used == UseError(<<a>>, TRUE)
         error == IF used # "ok" THEN used
                  ELSE IF p.err # "ok" THEN p.err
                  ELSE IF p.ptr /\ ~a.isVspPush THEN "badIR"
                  ELSE "ok"
     IN \/ Stop(error)
        \/ /\ error = "ok"
           /\ GenerateMemoryAccess(h, a, p.sh, p.off, noValue, v, <<a.value, v>>)

(* The result, and above it the promise of the flags.                      *)
EmitAlu(h, p, result, consumed) ==
  /\ Emit(h, p.sh \o <<result, FlagsSlot(pos + 1)>>, p.off, consumed)
  /\ UNCHANGED <<flagCalculators, stackArray, virtualContext, inBlock, status>>

(* A sum with one stack address is a stack address.  The 8-bit sum is taken*)
(* of the 16-bit operands; only the operands of the flags are cut to 8.    *)
LiftVmAdd(h) ==
  /\ Starts(h, "Add")
  /\ LET n == StackDepth(h.d)
         b == PopTop(n)
         a == PopAfter(b, n)
         hasSingleVspOperand == a.isVspPush # b.isVspPush
         sum == SumOf(a.value, b.value, pos + 1)
         used == UseError(<<b, a>>, hasSingleVspOperand)
         error == IF used = "ok" /\ Len(a.value) # Len(b.value) THEN "badIR" ELSE used
     IN \/ Stop(error)
        \/ /\ error = "ok"
           /\ EmitAlu(h, a, [ValueSlot(sum, n) EXCEPT !.ptr = hasSingleVspOperand,
                                                   !.isVspPush = hasSingleVspOperand],
                      <<Trunc(b.value, h.d), Trunc(a.value, h.d)>>)

LiftVmNor(h) ==
  /\ h.op \in {"Nor", "Nand"}      \* LiftVmNand is the same but for the operator
  /\ Starts(h, h.op)
  /\ LET n == StackDepth(h.d)
         b == PopTop(n)
         a == PopAfter(b, n)
         used == UseError(<<b, a>>, TRUE)
         consumed == <<Trunc(b.value, h.d), Trunc(a.value, h.d)>>
         error == IF used = "ok" /\ Len(consumed[1]) # Len(consumed[2]) THEN "badIR" ELSE used
     IN \/ Stop(error)
        \/ /\ error = "ok"
           /\ EmitAlu(h, a, ValueSlot(ZeroExtend(Word("res", pos + 1, h.d), n), n), consumed)

(* The 8-bit shifts shift all 16 bits of their slot.                       *)
LiftVmShift(h) ==
  /\ h.op \in Shift
  /\ Starts(h, h.op)
  /\ LET n == StackDepth(h.d)
         val == PopTop(n)
         amt == PopAfter(val, 2)
         error == UseError(<<val, amt>>, FALSE)
     IN \/ Stop(error)
        \/ /\ error = "ok"
           /\ EmitAlu(h, amt, ValueSlot(Word("res", pos + 1, n), n),
                      <<val.value, Trunc(amt.value, 1)>>)

(* The 8-bit double shifts push their i8 as a 16-bit slot.                 *)
LiftVmDoubleShift(h) ==
  /\ h.op \in DoubleShift
  /\ Starts(h, h.op)
  /\ LET n == StackDepth(h.d)
         dst == PopTop(n)
         src == PopAfter(dst, n)
         count == PopAfter(src, 2)
         error == UseError(<<dst, src, count>>, FALSE)
     IN \/ Stop(error)
        \/ /\ error = "ok"
           /\ EmitAlu(h, count, ValueSlot(Word("res", pos + 1, h.d), n),
                      <<Trunc(dst.value, h.d), Trunc(src.value, h.d), Trunc(count.value, 1)>>)

LiftVmJmpIndirect(h) ==
  /\ Starts(h, "Jmp")
  /\ LET p == PopTop(PtrSize)
         error == UseError(<<p>>, FALSE)
     IN \/ Stop(error)
        \/ /\ error = "ok"
           /\ stackArray' = Flushed(stackArray, p.sh, p.off)
           /\ Emit(h, <<>>, FlushedOffset(p.sh, p.off), <<p.value>>)
           /\ flagCalculators' = NoCalculators
           /\ inBlock' = FALSE
           /\ UNCHANGED <<virtualContext, status>>

(* Registers without an index in NativeContext are not pushed.             *)
LiftVmEntry(h) ==
  /\ Starts(h, "Entry")
  /\ LET zero == ValueSlot(Word("cst", 0, PtrSize), PtrSize)
         regs == [i \in 1..Len(EntryRegs) |->
                    IF EntryRegs[i] = -1 THEN <<>>
                    ELSE <<ValueSlot(NativeReg(EntryRegs[i]), PtrSize)>>]
     IN Emit(h, shadowStack \o <<zero, zero>> \o FlattenSeq(regs)
               \o <<ValueSlot(ImageBaseDif, PtrSize)>>,
             stackOffset, <<>>)
  /\ UNCHANGED <<flagCalculators, stackArray, virtualContext, inBlock, status>>

(* The rest of the shadow stack is not flushed: the trace ends here.  The  *)
(* value of a register without an index in NativeContext is not used.      *)
LiftVmExit(h) ==
  /\ Starts(h, "Exit")
  /\ LET n == Len(ExitRegs) + 2
         pops[i \in 1..n] == IF i = 1 THEN PopTop(PtrSize) ELSE PopAfter(pops[i - 1], PtrSize)
         used == {i \in 1..n : i <= Len(ExitRegs) => ExitRegs[i] # -1}
         error == IF pops[n].err # "ok" THEN pops[n].err
                  ELSE IF \E i \in used : pops[i].flagsPromise # NoPromise THEN "null"
                  ELSE "ok"
     IN \/ Stop(error)
        \/ /\ error = "ok"
           /\ Emit(h, pops[n].sh, pops[n].off, [i \in 1..n |-> pops[i].value])
           /\ flagCalculators' = NoCalculators
           /\ status' = "exit"
           /\ inBlock' = FALSE
           /\ UNCHANGED <<stackArray, virtualContext>>

LiftHandler(h) ==
  \/ StopInPop(h) \/ LiftVmPop(h) \/ LiftVmPushReg(h) \/ LiftVmPushConst(h)
  \/ LiftVmPushVsp(h) \/ LiftVmPopVsp(h)
  \/ LiftVmReadMem(h) \/ LiftVmWriteMem(h)
  \/ LiftVmAdd(h) \/ LiftVmNor(h) \/ LiftVmShift(h) \/ LiftVmDoubleShift(h)
  \/ LiftVmJmpIndirect(h) \/ LiftVmEntry(h) \/ LiftVmExit(h)

Next == LiftBasicBlock \/ \E h \in Handlers : LiftHandler(h)

Spec == Init /\ [][Next]_vars

-----------------------------------------------------------------------------
(* The lifted code, with the shadow stack stored and the promises kept, is *)
(* the machine of the trace: every handler leaves the same live stack and  *)
(* the same registers as the machine's, and consumes the same operands.    *)
Gone == status = "exit"
VM == INSTANCE VirtualMachine WITH
        running <- ~Gone,
        stack <- IF Gone THEN <<>> ELSE LiveStack,
        context <- IF Gone THEN <<>> ELSE LiveContext
ImplementsMachine == VM!Spec

(* The state is made of what its declarations say.                         *)
TypeOK ==
  /\ stackOffset \in Int
  /\ shadowStack \in Seq(Slot)
  /\ DOMAIN flagCalculators \subseteq 0..(ContextSize - 1)
  /\ \A key \in DOMAIN flagCalculators : flagCalculators[key] \in 1..MaxLength
  /\ stackArray \in [(-Below)..(Above - 1) -> Byte]
  /\ virtualContext \in Seq(Byte) /\ Len(virtualContext) = ContextSize
  /\ inBlock \in BOOLEAN
  /\ vspAfter \in Int
  /\ pos \in 0..MaxLength
  /\ status \in {"ok", "exit", "strange", "null", "badIR", "address"}

WellFormed(s) ==
  /\ s.ptr \in BOOLEAN /\ s.isVspPush = s.ptr
  /\ s.ptr => s.depth = PtrSize /\ s.flagsPromise = NoPromise
  /\ s.flagsPromise # NoPromise => s.depth = PtrSize /\ s.value = <<>>

(* On any trace, disciplined or not, while a block is being lifted: a slot *)
(* is marked as a stack address exactly when its value is still a pointer, *)
(* and then it is a whole one; a slot with a promise has no value.         *)
SlotsWellFormed ==
  inBlock => \A i \in DOMAIN shadowStack : WellFormed(shadowStack[i])

(* On any trace, the two assertions about the kind of an address hold: a   *)
(* stack access gets a pointer and a RAM access an integer.                *)
AddressesTyped == status # "address"

(* A waiting value is as wide as its slot, so that storing the slot leaves *)
(* no stale byte and putting slots together needs no padding.              *)
SlotsFilled ==
  \A i \in DOMAIN shadowStack :
    shadowStack[i].flagsPromise = NoPromise =>
      Len(shadowStack[i].value) = shadowStack[i].depth

(* The assertions "Strange behaivour" hold: depths stay powers of two.     *)
NeverStrange == status # "strange"

(* What stops the lifter is a piece of less than four bytes, one that the  *)
(* handler takes or leaves or one that waits on the shadow stack, or an    *)
(* address of the stack that is used as a number.                          *)
MovesWords(h) == h.d < 4 \/ h.op \in Shift \cup DoubleShift
NeverStops ==
  [][status' \notin {"ok", "exit"} =>
       \/ \E i \in DOMAIN shadowStack : shadowStack[i].depth \notin {4, 8}
       \/ \E h \in Handlers : MovesWords(h) /\ LiftHandler(h)
       \/ status' = "badIR" /\ \E i \in DOMAIN shadowStack : shadowStack[i].ptr]_vars

(* The VSP that the lifter would push is the VSP that the trace recorded.  *)
VspTracked == status = "ok" => CurrentVsp = vspAfter

(* What is left of the shadow stack below the operands of h, how much of it*)
(* a flush stores, how much it passes over.                                *)
BelowOperands(h) ==
  IF h.op = "WriteMem" THEN PopAfter(PopTop(PtrSize), StackDepth(h.d)) ELSE PopTop(PtrSize)
StoredDepth(sh) == FlushedDepth(sh, Len(sh))
SkippedDepth(sh) == ShadowDepth(sh) - StoredDepth(sh)
Drift == vspAfter - CurrentVsp

(* On any trace the lifter's VSP departs from the recorded one in these    *)
(* ways and by these amounts only: VM_POP_VSP counts its pop twice, a flush*)
(* that ends the waiting passes over promises, one before a memory access  *)
(* keeps what it has stored, an 8-bit read of the stack leaves one byte,   *)
(* flags that are to be written to memory are read from there instead.     *)
VspDrifts ==
  [][pos' # pos /\ status' = "ok" =>
       LET h == executed'[1]
           rest == BelowOperands(h)
           onStack == PopTop(PtrSize).isVspPush
           flags == rest.flagsPromise # NoPromise
       IN Drift' - Drift =
            CASE h.op = "PopVsp" -> -PtrSize - SkippedDepth(rest.sh)
              [] h.op = "Jmp" -> -SkippedDepth(rest.sh)
              [] h.op = "ReadMem" -> StoredDepth(rest.sh) - (IF onStack /\ h.d = 1 THEN 1 ELSE 0)
              [] h.op = "WriteMem" -> StoredDepth(rest.sh) + (IF flags THEN PtrSize ELSE 0)
              [] OTHER -> 0]_vars

(* A jump changes no register: what a register promises can still be       *)
(* computed in the next block.                                             *)
JumpKeepsRegisters ==
  [][inBlock /\ ~inBlock' /\ status' = "ok" => LiveContext' = LiveContext]_vars
=============================================================================
