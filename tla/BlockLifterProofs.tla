-------------------------- MODULE BlockLifterProofs --------------------------
(***************************************************************************)
(* First, what BlockLifter keeps true on every trace, of any length and    *)
(* for any set of handlers: the marks of the shadow stack are consistent,  *)
(* and the two assertions of GenerateMemoryAccess about the kind of an     *)
(* address never fail.                                                     *)
(*                                                                         *)
(* Then, on the traces that meet the assumptions of Regular, the code that *)
(* the lifter emits is the machine of the trace: BlockLifter implements    *)
(* VirtualMachine.  The live stack is described by the places of its bytes *)
(* (IsLive): slot i lies under the slots before it, all of them under the  *)
(* stored stack.  What a push, a pop, a flush or a store does to such a    *)
(* description is shown once, for any stack; every handler then follows.   *)
(***************************************************************************)
EXTENDS BlockLifter, Induction, TLAPS, FiniteSetTheorems, SequenceTheorems

(* A shadow stack of well-formed slots.  The values are not looked into.   *)
GoodStack(sh) == \E S : sh \in Seq(S) /\ \A s \in S : WellFormed(s)

(* SlotsWellFormed as an inductive invariant: the shadow stack is also     *)
(* known to be a sequence.                                                 *)
IInv == (inBlock => GoodStack(shadowStack)) /\ status # "address"

-----------------------------------------------------------------------------
(* Every slot that the lifter builds is well formed.                       *)
LEMMA ValueSlotWellFormed == \A v, n : WellFormed(ValueSlot(v, n))
  BY DEF WellFormed, ValueSlot, NoPromise

LEMMA PointerSlotWellFormed == \A v : WellFormed(PointerSlot(v))
  BY DEF WellFormed, PointerSlot, ValueSlot, NoPromise, PtrSize

LEMMA FlagsSlotWellFormed == \A n : WellFormed(FlagsSlot(n))
  BY DEF WellFormed, FlagsSlot, ValueSlot, NoPromise, PtrSize

LEMMA RemainderWellFormed == \A s, n : WellFormed(Remainder(s, n))
  BY DEF WellFormed, Remainder, ValueSlot, NoPromise

LEMMA SeqGood ==
  ASSUME NEW S, NEW sh \in Seq(S), \A s \in S : WellFormed(s)
  PROVE  GoodStack(sh)
  BY DEF GoodStack

(* Pushing keeps the shadow stack good.                                    *)
LEMMA AppendGood ==
  ASSUME NEW sh, GoodStack(sh), NEW s, WellFormed(s)
  PROVE  GoodStack(Append(sh, s))
<1>1. PICK S : sh \in Seq(S) /\ \A x \in S : WellFormed(x)
  BY DEF GoodStack
<1>2. sh \in Seq(S \cup {s}) /\ s \in S \cup {s}
  BY <1>1, SeqMonotonic
<1>3. Append(sh, s) \in Seq(S \cup {s})
  BY <1>2
<1> QED  BY <1>1, <1>3 DEF GoodStack

LEMMA ConcatGood ==
  ASSUME NEW sh, GoodStack(sh), NEW top, GoodStack(top)
  PROVE  GoodStack(sh \o top)
<1>1. PICK S : sh \in Seq(S) /\ \A x \in S : WellFormed(x)
  BY DEF GoodStack
<1>2. PICK T : top \in Seq(T) /\ \A x \in T : WellFormed(x)
  BY DEF GoodStack
<1>3. sh \in Seq(S \cup T) /\ top \in Seq(S \cup T)
  BY <1>1, <1>2, SeqMonotonic
<1>4. sh \o top \in Seq(S \cup T)
  BY <1>3, ConcatProperties
<1> QED  BY <1>1, <1>2, <1>4 DEF GoodStack

LEMMA PairGood ==
  ASSUME NEW s, WellFormed(s), NEW t, WellFormed(t)
  PROVE  GoodStack(<<s>>) /\ GoodStack(<<s, t>>)
<1> DEFINE T == {s, t}
<1>1. <<s>> \in Seq(T) /\ <<s, t>> \in Seq(T)
  OBVIOUS
<1>2. \A x \in T : WellFormed(x)
  OBVIOUS
<1>3. \A S, sh : sh \in Seq(S) /\ (\A x \in S : WellFormed(x)) => GoodStack(sh)
  BY SeqGood
<1> HIDE DEF T
<1> QED  BY <1>1, <1>2, <1>3, Zenon

(* What stays below a pop is good.                                         *)
LEMMA PrefixGood ==
  ASSUME NEW sh, GoodStack(sh), NEW m \in Int, m <= Len(sh)
  PROVE  GoodStack(SubSeq(sh, 1, m))
<1>1. PICK S : sh \in Seq(S) /\ \A x \in S : WellFormed(x)
  BY DEF GoodStack
<1>2. \A i \in 1..m : sh[i] \in S
  BY <1>1, ElementOfSeq, LenProperties
<1>3. SubSeq(sh, 1, m) \in Seq(S)
  BY <1>2, SubSeqProperties
<1> QED  BY <1>1, <1>3 DEF GoodStack

LEMMA EmptyGood == GoodStack(<<>>)
<1>1. <<>> \in Seq({})
  BY EmptySeq
<1>2. \A S : <<>> \in Seq(S) /\ (\A s \in S : WellFormed(s)) => GoodStack(<<>>)
  BY SeqGood
<1> QED  BY <1>1, <1>2

-----------------------------------------------------------------------------
(* What a popped value says of itself, whatever stack it came from.        *)
GoodPop(p, d) ==
  /\ GoodStack(p.sh)
  /\ p.ptr \in BOOLEAN /\ p.isVspPush = p.ptr
  /\ p.ptr => d = PtrSize

(* ShadowPop leaves a good stack, and the value it returns is marked as a  *)
(* stack address exactly when it is a pointer, which a value of another    *)
(* depth than an address never is.                                         *)
LEMMA ShadowPopGood ==
  ASSUME NEW sh, GoodStack(sh), NEW off, NEW d
  PROVE  GoodPop(ShadowPop(sh, off, d), d)
<1> DEFINE n == Len(sh)
           K == {k \in 1..n : TopDepth(sh)[k] <= d}
           whole == WholeSlots(sh, d)
           need == d - TopDepth(sh)[whole]
           cut == need > 0 /\ whole < n
           p == ShadowPop(sh, off, d)
<1>1. PICK S : sh \in Seq(S) /\ \A x \in S : WellFormed(x)
  BY DEF GoodStack
<1>2. n \in Nat
  BY <1>1, LenProperties
<1>3. whole \in 0..n
  <2>1. IsFiniteSet(1..n) /\ Cardinality(1..n) = n
    BY <1>2, IntervalSize
  <2>2. K \in SUBSET (1..n)
    OBVIOUS
  <2>3. IsFiniteSet(K) /\ Cardinality(K) <= n
    BY <2>1, <2>2, FS_Subset
  <2>4. Cardinality(K) \in Nat
    BY <2>3, FS_CardinalityType
  <2>5. whole = Cardinality(K)
    BY DEF WholeSlots
  <2> QED  BY <1>2, <2>3, <2>4, <2>5
<1>4. CASE sh # <<>> /\ sh[n].depth = d
  <2>1. /\ p.sh = SubSeq(sh, 1, n - 1)
        /\ p.ptr = sh[n].ptr
        /\ p.isVspPush = sh[n].isVspPush
    BY <1>4 DEF ShadowPop, PopSlot
  <2>2. GoodStack(p.sh)
    BY <1>2, <2>1, PrefixGood
  <2>3. WellFormed(sh[n])
    <3>1. n \in 1..n
      BY <1>1, <1>2, <1>4, EmptySeq
    <3> QED  BY <1>1, <3>1, ElementOfSeq
  <2> QED  BY <1>4, <2>1, <2>2, <2>3 DEF GoodPop, WellFormed
<1>5. CASE ~(sh # <<>> /\ sh[n].depth = d)
  <2>0. p = PopPieces(sh, off, d, TopDepth(sh), whole, need)
    BY <1>5 DEF ShadowPop
  <2>1. p.ptr = FALSE /\ p.isVspPush = FALSE
    BY <2>0 DEF PopPieces, Failed
  <2>2. \/ p.sh = sh
        \/ p.sh = SubSeq(sh, 1, n - whole)
        \/ p.sh = Append(SubSeq(sh, 1, n - whole - 1), Remainder(sh[n - whole], need))
    <3> DEFINE q == PopPieces(sh, off, d, TopDepth(sh), whole, need)
    <3>1. \/ q.sh = sh
          \/ q.sh = SubSeq(sh, 1, n - whole)
          \/ q.sh = Append(SubSeq(sh, 1, n - whole - 1), Remainder(sh[n - whole], need))
      <4> DEFINE depth == TopDepth(sh)
      <4> HIDE DEF whole, need, depth, K
      <4> QED  BY DEF PopPieces, Failed
    <3> QED  BY <2>0, <3>1
  <2>3. GoodStack(SubSeq(sh, 1, n - whole))
    BY <1>2, <1>3, PrefixGood
  <2>4. GoodStack(SubSeq(sh, 1, n - whole - 1))
    BY <1>2, <1>3, PrefixGood
  <2>5. GoodStack(p.sh)
    BY <2>2, <2>3, <2>4, AppendGood, RemainderWellFormed
  <2> QED  BY <2>1, <2>5 DEF GoodPop
<1> QED  BY <1>4, <1>5

(* The same for a pop that follows a pop.                                  *)
LEMMA PopAfterGood ==
  ASSUME NEW p, GoodStack(p.sh), NEW d, p.err = "ok"
  PROVE  GoodPop(PopAfter(p, d), d)
<1>1. PopAfter(p, d) = ShadowPop(p.sh, p.off, d)
  BY DEF PopAfter
<1> QED  BY <1>1, ShadowPopGood

-----------------------------------------------------------------------------
LEMMA InitIInv == Init => IInv
  BY DEF Init, IInv

(* A step that leaves the block, or stops in it, has nothing to show.      *)
LEMMA StopIInv ==
  ASSUME IInv, NEW error, Stop(error)
  PROVE  IInv'
  BY DEF IInv, Stop, GoodStack

(* A step that pushes or pops inside the block leaves what it names.       *)
LEMMA EmitIInv ==
  ASSUME IInv, NEW h, NEW sh, GoodStack(sh), NEW off, NEW consumed,
         Emit(h, sh, off, consumed), UNCHANGED status
  PROVE  IInv'
<1>1. shadowStack' = sh
  BY DEF Emit
<1>2. GoodStack(shadowStack)'
  BY <1>1 DEF GoodStack
<1> QED  BY <1>2 DEF IInv

LEMMA BlockIInv == IInv /\ LiftBasicBlock => IInv'
<1> SUFFICES ASSUME IInv, LiftBasicBlock PROVE IInv'
  OBVIOUS
<1>1. GoodStack(shadowStack)'
  BY EmptyGood DEF LiftBasicBlock, GoodStack
<1> QED  BY <1>1 DEF IInv, LiftBasicBlock

LEMMA PopIInv == ASSUME IInv, NEW h, LiftVmPop(h) PROVE IInv'
<1> DEFINE p == PopTop(StackDepth(h.d))
<1>1. GoodStack(shadowStack)
  BY DEF IInv, LiftVmPop, Starts
<1>2. GoodStack(p.sh)
  BY <1>1, ShadowPopGood DEF PopTop, GoodPop
<1>3. UNCHANGED status /\ \E consumed : Emit(h, p.sh, p.off, consumed)
  BY Zenon DEF LiftVmPop
<1> QED  BY <1>2, <1>3, EmitIInv

LEMMA PushRegIInv == ASSUME IInv, NEW h, LiftVmPushReg(h) PROVE IInv'
<1>1. GoodStack(shadowStack)
  BY DEF IInv, LiftVmPushReg, Starts
<1>2. \/ Stop("badIR")
      \/ \E v, n, consumed :
           /\ Emit(h, Append(shadowStack, ValueSlot(v, n)), stackOffset, consumed)
           /\ UNCHANGED status
  BY Zenon DEF LiftVmPushReg
<1> QED  BY <1>1, <1>2, StopIInv, EmitIInv, AppendGood, ValueSlotWellFormed

LEMMA PushConstIInv == ASSUME IInv, NEW h, LiftVmPushConst(h) PROVE IInv'
<1>1. GoodStack(shadowStack)
  BY DEF IInv, LiftVmPushConst, Starts
<1>2. \E v, n, consumed :
        /\ Emit(h, Append(shadowStack, ValueSlot(v, n)), stackOffset, consumed)
        /\ UNCHANGED status
  BY Zenon DEF LiftVmPushConst
<1> QED  BY <1>1, <1>2, EmitIInv, AppendGood, ValueSlotWellFormed

LEMMA PushVspIInv == ASSUME IInv, NEW h, LiftVmPushVsp(h) PROVE IInv'
<1>1. GoodStack(shadowStack)
  BY DEF IInv, LiftVmPushVsp, Starts
<1>2. \E s, consumed :
        /\ WellFormed(s)
        /\ Emit(h, Append(shadowStack, s), stackOffset, consumed)
        /\ UNCHANGED status
  BY PointerSlotWellFormed, ValueSlotWellFormed DEF LiftVmPushVsp
<1> QED  BY <1>1, <1>2, EmitIInv, AppendGood

LEMMA PopVspIInv == ASSUME IInv, NEW h, LiftVmPopVsp(h) PROVE IInv'
<1>1. UNCHANGED status /\ \E off, consumed : Emit(h, <<>>, off, consumed)
  BY Zenon DEF LiftVmPopVsp
<1> QED  BY <1>1, EmitIInv, EmptyGood

(* A memory access: the address is a pointer exactly when it is marked, so *)
(* the assertion holds, and only a read pushes, a slot that is not marked. *)
LEMMA MemoryAccessIInv ==
  ASSUME IInv, NEW h, NEW a, NEW sh, GoodStack(sh), NEW off, NEW reads, NEW v, NEW consumed,
         status = "ok", a.isVspPush = a.ptr,
         GenerateMemoryAccess(h, a, sh, off, reads, v, consumed)
  PROVE  IInv'
<1>1. \E w, n, base : /\ UNCHANGED status
                      /\ \/ Emit(h, sh, base, consumed)
                         \/ Emit(h, Append(sh, ValueSlot(w, n)), base, consumed)
  BY DEF GenerateMemoryAccess
<1> QED  BY <1>1, EmitIInv, AppendGood, ValueSlotWellFormed

LEMMA ReadMemIInv == ASSUME IInv, NEW h, LiftVmReadMem(h) PROVE IInv'
<1> DEFINE a == PopTop(PtrSize)
<1>1. GoodStack(shadowStack) /\ status = "ok"
  BY DEF IInv, LiftVmReadMem, Starts
<1>2. GoodPop(a, PtrSize)
  BY <1>1, ShadowPopGood DEF PopTop
<1>3. \/ Stop(UseError(<<a>>, TRUE))
      \/ GenerateMemoryAccess(h, a, a.sh, a.off, TRUE, <<>>, <<a.value>>)
  BY Zenon DEF LiftVmReadMem
<1> QED  BY <1>1, <1>2, <1>3, StopIInv, MemoryAccessIInv DEF GoodPop

LEMMA WriteMemIInv == ASSUME IInv, NEW h, LiftVmWriteMem(h) PROVE IInv'
<1> DEFINE a == PopTop(PtrSize)
           p == PopAfter(a, StackDepth(h.d))
<1>1. GoodStack(shadowStack) /\ status = "ok"
  BY DEF IInv, LiftVmWriteMem, Starts
<1>2. GoodPop(a, PtrSize)
  BY <1>1, ShadowPopGood DEF PopTop
<1>3. \/ \E error : Stop(error)
      \/ /\ UseError(<<a>>, TRUE) = "ok"
         /\ \E reads, v, consumed : GenerateMemoryAccess(h, a, p.sh, p.off, reads, v, consumed)
  BY DEF LiftVmWriteMem
<1>4. UseError(<<a>>, TRUE) = "ok" => a.err = "ok"
  BY DEF UseError
<1>5. a.err = "ok" => GoodStack(p.sh)
  BY <1>2, PopAfterGood DEF GoodPop
<1> QED  BY <1>1, <1>2, <1>3, <1>4, <1>5, StopIInv, MemoryAccessIInv DEF GoodPop

(* An arithmetic handler pushes its result and the promise of its flags.   *)
LEMMA AluIInv ==
  ASSUME IInv, NEW h, NEW p, GoodStack(p.sh), NEW result, WellFormed(result),
         NEW consumed, EmitAlu(h, p, result, consumed)
  PROVE  IInv'
<1> DEFINE flags == FlagsSlot(pos + 1)
<1>1. GoodStack(<<result, flags>>)
  BY FlagsSlotWellFormed, PairGood
<1>2. GoodStack(p.sh \o <<result, flags>>)
  BY <1>1, ConcatGood
<1>3. Emit(h, p.sh \o <<result, flags>>, p.off, consumed) /\ UNCHANGED status
  BY DEF EmitAlu
<1> QED  BY <1>2, <1>3, EmitIInv

(* UseError is "ok" only if no pop failed: a pop after a failed one fails  *)
(* like it.                                                                *)
LEMMA PopAfterOk ==
  ASSUME NEW p, NEW d, PopAfter(p, d).err = "ok"
  PROVE  p.err = "ok"
  BY DEF PopAfter

LEMMA UseErrorOk ==
  ASSUME NEW ps, NEW allowed, UseError(ps, allowed) = "ok"
  PROVE  ps[Len(ps)].err = "ok"
  BY DEF UseError

(* Two pops after which the result of an arithmetic handler is pushed.     *)
LEMMA TwoPops ==
  ASSUME GoodStack(shadowStack), NEW d, NEW e, NEW allowed,
         UseError(<<PopTop(d), PopAfter(PopTop(d), e)>>, allowed) = "ok"
  PROVE  GoodPop(PopTop(d), d) /\ GoodPop(PopAfter(PopTop(d), e), e)
<1> DEFINE b == PopTop(d)
           a == PopAfter(b, e)
           ps == <<b, a>>
<1>1. GoodPop(b, d)
  BY ShadowPopGood DEF PopTop
<1>2. a.err = "ok"
  <2>1. Len(ps) = 2 /\ ps[2] = a
    OBVIOUS
  <2>2. UseError(ps, allowed) = "ok"
    OBVIOUS
  <2> HIDE DEF ps, a
  <2>3. ps[Len(ps)].err = "ok"
    BY <2>2, UseErrorOk
  <2> QED  BY <2>1, <2>3
<1>3. b.err = "ok"
  BY <1>2, PopAfterOk
<1>4. GoodPop(a, e)
  BY <1>1, <1>3, PopAfterGood DEF GoodPop
<1> QED  BY <1>1, <1>4

LEMMA AddIInv == ASSUME IInv, NEW h, LiftVmAdd(h) PROVE IInv'
<1> DEFINE n == StackDepth(h.d)
           b == PopTop(n)
           a == PopAfter(b, n)
           mark == a.isVspPush # b.isVspPush
           sum == SumOf(a.value, b.value, pos + 1)
           result == [ValueSlot(sum, n) EXCEPT !.ptr = mark, !.isVspPush = mark]
<1>1. GoodStack(shadowStack)
  BY DEF IInv, LiftVmAdd, Starts
<1>2. \/ \E error : Stop(error)
      \/ /\ UseError(<<b, a>>, mark) = "ok"
         /\ \E consumed : EmitAlu(h, a, result, consumed)
  BY DEF LiftVmAdd
<1>3. CASE UseError(<<b, a>>, mark) = "ok" /\ \E consumed : EmitAlu(h, a, result, consumed)
  <2>1. GoodPop(b, n) /\ GoodPop(a, n)
    BY <1>1, <1>3, TwoPops
  <2>2. mark => n = PtrSize
    BY <2>1 DEF GoodPop
  <2>3. WellFormed(result)
    BY <2>2 DEF WellFormed, ValueSlot, NoPromise
  <2> QED  BY <1>3, <2>1, <2>3, AluIInv DEF GoodPop
<1> QED  BY <1>2, <1>3, StopIInv

LEMMA NorIInv == ASSUME IInv, NEW h, LiftVmNor(h) PROVE IInv'
<1> DEFINE n == StackDepth(h.d)
           b == PopTop(n)
           a == PopAfter(b, n)
<1>1. GoodStack(shadowStack)
  BY DEF IInv, LiftVmNor, Starts
<1>2. \/ \E error : Stop(error)
      \/ /\ UseError(<<b, a>>, TRUE) = "ok"
         /\ \E v, consumed : EmitAlu(h, a, ValueSlot(v, n), consumed)
  BY DEF LiftVmNor
<1>3. UseError(<<b, a>>, TRUE) = "ok" => GoodStack(a.sh)
  BY <1>1, TwoPops DEF GoodPop
<1> QED  BY <1>2, <1>3, StopIInv, AluIInv, ValueSlotWellFormed

LEMMA ShiftIInv == ASSUME IInv, NEW h, LiftVmShift(h) PROVE IInv'
<1> DEFINE n == StackDepth(h.d)
           val == PopTop(n)
           amt == PopAfter(val, 2)
<1>1. GoodStack(shadowStack)
  BY DEF IInv, LiftVmShift, Starts
<1>2. \/ \E error : Stop(error)
      \/ /\ UseError(<<val, amt>>, FALSE) = "ok"
         /\ \E v, consumed : EmitAlu(h, amt, ValueSlot(v, n), consumed)
  BY DEF LiftVmShift
<1>3. UseError(<<val, amt>>, FALSE) = "ok" => GoodStack(amt.sh)
  BY <1>1, TwoPops DEF GoodPop
<1> QED  BY <1>2, <1>3, StopIInv, AluIInv, ValueSlotWellFormed

LEMMA DoubleShiftIInv == ASSUME IInv, NEW h, LiftVmDoubleShift(h) PROVE IInv'
<1> DEFINE n == StackDepth(h.d)
           dst == PopTop(n)
           src == PopAfter(dst, n)
           count == PopAfter(src, 2)
           ps == <<dst, src, count>>
<1>1. GoodStack(shadowStack)
  BY DEF IInv, LiftVmDoubleShift, Starts
<1>2. \/ \E error : Stop(error)
      \/ /\ UseError(ps, FALSE) = "ok"
         /\ \E v, consumed : EmitAlu(h, count, ValueSlot(v, n), consumed)
  BY DEF LiftVmDoubleShift
<1>3. ASSUME UseError(ps, FALSE) = "ok"
      PROVE  GoodStack(count.sh)
  <2>1. Len(ps) = 3 /\ ps[3] = count
    OBVIOUS
  <2>2. ps[Len(ps)].err = "ok"
    BY <1>3, UseErrorOk
  <2>3. src.err = "ok"
    BY <2>1, <2>2, PopAfterOk
  <2>4. dst.err = "ok"
    BY <2>3, PopAfterOk
  <2>5. GoodStack(dst.sh)
    BY <1>1, ShadowPopGood DEF PopTop, GoodPop
  <2>6. GoodStack(src.sh)
    BY <2>4, <2>5, PopAfterGood DEF GoodPop
  <2> QED  BY <2>3, <2>6, PopAfterGood DEF GoodPop
<1> QED  BY <1>2, <1>3, StopIInv, AluIInv, ValueSlotWellFormed

-----------------------------------------------------------------------------
(* The jump and the exit end the block.                                    *)
LEMMA JmpIInv == ASSUME IInv, NEW h, LiftVmJmpIndirect(h) PROVE IInv'
<1>1. (\E error : Stop(error)) \/ (inBlock' = FALSE /\ UNCHANGED status)
  BY Zenon DEF LiftVmJmpIndirect
<1>2. inBlock' = FALSE /\ UNCHANGED status => IInv'
  BY DEF IInv
<1> QED  BY <1>1, <1>2, StopIInv

LEMMA ExitIInv == ASSUME IInv, NEW h, LiftVmExit(h) PROVE IInv'
<1>1. (\E error : Stop(error)) \/ (inBlock' = FALSE /\ status' = "exit")
  BY Zenon DEF LiftVmExit
<1>2. inBlock' = FALSE /\ status' = "exit" => IInv'
  BY DEF IInv
<1> QED  BY <1>1, <1>2, StopIInv

LEMMA EntryIInv == ASSUME IInv, NEW h, LiftVmEntry(h) PROVE IInv'
<1> DEFINE zero == ValueSlot(Word("cst", 0, PtrSize), PtrSize)
           dif == ValueSlot(ImageBaseDif, PtrSize)
<1>1. GoodStack(shadowStack)
  BY DEF IInv, LiftVmEntry, Starts
<1>2. GoodStack(<<zero, zero>>) /\ GoodStack(<<dif>>)
  <2>1. WellFormed(zero) /\ WellFormed(dif)
    BY ValueSlotWellFormed
  <2> QED  BY <2>1, PairGood
<1>3. PICK n : n = Len(EntryRegs) /\ n \in Nat
  BY RegsAssumption
<1>4. PICK S : S = {ValueSlot(NativeReg(EntryRegs[i]), PtrSize) : i \in 1..n}
  OBVIOUS
<1>5. PICK regs : regs = [i \in 1..n |-> IF EntryRegs[i] = -1 THEN <<>>
                                        ELSE <<ValueSlot(NativeReg(EntryRegs[i]), PtrSize)>>]
  OBVIOUS
<1>6. PICK end : end = [i \in 0..n |-> IF i = 0 THEN 0 ELSE end[i - 1] + Len(regs[i])]
  <2>1. PICK c : c = [i \in 1..n |-> Len(regs[i])]
    OBVIOUS
  <2>2. PICK f : f = [i \in 0..n |-> IF i = 0 THEN 0 ELSE f[i - 1] + c[i]]
    BY <1>3, SumsExist
  <2>3. \A i \in 0..n : i # 0 => c[i] = Len(regs[i])
    BY <1>3, <2>1
  <2>4. f = [i \in 0..n |-> IF i = 0 THEN 0 ELSE f[i - 1] + Len(regs[i])]
    BY <2>2, <2>3
  <2> QED  BY <2>4
<1>7. Ends(S, regs, n, end)
  <2>1. \A i \in 1..n : regs[i] \in Seq(S)
    <3>1. <<>> \in Seq(S) /\ \A s \in S : <<s>> \in Seq(S)
      OBVIOUS
    <3>2. ASSUME NEW i \in 1..n
          PROVE  regs[i] = <<>> \/ \E s \in S : regs[i] = <<s>>
      <4>1. ValueSlot(NativeReg(EntryRegs[i]), PtrSize) \in S
        BY <1>4
      <4> QED  BY <1>5, <4>1
    <3> QED  BY <3>1, <3>2
  <2>2. Len(regs) = n /\ (n = 0 => regs = <<>>)
    BY <1>3, <1>5
  <2>3. end[0] = 0 /\ \A i \in 1..n : end[i] = end[i - 1] + Len(regs[i])
    BY <1>3, <1>6
  <2> QED  BY <1>3, <2>1, <2>2, <2>3 DEF Ends
<1>8. GoodStack(FlattenSeq(regs))
  <2>1. IsFlat(FlattenSeq(regs), S, regs, n, end)
    BY <1>7, FlattenIs
  <2>2. \A s \in S : WellFormed(s)
    BY <1>4, ValueSlotWellFormed
  <2> QED  BY <2>1, <2>2, SeqGood DEF IsFlat
<1>9. GoodStack(shadowStack \o <<zero, zero>> \o FlattenSeq(regs) \o <<dif>>)
  BY <1>1, <1>2, <1>8, ConcatGood
<1>10. /\ Emit(h, shadowStack \o <<zero, zero>> \o FlattenSeq(regs) \o <<dif>>, stackOffset, <<>>)
       /\ UNCHANGED status
  BY <1>3, <1>5 DEF LiftVmEntry
<1> QED  BY <1>9, <1>10, EmitIInv

-----------------------------------------------------------------------------
LEMMA NextIInv == IInv /\ [Next]_vars => IInv'
<1> SUFFICES ASSUME IInv, [Next]_vars PROVE IInv'
  OBVIOUS
<1>1. CASE LiftBasicBlock
  BY <1>1, BlockIInv
<1>2. ASSUME NEW h \in Handlers, LiftHandler(h)
      PROVE  IInv'
  BY <1>2, StopIInv, PopIInv, PushRegIInv, PushConstIInv, PushVspIInv, PopVspIInv, ReadMemIInv,
     WriteMemIInv, AddIInv, NorIInv, ShiftIInv, DoubleShiftIInv, JmpIInv, EntryIInv,
     ExitIInv DEF LiftHandler, StopInPop
<1>3. CASE UNCHANGED vars
  BY <1>3 DEF vars, IInv, GoodStack
<1> QED  BY <1>1, <1>2, <1>3 DEF Next

LEMMA SpecIInv == Spec => []IInv
  BY InitIInv, NextIInv, PTL DEF Spec

(* Whatever the trace, a waiting slot is marked as a stack address exactly *)
(* when its value is a whole pointer, and a promised slot has no value:    *)
(* ShadowPop, FlushVsp and the memory accesses may rely on the marks.      *)
THEOREM SlotsStayWellFormed == Spec => []SlotsWellFormed
<1>1. IInv => SlotsWellFormed
  <2> SUFFICES ASSUME IInv, inBlock, NEW i \in DOMAIN shadowStack
               PROVE  WellFormed(shadowStack[i])
    BY DEF SlotsWellFormed
  <2>1. PICK S : shadowStack \in Seq(S) /\ \A s \in S : WellFormed(s)
    BY DEF IInv, GoodStack
  <2> QED  BY <2>1
<1> QED  BY <1>1, SpecIInv, PTL

(* Whatever the trace, the assertions of GenerateStackMemoryAccess and     *)
(* GenerateRamMemoryAccess about the type of the address hold.             *)
THEOREM AddressesStayTyped == Spec => []AddressesTyped
<1>1. IInv => AddressesTyped
  BY DEF IInv, AddressesTyped
<1> QED  BY <1>1, SpecIInv, PTL

-----------------------------------------------------------------------------
(* The bytes of the first n slots, from the bottom.                        *)
Bottom(sh) ==
  LET sum[n \in 0..Len(sh)] == IF n = 0 THEN 0 ELSE sum[n - 1] + sh[n].depth
  IN sum

LEMMA BottomIs ==
  ASSUME NEW sh, Len(sh) \in Nat
  PROVE  /\ Bottom(sh)[0] = 0
         /\ \A n \in 1..Len(sh) : Bottom(sh)[n] = Bottom(sh)[n - 1] + sh[n].depth
<1>1. PICK m \in Nat : m = Len(sh)
  OBVIOUS
<1> DEFINE c == [n \in 1..m |-> sh[n].depth]
           IsSum(f) == f = [n \in 0..m |-> IF n = 0 THEN 0 ELSE f[n - 1] + sh[n].depth]
<1>2. \E f : IsSum(f)
  <2>1. PICK f : f = [n \in 0..m |-> IF n = 0 THEN 0 ELSE f[n - 1] + c[n]]
    <3> HIDE DEF c
    <3> QED  BY <1>1, SumsExist
  <2>2. \A n \in 0..m : n # 0 => c[n] = sh[n].depth
    BY <1>1
  <2>3. IsSum(f)
    BY <2>1, <2>2
  <2> QED  BY <2>3
<1>3. Bottom(sh) = CHOOSE f : IsSum(f)
  BY <1>1 DEF Bottom
<1>4. IsSum(Bottom(sh))
  <2> HIDE DEF IsSum
  <2> QED  BY <1>2, <1>3
<1>5. PICK f : f = Bottom(sh)
  OBVIOUS
<1>6. f = [n \in 0..m |-> IF n = 0 THEN 0 ELSE f[n - 1] + sh[n].depth]
  BY <1>4, <1>5
<1>7. f[0] = 0 /\ \A n \in 1..m : f[n] = f[n - 1] + sh[n].depth
  BY <1>6
<1> QED  BY <1>1, <1>5, <1>7

LEMMA TopIs ==
  ASSUME NEW sh, Len(sh) \in Nat
  PROVE  /\ TopDepth(sh)[0] = 0
         /\ \A n \in 1..Len(sh) :
              TopDepth(sh)[n] = TopDepth(sh)[n - 1] + sh[Len(sh) + 1 - n].depth
<1>1. PICK m \in Nat : m = Len(sh)
  OBVIOUS
<1> DEFINE c == [n \in 1..m |-> FromTop(sh, n).depth]
           IsSum(f) == f = [n \in 0..m |-> IF n = 0 THEN 0 ELSE f[n - 1] + FromTop(sh, n).depth]
<1>2. \E f : IsSum(f)
  <2>1. PICK f : f = [n \in 0..m |-> IF n = 0 THEN 0 ELSE f[n - 1] + c[n]]
    <3> HIDE DEF c
    <3> QED  BY <1>1, SumsExist
  <2>2. \A n \in 0..m : n # 0 => c[n] = FromTop(sh, n).depth
    BY <1>1
  <2>3. IsSum(f)
    BY <2>1, <2>2
  <2> QED  BY <2>3
<1>3. TopDepth(sh) = CHOOSE f : IsSum(f)
  BY <1>1 DEF TopDepth
<1>4. IsSum(TopDepth(sh))
  <2> HIDE DEF IsSum
  <2> QED  BY <1>2, <1>3
<1>5. PICK f : f = TopDepth(sh)
  OBVIOUS
<1>6. f = [n \in 0..m |-> IF n = 0 THEN 0 ELSE f[n - 1] + FromTop(sh, n).depth]
  BY <1>4, <1>5
<1>7. f[0] = 0 /\ \A n \in 1..m : f[n] = f[n - 1] + FromTop(sh, n).depth
  BY <1>6
<1> QED  BY <1>1, <1>5, <1>7 DEF FromTop

(* A slot of the disciplined lifter: its value is as wide as its depth, or *)
(* it is a promise of flags.                                               *)
Fits(s) ==
  /\ s \in Slot /\ s.depth > 0
  /\ IF s.flagsPromise = NoPromise THEN Len(s.value) = s.depth ELSE s.depth = PtrSize
FitStack(sh) == sh \in Seq(Slot) /\ \A i \in 1..Len(sh) : Fits(sh[i])

LEMMA FitLen ==
  ASSUME NEW sh, FitStack(sh)
  PROVE  /\ Len(sh) \in Nat /\ DOMAIN sh = 1..Len(sh)
         /\ \A i \in 1..Len(sh) : sh[i] \in Slot /\ sh[i].depth \in Nat \ {0}
<1>1. sh \in Seq(Slot)
  BY DEF FitStack
<1>2. \A i \in 1..Len(sh) : sh[i] \in Slot /\ sh[i].depth > 0
  BY DEF FitStack, Fits
<1>3. \A s \in Slot : s.depth \in Nat
  BY DEF Slot
<1> QED  BY <1>1, <1>2, <1>3

LEMMA BottomNat ==
  ASSUME NEW sh, FitStack(sh)
  PROVE  \A n \in 0..Len(sh) : Bottom(sh)[n] \in Nat
<1> DEFINE sum == Bottom(sh)
           T == {n \in 0..Len(sh) : sum[n] \notin Nat}
<1>1. SUFFICES ASSUME T # {} PROVE FALSE
  OBVIOUS
<1>2. Len(sh) \in Nat
  BY FitLen
<1>3. PICK n \in T : \A k \in T : n <= k
  <2> HIDE DEF T
  <2>1. T \subseteq Nat
    BY <1>2 DEF T
  <2> QED  BY <1>1, <2>1, LeastNumber
<1>4. n # 0 /\ n \in 1..Len(sh) /\ n - 1 \in 0..Len(sh)
  BY <1>2, BottomIs
<1>5. sum[n] = sum[n - 1] + sh[n].depth /\ sh[n].depth \in Nat
  BY <1>2, <1>4, BottomIs, FitLen
<1>6. sum[n - 1] \in Nat
  BY <1>2, <1>3, <1>4
<1> QED  BY <1>5, <1>6

LEMMA BottomGrows ==
  ASSUME NEW sh, FitStack(sh), NEW m \in 0..Len(sh)
  PROVE  \A n \in m..Len(sh) : Bottom(sh)[m] <= Bottom(sh)[n]
<1> DEFINE sum == Bottom(sh)
           T == {n \in m..Len(sh) : ~(sum[m] <= sum[n])}
<1>1. SUFFICES ASSUME T # {} PROVE FALSE
  OBVIOUS
<1>2. Len(sh) \in Nat
  BY FitLen
<1>3. PICK n \in T : \A k \in T : n <= k
  <2> HIDE DEF T
  <2>1. T \subseteq Nat
    BY <1>2 DEF T
  <2> QED  BY <1>1, <2>1, LeastNumber
<1>4. sum[m] \in Nat
  BY BottomNat
<1>5. n # m /\ n \in 1..Len(sh) /\ n - 1 \in m..Len(sh) /\ n - 1 \in 0..Len(sh)
  BY <1>2, <1>4
<1>6. sum[n] = sum[n - 1] + sh[n].depth /\ sh[n].depth \in Nat
  BY <1>2, <1>5, BottomIs, FitLen
<1>7. sum[m] <= sum[n - 1] /\ sum[n - 1] \in Nat
  BY <1>2, <1>3, <1>5, BottomNat
<1> QED  BY <1>4, <1>6, <1>7

LEMMA TopBottom ==
  ASSUME NEW sh, FitStack(sh)
  PROVE  \A n \in 0..Len(sh) : TopDepth(sh)[n] = Bottom(sh)[Len(sh)] - Bottom(sh)[Len(sh) - n]
<1> DEFINE sum == Bottom(sh)
           top == TopDepth(sh)
           T == {n \in 0..Len(sh) : ~(top[n] = sum[Len(sh)] - sum[Len(sh) - n])}
<1>1. SUFFICES ASSUME T # {} PROVE FALSE
  OBVIOUS
<1>2. PICK l \in Nat : l = Len(sh)
  BY FitLen
<1>3. PICK n \in T : \A k \in T : n <= k
  <2> HIDE DEF T
  <2>1. T \subseteq Nat
    BY <1>2 DEF T
  <2> QED  BY <1>1, <2>1, LeastNumber
<1>4. /\ top[0] = 0 /\ \A k \in 1..l : top[k] = top[k - 1] + sh[l + 1 - k].depth
      /\ \A k \in 1..l : sum[k] = sum[k - 1] + sh[k].depth
  BY <1>2, TopIs, BottomIs
<1>5. \A k \in 0..l : sum[k] \in Nat
  BY <1>2, BottomNat
<1>6. n # 0 /\ n \in 1..l /\ n - 1 \in 0..l /\ l + 1 - n \in 1..l
  <2>1. l - 0 = l /\ sum[l] \in Nat
    BY <1>2, <1>5
  <2>2. sum[l] - sum[l] = 0
    BY <2>1
  <2>3. n # 0
    BY <1>2, <1>4, <2>1, <2>2
  <2> QED  BY <1>2, <2>3
<1>7. top[n - 1] = sum[l] - sum[l + 1 - n]
  <2>1. n - 1 \notin T
    BY <1>2, <1>3, <1>6
  <2>2. l - (n - 1) = l + 1 - n
    BY <1>2, <1>6
  <2> QED  BY <1>2, <1>6, <2>1, <2>2
<1>8. top[n] = top[n - 1] + sh[l + 1 - n].depth
  BY <1>4, <1>6
<1>9. sum[l + 1 - n] = sum[l - n] + sh[l + 1 - n].depth
  <2>1. l + 1 - n - 1 = l - n
    BY <1>6
  <2> QED  BY <1>4, <1>6, <2>1
<1>10. sh[l + 1 - n].depth \in Nat /\ sum[l] \in Nat /\ sum[l - n] \in Nat
  <2>1. l - n \in 0..l /\ l \in 0..l
    BY <1>6
  <2> QED  BY <1>2, <1>5, <1>6, <2>1, FitLen
<1>11. top[n] = sum[l] - sum[l - n]
  BY <1>7, <1>8, <1>9, <1>10
<1> QED  BY <1>2, <1>11

(* The bottom does not feel what lies above it.                            *)
LEMMA SameBottom ==
  ASSUME NEW sh, Len(sh) \in Nat, NEW other, Len(other) \in Nat,
         NEW m \in 0..Len(sh), m <= Len(other), \A i \in 1..m : sh[i] = other[i]
  PROVE  \A n \in 0..m : Bottom(sh)[n] = Bottom(other)[n]
<1> DEFINE T == {n \in 0..m : ~(Bottom(sh)[n] = Bottom(other)[n])}
<1>1. SUFFICES ASSUME T # {} PROVE FALSE
  OBVIOUS
<1>3. PICK n \in T : \A k \in T : n <= k
  <2> HIDE DEF T
  <2>1. T \subseteq Nat
    BY DEF T
  <2> QED  BY <1>1, <2>1, LeastNumber
<1>4. n # 0 /\ n \in 1..m /\ n - 1 \in 0..m
  BY BottomIs
<1>5. Bottom(sh)[n - 1] = Bottom(other)[n - 1]
  BY <1>3, <1>4
<1>6. /\ Bottom(sh)[n] = Bottom(sh)[n - 1] + sh[n].depth
      /\ Bottom(other)[n] = Bottom(other)[n - 1] + other[n].depth
  <2>1. n \in 1..Len(sh) /\ n \in 1..Len(other)
    BY <1>4
  <2> QED  BY <2>1, BottomIs
<1> QED  BY <1>4, <1>5, <1>6

(* Every byte of the shadow stack is in a slot.                            *)
LEMMA Covered ==
  ASSUME NEW sh, FitStack(sh), NEW x \in Nat, x < Bottom(sh)[Len(sh)]
  PROVE  \E i \in 1..Len(sh) : Bottom(sh)[i - 1] <= x /\ x < Bottom(sh)[i]
<1> DEFINE T == {n \in 0..Len(sh) : x < Bottom(sh)[n]}
<1>1. Len(sh) \in Nat
  BY FitLen
<1>2. Len(sh) \in T
  BY <1>1
<1>3. PICK n \in T : \A k \in T : n <= k
  <2> HIDE DEF T
  <2>1. T \subseteq Nat
    BY <1>1 DEF T
  <2> QED  BY <1>2, <2>1, LeastNumber
<1>4. n # 0 /\ n \in 1..Len(sh) /\ n - 1 \in 0..Len(sh)
  BY <1>1, BottomIs
<1>5. ~(x < Bottom(sh)[n - 1]) /\ Bottom(sh)[n - 1] \in Nat
  BY <1>1, <1>3, <1>4, BottomNat
<1> QED  BY <1>3, <1>4, <1>5

(* Two slots do not overlap.                                               *)
LEMMA Apart ==
  ASSUME NEW sh, FitStack(sh), NEW x \in Nat,
         NEW i \in 1..Len(sh), Bottom(sh)[i - 1] <= x, x < Bottom(sh)[i],
         NEW j \in 1..Len(sh), Bottom(sh)[j - 1] <= x, x < Bottom(sh)[j]
  PROVE  i = j
<1>1. Len(sh) \in Nat
  BY FitLen
<1>2. /\ Bottom(sh)[i] \in Nat /\ Bottom(sh)[i - 1] \in Nat
      /\ Bottom(sh)[j] \in Nat /\ Bottom(sh)[j - 1] \in Nat
  BY <1>1, BottomNat
<1>3. ASSUME i < j PROVE FALSE
  <2>1. i \in 0..Len(sh) /\ j - 1 \in i..Len(sh)
    BY <1>1, <1>3
  <2>2. Bottom(sh)[i] <= Bottom(sh)[j - 1]
    BY <2>1, BottomGrows
  <2> QED  BY <1>2, <2>2
<1>4. ASSUME j < i PROVE FALSE
  <2>1. j \in 0..Len(sh) /\ i - 1 \in j..Len(sh)
    BY <1>1, <1>4
  <2>2. Bottom(sh)[j] <= Bottom(sh)[i - 1]
    BY <2>1, BottomGrows
  <2> QED  BY <1>2, <2>2
<1> QED  BY <1>1, <1>3, <1>4

-----------------------------------------------------------------------------
LEMMA WordIs ==
  ASSUME NEW kind \in {"mem", "ctx", "res", "flg", "cst", "vsp", "nat", "zero", "mix"},
         NEW id \in Int, NEW n \in Nat
  PROVE  Word(kind, id, n) \in Seq(Byte) /\ Len(Word(kind, id, n)) = n
<1>1. \A k \in 1..n : <<kind, id, k>> \in Byte
  BY DEF Byte
<1> QED  BY <1>1 DEF Word

LEMMA ExtendIs ==
  ASSUME NEW v \in Seq(Byte), NEW n \in Int
  PROVE  /\ n <= Len(v) => ZeroExtend(v, n) = v
         /\ Len(v) <= n => ZeroExtend(v, n) \in Seq(Byte) /\ Len(ZeroExtend(v, n)) = n
         /\ Len(v) <= n => \A k \in 1..Len(v) : ZeroExtend(v, n)[k] = v[k]
<1> DEFINE m == n - Len(v)
           w == Word("zero", 0, m)
<1>1. Len(v) \in Nat /\ m \in Int
  BY LenProperties
<1>2. ZeroExtend(v, n) = v \o w
  BY DEF ZeroExtend
<1>3. ASSUME n <= Len(v) PROVE ZeroExtend(v, n) = v
  <2>1. 1..m = {}
    BY <1>1, <1>3
  <2>2. w = <<>>
    <3>1. w = [k \in {} |-> <<"zero", 0, k>>]
      BY <2>1 DEF Word
    <3> QED  BY <3>1
  <2> QED  BY <1>2, <2>2, ConcatEmptySeq
<1>4. ASSUME Len(v) <= n
      PROVE  /\ ZeroExtend(v, n) \in Seq(Byte) /\ Len(ZeroExtend(v, n)) = n
             /\ \A k \in 1..Len(v) : ZeroExtend(v, n)[k] = v[k]
  <2>1. m \in Nat
    BY <1>1, <1>4
  <2>2. w \in Seq(Byte) /\ Len(w) = m
    <3>1. 0 \in Int
      OBVIOUS
    <3> QED  BY <2>1, <3>1, WordIs
  <2> HIDE DEF w
  <2>3. v \o w \in Seq(Byte) /\ Len(v \o w) = Len(v) + m /\ \A k \in 1..Len(v) : (v \o w)[k] = v[k]
    BY <1>1, <2>1, <2>2, ConcatProperties
  <2> QED  BY <1>1, <1>2, <2>3
<1> QED  BY <1>3, <1>4

LEMMA SlotBytesIs ==
  ASSUME NEW s, Fits(s)
  PROVE  /\ SlotBytes(s) \in Seq(Byte) /\ Len(SlotBytes(s)) = s.depth
         /\ s.flagsPromise = NoPromise => SlotBytes(s) = s.value
         /\ s.flagsPromise # NoPromise => SlotBytes(s) = FlagsOf(s.flagsPromise)
<1>1. /\ s.value \in Seq(Byte) /\ s.depth \in Nat /\ s.flagsPromise \in Nat
  BY DEF Fits, Slot
<1>2. CASE s.flagsPromise = NoPromise
  <2>1. Len(s.value) = s.depth
    BY <1>2 DEF Fits
  <2>2. ZeroExtend(s.value, s.depth) = s.value
    BY <1>1, <2>1, ExtendIs
  <2>3. SlotBytes(s) = SubSeq(s.value, 1, Len(s.value))
    BY <1>2, <2>1, <2>2 DEF SlotBytes
  <2>4. SlotBytes(s) = s.value
    BY <1>1, <2>3, SubSeqFull
  <2> QED  BY <1>1, <1>2, <2>1, <2>4
<1>3. CASE s.flagsPromise # NoPromise
  <2>1. s.depth = PtrSize /\ PtrSize \in Nat
    BY <1>3 DEF Fits, PtrSize
  <2>2. SlotBytes(s) = FlagsOf(s.flagsPromise)
    BY <1>3 DEF SlotBytes
  <2> QED  BY <1>1, <1>3, <2>1, <2>2, WordIs DEF FlagsOf
<1> QED  BY <1>2, <1>3

-----------------------------------------------------------------------------
(* The live stack by the places of its bytes.                              *)
Arrays == [(-Below)..(Above - 1) -> Byte]
Offsets == (-Below)..Above

IsLive(live, sh, off, array) ==
  /\ live \in Seq(Byte) /\ Len(live) = ShadowDepth(sh) + (Above - off)
  /\ \A i \in 1..Len(sh) : \A k \in 1..sh[i].depth :
       live[(ShadowDepth(sh) - Bottom(sh)[i]) + k] = SlotBytes(sh[i])[k]
  /\ \A k \in 1..(Above - off) : live[ShadowDepth(sh) + k] = array[off + k - 1]

LoadOf(array, off, n) == [k \in 1..n |-> array[off + k - 1]]
LiveOf(sh, off, array) ==
  FlattenSeq([i \in 1..Len(sh) |-> SlotBytes(FromTop(sh, i))])
    \o LoadOf(array, off, Above - off)

LEMMA LiveStackIs == LiveStack = LiveOf(shadowStack, stackOffset, stackArray)
  BY DEF LiveStack, LiveOf, Load, LoadOf

LEMMA DepthIs ==
  ASSUME NEW sh, FitStack(sh)
  PROVE  ShadowDepth(sh) = Bottom(sh)[Len(sh)] /\ ShadowDepth(sh) \in Nat
<1>1. PICK n \in Nat : n = Len(sh)
  BY FitLen
<1>2. TopDepth(sh)[n] = Bottom(sh)[n] - Bottom(sh)[n - n]
  BY <1>1, TopBottom
<1>3. Bottom(sh)[n] \in Nat /\ Bottom(sh)[0] = 0 /\ n - n = 0
  BY <1>1, BottomNat, BottomIs
<1> QED  BY <1>1, <1>2, <1>3 DEF ShadowDepth

LEMMA LoadIs ==
  ASSUME NEW array \in Arrays, NEW off \in Offsets, NEW n \in Nat, off + n <= Above
  PROVE  /\ LoadOf(array, off, n) \in Seq(Byte) /\ Len(LoadOf(array, off, n)) = n
         /\ \A k \in 1..n : LoadOf(array, off, n)[k] = array[off + k - 1]
<1>1. \A k \in 1..n : off + k - 1 \in (-Below)..(Above - 1)
  BY SizesAssumption DEF Offsets
<1>2. \A k \in 1..n : array[off + k - 1] \in Byte
  BY <1>1 DEF Arrays
<1> QED  BY <1>2 DEF LoadOf

(* The slots' bytes, read from the top.                                    *)
LEMMA SlotsFlat ==
  ASSUME NEW sh, FitStack(sh), NEW flat,
         flat = FlattenSeq([i \in 1..Len(sh) |-> SlotBytes(FromTop(sh, i))])
  PROVE  /\ flat \in Seq(Byte) /\ Len(flat) = ShadowDepth(sh)
         /\ \A i \in 1..Len(sh) : \A k \in 1..sh[i].depth :
              flat[(ShadowDepth(sh) - Bottom(sh)[i]) + k] = SlotBytes(sh[i])[k]
<1>1. PICK n \in Nat : n = Len(sh)
  BY FitLen
<1> DEFINE s == [i \in 1..n |-> SlotBytes(FromTop(sh, i))]
           end == TopDepth(sh)
<1>2. s = [i \in 1..Len(sh) |-> SlotBytes(FromTop(sh, i))] /\ Len(s) = n /\ (n = 0 => s = <<>>)
  BY <1>1
<1>3. \A i \in 1..n : /\ s[i] \in Seq(Byte) /\ Len(s[i]) = sh[n + 1 - i].depth
                      /\ s[i] = SlotBytes(sh[n + 1 - i])
  <2> TAKE i \in 1..n
  <2>1. n + 1 - i \in 1..n
    OBVIOUS
  <2>2. Fits(sh[n + 1 - i])
    BY <1>1, <2>1 DEF FitStack
  <2> QED  BY <1>1, <2>1, <2>2, SlotBytesIs DEF FromTop
<1>4. end[0] = 0 /\ \A i \in 1..n : end[i] = end[i - 1] + Len(s[i])
  BY <1>1, <1>3, TopIs, ZenonT(40)
<1>5. /\ FlattenSeq(s) \in Seq(Byte) /\ Len(FlattenSeq(s)) = end[n]
      /\ \A i \in 1..n : \A k \in 1..Len(s[i]) : FlattenSeq(s)[end[i - 1] + k] = s[i][k]
  <2> HIDE DEF s, end
  <2>1. \A i \in 1..n : s[i] \in Seq(Byte)
    BY <1>3
  <2>2. Len(s) = n /\ (n = 0 => s = <<>>)
    BY <1>2
  <2>3. end[0] = 0 /\ \A i \in 1..n : end[i] = end[i - 1] + Len(s[i])
    BY <1>4
  <2>4. n \in Nat /\ Len(s) = n
    BY <1>1, <2>2
  <2>5. Ends(Byte, s, n, end)
    BY <2>1, <2>2, <2>3, <2>4 DEF Ends
  <2>6. IsFlat(FlattenSeq(s), Byte, s, n, end)
    BY <2>5, FlattenIs
  <2> QED  BY <2>6 DEF IsFlat
<1>6. flat = FlattenSeq(s) /\ end[n] = ShadowDepth(sh)
  BY <1>1, <1>2 DEF ShadowDepth
<1>7. ASSUME NEW i \in 1..n, NEW k \in 1..sh[i].depth
      PROVE  flat[(ShadowDepth(sh) - Bottom(sh)[i]) + k] = SlotBytes(sh[i])[k]
  <2> HIDE DEF s, end
  <2>1. PICK j \in 1..n : j = n + 1 - i
    OBVIOUS
  <2>2. n + 1 - j = i /\ j - 1 \in 0..n /\ n - (j - 1) = i
    BY <2>1
  <2>3. Len(s[j]) = sh[i].depth /\ s[j] = SlotBytes(sh[i])
    BY <1>3, <2>2
  <2>4. end[j - 1] = ShadowDepth(sh) - Bottom(sh)[i]
    <3>1. end[j - 1] = Bottom(sh)[n] - Bottom(sh)[n - (j - 1)]
      BY <1>1, <2>2, TopBottom DEF end
    <3> QED  BY <1>1, <2>2, <3>1, DepthIs
  <2>5. FlattenSeq(s)[end[j - 1] + k] = s[j][k]
    BY <1>5, <2>3
  <2> QED  BY <1>6, <2>3, <2>4, <2>5
<1> QED
  <2> HIDE DEF s, end
  <2> QED  BY <1>1, <1>5, <1>6, <1>7

LEMMA LiveIsLive ==
  ASSUME NEW sh, FitStack(sh), NEW off \in Offsets, NEW array \in Arrays
  PROVE  IsLive(LiveOf(sh, off, array), sh, off, array)
<1>1. PICK flat : flat = FlattenSeq([i \in 1..Len(sh) |-> SlotBytes(FromTop(sh, i))])
  OBVIOUS
<1>2. PICK D \in Nat : D = ShadowDepth(sh)
  BY DepthIs
<1>3. PICK m \in Nat : m = Above - off
  BY SizesAssumption DEF Offsets
<1>4. PICK rest : rest = LoadOf(array, off, m)
  OBVIOUS
<1>5. /\ flat \in Seq(Byte) /\ Len(flat) = D
      /\ \A i \in 1..Len(sh) : \A k \in 1..sh[i].depth :
           flat[(D - Bottom(sh)[i]) + k] = SlotBytes(sh[i])[k]
  BY <1>1, <1>2, SlotsFlat
<1>6. /\ rest \in Seq(Byte) /\ Len(rest) = m
      /\ \A k \in 1..m : rest[k] = array[off + k - 1]
  <2>1. off + m <= Above
    BY <1>3, SizesAssumption DEF Offsets
  <2> QED  BY <1>4, <2>1, LoadIs
<1>7. PICK live : live = flat \o rest
  OBVIOUS
<1>8. /\ live \in Seq(Byte) /\ Len(live) = D + m
      /\ \A x \in 1..(D + m) : live[x] = IF x <= D THEN flat[x] ELSE rest[x - D]
  <2>1. flat \in Seq(Byte) /\ Len(flat) = D /\ rest \in Seq(Byte) /\ Len(rest) = m
    BY <1>5, <1>6
  <2>2. /\ flat \o rest \in Seq(Byte) /\ Len(flat \o rest) = Len(flat) + Len(rest)
        /\ \A x \in 1..(Len(flat) + Len(rest)) :
             (flat \o rest)[x] = IF x <= Len(flat) THEN flat[x] ELSE rest[x - Len(flat)]
    BY <2>1, ConcatProperties
  <2> QED  BY <1>7, <2>1, <2>2
<1>9. LiveOf(sh, off, array) = live
  BY <1>1, <1>3, <1>4, <1>7 DEF LiveOf
<1>10. ASSUME NEW i \in 1..Len(sh), NEW k \in 1..sh[i].depth
       PROVE  live[(D - Bottom(sh)[i]) + k] = SlotBytes(sh[i])[k]
  <2>1. PICK n \in Nat : n = Len(sh)
    BY FitLen
  <2>2. Bottom(sh)[i] = Bottom(sh)[i - 1] + sh[i].depth /\ sh[i].depth \in Nat
    BY <2>1, FitLen, BottomIs
  <2>3. i \in 0..n /\ n \in i..n /\ i - 1 \in 0..n
    BY <2>1
  <2>4. /\ Bottom(sh)[i] \in Nat /\ Bottom(sh)[i - 1] \in Nat
        /\ Bottom(sh)[i] <= Bottom(sh)[n] /\ Bottom(sh)[n] = D
    BY <1>2, <2>1, <2>3, BottomNat, BottomGrows, DepthIs
  <2>5. (D - Bottom(sh)[i]) + k \in 1..D
    BY <2>2, <2>4
  <2>6. live[(D - Bottom(sh)[i]) + k] = flat[(D - Bottom(sh)[i]) + k]
    BY <1>3, <1>8, <2>5
  <2> QED  BY <1>5, <2>6
<1>11. ASSUME NEW k \in 1..m
       PROVE  live[D + k] = array[off + k - 1]
  <2>1. D + k \in 1..(D + m) /\ ~(D + k <= D) /\ D + k - D = k
    OBVIOUS
  <2> QED  BY <1>6, <1>8, <2>1
<1> QED  BY <1>2, <1>3, <1>8, <1>9, <1>10, <1>11 DEF IsLive

(* The places determine the live stack.                                    *)
LEMMA LiveUnique ==
  ASSUME NEW sh, FitStack(sh), NEW off \in Offsets, NEW array,
         NEW l1, IsLive(l1, sh, off, array), NEW l2, IsLive(l2, sh, off, array)
  PROVE  l1 = l2
<1>1. PICK D \in Nat : D = ShadowDepth(sh)
  BY DepthIs
<1>2. PICK m \in Nat : m = Above - off
  BY SizesAssumption DEF Offsets
<1>3. PICK n \in Nat : n = Len(sh)
  BY FitLen
<1>4. ASSUME NEW x \in 1..(D + m) PROVE l1[x] = l2[x]
  <2>1. CASE x <= D
    <3>1. D - x \in Nat /\ D - x < Bottom(sh)[n]
      BY <1>1, <1>3, <2>1, DepthIs
    <3>2. PICK i \in 1..n : Bottom(sh)[i - 1] <= D - x /\ D - x < Bottom(sh)[i]
      BY <1>3, <3>1, Covered
    <3>3. /\ Bottom(sh)[i - 1] \in Nat /\ Bottom(sh)[i] \in Nat
          /\ Bottom(sh)[i] = Bottom(sh)[i - 1] + sh[i].depth /\ sh[i].depth \in Nat
      BY <1>3, BottomNat, BottomIs, FitLen
    <3>4. PICK k : k = x - (D - Bottom(sh)[i])
      OBVIOUS
    <3>5. k \in 1..sh[i].depth /\ x = (D - Bottom(sh)[i]) + k
      BY <3>2, <3>3, <3>4
    <3> QED  BY <1>1, <1>3, <3>5 DEF IsLive
  <2>2. CASE ~(x <= D)
    <3>1. PICK k \in 1..m : x = D + k
      <4>1. x - D \in 1..m /\ x = D + (x - D)
        BY <2>2
      <4> QED  BY <4>1
    <3> QED  BY <1>1, <1>2, <3>1 DEF IsLive
  <2> QED  BY <2>1, <2>2
<1>5. l1 \in Seq(Byte) /\ l2 \in Seq(Byte) /\ Len(l1) = D + m /\ Len(l2) = D + m
  BY <1>1, <1>2 DEF IsLive
<1> QED  BY <1>4, <1>5, SeqEqual

-----------------------------------------------------------------------------
LEMMA ConcatAt ==
  ASSUME NEW S, NEW a \in Seq(S), NEW b \in Seq(S)
  PROVE  /\ a \o b \in Seq(S) /\ Len(a \o b) = Len(a) + Len(b)
         /\ \A k \in 1..Len(a) : (a \o b)[k] = a[k]
         /\ \A k \in 1..Len(b) : (a \o b)[Len(a) + k] = b[k]
<1>1. Len(a) \in Nat /\ Len(b) \in Nat
  BY LenProperties
<1>2. /\ a \o b \in Seq(S) /\ Len(a \o b) = Len(a) + Len(b)
      /\ \A i \in 1..(Len(a) + Len(b)) : (a \o b)[i] = IF i <= Len(a) THEN a[i] ELSE b[i - Len(a)]
  BY ConcatProperties
<1>3. \A k \in 1..Len(a) : (a \o b)[k] = a[k]
  BY <1>1, <1>2
<1>4. ASSUME NEW k \in 1..Len(b) PROVE (a \o b)[Len(a) + k] = b[k]
  <2>1. PICK x : x = Len(a) + k
    OBVIOUS
  <2>2. x \in 1..(Len(a) + Len(b)) /\ ~(x <= Len(a)) /\ x - Len(a) = k
    BY <1>1, <2>1
  <2> QED  BY <1>2, <2>1, <2>2
<1> QED  BY <1>2, <1>3, <1>4

(* The places of the bytes of a slot.                                      *)
LEMMA PlaceIn ==
  ASSUME NEW sh, FitStack(sh), NEW i \in 1..Len(sh), NEW k \in 1..sh[i].depth
  PROVE  (ShadowDepth(sh) - Bottom(sh)[i]) + k \in 1..ShadowDepth(sh)
<1>1. PICK n : n = Len(sh) /\ n \in Nat
  BY FitLen
<1>2. Bottom(sh)[i] = Bottom(sh)[i - 1] + sh[i].depth /\ sh[i].depth \in Nat
  BY <1>1, FitLen, BottomIs
<1>3. i \in 0..n /\ n \in i..n /\ i - 1 \in 0..n
  BY <1>1
<1>4. /\ Bottom(sh)[i] \in Nat /\ Bottom(sh)[i - 1] \in Nat
      /\ Bottom(sh)[i] <= Bottom(sh)[n] /\ Bottom(sh)[n] = ShadowDepth(sh)
      /\ ShadowDepth(sh) \in Nat
  BY <1>1, <1>3, BottomNat, BottomGrows, DepthIs
<1>5. PICK D, b, c, d : /\ D = ShadowDepth(sh) /\ b = Bottom(sh)[i]
                        /\ c = Bottom(sh)[i - 1] /\ d = sh[i].depth
  OBVIOUS
<1>6. D \in Nat /\ b \in Nat /\ c \in Nat /\ d \in Nat /\ b = c + d /\ b <= D /\ k \in 1..d
  BY <1>2, <1>4, <1>5, Zenon
<1>7. (D - b) + k \in 1..D
  BY <1>6
<1> QED  BY <1>5, <1>7

LEMMA PushFits ==
  ASSUME NEW sh, FitStack(sh), NEW s, Fits(s)
  PROVE  /\ FitStack(Append(sh, s)) /\ Len(Append(sh, s)) = Len(sh) + 1
         /\ ShadowDepth(Append(sh, s)) = ShadowDepth(sh) + s.depth
         /\ \A i \in 1..Len(sh) : Append(sh, s)[i] = sh[i]
         /\ Append(sh, s)[Len(sh) + 1] = s
         /\ \A i \in 0..Len(sh) : Bottom(Append(sh, s))[i] = Bottom(sh)[i]
         /\ Bottom(Append(sh, s))[Len(sh) + 1] = ShadowDepth(sh) + s.depth
<1>1. PICK n : n = Len(sh) /\ n \in Nat
  BY FitLen
<1>2. sh \in Seq(Slot) /\ s \in Slot
  BY DEF FitStack, Fits
<1>3. PICK new : new = Append(sh, s)
  OBVIOUS
<1>4. /\ new \in Seq(Slot) /\ Len(new) = n + 1 /\ new[n + 1] = s
      /\ \A i \in 1..n : new[i] = sh[i]
  BY <1>1, <1>2, <1>3, AppendProperties
<1>5. FitStack(new)
  <2>1. \A i \in 1..(n + 1) : i \in 1..n \/ i = n + 1
    BY <1>1
  <2> QED  BY <1>1, <1>4, <2>1 DEF FitStack
<1>6. \A i \in 0..n : Bottom(new)[i] = Bottom(sh)[i]
  <2>1. n \in 0..Len(new) /\ n <= Len(sh) /\ \A i \in 1..n : new[i] = sh[i]
    BY <1>1, <1>4
  <2> QED  BY <1>1, <1>4, <2>1, SameBottom
<1>7. Bottom(new)[n + 1] = ShadowDepth(sh) + s.depth
  <2>1. n + 1 \in 1..Len(new) /\ n + 1 - 1 = n /\ n \in 0..n
    BY <1>1, <1>4
  <2>2. Bottom(new)[n + 1] = Bottom(new)[n] + s.depth
    BY <1>1, <1>4, <2>1, BottomIs
  <2> QED  BY <1>1, <1>6, <2>1, <2>2, DepthIs
<1>8. ShadowDepth(new) = ShadowDepth(sh) + s.depth
  BY <1>4, <1>5, <1>7, DepthIs
<1> QED  BY <1>1, <1>3, <1>4, <1>5, <1>6, <1>7, <1>8

(* A push puts the bytes of its slot before the others.                    *)
LEMMA PushLive ==
  ASSUME NEW sh, FitStack(sh), NEW s, Fits(s), NEW off \in Offsets, NEW array,
         NEW live, IsLive(live, sh, off, array)
  PROVE  IsLive(SlotBytes(s) \o live, Append(sh, s), off, array)
<1>1. PICK n : n = Len(sh) /\ n \in Nat
  BY FitLen
<1>2. PICK D : D = ShadowDepth(sh) /\ D \in Nat
  BY DepthIs
<1>3. PICK d : d = s.depth /\ d \in Nat
  BY DEF Fits, Slot
<1>4. PICK m : m = Above - off /\ m \in Nat
  BY SizesAssumption DEF Offsets
<1>5. PICK b : b = SlotBytes(s) /\ b \in Seq(Byte) /\ Len(b) = d
  BY <1>3, SlotBytesIs
<1>6. /\ live \in Seq(Byte) /\ Len(live) = D + m
      /\ \A i \in 1..n : \A k \in 1..sh[i].depth :
           live[(D - Bottom(sh)[i]) + k] = SlotBytes(sh[i])[k]
      /\ \A k \in 1..m : live[D + k] = array[off + k - 1]
  BY <1>1, <1>2, <1>4 DEF IsLive
<1>7. PICK all : all = b \o live
  OBVIOUS
<1>8. /\ all \in Seq(Byte) /\ Len(all) = d + (D + m)
      /\ \A k \in 1..d : all[k] = b[k]
      /\ \A k \in 1..(D + m) : all[d + k] = live[k]
  <2>1. /\ b \o live \in Seq(Byte) /\ Len(b \o live) = Len(b) + Len(live)
        /\ \A k \in 1..Len(b) : (b \o live)[k] = b[k]
        /\ \A k \in 1..Len(live) : (b \o live)[Len(b) + k] = live[k]
    <3>1. b \in Seq(Byte) /\ live \in Seq(Byte)
      BY <1>5, <1>6
    <3> QED  BY <3>1, ConcatAt
  <2>2. Len(b) = d /\ Len(live) = D + m /\ b \o live = all
    BY <1>5, <1>6, <1>7
  <2> QED  BY <2>1, <2>2
<1>9. PICK new : new = Append(sh, s)
  OBVIOUS
<1>10. /\ Len(new) = n + 1 /\ ShadowDepth(new) = D + d
       /\ \A i \in 1..n : new[i] = sh[i]
       /\ new[n + 1] = s
       /\ \A i \in 0..n : Bottom(new)[i] = Bottom(sh)[i]
       /\ Bottom(new)[n + 1] = D + d
  <2>1. /\ Len(Append(sh, s)) = Len(sh) + 1
        /\ ShadowDepth(Append(sh, s)) = ShadowDepth(sh) + s.depth
        /\ \A i \in 1..Len(sh) : Append(sh, s)[i] = sh[i]
        /\ Append(sh, s)[Len(sh) + 1] = s
        /\ \A i \in 0..Len(sh) : Bottom(Append(sh, s))[i] = Bottom(sh)[i]
        /\ Bottom(Append(sh, s))[Len(sh) + 1] = ShadowDepth(sh) + s.depth
    BY PushFits
  <2> QED  BY <1>1, <1>2, <1>3, <1>9, <2>1
<1>11. ASSUME NEW i \in 1..(n + 1), NEW k \in 1..new[i].depth
       PROVE  all[((D + d) - Bottom(new)[i]) + k] = SlotBytes(new[i])[k]
  <2>1. CASE i = n + 1
    <3>1. ((D + d) - Bottom(new)[i]) + k = k /\ k \in 1..d
      BY <1>2, <1>3, <1>10, <2>1
    <3> QED  BY <1>5, <1>8, <1>10, <2>1, <3>1
  <2>2. CASE i # n + 1
    <3>1. i \in 1..n /\ i \in 0..n
      BY <1>1, <2>2
    <3>2. new[i] = sh[i] /\ Bottom(new)[i] = Bottom(sh)[i] /\ k \in 1..sh[i].depth
      BY <1>10, <3>1
    <3>3. PICK x : x = (D - Bottom(sh)[i]) + k /\ x \in 1..D
      BY <1>1, <1>2, <3>1, <3>2, PlaceIn
    <3>4. Bottom(sh)[i] \in Nat
      BY <1>1, <3>1, BottomNat
    <3>5. sh[i].depth \in Nat
      BY <1>1, <3>1, FitLen
    <3>6. ((D + d) - Bottom(new)[i]) + k = d + x /\ x \in 1..(D + m)
      BY <1>2, <1>3, <1>4, <3>2, <3>3, <3>4, <3>5
    <3>7. all[d + x] = live[x] /\ live[x] = SlotBytes(sh[i])[k]
      BY <1>6, <1>8, <3>1, <3>2, <3>3, <3>6
    <3> QED  BY <3>2, <3>6, <3>7
  <2> QED  BY <2>1, <2>2
<1>12. ASSUME NEW k \in 1..m
       PROVE  all[(D + d) + k] = array[off + k - 1]
  <2>1. D + k \in 1..(D + m) /\ (D + d) + k = d + (D + k)
    BY <1>2, <1>3, <1>4
  <2>2. all[d + (D + k)] = live[D + k]
    BY <1>8, <2>1
  <2> QED  BY <1>6, <2>1, <2>2
<1>13. Len(all) = (D + d) + m
  BY <1>2, <1>3, <1>4, <1>8
<1>14. /\ all \in Seq(Byte) /\ Len(all) = ShadowDepth(new) + (Above - off)
       /\ \A i \in 1..Len(new) : \A k \in 1..new[i].depth :
            all[(ShadowDepth(new) - Bottom(new)[i]) + k] = SlotBytes(new[i])[k]
       /\ \A k \in 1..(Above - off) : all[ShadowDepth(new) + k] = array[off + k - 1]
  BY <1>4, <1>8, <1>10, <1>11, <1>12, <1>13
<1> QED  BY <1>5, <1>7, <1>9, <1>14 DEF IsLive

-----------------------------------------------------------------------------
(* What is left of a sequence after its first d elements.                  *)
After(live, d) == SubSeq(live, d + 1, Len(live))

LEMMA AfterIs ==
  ASSUME NEW S, NEW live \in Seq(S), NEW d \in Nat, d <= Len(live)
  PROVE  /\ After(live, d) \in Seq(S) /\ Len(After(live, d)) = Len(live) - d
         /\ \A k \in 1..(Len(live) - d) : After(live, d)[k] = live[d + k]
<1>1. PICK n : n = Len(live) /\ n \in Nat
  BY LenProperties
<1>2. \A i \in (d + 1)..n : live[i] \in S
  BY <1>1, ElementOfSeq
<1>3. PICK r : r = SubSeq(live, d + 1, n)
  OBVIOUS
<1>4. /\ r \in Seq(S) /\ Len(r) = IF d + 1 <= n THEN n - (d + 1) + 1 ELSE 0
      /\ \A i \in 1..(n - (d + 1) + 1) : r[i] = live[(d + 1) + i - 1]
  BY <1>1, <1>2, <1>3, SubSeqProperties
<1>5. Len(r) = n - d
  BY <1>1, <1>4
<1>6. \A k \in 1..(n - d) : r[k] = live[d + k]
  <2> TAKE k \in 1..(n - d)
  <2>1. k \in 1..(n - (d + 1) + 1) /\ (d + 1) + k - 1 = d + k
    BY <1>1
  <2> QED  BY <1>4, <2>1
<1> QED  BY <1>1, <1>3, <1>4, <1>5, <1>6 DEF After

LEMMA AfterAfter ==
  ASSUME NEW S, NEW live \in Seq(S), NEW d \in Nat, NEW e \in Nat, d + e <= Len(live)
  PROVE  After(After(live, d), e) = After(live, d + e)
<1>1. PICK n : n = Len(live) /\ n \in Nat
  BY LenProperties
<1>2. PICK a : a = After(live, d)
  OBVIOUS
<1>3. a \in Seq(S) /\ Len(a) = n - d /\ \A k \in 1..(n - d) : a[k] = live[d + k]
  <2>1. /\ After(live, d) \in Seq(S) /\ Len(After(live, d)) = Len(live) - d
        /\ \A k \in 1..(Len(live) - d) : After(live, d)[k] = live[d + k]
    <3>1. d <= Len(live)
      BY <1>1
    <3> QED  BY <3>1, AfterIs
  <2> QED  BY <1>1, <1>2, <2>1
<1>4. PICK b : b = After(a, e)
  OBVIOUS
<1>5. e <= n - d /\ n - d \in Nat
  BY <1>1
<1>6. b \in Seq(S) /\ Len(b) = (n - d) - e /\ \A k \in 1..((n - d) - e) : b[k] = a[e + k]
  <2>1. a \in Seq(S) /\ e <= Len(a)
    BY <1>3, <1>5
  <2>2. /\ After(a, e) \in Seq(S) /\ Len(After(a, e)) = Len(a) - e
        /\ \A k \in 1..(Len(a) - e) : After(a, e)[k] = a[e + k]
    BY <2>1, AfterIs
  <2> QED  BY <1>3, <1>4, <2>2
<1>7. PICK c : c = After(live, d + e)
  OBVIOUS
<1>8. c \in Seq(S) /\ Len(c) = n - (d + e) /\ \A k \in 1..(n - (d + e)) : c[k] = live[(d + e) + k]
  <2>1. d + e \in Nat /\ d + e <= Len(live)
    OBVIOUS
  <2> QED  BY <1>1, <1>7, <2>1, AfterIs
<1>9. \A k \in 1..Len(b) : b[k] = c[k]
  <2> TAKE k \in 1..Len(b)
  <2>1. k \in 1..((n - d) - e) /\ e + k \in 1..(n - d) /\ k \in 1..(n - (d + e))
        /\ d + (e + k) = (d + e) + k
    BY <1>1, <1>6
  <2> QED  BY <1>3, <1>6, <1>8, <2>1
<1>10. Len(b) = Len(c)
  BY <1>1, <1>6, <1>8
<1>11. b = c
  BY <1>6, <1>8, <1>9, <1>10, SeqEqual
<1> QED  BY <1>2, <1>4, <1>7, <1>11

(* A prefix of the shadow stack.                                           *)
LEMMA PrefixFits ==
  ASSUME NEW sh, FitStack(sh), NEW m \in 0..Len(sh)
  PROVE  /\ FitStack(SubSeq(sh, 1, m)) /\ Len(SubSeq(sh, 1, m)) = m
         /\ \A i \in 1..m : SubSeq(sh, 1, m)[i] = sh[i]
         /\ \A i \in 0..m : Bottom(SubSeq(sh, 1, m))[i] = Bottom(sh)[i]
         /\ ShadowDepth(SubSeq(sh, 1, m)) = Bottom(sh)[m]
<1>1. PICK n : n = Len(sh) /\ n \in Nat
  BY FitLen
<1>2. sh \in Seq(Slot)
  BY DEF FitStack
<1>3. PICK new : new = SubSeq(sh, 1, m)
  OBVIOUS
<1>4. \A i \in 1..m : sh[i] \in Slot
  BY <1>1, FitLen
<1>5. /\ new \in Seq(Slot) /\ Len(new) = IF 1 <= m THEN m - 1 + 1 ELSE 0
      /\ \A i \in 1..(m - 1 + 1) : new[i] = sh[1 + i - 1]
  BY <1>1, <1>3, <1>4, SubSeqProperties
<1>6. Len(new) = m /\ \A i \in 1..m : new[i] = sh[i]
  <2>1. Len(new) = m
    BY <1>1, <1>5
  <2>2. ASSUME NEW i \in 1..m PROVE new[i] = sh[i]
    <3>1. i \in 1..(m - 1 + 1) /\ 1 + i - 1 = i
      BY <1>1
    <3> QED  BY <1>5, <3>1
  <2> QED  BY <2>1, <2>2
<1>7. FitStack(new)
  BY <1>1, <1>5, <1>6 DEF FitStack
<1>8. \A i \in 0..m : Bottom(new)[i] = Bottom(sh)[i]
  <2>1. Len(new) \in Nat /\ Len(sh) \in Nat /\ m \in 0..Len(new) /\ m <= Len(sh)
    BY <1>1, <1>6
  <2> QED  BY <1>6, <2>1, SameBottom
<1>9. ShadowDepth(new) = Bottom(sh)[m]
  <2>1. m \in 0..m
    BY <1>1
  <2> QED  BY <1>6, <1>7, <1>8, <2>1, DepthIs
<1> QED  BY <1>3, <1>6, <1>7, <1>8, <1>9

(* Taking whole slots off takes their bytes off.                           *)
LEMMA WholeLive ==
  ASSUME NEW sh, FitStack(sh), NEW off \in Offsets, NEW array,
         NEW live, IsLive(live, sh, off, array), NEW m \in 0..Len(sh)
  PROVE  /\ ShadowDepth(sh) - Bottom(sh)[m] \in Nat
         /\ IsLive(After(live, ShadowDepth(sh) - Bottom(sh)[m]), SubSeq(sh, 1, m), off, array)
<1>1. PICK n : n = Len(sh) /\ n \in Nat
  BY FitLen
<1>2. PICK D : D = ShadowDepth(sh) /\ D \in Nat /\ D = Bottom(sh)[n]
  BY <1>1, DepthIs
<1>3. PICK E : E = Bottom(sh)[m] /\ E \in Nat /\ E <= D
  <2>1. n \in m..Len(sh)
    BY <1>1
  <2> QED  BY <1>2, <2>1, BottomNat, BottomGrows
<1>4. PICK r : r = Above - off /\ r \in Nat
  BY SizesAssumption DEF Offsets
<1>5. /\ live \in Seq(Byte) /\ Len(live) = D + r
      /\ \A i \in 1..n : \A k \in 1..sh[i].depth :
           live[(D - Bottom(sh)[i]) + k] = SlotBytes(sh[i])[k]
      /\ \A k \in 1..r : live[D + k] = array[off + k - 1]
  BY <1>1, <1>2, <1>4 DEF IsLive
<1>6. PICK a : a = After(live, D - E)
  OBVIOUS
<1>7. /\ a \in Seq(Byte) /\ Len(a) = E + r /\ \A k \in 1..(E + r) : a[k] = live[(D - E) + k]
  <2>1. D - E \in Nat /\ D - E <= Len(live) /\ Len(live) - (D - E) = E + r
    <3>1. Len(live) = D + r /\ D \in Nat /\ E \in Nat /\ E <= D /\ r \in Nat
      BY <1>2, <1>3, <1>4, <1>5
    <3> QED  BY <3>1
  <2>2. PICK g : g = D - E
    OBVIOUS
  <2>3. live \in Seq(Byte) /\ g \in Nat /\ g <= Len(live)
    BY <1>5, <2>1, <2>2
  <2>4. /\ After(live, g) \in Seq(Byte) /\ Len(After(live, g)) = Len(live) - g
        /\ \A k \in 1..(Len(live) - g) : After(live, g)[k] = live[g + k]
    BY <2>3, AfterIs
  <2> QED  BY <1>6, <2>1, <2>2, <2>4
<1>8. PICK new : new = SubSeq(sh, 1, m)
  OBVIOUS
<1>9. /\ FitStack(new) /\ Len(new) = m /\ \A i \in 1..m : new[i] = sh[i]
      /\ \A i \in 0..m : Bottom(new)[i] = Bottom(sh)[i]
      /\ ShadowDepth(new) = E
  BY <1>3, <1>8, PrefixFits
<1>10. ASSUME NEW i \in 1..m, NEW k \in 1..new[i].depth
       PROVE  a[(E - Bottom(new)[i]) + k] = SlotBytes(new[i])[k]
  <2>1. PICK x : x = (E - Bottom(new)[i]) + k /\ x \in 1..E
    BY <1>9, PlaceIn
  <2>2. i \in 0..m /\ i \in 1..n /\ i \in 0..n
    BY <1>1
  <2>3. new[i] = sh[i] /\ Bottom(new)[i] = Bottom(sh)[i] /\ Bottom(sh)[i] \in Nat
    BY <1>1, <1>9, <2>2, BottomNat
  <2>4. sh[i].depth \in Nat
    BY <1>1, <2>2, FitLen
  <2>5. x \in 1..(E + r) /\ (D - E) + x = (D - Bottom(sh)[i]) + k
    <3>1. PICK b : b = Bottom(sh)[i] /\ b \in Nat
      BY <2>3
    <3>2. x = (E - b) + k /\ k \in Nat
      BY <2>1, <2>3, <2>4, <3>1
    <3>3. (D - E) + x = (D - b) + k
      BY <1>2, <1>3, <3>1, <3>2, SMTT(30)
    <3> QED  BY <1>3, <1>4, <2>1, <3>1, <3>3
  <2>6. a[x] = live[(D - Bottom(sh)[i]) + k]
    BY <1>7, <2>5
  <2>7. live[(D - Bottom(sh)[i]) + k] = SlotBytes(sh[i])[k]
    BY <1>5, <2>2, <2>3
  <2> QED  BY <2>1, <2>3, <2>6, <2>7
<1>11. ASSUME NEW k \in 1..r PROVE a[E + k] = array[off + k - 1]
  <2>1. E + k \in 1..(E + r) /\ (D - E) + (E + k) = D + k
    BY <1>2, <1>3, <1>4
  <2>2. a[E + k] = live[D + k]
    BY <1>7, <2>1
  <2> QED  BY <1>5, <2>2
<1>12. /\ a \in Seq(Byte) /\ Len(a) = ShadowDepth(new) + (Above - off)
       /\ \A i \in 1..Len(new) : \A k \in 1..new[i].depth :
            a[(ShadowDepth(new) - Bottom(new)[i]) + k] = SlotBytes(new[i])[k]
       /\ \A k \in 1..(Above - off) : a[ShadowDepth(new) + k] = array[off + k - 1]
  BY <1>4, <1>7, <1>9, <1>10, <1>11
<1>13. IsLive(a, new, off, array)
  BY <1>12 DEF IsLive
<1>14. D - E \in Nat
  BY <1>2, <1>3
<1> QED  BY <1>2, <1>3, <1>6, <1>8, <1>13, <1>14

(* The topmost slot is the first of the live bytes.                        *)
LEMMA TopLive ==
  ASSUME NEW sh, FitStack(sh), Len(sh) # 0, NEW off, NEW array,
         NEW live, IsLive(live, sh, off, array)
  PROVE  /\ \A k \in 1..sh[Len(sh)].depth : live[k] = SlotBytes(sh[Len(sh)])[k]
         /\ ShadowDepth(sh) - Bottom(sh)[Len(sh) - 1] = sh[Len(sh)].depth
         /\ sh[Len(sh)].depth <= ShadowDepth(sh)
<1>1. PICK n : n = Len(sh) /\ n \in Nat /\ n \in 1..n /\ n \in 0..n /\ n - 1 \in 0..n
  BY FitLen
<1>2. PICK D : D = ShadowDepth(sh) /\ D \in Nat /\ D = Bottom(sh)[n]
  BY <1>1, DepthIs
<1>3. D = Bottom(sh)[n - 1] + sh[n].depth /\ Bottom(sh)[n - 1] \in Nat /\ sh[n].depth \in Nat
  BY <1>1, <1>2, BottomIs, BottomNat, FitLen
<1>4. ASSUME NEW k \in 1..sh[n].depth PROVE live[k] = SlotBytes(sh[n])[k]
  <2>1. (D - Bottom(sh)[n]) + k = k
    BY <1>2, <1>3
  <2>2. live[(D - Bottom(sh)[n]) + k] = SlotBytes(sh[n])[k]
    BY <1>1, <1>2 DEF IsLive
  <2> QED  BY <2>1, <2>2
<1>5. D - Bottom(sh)[n - 1] = sh[n].depth /\ sh[n].depth <= D
  BY <1>2, <1>3
<1> QED  BY <1>1, <1>2, <1>4, <1>5

LEMMA RemainderFits ==
  ASSUME NEW s, Fits(s), s.flagsPromise = NoPromise, NEW need \in 1..(s.depth - 1)
  PROVE  /\ Fits(Remainder(s, need)) /\ Remainder(s, need).flagsPromise = NoPromise
         /\ Remainder(s, need).depth = s.depth - need
         /\ Remainder(s, need).value = After(s.value, need)
<1>1. /\ s.value \in Seq(Byte) /\ s.depth \in Nat /\ Len(s.value) = s.depth
  BY DEF Fits, Slot
<1>2. PICK v : v = After(s.value, need)
  OBVIOUS
<1>3. v \in Seq(Byte) /\ Len(v) = s.depth - need
  <2>1. need \in Nat /\ need <= Len(s.value)
    BY <1>1
  <2> QED  BY <1>1, <1>2, <2>1, AfterIs
<1>4. Remainder(s, need) = ValueSlot(v, s.depth - need)
  BY <1>1, <1>2 DEF Remainder, After
<1>5. s.depth - need \in Nat /\ s.depth - need > 0
  BY <1>1
<1> QED  BY <1>2, <1>3, <1>4, <1>5 DEF ValueSlot, Fits, Slot, NoPromise

(* Cutting the topmost slot takes the bytes off that are cut.              *)
LEMMA CutLive ==
  ASSUME NEW sh, FitStack(sh), Len(sh) # 0, sh[Len(sh)].flagsPromise = NoPromise,
         NEW off \in Offsets, NEW array, NEW live, IsLive(live, sh, off, array),
         NEW need \in 1..(sh[Len(sh)].depth - 1)
  PROVE  LET new == Append(SubSeq(sh, 1, Len(sh) - 1), Remainder(sh[Len(sh)], need))
         IN /\ FitStack(new) /\ ShadowDepth(new) = ShadowDepth(sh) - need
            /\ IsLive(After(live, need), new, off, array)
<1>1. PICK n : n = Len(sh) /\ n \in Nat /\ n \in 1..n /\ n - 1 \in 0..n
  BY FitLen
<1>2. PICK D : D = ShadowDepth(sh) /\ D \in Nat
  BY DepthIs
<1>3. PICK top, t : top = sh[n] /\ Fits(top) /\ t = top.depth /\ t \in Nat
  BY <1>1, FitLen DEF FitStack
<1>4. PICK r : r = Remainder(top, need)
  OBVIOUS
<1>5. Fits(r) /\ r.flagsPromise = NoPromise /\ r.depth = t - need /\ r.value = After(top.value, need)
  BY <1>1, <1>3, <1>4, RemainderFits
<1>6. PICK below : below = SubSeq(sh, 1, n - 1)
  OBVIOUS
<1>7. FitStack(below) /\ ShadowDepth(below) = Bottom(sh)[n - 1]
  BY <1>1, <1>6, PrefixFits
<1>8. D - Bottom(sh)[n - 1] = t /\ t <= D /\ \A k \in 1..t : live[k] = SlotBytes(top)[k]
  BY <1>1, <1>2, <1>3, TopLive
<1>9. IsLive(After(live, t), below, off, array)
  BY <1>1, <1>2, <1>6, <1>8, WholeLive
<1>10. IsLive(SlotBytes(r) \o After(live, t), Append(below, r), off, array)
  BY <1>5, <1>7, <1>9, PushLive
<1>11. FitStack(Append(below, r)) /\ ShadowDepth(Append(below, r)) = D - need
  <2>1. FitStack(Append(below, r)) /\ ShadowDepth(Append(below, r)) = ShadowDepth(below) + r.depth
    BY <1>5, <1>7, PushFits
  <2>2. ShadowDepth(below) \in Nat
    BY <1>7, DepthIs
  <2> QED  BY <1>2, <1>3, <1>5, <1>7, <1>8, <2>1, <2>2
<1>12. SlotBytes(r) \o After(live, t) = After(live, need)
  <2>1. PICK m : m = Len(live) /\ m \in Nat /\ D <= m /\ live \in Seq(Byte)
    <3>1. Above - off \in Nat
      BY SizesAssumption DEF Offsets
    <3> QED  BY <1>2, <3>1 DEF IsLive
  <2>2. PICK v : v = SlotBytes(r)
    OBVIOUS
  <2>3. top.value \in Seq(Byte) /\ Len(top.value) = t /\ SlotBytes(top) = top.value
    BY <1>1, <1>3, SlotBytesIs DEF Fits, Slot
  <2>4. /\ v \in Seq(Byte) /\ Len(v) = t - need
        /\ \A k \in 1..(t - need) : v[k] = top.value[need + k]
    <3>1. v = After(top.value, need)
      BY <1>5, <2>2, SlotBytesIs
    <3>2. need \in Nat /\ need <= Len(top.value)
      BY <1>1, <1>3, <2>3
    <3> QED  BY <2>3, <3>1, <3>2, AfterIs
  <2>5. PICK a : a = After(live, t)
    OBVIOUS
  <2>6. a \in Seq(Byte) /\ Len(a) = m - t /\ \A k \in 1..(m - t) : a[k] = live[t + k]
    <3>1. t <= Len(live)
      BY <1>2, <1>3, <1>8, <2>1
    <3>2. t \in Nat /\ live \in Seq(Byte)
      BY <1>3, <2>1
    <3>3. /\ After(live, t) \in Seq(Byte) /\ Len(After(live, t)) = Len(live) - t
          /\ \A k \in 1..(Len(live) - t) : After(live, t)[k] = live[t + k]
      BY <3>1, <3>2, AfterIs
    <3> QED  BY <2>1, <2>5, <3>3
  <2>7. PICK b : b = After(live, need)
    OBVIOUS
  <2>8. b \in Seq(Byte) /\ Len(b) = m - need /\ \A k \in 1..(m - need) : b[k] = live[need + k]
    <3>1. need \in Nat /\ need <= Len(live)
      BY <1>1, <1>2, <1>3, <1>8, <2>1
    <3>2. /\ After(live, need) \in Seq(Byte) /\ Len(After(live, need)) = Len(live) - need
          /\ \A k \in 1..(Len(live) - need) : After(live, need)[k] = live[need + k]
      BY <2>1, <3>1, AfterIs
    <3> QED  BY <2>1, <2>7, <3>2
  <2>9. PICK c : c = v \o a
    OBVIOUS
  <2>10. /\ c \in Seq(Byte) /\ Len(c) = Len(v) + Len(a)
         /\ \A k \in 1..Len(v) : c[k] = v[k]
         /\ \A k \in 1..Len(a) : c[Len(v) + k] = a[k]
    <3>1. v \in Seq(Byte) /\ a \in Seq(Byte)
      BY <2>4, <2>6
    <3>2. /\ v \o a \in Seq(Byte) /\ Len(v \o a) = Len(v) + Len(a)
          /\ \A k \in 1..Len(v) : (v \o a)[k] = v[k]
          /\ \A k \in 1..Len(a) : (v \o a)[Len(v) + k] = a[k]
      BY <3>1, ConcatAt
    <3> QED  BY <2>9, <3>2
  <2>12. need \in Nat /\ need <= t /\ t <= m /\ t \in Nat /\ m \in Nat
    BY <1>1, <1>2, <1>3, <1>8, <2>1
  <2>15. Len(v) = t - need /\ Len(a) = m - t
    BY <2>4, <2>6
  <2>11. Len(c) = m - need
    <3>1. (t - need) + (m - t) = m - need
      BY <2>12
    <3> QED  BY <2>10, <2>15, <3>1
  <2>13. ASSUME NEW k \in 1..(m - need) PROVE c[k] = b[k]
    <3>1. CASE k <= t - need
      <4>1. k \in 1..(t - need) /\ need + k \in 1..t
        BY <1>3, <2>1, <2>12, <3>1
      <4>2. c[k] = top.value[need + k]
        BY <2>4, <2>10, <4>1
      <4>3. live[need + k] = top.value[need + k]
        BY <1>8, <2>3, <4>1
      <4> QED  BY <2>8, <4>2, <4>3
    <3>2. CASE ~(k <= t - need)
      <4>1. PICK j : j = k - (t - need)
        OBVIOUS
      <4>2. j \in 1..(m - t) /\ (t - need) + j = k /\ t + j = need + k
        <5>1. k \in Nat /\ k >= 1 /\ k <= m - need
          BY <2>12
        <5> QED  BY <2>12, <3>2, <4>1, <5>1
      <4>3. c[(t - need) + j] = a[j]
        BY <2>4, <2>6, <2>10, <4>2
      <4>4. a[j] = live[t + j]
        BY <2>6, <4>2
      <4> QED  BY <2>8, <4>2, <4>3, <4>4
    <3> QED  BY <3>1, <3>2
  <2>14. c = b
    BY <2>8, <2>10, <2>11, <2>13, SeqEqual
  <2> QED  BY <2>2, <2>5, <2>7, <2>9, <2>14
<1> QED  BY <1>1, <1>2, <1>3, <1>4, <1>6, <1>10, <1>11, <1>12

(* Below the shadow stack the bytes are those of the stack array.          *)
LEMMA StoredLive ==
  ASSUME NEW sh, FitStack(sh), Len(sh) = 0, NEW off \in Offsets, NEW array,
         NEW live, IsLive(live, sh, off, array), NEW need \in Nat, need <= Above - off
  PROVE  /\ off + need \in Offsets /\ IsLive(After(live, need), sh, off + need, array)
         /\ ShadowDepth(sh) = 0
<1>1. ShadowDepth(sh) = 0
  <2>1. 0 \in 0..Len(sh) /\ Len(sh) \in Nat
    BY FitLen
  <2> QED  BY <2>1, DepthIs, BottomIs
<1>2. PICK r : r = Above - off /\ r \in Nat /\ off \in Int
  BY SizesAssumption DEF Offsets
<1>3. /\ live \in Seq(Byte) /\ Len(live) = r
      /\ \A k \in 1..r : live[k] = array[off + k - 1]
  BY <1>1, <1>2 DEF IsLive
<1>4. PICK a : a = After(live, need)
  OBVIOUS
<1>5. a \in Seq(Byte) /\ Len(a) = r - need /\ \A k \in 1..(r - need) : a[k] = live[need + k]
  <2>1. need <= Len(live)
    BY <1>2, <1>3
  <2>2. /\ After(live, need) \in Seq(Byte) /\ Len(After(live, need)) = Len(live) - need
        /\ \A k \in 1..(Len(live) - need) : After(live, need)[k] = live[need + k]
    BY <1>3, <2>1, AfterIs, ZenonT(40)
  <2> QED  BY <1>3, <1>4, <2>2
<1>6. PICK o : o = off + need
  OBVIOUS
<1>7. o \in Offsets /\ Above - o = r - need
  BY <1>2, <1>6, SizesAssumption DEF Offsets
<1>8. ASSUME NEW k \in 1..(r - need) PROVE a[k] = array[o + k - 1]
  <2>1. need + k \in 1..r /\ off + (need + k) - 1 = o + k - 1
    BY <1>2, <1>6
  <2> QED  BY <1>3, <1>5, <2>1
<1>9. /\ a \in Seq(Byte) /\ Len(a) = ShadowDepth(sh) + (Above - o)
      /\ \A i \in 1..Len(sh) : \A k \in 1..sh[i].depth :
           a[(ShadowDepth(sh) - Bottom(sh)[i]) + k] = SlotBytes(sh[i])[k]
      /\ \A k \in 1..(Above - o) : a[ShadowDepth(sh) + k] = array[o + k - 1]
  <2>1. 1..Len(sh) = {}
    OBVIOUS
  <2>2. \A k \in 1..(r - need) : 0 + k = k
    BY <1>2
  <2> QED  BY <1>1, <1>2, <1>5, <1>7, <1>8, <2>1, <2>2
<1> QED  BY <1>1, <1>4, <1>6, <1>7, <1>9 DEF IsLive

-----------------------------------------------------------------------------
(* The same places, counted from the top as ShadowPop counts them.         *)
LEMMA TopGrows ==
  ASSUME NEW sh, FitStack(sh)
  PROVE  /\ \A n \in 0..Len(sh) : TopDepth(sh)[n] \in Nat
         /\ \A n \in 0..Len(sh) : \A m \in n..Len(sh) : TopDepth(sh)[n] <= TopDepth(sh)[m]
         /\ TopDepth(sh)[Len(sh)] = ShadowDepth(sh)
         /\ TopDepth(sh)[0] = 0
<1>1. PICK l : l = Len(sh) /\ l \in Nat
  BY FitLen
<1>2. \A n \in 0..l : TopDepth(sh)[n] = Bottom(sh)[l] - Bottom(sh)[l - n]
  BY <1>1, TopBottom
<1>3. \A n \in 0..l : Bottom(sh)[n] \in Nat
  BY <1>1, BottomNat
<1>4. ASSUME NEW n \in 0..l, NEW m \in n..l
      PROVE  /\ TopDepth(sh)[n] \in Nat /\ TopDepth(sh)[n] <= TopDepth(sh)[m]
  <2>1. /\ m \in 0..l /\ l - m \in 0..l /\ l - n \in 0..l /\ l - n \in (l - m)..l
        /\ l \in 0..l /\ l \in (l - n)..l
    BY <1>1
  <2>2. Bottom(sh)[l - m] <= Bottom(sh)[l - n]
    BY <1>1, <2>1, BottomGrows
  <2>3. Bottom(sh)[l - n] <= Bottom(sh)[l]
    BY <1>1, <2>1, BottomGrows
  <2>4. PICK x, y, z : x = Bottom(sh)[l - m] /\ y = Bottom(sh)[l - n] /\ z = Bottom(sh)[l]
    OBVIOUS
  <2>5. x \in Nat /\ y \in Nat /\ z \in Nat /\ x <= y /\ y <= z
    BY <1>3, <2>1, <2>2, <2>3, <2>4
  <2>6. TopDepth(sh)[n] = z - y /\ TopDepth(sh)[m] = z - x
    BY <1>2, <2>1, <2>4
  <2> QED  BY <2>5, <2>6
<1>5. \A n \in 0..l : n \in n..l
  BY <1>1
<1> QED  BY <1>1, <1>4, <1>5, TopIs DEF ShadowDepth

LEMMA TopPlaces ==
  ASSUME NEW sh, FitStack(sh), NEW off, NEW array, NEW live, IsLive(live, sh, off, array),
         NEW i \in 1..Len(sh)
  PROVE  /\ Fits(FromTop(sh, i)) /\ FromTop(sh, i).depth \in Nat
         /\ TopDepth(sh)[i] = TopDepth(sh)[i - 1] + FromTop(sh, i).depth
         /\ \A k \in 1..FromTop(sh, i).depth :
              live[TopDepth(sh)[i - 1] + k] = SlotBytes(FromTop(sh, i))[k]
<1>1. PICK l : l = Len(sh) /\ l \in Nat
  BY FitLen
<1>2. PICK j : j = l + 1 - i /\ j \in 1..l /\ i - 1 \in 0..l /\ l - (i - 1) = j
  BY <1>1
<1>3. FromTop(sh, i) = sh[j]
  BY <1>1, <1>2 DEF FromTop
<1>4. TopDepth(sh)[i - 1] = ShadowDepth(sh) - Bottom(sh)[j]
  <2>1. TopDepth(sh)[i - 1] = Bottom(sh)[l] - Bottom(sh)[l - (i - 1)]
    BY <1>1, <1>2, TopBottom
  <2> QED  BY <1>1, <1>2, <2>1, DepthIs
<1>5. Fits(sh[j]) /\ sh[j].depth \in Nat
  BY <1>1, <1>2, FitLen DEF FitStack
<1>6. TopDepth(sh)[i] = TopDepth(sh)[i - 1] + sh[j].depth
  BY <1>1, <1>2, TopIs
<1>7. \A k \in 1..sh[j].depth : live[(ShadowDepth(sh) - Bottom(sh)[j]) + k] = SlotBytes(sh[j])[k]
  BY <1>1, <1>2 DEF IsLive
<1> QED  BY <1>3, <1>4, <1>5, <1>6, <1>7

(* The slots that a pop of d bytes takes whole: as many as there are in d. *)
LEMMA WholeSlotsIs ==
  ASSUME NEW sh, FitStack(sh), NEW d \in Nat
  PROVE  /\ WholeSlots(sh, d) \in 0..Len(sh)
         /\ TopDepth(sh)[WholeSlots(sh, d)] <= d
         /\ WholeSlots(sh, d) < Len(sh) => d < TopDepth(sh)[WholeSlots(sh, d) + 1]
<1>1. PICK l : l = Len(sh) /\ l \in Nat
  BY FitLen
<1>2. PICK top : top = TopDepth(sh)
  OBVIOUS
<1>3. /\ \A n \in 0..l : top[n] \in Nat
      /\ \A n \in 0..l : \A m \in n..l : top[n] <= top[m]
      /\ top[0] = 0
  BY <1>1, <1>2, TopGrows
<1> DEFINE T == {n \in 0..l : n # l => d < top[n + 1]}
<1>4. PICK w \in T : \A k \in T : w <= k
  <2>1. T \subseteq Nat /\ T # {}
    <3>1. l \in T
      BY <1>1
    <3> QED  BY <3>1
  <2> HIDE DEF T
  <2> QED  BY <2>1, LeastNumber
<1>5. w \in 0..l /\ (w < l => d < top[w + 1])
  BY <1>4
<1>6. ASSUME NEW k \in 1..l
      PROVE  (top[k] <= d) <=> (k \in 1..w)
  <2>1. CASE k <= w
    <3>1. k - 1 \in 0..l /\ k - 1 < w /\ k - 1 # l /\ (k - 1) + 1 = k /\ k \in 0..l
      BY <1>1, <1>5, <2>1
    <3>2. k - 1 \notin T
      <4> HIDE DEF T
      <4> QED  BY <1>4, <1>5, <3>1
    <3>3. ~(d < top[k])
      BY <3>1, <3>2
    <3>4. top[k] \in Nat
      BY <1>3, <3>1
    <3> QED  BY <2>1, <3>3, <3>4
  <2>2. CASE ~(k <= w)
    <3>1. w < l /\ w + 1 \in 0..l /\ k \in (w + 1)..l /\ k \in 0..l
      BY <1>1, <1>5, <2>2
    <3>2. d < top[w + 1] /\ top[w + 1] <= top[k] /\ top[w + 1] \in Nat /\ top[k] \in Nat
      BY <1>3, <1>5, <3>1
    <3> QED  BY <1>5, <2>2, <3>2
  <2> QED  BY <2>1, <2>2
<1>7. {k \in 1..Len(sh) : TopDepth(sh)[k] <= d} = 1..w
  <2>1. \A k \in 1..w : k \in 1..l
    BY <1>1, <1>5
  <2> HIDE DEF T
  <2> QED  BY <1>1, <1>2, <1>6, <2>1
<1>8. WholeSlots(sh, d) = w
  <2>1. w \in Nat
    BY <1>1, <1>5
  <2>2. Cardinality(1..w) = w
    BY <2>1, IntervalSize
  <2> QED  BY <1>7, <2>2 DEF WholeSlots
<1>9. top[w] <= d
  <2>1. CASE w = 0
    BY <1>3, <2>1
  <2>2. CASE w # 0
    <3>1. w \in 1..l /\ w \in 1..w
      BY <1>1, <1>5, <2>2
    <3> QED  BY <1>6, <3>1
  <2> QED  BY <2>1, <2>2
<1> QED  BY <1>1, <1>2, <1>5, <1>8, <1>9

LEMMA AppendAt ==
  ASSUME NEW S, NEW a, a \in Seq(S), NEW b, b \in S
  PROVE  /\ Append(a, b) \in Seq(S) /\ Len(Append(a, b)) = Len(a) + 1
         /\ \A i \in 1..Len(a) : Append(a, b)[i] = a[i]
         /\ Append(a, b)[Len(a) + 1] = b
  BY AppendProperties

(* The first d elements of a sequence.                                     *)
LEMMA TruncIs ==
  ASSUME NEW S, NEW live \in Seq(S), NEW d \in Nat, d <= Len(live)
  PROVE  /\ Trunc(live, d) \in Seq(S) /\ Len(Trunc(live, d)) = d
         /\ \A k \in 1..d : Trunc(live, d)[k] = live[k]
<1>1. PICK n : n = Len(live) /\ n \in Nat
  BY LenProperties
<1>2. \A i \in 1..d : live[i] \in S
  BY <1>1, ElementOfSeq
<1>3. PICK r : r = SubSeq(live, 1, d)
  OBVIOUS
<1>4. /\ r \in Seq(S) /\ Len(r) = IF 1 <= d THEN d - 1 + 1 ELSE 0
      /\ \A i \in 1..(d - 1 + 1) : r[i] = live[1 + i - 1]
  BY <1>1, <1>2, <1>3, SubSeqProperties
<1>5. Len(r) = d
  BY <1>4
<1>6. \A k \in 1..d : r[k] = live[k]
  <2> TAKE k \in 1..d
  <2>1. k \in 1..(d - 1 + 1) /\ 1 + k - 1 = k
    OBVIOUS
  <2> QED  BY <1>4, <2>1
<1> QED  BY <1>3, <1>4, <1>5, <1>6 DEF Trunc

(* n pieces of d bytes, each under the ones before it, as depth says.      *)
Pieces(pieces, n, depth, d) ==
  /\ DOMAIN pieces = 1..n /\ n \in Nat \ {0} /\ d \in Nat
  /\ \A i \in 1..n : Len(pieces[i]) \in Nat /\ depth[i - 1] \in Nat
  /\ depth[0] = 0
  /\ \A i \in 1..(n - 1) : depth[i] = depth[i - 1] + Len(pieces[i])
  /\ d = depth[n - 1] + Len(pieces[n])
  /\ \A i \in 0..(n - 1) : \A j \in i..(n - 1) : depth[i] <= depth[j]

(* Pieces that follow each other are merged without a gap or an overlap.   *)
LEMMA MergedIs ==
  ASSUME NEW pieces, NEW n, NEW depth, NEW d, Pieces(pieces, n, depth, d), NEW live,
         \A i \in 1..n : \A k \in 1..Len(pieces[i]) : live[depth[i - 1] + k] = pieces[i][k]
  PROVE  Merged(pieces, depth, d) = [k \in 1..d |-> live[k]]
<1>1. /\ DOMAIN pieces = 1..n /\ n \in Nat \ {0} /\ d \in Nat
      /\ \A i \in 1..n : Len(pieces[i]) \in Nat /\ depth[i - 1] \in Nat
      /\ depth[0] = 0
      /\ \A i \in 1..(n - 1) : depth[i] = depth[i - 1] + Len(pieces[i])
      /\ d = depth[n - 1] + Len(pieces[n])
      /\ \A i \in 0..(n - 1) : \A j \in i..(n - 1) : depth[i] <= depth[j]
  BY DEF Pieces
<1> DEFINE at(k) == {i \in DOMAIN pieces : k - depth[i - 1] \in 1..Len(pieces[i])}
           byte(k) == LET i == CHOOSE i \in at(k) : TRUE
                      IN IF Cardinality(at(k)) = 1 THEN pieces[i][k - depth[i - 1]]
                         ELSE <<"mix", 0, k>>
<1>2. Merged(pieces, depth, d) = [k \in 1..d |-> byte(k)]
  BY DEF Merged
<1>3. ASSUME NEW k \in 1..d PROVE byte(k) = live[k]
  <2> DEFINE T == {i \in 1..n : i # n => k <= depth[i]}
  <2>1. PICK w \in T : \A i \in T : w <= i
    <3>1. n \in T /\ T \subseteq Nat
      BY <1>1
    <3> HIDE DEF T
    <3> QED  BY <3>1, LeastNumber
  <2>2. w \in 1..n /\ (w # n => k <= depth[w])
    OBVIOUS
  <2>3. depth[w - 1] < k
    <3>1. CASE w = 1
      BY <1>1, <3>1
    <3>2. CASE w # 1
      <4>1. w - 1 \in 1..n /\ w - 1 # n /\ w - 1 < w
        BY <1>1, <2>2, <3>2
      <4>2. w - 1 \notin T
        <5> HIDE DEF T
        <5> QED  BY <1>1, <2>1, <2>2, <4>1
      <4>3. ~(k <= depth[w - 1]) /\ depth[w - 1] \in Nat
        BY <1>1, <2>2, <4>1, <4>2
      <4> QED  BY <1>1, <4>3
    <3> QED  BY <3>1, <3>2
  <2>4. PICK a, b : a = depth[w - 1] /\ b = Len(pieces[w]) /\ a \in Nat /\ b \in Nat
    BY <1>1, <2>2
  <2>5. k <= a + b
    <3>1. CASE w = n
      BY <1>1, <2>4, <3>1
    <3>2. CASE w # n
      <4>1. w \in 1..(n - 1)
        BY <1>1, <2>2, <3>2
      <4> QED  BY <1>1, <2>2, <2>4, <3>2, <4>1
    <3> QED  BY <3>1, <3>2
  <2>6. k - a \in 1..b
    BY <1>1, <2>3, <2>4, <2>5
  <2>7. ASSUME NEW i \in 1..n, i # w PROVE k - depth[i - 1] \notin 1..Len(pieces[i])
    <3>1. CASE i < w
      <4>1. i \in 1..(n - 1) /\ i \in 0..(n - 1) /\ w - 1 \in i..(n - 1)
        BY <1>1, <2>2, <3>1
      <4>2. depth[i] <= a /\ depth[i] = depth[i - 1] + Len(pieces[i])
        BY <1>1, <2>4, <4>1
      <4>3. PICK x, y : x = depth[i - 1] /\ y = Len(pieces[i]) /\ x \in Nat /\ y \in Nat
        BY <1>1
      <4>4. x + y < k
        BY <1>1, <2>3, <2>4, <4>2, <4>3, SMTT(20)
      <4>5. k - x \notin 1..y
        BY <1>1, <4>3, <4>4
      <4> QED  BY <4>3, <4>5
    <3>2. CASE w < i
      <4>1. w # n /\ w \in 0..(n - 1) /\ i - 1 \in w..(n - 1) /\ i - 1 \in 0..(n - 1)
        BY <1>1, <2>2, <3>2
      <4>2. k <= depth[w] /\ depth[w] <= depth[i - 1]
        BY <1>1, <2>2, <4>1
      <4>3. PICK x, y : x = depth[i - 1] /\ y = depth[w] /\ x \in Nat
        BY <1>1
      <4>4. y \in Nat
        <5>1. w \in 1..(n - 1) /\ y = depth[w]
          BY <1>1, <2>2, <4>1, <4>3
        <5>2. depth[w] = a + b
          BY <1>1, <2>4, <5>1
        <5> QED  BY <2>4, <5>1, <5>2
      <4>5. ~(k - x >= 1)
        BY <1>1, <4>2, <4>3, <4>4
      <4> QED  BY <4>3, <4>5
    <3> QED  BY <1>1, <2>2, <2>7, <3>1, <3>2
  <2>8. at(k) = {w}
    <3>1. k - depth[w - 1] \in 1..Len(pieces[w])
      BY <2>4, <2>6
    <3> HIDE DEF T
    <3> QED  BY <1>1, <2>2, <2>7, <3>1
  <2>9. Cardinality(at(k)) = 1 /\ (CHOOSE i \in at(k) : TRUE) = w
    <3>1. Cardinality({w}) = 1
      BY FS_Singleton
    <3>2. (CHOOSE i \in {w} : TRUE) = w
      OBVIOUS
    <3> HIDE DEF at
    <3> QED  BY <2>8, <3>1, <3>2
  <2>10. byte(k) = pieces[w][k - a]
    <3> HIDE DEF at, T
    <3> QED  BY <2>4, <2>9
  <2>11. a + (k - a) = k
    BY <1>1, <2>4
  <2>12. live[a + (k - a)] = pieces[w][k - a]
    BY <2>2, <2>4, <2>6
  <2> HIDE DEF at, T, byte
  <2> QED  BY <2>10, <2>11, <2>12
<1> HIDE DEF byte
<1> QED  BY <1>2, <1>3

LEMMA TruncTrunc ==
  ASSUME NEW S, NEW s \in Seq(S), NEW m \in Nat, m <= Len(s), NEW n \in Nat, n <= m
  PROVE  SubSeq(SubSeq(s, 1, m), 1, n) = SubSeq(s, 1, n)
<1>1. PICK a : a = Trunc(s, m)
  OBVIOUS
<1>2. a \in Seq(S) /\ Len(a) = m /\ \A k \in 1..m : a[k] = s[k]
  BY <1>1, TruncIs
<1>3. PICK b : b = Trunc(a, n)
  OBVIOUS
<1>4. b \in Seq(S) /\ Len(b) = n /\ \A k \in 1..n : b[k] = a[k]
  <2>1. a \in Seq(S) /\ n <= Len(a)
    BY <1>2
  <2> QED  BY <1>3, <2>1, TruncIs
<1>5. PICK c : c = Trunc(s, n)
  OBVIOUS
<1>6. c \in Seq(S) /\ Len(c) = n /\ \A k \in 1..n : c[k] = s[k]
  <2>1. n <= Len(s)
    <3>1. Len(s) \in Nat
      BY LenProperties
    <3> QED  BY <3>1
  <2> QED  BY <1>5, <2>1, TruncIs
<1>7. \A k \in 1..n : b[k] = c[k]
  <2>1. \A k \in 1..n : k \in 1..m
    OBVIOUS
  <2> QED  BY <1>2, <1>4, <1>6, <2>1
<1>8. b = c
  BY <1>4, <1>6, <1>7, SeqEqual
<1> QED  BY <1>1, <1>3, <1>5, <1>8 DEF Trunc

NoPromises(sh) == \A i \in 1..Len(sh) : sh[i].flagsPromise = NoPromise

LEMMA PrefixPromises ==
  ASSUME NEW sh, FitStack(sh), NEW m \in 0..Len(sh),
         \A i \in 1..m : sh[i].flagsPromise = NoPromise
  PROVE  NoPromises(SubSeq(sh, 1, m))
<1>1. Len(SubSeq(sh, 1, m)) = m /\ \A i \in 1..m : SubSeq(sh, 1, m)[i] = sh[i]
  BY PrefixFits
<1> QED  BY <1>1 DEF NoPromises

LEMMA PushPromises ==
  ASSUME NEW sh, FitStack(sh), NoPromises(sh), NEW s, Fits(s), s.flagsPromise = NoPromise
  PROVE  NoPromises(Append(sh, s))
<1>1. PICK n : n = Len(sh) /\ n \in Nat
  BY FitLen
<1>2. PICK new : new = Append(sh, s)
  OBVIOUS
<1>3. Len(new) = n + 1 /\ new[n + 1] = s /\ \A i \in 1..n : new[i] = sh[i]
  BY <1>1, <1>2, PushFits
<1>4. \A i \in 1..(n + 1) : i \in 1..n \/ i = n + 1
  BY <1>1
<1>5. \A i \in 1..(n + 1) : new[i].flagsPromise = NoPromise
  BY <1>1, <1>3, <1>4 DEF NoPromises
<1> QED  BY <1>2, <1>3, <1>5 DEF NoPromises

(* What a pop of d bytes from a stack without promises leaves: the bytes   *)
(* are popped, and what is left is described as before.                    *)
Pops(p, sh, off, array, live, d) ==
  /\ p.value = Trunc(live, d) /\ p.flagsPromise = NoPromise
  /\ FitStack(p.sh) /\ NoPromises(p.sh) /\ p.off \in Offsets
  /\ IsLive(After(live, d), p.sh, p.off, array)
  /\ ShadowDepth(p.sh) = IF ShadowDepth(sh) <= d THEN 0 ELSE ShadowDepth(sh) - d
  /\ p.off = IF ShadowDepth(sh) <= d THEN off + (d - ShadowDepth(sh)) ELSE off

(* A described stack without promises.                                     *)
Plain(sh, off, array, live) ==
  /\ FitStack(sh) /\ NoPromises(sh) /\ off \in Offsets /\ array \in Arrays
  /\ IsLive(live, sh, off, array)

LEMMA LiveLen ==
  ASSUME NEW sh, NEW off, NEW array, NEW live, FitStack(sh), off \in Offsets,
         IsLive(live, sh, off, array)
  PROVE  /\ live \in Seq(Byte) /\ Len(live) = ShadowDepth(sh) + (Above - off)
         /\ Len(live) \in Nat /\ ShadowDepth(sh) \in Nat /\ Above - off \in Nat
         /\ off \in Int
<1>1. ShadowDepth(sh) \in Nat
  BY DepthIs
<1>2. Above - off \in Nat /\ off \in Int
  BY SizesAssumption DEF Offsets
<1>3. live \in Seq(Byte) /\ Len(live) = ShadowDepth(sh) + (Above - off)
  BY DEF IsLive
<1> QED  BY <1>1, <1>2, <1>3

(* The slots that are taken whole are the first bytes of the live stack.   *)
LEMMA WholePieces ==
  ASSUME NEW sh, NEW off, NEW array, NEW live, Plain(sh, off, array, live),
         NEW i \in 1..Len(sh)
  PROVE  LET v == ZeroExtend(FromTop(sh, i).value, FromTop(sh, i).depth)
         IN /\ v \in Seq(Byte) /\ Len(v) = FromTop(sh, i).depth
            /\ v = FromTop(sh, i).value
            /\ \A k \in 1..Len(v) : live[TopDepth(sh)[i - 1] + k] = v[k]
<1>1. PICK s : s = FromTop(sh, i)
  OBVIOUS
<1>2. /\ Fits(s) /\ s.depth \in Nat
      /\ \A k \in 1..s.depth : live[TopDepth(sh)[i - 1] + k] = SlotBytes(s)[k]
  BY <1>1, TopPlaces DEF Plain
<1>3. s.flagsPromise = NoPromise
  <2>1. PICK l : l = Len(sh) /\ l \in Nat
    BY FitLen DEF Plain
  <2>2. l + 1 - i \in 1..l
    BY <2>1
  <2> QED  BY <1>1, <2>1, <2>2 DEF Plain, NoPromises, FromTop
<1>4. s.value \in Seq(Byte) /\ Len(s.value) = s.depth
  BY <1>2, <1>3 DEF Fits, Slot
<1>5. SlotBytes(s) = s.value
  BY <1>2, <1>3, SlotBytesIs
<1>6. ZeroExtend(s.value, s.depth) = s.value
  BY <1>2, <1>4, ExtendIs
<1> QED  BY <1>1, <1>2, <1>4, <1>5, <1>6

LEMMA RestPiece ==
  ASSUME NEW sh, NEW off, NEW live, Plain(sh, off, stackArray, live),
         NEW d \in Nat, d <= Len(live),
         NEW w, w = WholeSlots(sh, d), NEW need, need = d - TopDepth(sh)[w],
         NEW rest, rest = IF need > 0 /\ w < Len(sh) THEN Trunc(sh[Len(sh) - w].value, need)
                          ELSE Load(off, need)
  PROVE  /\ need \in Nat /\ rest \in Seq(Byte) /\ Len(rest) = need
         /\ \A k \in 1..need : live[TopDepth(sh)[w] + k] = rest[k]
<1> USE DEF Plain
<1>1. PICK l : l = Len(sh) /\ l \in Nat
  BY FitLen
<1>2. PICK t : t = TopDepth(sh)[w]
  OBVIOUS
<1>3. w \in 0..l /\ t <= d /\ (w < l => d < TopDepth(sh)[w + 1])
  BY <1>1, <1>2, WholeSlotsIs
<1>4. t \in Nat /\ need \in Nat /\ d = t + need
  <2>1. t \in Nat
    BY <1>1, <1>2, <1>3, TopGrows
  <2> QED  BY <1>2, <1>3, <2>1
<1>5. CASE need > 0 /\ w < l
  <2>1. w + 1 \in 1..l /\ (w + 1) - 1 = w /\ l + 1 - (w + 1) = l - w
    BY <1>1, <1>3, <1>5
  <2>2. PICK v : v = ZeroExtend(FromTop(sh, w + 1).value, FromTop(sh, w + 1).depth)
    OBVIOUS
  <2>3. /\ v \in Seq(Byte) /\ Len(v) = FromTop(sh, w + 1).depth
        /\ v = FromTop(sh, w + 1).value
        /\ \A k \in 1..Len(v) : live[TopDepth(sh)[(w + 1) - 1] + k] = v[k]
    BY <1>1, <2>1, <2>2, WholePieces
  <2>4. TopDepth(sh)[w + 1] = t + Len(v) /\ Len(v) \in Nat
    <3>1. TopDepth(sh)[w + 1] = TopDepth(sh)[(w + 1) - 1] + FromTop(sh, w + 1).depth
      BY <1>1, <2>1, TopPlaces
    <3>2. Len(v) \in Nat
      BY <2>3, LenProperties
    <3> QED  BY <1>2, <2>1, <2>3, <3>1, <3>2
  <2>5. need <= Len(v)
    BY <1>3, <1>4, <1>5, <2>4
  <2>6. v = sh[l - w].value
    BY <1>1, <2>1, <2>3 DEF FromTop
  <2>7. rest = Trunc(v, need)
    BY <1>1, <1>5, <2>6
  <2>8. rest \in Seq(Byte) /\ Len(rest) = need /\ \A k \in 1..need : rest[k] = v[k]
    <3>1. v \in Seq(Byte) /\ need \in Nat /\ need <= Len(v)
      BY <1>4, <2>3, <2>5
    <3>2. /\ Trunc(v, need) \in Seq(Byte) /\ Len(Trunc(v, need)) = need
          /\ \A k \in 1..need : Trunc(v, need)[k] = v[k]
      BY <3>1, TruncIs
    <3> QED  BY <2>7, <3>2
  <2>9. \A k \in 1..need : k \in 1..Len(v)
    BY <1>4, <2>4, <2>5
  <2>10. \A k \in 1..Len(v) : live[t + k] = v[k]
    BY <1>2, <2>1, <2>3
  <2>11. \A k \in 1..need : live[t + k] = rest[k]
    BY <2>8, <2>9, <2>10
  <2> QED  BY <1>2, <1>4, <2>8, <2>11
<1>6. CASE ~(need > 0 /\ w < l)
  <2>1. rest = LoadOf(stackArray, off, need)
    BY <1>1, <1>6 DEF Load, LoadOf
  <2>2. PICK D, m : D = ShadowDepth(sh) /\ m = Above - off /\ D \in Nat /\ m \in Nat
    BY LiveLen
  <2>3. Len(live) = D + m /\ off \in Int
    BY <2>2, LiveLen
  <2>4. need > 0 => w = l /\ t = D
    <3>1. need > 0 => w = l
      BY <1>1, <1>3, <1>6
    <3> QED  BY <1>1, <1>2, <2>2, <3>1, TopGrows
  <2>5. need <= m
    BY <1>4, <2>2, <2>3, <2>4
  <2>6. off + need <= Above
    BY <1>4, <2>2, <2>3, <2>5, SizesAssumption
  <2>7. /\ LoadOf(stackArray, off, need) \in Seq(Byte) /\ Len(LoadOf(stackArray, off, need)) = need
        /\ \A k \in 1..need : LoadOf(stackArray, off, need)[k] = stackArray[off + k - 1]
    BY <1>4, <2>6, LoadIs
  <2>8. \A k \in 1..m : live[D + k] = stackArray[off + k - 1]
    BY <2>2 DEF IsLive
  <2>9. ASSUME NEW k \in 1..need PROVE live[t + k] = rest[k]
    <3>1. k \in 1..m /\ t = D
      BY <1>4, <2>2, <2>4, <2>5
    <3> QED  BY <2>1, <2>7, <2>8, <3>1
  <2> QED  BY <1>2, <1>4, <2>1, <2>7, <2>9
<1> QED  BY <1>1, <1>5, <1>6

LEMMA PiecesValue ==
  ASSUME NEW sh, NEW off, NEW live, Plain(sh, off, stackArray, live),
         NEW d \in Nat, d <= Len(live),
         NEW w, w = WholeSlots(sh, d), NEW need, need = d - TopDepth(sh)[w],
         NEW rest, rest = IF need > 0 /\ w < Len(sh) THEN Trunc(sh[Len(sh) - w].value, need)
                          ELSE Load(off, need),
         NEW top, top = [i \in 1..w |-> ZeroExtend(FromTop(sh, i).value, FromTop(sh, i).depth)]
  PROVE  Merged(Append(top, rest), TopDepth(sh), d) = Trunc(live, d)
<1>1. PICK l : l = Len(sh) /\ l \in Nat
  BY FitLen DEF Plain
<1>2. PICK depth : depth = TopDepth(sh)
  OBVIOUS
<1>3. w \in 0..l /\ w \in Nat
  BY <1>1, WholeSlotsIs DEF Plain
<1>4. /\ need \in Nat /\ rest \in Seq(Byte) /\ Len(rest) = need
      /\ \A k \in 1..need : live[depth[w] + k] = rest[k]
  BY <1>2, RestPiece
<1>5. ASSUME NEW i \in 1..w
      PROVE  /\ top[i] \in Seq(Byte) /\ Len(top[i]) = FromTop(sh, i).depth
             /\ \A k \in 1..Len(top[i]) : live[depth[i - 1] + k] = top[i][k]
             /\ depth[i] = depth[i - 1] + Len(top[i])
  <2>1. i \in 1..Len(sh)
    BY <1>1, <1>3
  <2>2. top[i] = ZeroExtend(FromTop(sh, i).value, FromTop(sh, i).depth)
    OBVIOUS
  <2>3. /\ top[i] \in Seq(Byte) /\ Len(top[i]) = FromTop(sh, i).depth
        /\ \A k \in 1..Len(top[i]) : live[TopDepth(sh)[i - 1] + k] = top[i][k]
    BY <2>1, <2>2, WholePieces
  <2>4. TopDepth(sh)[i] = TopDepth(sh)[i - 1] + FromTop(sh, i).depth
    BY <2>1, TopPlaces DEF Plain
  <2> QED  BY <1>2, <2>3, <2>4
<1>6. PICK pieces : pieces = Append(top, rest)
  OBVIOUS
<1>7. /\ DOMAIN pieces = 1..(w + 1) /\ pieces[w + 1] = rest
      /\ \A i \in 1..w : pieces[i] = top[i]
  <2>1. top \in Seq(Seq(Byte)) /\ Len(top) = w
    <3>1. \A i \in 1..w : ZeroExtend(FromTop(sh, i).value, FromTop(sh, i).depth) \in Seq(Byte)
      BY <1>5
    <3> QED  BY <1>3, <3>1
  <2>2. /\ Append(top, rest) \in Seq(Seq(Byte)) /\ Len(Append(top, rest)) = Len(top) + 1
        /\ \A i \in 1..Len(top) : Append(top, rest)[i] = top[i]
        /\ Append(top, rest)[Len(top) + 1] = rest
    <3>1. PICK S, a, b : S = Seq(Byte) /\ a = top /\ b = rest
      OBVIOUS
    <3>2. a \in Seq(S) /\ b \in S
      BY <1>4, <2>1, <3>1
    <3>3. /\ Append(a, b) \in Seq(S) /\ Len(Append(a, b)) = Len(a) + 1
          /\ \A i \in 1..Len(a) : Append(a, b)[i] = a[i]
          /\ Append(a, b)[Len(a) + 1] = b
      BY <3>2, AppendAt
    <3> QED  BY <3>1, <3>3
  <2>3. DOMAIN pieces = 1..Len(pieces)
    BY <1>6, <2>2, LenProperties
  <2> QED  BY <1>6, <2>1, <2>2, <2>3
<1>8. \A i \in 1..(w + 1) : i \in 1..w \/ i = w + 1
  BY <1>3
<1>9. /\ \A n \in 0..l : depth[n] \in Nat
      /\ \A n \in 0..l : \A m \in n..l : depth[n] <= depth[m]
      /\ depth[0] = 0
  BY <1>1, <1>2, TopGrows DEF Plain
<1>10. Pieces(pieces, w + 1, depth, d)
  <2>1. w + 1 \in Nat \ {0} /\ (w + 1) - 1 = w
    BY <1>3
  <2>2. ASSUME NEW i \in 1..(w + 1) PROVE Len(pieces[i]) \in Nat /\ depth[i - 1] \in Nat
    <3>1. i - 1 \in 0..l
      BY <1>1, <1>3
    <3>2. pieces[i] \in Seq(Byte)
      BY <1>4, <1>5, <1>7, <1>8
    <3> QED  BY <1>9, <3>1, <3>2, LenProperties
  <2>3. d = depth[w] + Len(pieces[w + 1])
    BY <1>2, <1>3, <1>4, <1>7, <1>9
  <2>4. \A i \in 0..w : \A j \in i..w : depth[i] <= depth[j]
    <3>1. \A i \in 0..w : i \in 0..l
      BY <1>1, <1>3
    <3>2. \A i \in 0..w : \A j \in i..w : j \in i..l
      BY <1>1, <1>3
    <3> QED  BY <1>9, <3>1, <3>2
  <2>5. \A i \in 1..w : depth[i] = depth[i - 1] + Len(pieces[i])
    BY <1>5, <1>7
  <2> QED  BY <1>7, <1>9, <2>1, <2>2, <2>3, <2>4, <2>5 DEF Pieces
<1>11. \A i \in 1..(w + 1) : \A k \in 1..Len(pieces[i]) : live[depth[i - 1] + k] = pieces[i][k]
  <2>1. (w + 1) - 1 = w
    BY <1>3
  <2>2. ASSUME NEW i \in 1..(w + 1), NEW k \in 1..Len(pieces[i])
        PROVE  live[depth[i - 1] + k] = pieces[i][k]
    <3>1. CASE i \in 1..w
      BY <1>5, <1>7, <3>1
    <3>2. CASE i = w + 1
      BY <1>4, <1>7, <2>1, <3>2
    <3> QED  BY <1>8, <3>1, <3>2
  <2> QED  BY <2>2
<1>12. Merged(pieces, depth, d) = [k \in 1..d |-> live[k]]
  BY <1>10, <1>11, MergedIs
<1>13. Trunc(live, d) = [k \in 1..d |-> live[k]]
  <2>1. live \in Seq(Byte)
    BY DEF Plain, IsLive
  <2>2. Trunc(live, d) \in Seq(Byte) /\ Len(Trunc(live, d)) = d /\ \A k \in 1..d : Trunc(live, d)[k] = live[k]
    BY <2>1, TruncIs
  <2>3. PICK r : r = Trunc(live, d)
    OBVIOUS
  <2>4. r \in Seq(Byte) /\ Len(r) = d /\ \A k \in 1..d : r[k] = live[k]
    BY <2>2, <2>3
  <2>5. r = [k \in 1..Len(r) |-> r[k]]
    BY <2>4
  <2> QED  BY <2>3, <2>4, <2>5
<1> QED  BY <1>2, <1>6, <1>12, <1>13

(* What is left of the stack when the slots of a pop were cut or taken off.*)
PiecesLeft(sh, off, w, need) ==
  IF need > 0 /\ w < Len(sh)
  THEN Append(SubSeq(sh, 1, Len(sh) - w - 1), Remainder(sh[Len(sh) - w], need))
  ELSE SubSeq(sh, 1, Len(sh) - w)
OffsetLeft(sh, off, w, need) == IF need > 0 /\ w < Len(sh) THEN off ELSE off + need

LEMMA PiecesStack ==
  ASSUME NEW sh, NEW off, NEW array, NEW live, Plain(sh, off, array, live),
         NEW d \in Nat, d <= Len(live),
         NEW w, w = WholeSlots(sh, d), NEW need, need = d - TopDepth(sh)[w],
         NEW left, left = PiecesLeft(sh, off, w, need),
         NEW o, o = OffsetLeft(sh, off, w, need)
  PROVE  /\ FitStack(left) /\ NoPromises(left) /\ o \in Offsets
         /\ IsLive(After(live, d), left, o, array)
         /\ ShadowDepth(left) = IF ShadowDepth(sh) <= d THEN 0 ELSE ShadowDepth(sh) - d
         /\ o = IF ShadowDepth(sh) <= d THEN off + (d - ShadowDepth(sh)) ELSE off
<1> USE DEF Plain
<1>1. PICK l : l = Len(sh) /\ l \in Nat
  BY FitLen
<1>2. PICK t : t = TopDepth(sh)[w]
  OBVIOUS
<1>3. w \in 0..l /\ t <= d /\ (w < l => d < TopDepth(sh)[w + 1])
  BY <1>1, <1>2, WholeSlotsIs
<1>4. t \in Nat /\ need \in Nat /\ d = t + need
  <2>1. t \in Nat
    BY <1>1, <1>2, <1>3, TopGrows
  <2> QED  BY <1>2, <1>3, <2>1
<1>5. PICK m : m = l - w /\ m \in 0..l /\ l - m = w /\ m \in Nat
  BY <1>1, <1>3
<1>6. PICK D, r : D = ShadowDepth(sh) /\ r = Above - off /\ D \in Nat /\ r \in Nat
  BY LiveLen
<1>7. Len(live) = D + r /\ off \in Int /\ live \in Seq(Byte)
  BY <1>6, LiveLen
<1>8. PICK b : b = Bottom(sh)[m] /\ b \in Nat /\ D - b = t
  <2>1. TopDepth(sh)[w] = Bottom(sh)[l] - Bottom(sh)[l - w]
    BY <1>1, <1>3, TopBottom
  <2>2. Bottom(sh)[m] \in Nat /\ Bottom(sh)[l] = D
    BY <1>1, <1>5, <1>6, BottomNat, DepthIs
  <2> QED  BY <1>2, <1>5, <2>1, <2>2
<1>9. PICK below : below = SubSeq(sh, 1, m)
  OBVIOUS
<1>10. /\ FitStack(below) /\ Len(below) = m /\ ShadowDepth(below) = b /\ NoPromises(below)
       /\ \A i \in 1..m : below[i] = sh[i]
  <2>1. \A i \in 1..m : sh[i].flagsPromise = NoPromise
    BY <1>1, <1>5 DEF NoPromises
  <2>2. NoPromises(below)
    BY <1>1, <1>5, <1>9, <2>1, PrefixPromises
  <2> QED  BY <1>1, <1>5, <1>8, <1>9, <2>2, PrefixFits
<1>11. PICK rest : rest = After(live, t) /\ IsLive(rest, below, off, array)
  BY <1>1, <1>5, <1>6, <1>8, <1>9, WholeLive
<1>12. After(rest, need) = After(live, d)
  <2>1. t + need <= Len(live)
    BY <1>4
  <2>2. After(After(live, t), need) = After(live, t + need)
    BY <1>4, <1>7, <2>1, AfterAfter
  <2> QED  BY <1>4, <1>11, <2>2
<1>13. CASE need > 0 /\ w < l
  <2>1. m \in 1..l /\ l - w - 1 = m - 1 /\ l - w = m /\ l + 1 - (w + 1) = m /\ w + 1 \in 1..l
    BY <1>1, <1>3, <1>5, <1>13, SMTT(30)
  <2>2. PICK s : s = sh[m] /\ Fits(s) /\ s.depth \in Nat /\ s.flagsPromise = NoPromise
    BY <1>1, <2>1, FitLen DEF FitStack, NoPromises
  <2>3. TopDepth(sh)[w + 1] = t + s.depth
    <3>1. TopDepth(sh)[w + 1] = TopDepth(sh)[(w + 1) - 1] + FromTop(sh, w + 1).depth
      BY <1>1, <2>1, TopPlaces
    <3>2. FromTop(sh, w + 1) = s /\ (w + 1) - 1 = w
      BY <1>1, <1>3, <2>1, <2>2 DEF FromTop
    <3> QED  BY <1>2, <3>1, <3>2
  <2>4. need \in 1..(s.depth - 1)
    BY <1>3, <1>4, <1>13, <2>2, <2>3
  <2>5. below[m] = s /\ Len(below) = m /\ m # 0
    BY <1>10, <2>1, <2>2
  <2>6. PICK new : new = Append(SubSeq(below, 1, m - 1), Remainder(s, need))
    OBVIOUS
  <2>7. /\ FitStack(new) /\ ShadowDepth(new) = b - need
        /\ IsLive(After(rest, need), new, off, array)
    <3>1. /\ FitStack(below) /\ Len(below) # 0 /\ below[Len(below)].flagsPromise = NoPromise
          /\ need \in 1..(below[Len(below)].depth - 1) /\ IsLive(rest, below, off, array)
      BY <1>10, <1>11, <2>2, <2>4, <2>5
    <3>2. LET c == Append(SubSeq(below, 1, Len(below) - 1), Remainder(below[Len(below)], need))
          IN /\ FitStack(c) /\ ShadowDepth(c) = ShadowDepth(below) - need
             /\ IsLive(After(rest, need), c, off, array)
      BY <3>1, CutLive
    <3> QED  BY <1>10, <2>5, <2>6, <3>2
  <2>8. SubSeq(below, 1, m - 1) = SubSeq(sh, 1, m - 1)
    <3>1. sh \in Seq(Slot) /\ m \in Nat /\ m <= Len(sh) /\ m - 1 \in Nat /\ m - 1 <= m
      BY <1>1, <2>1 DEF FitStack
    <3> QED  BY <1>9, <3>1, TruncTrunc
  <2>9. left = new
    BY <1>1, <1>13, <2>1, <2>2, <2>6, <2>8 DEF PiecesLeft
  <2>10. NoPromises(new)
    <3>1. PICK c : c = SubSeq(below, 1, m - 1)
      OBVIOUS
    <3>2. m - 1 \in 0..Len(below) /\ \A i \in 1..(m - 1) : below[i].flagsPromise = NoPromise
      BY <1>5, <1>10, <2>1 DEF NoPromises
    <3>3. FitStack(c) /\ NoPromises(c)
      BY <1>10, <3>1, <3>2, PrefixFits, PrefixPromises
    <3>4. Fits(Remainder(s, need)) /\ Remainder(s, need).flagsPromise = NoPromise
      BY <2>2, <2>4, RemainderFits
    <3> QED  BY <2>6, <3>1, <3>3, <3>4, PushPromises
  <2>11. ~(D <= d) /\ b - need = D - d
    <3>1. b >= s.depth
      <4>1. m \in 1..Len(sh) /\ m - 1 \in 0..Len(sh)
        BY <1>1, <2>1
      <4>2. Bottom(sh)[m] = Bottom(sh)[m - 1] + sh[m].depth /\ Bottom(sh)[m - 1] \in Nat
        BY <1>1, <4>1, BottomIs, BottomNat
      <4> QED  BY <1>8, <2>2, <4>2
    <3>2. PICK x : x = s.depth /\ x \in Nat /\ x <= b /\ need < x
      BY <2>2, <2>4, <3>1
    <3>3. ~(D <= d)
      <4>1. need < b
        BY <1>4, <1>8, <3>2
      <4> QED  BY <1>4, <1>6, <1>8, <4>1, SMTT(20)
    <3>4. b - need = D - d
      BY <1>4, <1>6, <1>8, SMTT(20)
    <3> QED  BY <3>3, <3>4
  <2>12. o = off
    BY <1>1, <1>13 DEF OffsetLeft
  <2> QED  BY <1>6, <1>12, <2>7, <2>9, <2>10, <2>11, <2>12
<1>14. CASE ~(need > 0 /\ w < l)
  <2>1. left = below /\ o = off + need
    BY <1>1, <1>5, <1>9, <1>14 DEF PiecesLeft, OffsetLeft
  <2>2. CASE need = 0
    <3>1. rest = After(live, d) /\ d = t /\ o = off
      BY <1>4, <1>7, <1>11, <2>1, <2>2
    <3>2. b = IF D <= d THEN 0 ELSE D - d
      BY <1>4, <1>6, <1>8, <2>2
    <3>3. o = IF D <= d THEN off + (d - D) ELSE off
      <4>0. D \in Nat /\ b \in Nat /\ t \in Nat /\ D - b = t /\ d = t
        BY <1>4, <1>6, <1>8, <3>1
      <4>1. D <= d => d - D = 0
        BY <4>0
      <4>2. off + 0 = off
        BY <1>7
      <4> QED  BY <3>1, <4>1, <4>2
    <3> QED  BY <1>6, <1>10, <1>11, <2>1, <3>1, <3>2, <3>3
  <2>3. CASE need # 0
    <3>1. w = l /\ m = 0
      BY <1>1, <1>3, <1>4, <1>5, <1>14, <2>3, SMTT(30)
    <3>2. t = D /\ b = 0
      <4>1. t = D
        BY <1>1, <1>2, <1>6, <3>1, TopGrows
      <4> QED  BY <1>6, <1>8, <4>1
    <3>3. need <= Above - off
      BY <1>4, <1>6, <1>7, <3>2
    <3>4. /\ off + need \in Offsets /\ IsLive(After(rest, need), below, off + need, array)
          /\ ShadowDepth(below) = 0
      BY <1>4, <1>10, <1>11, <3>1, <3>3, StoredLive
    <3>5. D <= d /\ need = d - D
      BY <1>4, <1>6, <3>2
    <3> QED  BY <1>6, <1>10, <1>12, <2>1, <3>4, <3>5
  <2> QED  BY <2>2, <2>3
<1> QED  BY <1>1, <1>13, <1>14

(* ShadowPop takes the first bytes off the live stack: as a slot, or as    *)
(* pieces of several.                                                      *)
LEMMA PopLive ==
  ASSUME NEW sh, NEW off, NEW live, Plain(sh, off, stackArray, live),
         NEW d \in Nat, d <= Len(live),
         NEW p, p = ShadowPop(sh, off, d), p.err = "ok"
  PROVE  Pops(p, sh, off, stackArray, live, d)
<1>1. PICK l : l = Len(sh) /\ l \in Nat
  BY FitLen DEF Plain
<1>2. CASE sh # <<>> /\ sh[l].depth = d
  <2>1. l # 0 /\ l \in 1..l /\ l - 1 \in 0..l
    BY <1>1, <1>2, EmptySeq DEF Plain, FitStack
  <2>2. PICK s : s = sh[l] /\ Fits(s) /\ s.flagsPromise = NoPromise /\ s.depth = d
    BY <1>1, <1>2, <2>1 DEF Plain, FitStack, NoPromises
  <2>3. p = PopSlot(sh, off, s)
    BY <1>1, <1>2, <2>2 DEF ShadowPop
  <2>4. PICK below : below = SubSeq(sh, 1, l - 1)
    OBVIOUS
  <2>5. p.value = s.value /\ p.flagsPromise = NoPromise /\ p.sh = below /\ p.off = off
    BY <1>1, <2>2, <2>3, <2>4 DEF PopSlot
  <2>6. /\ \A k \in 1..d : live[k] = SlotBytes(s)[k]
        /\ ShadowDepth(sh) - Bottom(sh)[l - 1] = d /\ d <= ShadowDepth(sh)
    BY <1>1, <2>1, <2>2, TopLive DEF Plain
  <2>7. s.value \in Seq(Byte) /\ Len(s.value) = d /\ SlotBytes(s) = s.value
    BY <2>2, SlotBytesIs DEF Fits, Slot
  <2>8. s.value = Trunc(live, d)
    <3>1. PICK a, b : a = s.value /\ b = Trunc(live, d)
      OBVIOUS
    <3>2. live \in Seq(Byte)
      BY DEF Plain, IsLive
    <3>3. b \in Seq(Byte) /\ Len(b) = d /\ \A k \in 1..d : b[k] = live[k]
      BY <3>1, <3>2, TruncIs
    <3>4. a \in Seq(Byte) /\ Len(a) = d /\ \A k \in 1..d : a[k] = live[k]
      BY <2>6, <2>7, <3>1
    <3>5. a = b
      BY <3>3, <3>4, SeqEqual
    <3> QED  BY <3>1, <3>5
  <2>9. IsLive(After(live, d), below, off, stackArray)
    BY <1>1, <2>1, <2>4, <2>6, WholeLive DEF Plain
  <2>10. /\ FitStack(below) /\ NoPromises(below) /\ ShadowDepth(below) = Bottom(sh)[l - 1]
    <3>1. \A i \in 1..(l - 1) : sh[i].flagsPromise = NoPromise
      BY <1>1, <2>1 DEF Plain, NoPromises
    <3> QED  BY <1>1, <2>1, <2>4, <3>1, PrefixFits, PrefixPromises DEF Plain
  <2>11. /\ ShadowDepth(below) = IF ShadowDepth(sh) <= d THEN 0 ELSE ShadowDepth(sh) - d
         /\ off = IF ShadowDepth(sh) <= d THEN off + (d - ShadowDepth(sh)) ELSE off
    <3>1. PICK x, y : x = ShadowDepth(sh) /\ y = Bottom(sh)[l - 1] /\ x \in Nat /\ y \in Nat
      BY <1>1, <2>1, DepthIs, BottomNat DEF Plain
    <3>2. off \in Int
      BY LiveLen DEF Plain
    <3>3. x - y = d /\ d <= x
      BY <2>6, <3>1
    <3>4. y = IF x <= d THEN 0 ELSE x - d
      BY <3>1, <3>3
    <3>5. x <= d => off + (d - x) = off
      BY <3>1, <3>2, <3>3
    <3> QED  BY <2>10, <3>1, <3>4, <3>5
  <2>12. off \in Offsets
    BY DEF Plain
  <2> QED  BY <2>5, <2>8, <2>9, <2>10, <2>11, <2>12 DEF Pops
<1>3. CASE ~(sh # <<>> /\ sh[l].depth = d)
  <2>1. PICK w, need : w = WholeSlots(sh, d) /\ need = d - TopDepth(sh)[w]
    OBVIOUS
  <2>2. p = PopPieces(sh, off, d, TopDepth(sh), w, need)
    BY <1>1, <1>3, <2>1 DEF ShadowPop
  <2>3. PICK depth : depth = TopDepth(sh)
    OBVIOUS
  <2>4. PICK rest : rest = IF need > 0 /\ w < Len(sh) THEN Trunc(sh[Len(sh) - w].value, need)
                           ELSE Load(off, need)
    OBVIOUS
  <2>5. PICK top : top = [i \in 1..w |-> ZeroExtend(FromTop(sh, i).value, FromTop(sh, i).depth)]
    OBVIOUS
  <2>6. /\ p.value = Merged(Append(top, rest), depth, d) /\ p.flagsPromise = NoPromise
        /\ p.sh = PiecesLeft(sh, off, w, need) /\ p.off = OffsetLeft(sh, off, w, need)
    <3> DEFINE errors == [i \in 1..(IF need > 0 /\ w < Len(sh) THEN w + 1 ELSE w) |->
                   SlotError(FromTop(sh, i), d - depth[i - 1],
                             IF i = 1 THEN d ELSE d - depth[i - 2])]
               good == [value |-> Merged(Append(top, rest), depth, d),
                        ptr |-> FALSE, isVspPush |-> FALSE, flagsPromise |-> NoPromise,
                        sh |-> PiecesLeft(sh, off, w, need),
                        off |-> OffsetLeft(sh, off, w, need), err |-> "ok"]
    <3>1. p = IF FirstError(errors) # "ok" THEN Failed(sh, off, FirstError(errors)) ELSE good
      BY <2>2, <2>3, <2>4, <2>5 DEF PopPieces, PiecesLeft, OffsetLeft
    <3>2. PICK e : e = FirstError(errors)
      OBVIOUS
    <3>3. PICK g : g = good
      OBVIOUS
    <3>4. p = IF e # "ok" THEN Failed(sh, off, e) ELSE g
      <4> HIDE DEF errors, good
      <4> QED  BY <3>1, <3>2, <3>3
    <3>5. Failed(sh, off, e).err = e
      BY DEF Failed
    <3>6. p = g
      BY <3>4, <3>5
    <3> QED  BY <3>3, <3>6
  <2>7. p.value = Trunc(live, d)
    <3>1. Merged(Append(top, rest), TopDepth(sh), d) = Trunc(live, d)
      BY <2>1, <2>4, <2>5, PiecesValue
    <3> QED  BY <2>3, <2>6, <3>1
  <2>8. PICK left, o : left = PiecesLeft(sh, off, w, need) /\ o = OffsetLeft(sh, off, w, need)
    OBVIOUS
  <2>9. /\ FitStack(left) /\ NoPromises(left) /\ o \in Offsets
        /\ IsLive(After(live, d), left, o, stackArray)
        /\ ShadowDepth(left) = IF ShadowDepth(sh) <= d THEN 0 ELSE ShadowDepth(sh) - d
        /\ o = IF ShadowDepth(sh) <= d THEN off + (d - ShadowDepth(sh)) ELSE off
    BY <2>1, <2>8, PiecesStack
  <2> QED  BY <2>6, <2>7, <2>8, <2>9 DEF Pops
<1> QED  BY <1>2, <1>3

-----------------------------------------------------------------------------
(* FlushVsp stores each slot where its bytes are.                          *)
LEMMA FlushedDepthIs ==
  ASSUME NEW sh, FitStack(sh), NoPromises(sh), NEW n \in 0..Len(sh)
  PROVE  FlushedDepth(sh, n) = Bottom(sh)[n]
<1>1. n \in Nat /\ n <= Len(sh) /\ Len(sh) \in Nat
  BY FitLen
<1> DEFINE w(i) == IF sh[i].flagsPromise = NoPromise THEN sh[i].depth ELSE 0
           c == [i \in 1..n |-> w(i)]
           IsSum(f) == f = [i \in 0..n |-> IF i = 0 THEN 0 ELSE f[i - 1] + w(i)]
<1>2. \E f : IsSum(f)
  <2>1. PICK f : f = [i \in 0..n |-> IF i = 0 THEN 0 ELSE f[i - 1] + c[i]]
    <3> HIDE DEF c
    <3> QED  BY <1>1, SumsExist
  <2>2. \A i \in 0..n : i # 0 => c[i] = w(i)
    <3> HIDE DEF w
    <3> QED  BY <1>1
  <2>3. IsSum(f)
    <3> HIDE DEF w, c
    <3> QED  BY <2>1, <2>2
  <2> QED  BY <2>3
<1>3. FlushedDepth(sh, n) = (CHOOSE f : IsSum(f))[n]
  BY DEF FlushedDepth
<1>4. PICK f : f = (CHOOSE g : IsSum(g))
  OBVIOUS
<1>5. IsSum(f)
  <2> HIDE DEF IsSum
  <2> QED  BY <1>2, <1>4
<1>6. f[0] = 0 /\ \A i \in 1..n : f[i] = f[i - 1] + w(i)
  <2> HIDE DEF w
  <2> QED  BY <1>1, <1>5
<1>7. \A i \in 1..n : w(i) = sh[i].depth /\ i \in 1..Len(sh)
  BY <1>1 DEF NoPromises
<1> DEFINE T == {i \in 0..n : ~(f[i] = Bottom(sh)[i])}
<1>8. T = {}
  <2> SUFFICES ASSUME T # {} PROVE FALSE
    OBVIOUS
  <2>1. PICK i \in T : \A k \in T : i <= k
    <3>1. T \subseteq Nat
      BY <1>1
    <3> HIDE DEF T
    <3> QED  BY <3>1, LeastNumber
  <2> HIDE DEF w, IsSum
  <2>2. i # 0 /\ i \in 1..n /\ i - 1 \in 0..n
    BY <1>1, <1>6, BottomIs
  <2>3. f[i - 1] = Bottom(sh)[i - 1]
    <3>1. ~(i <= i - 1)
      BY <1>1, <2>2
    <3>2. i - 1 \notin T
      <4> HIDE DEF T
      <4> QED  BY <2>1, <3>1
    <3> QED  BY <2>2, <3>2
  <2>4. f[i] = f[i - 1] + sh[i].depth
    BY <1>6, <1>7, <2>2
  <2>5. Bottom(sh)[i] = Bottom(sh)[i - 1] + sh[i].depth
    BY <1>1, <1>7, <2>2, BottomIs
  <2> QED  BY <2>3, <2>4, <2>5
<1>9. f[n] = Bottom(sh)[n]
  <2>1. n \in 0..n /\ n \notin T
    <3> HIDE DEF T
    <3> QED  BY <1>1, <1>8
  <2> QED  BY <2>1
<1> QED  BY <1>3, <1>4, <1>9

LEMMA FlushedOffsetIs ==
  ASSUME NEW sh, FitStack(sh), NoPromises(sh), NEW off
  PROVE  FlushedOffset(sh, off) = off - ShadowDepth(sh)
<1>1. Len(sh) \in 0..Len(sh)
  BY FitLen
<1> QED  BY <1>1, FlushedDepthIs, DepthIs DEF FlushedOffset

(* The slots that store a byte at address x.                               *)
Writers(sh, off, x) ==
  {i \in 1..Len(sh) : /\ sh[i].flagsPromise = NoPromise
                      /\ x \in (off - FlushedDepth(sh, i))..
                               (off - FlushedDepth(sh, i) + Len(sh[i].value) - 1)}
WrittenBy(sh, off, x) ==
  CHOOSE i \in Writers(sh, off, x) : \A j \in Writers(sh, off, x) : j <= i
FlushedByte(array, sh, off, x) ==
  IF Writers(sh, off, x) = {} THEN array[x]
  ELSE sh[WrittenBy(sh, off, x)].value
         [x - (off - FlushedDepth(sh, WrittenBy(sh, off, x))) + 1]

LEMMA FlushedBytes ==
  ASSUME NEW array, NEW sh, NEW off
  PROVE  Flushed(array, sh, off) = [x \in DOMAIN array |-> FlushedByte(array, sh, off, x)]
  BY DEF Flushed, FlushedByte, WrittenBy, Writers

LEMMA WritersAre ==
  ASSUME NEW sh, FitStack(sh), NoPromises(sh), NEW off \in Int, NEW x \in Int,
         NEW i \in 1..Len(sh)
  PROVE  /\ sh[i].value \in Seq(Byte) /\ Len(sh[i].value) = sh[i].depth
         /\ SlotBytes(sh[i]) = sh[i].value
         /\ (i \in Writers(sh, off, x)) <=>
              Bottom(sh)[i - 1] <= off - 1 - x /\ off - 1 - x < Bottom(sh)[i]
<1>1. PICK l : l = Len(sh) /\ l \in Nat /\ i \in 0..l /\ i - 1 \in 0..l
  BY FitLen
<1>2. PICK s : s = sh[i] /\ Fits(s) /\ s.flagsPromise = NoPromise
  BY <1>1 DEF FitStack, NoPromises
<1>3. s.value \in Seq(Byte) /\ Len(s.value) = s.depth /\ SlotBytes(s) = s.value
  BY <1>2, SlotBytesIs DEF Fits, Slot
<1>4. FlushedDepth(sh, i) = Bottom(sh)[i]
  BY <1>1, FlushedDepthIs
<1>5. PICK b, c, d : /\ b = Bottom(sh)[i] /\ c = Bottom(sh)[i - 1] /\ d = s.depth
                     /\ b \in Nat /\ c \in Nat /\ d \in Nat /\ b = c + d
  BY <1>1, <1>2, BottomIs, BottomNat, FitLen
<1>6. (i \in Writers(sh, off, x)) <=> x \in (off - b)..(off - b + d - 1)
  BY <1>2, <1>3, <1>4, <1>5 DEF Writers
<1>7. (x \in (off - b)..(off - b + d - 1)) <=> (c <= off - 1 - x /\ off - 1 - x < b)
  <2>1. b \in Int /\ c \in Int /\ d = b - c
    BY <1>5
  <2>2. off - b + d - 1 = off - c - 1
    BY <2>1
  <2>3. (x \in (off - b)..(off - c - 1)) <=> (c <= off - 1 - x /\ off - 1 - x < b)
    BY <2>1
  <2> QED  BY <2>2, <2>3
<1> QED  BY <1>2, <1>3, <1>5, <1>6, <1>7

LEMMA FlushedByteIs ==
  ASSUME NEW sh, FitStack(sh), NoPromises(sh), NEW off \in Int, NEW x \in Int, NEW array,
         NEW i \in Writers(sh, off, x)
  PROVE  /\ x - (off - Bottom(sh)[i]) + 1 \in 1..sh[i].depth
         /\ FlushedByte(array, sh, off, x) = SlotBytes(sh[i])[x - (off - Bottom(sh)[i]) + 1]
<1>1. PICK l : l = Len(sh) /\ l \in Nat
  BY FitLen
<1>2. i \in 1..l
  BY <1>1 DEF Writers
<1>3. i \in 0..l /\ i - 1 \in 0..l
  BY <1>1, <1>2
<1>4. Bottom(sh)[i - 1] <= off - 1 - x /\ off - 1 - x < Bottom(sh)[i]
  BY <1>1, <1>2, WritersAre
<1>5. PICK b, c, d : /\ b = Bottom(sh)[i] /\ c = Bottom(sh)[i - 1] /\ d = sh[i].depth
                     /\ b \in Nat /\ c \in Nat /\ d \in Nat /\ b = c + d
  BY <1>1, <1>2, <1>3, BottomIs, BottomNat, FitLen
<1>6. x - (off - b) + 1 \in 1..d
  BY <1>4, <1>5
<1>7. ASSUME NEW j \in Writers(sh, off, x) PROVE j = i
  <2>1. j \in 1..l
    BY <1>1 DEF Writers
  <2>2. Bottom(sh)[j - 1] <= off - 1 - x /\ off - 1 - x < Bottom(sh)[j]
    BY <1>1, <2>1, WritersAre
  <2>3. PICK y : y = off - 1 - x /\ y \in Nat
    BY <1>4, <1>5
  <2> QED  BY <1>1, <1>2, <1>4, <2>1, <2>2, <2>3, Apart
<1>8. WrittenBy(sh, off, x) = i
  <2>1. i <= i
    BY <1>1, <1>2
  <2>2. \A j \in Writers(sh, off, x) : j <= i
    BY <1>7, <2>1
  <2>3. PICK k : k = WrittenBy(sh, off, x)
    OBVIOUS
  <2>4. k \in Writers(sh, off, x)
    BY <2>2, <2>3 DEF WrittenBy
  <2> QED  BY <1>7, <2>3, <2>4
<1>9. FlushedDepth(sh, i) = Bottom(sh)[i]
  BY <1>1, <1>3, FlushedDepthIs
<1>10. FlushedByte(array, sh, off, x) = sh[i].value[x - (off - b) + 1]
  BY <1>5, <1>8, <1>9 DEF FlushedByte
<1>11. SlotBytes(sh[i]) = sh[i].value
  BY <1>1, <1>2, WritersAre
<1> QED  BY <1>5, <1>6, <1>10, <1>11

(* Flushing moves the shadow stack into the array and changes nothing else.*)
LEMMA FlushLive ==
  ASSUME NEW sh, NEW off, NEW array, NEW live, Plain(sh, off, array, live),
         off - ShadowDepth(sh) >= -Below,
         NEW new, new = Flushed(array, sh, off)
  PROVE  /\ FlushedOffset(sh, off) = off - ShadowDepth(sh)
         /\ Plain(<<>>, off - ShadowDepth(sh), new, live)
<1> USE DEF Plain
<1>1. PICK l : l = Len(sh) /\ l \in Nat
  BY FitLen
<1>2. PICK D, r : D = ShadowDepth(sh) /\ r = Above - off /\ D \in Nat /\ r \in Nat
  BY LiveLen
<1>3. off \in Int /\ Len(live) = D + r /\ live \in Seq(Byte) /\ Below \in Nat /\ Above \in Nat
  BY <1>2, LiveLen, SizesAssumption
<1>4. DOMAIN array = (-Below)..(Above - 1)
  BY DEF Arrays
<1>5. \A x \in (-Below)..(Above - 1) : new[x] = FlushedByte(array, sh, off, x)
  BY <1>4, FlushedBytes
<1>6. ASSUME NEW x \in Int, x >= off PROVE Writers(sh, off, x) = {}
  <2> SUFFICES ASSUME NEW i \in Writers(sh, off, x) PROVE FALSE
    OBVIOUS
  <2>1. i \in 1..l /\ i - 1 \in 0..l
    BY <1>1 DEF Writers
  <2>2. Bottom(sh)[i - 1] <= off - 1 - x /\ Bottom(sh)[i - 1] \in Nat
    BY <1>1, <1>3, <2>1, WritersAre, BottomNat
  <2> QED  BY <1>3, <1>6, <2>2
<1>7. \A x \in (-Below)..(Above - 1) : x >= off => new[x] = array[x]
  BY <1>3, <1>5, <1>6 DEF FlushedByte
<1>8. ASSUME NEW i \in 1..l, NEW k \in 1..sh[i].depth
      PROVE  new[(off - Bottom(sh)[i]) + k - 1] = SlotBytes(sh[i])[k]
  <2>1. i \in 0..l /\ i - 1 \in 0..l /\ l \in i..l
    BY <1>1
  <2>2. PICK b, c, d : /\ b = Bottom(sh)[i] /\ c = Bottom(sh)[i - 1] /\ d = sh[i].depth
                       /\ b \in Nat /\ c \in Nat /\ d \in Nat /\ b = c + d
    BY <1>1, <2>1, BottomIs, BottomNat, FitLen
  <2>3. b <= D
    BY <1>1, <1>2, <2>1, <2>2, BottomGrows, DepthIs
  <2>4. PICK x : x = (off - b) + k - 1 /\ x \in Int /\ k \in Nat
    BY <1>3, <2>2
  <2>5. x \in (-Below)..(Above - 1) /\ c <= off - 1 - x /\ off - 1 - x < b
        /\ x - (off - b) + 1 = k
    <3>0. k >= 1 /\ k <= d
      BY <2>2
    <3>1. /\ b \in Nat /\ c \in Nat /\ d \in Nat /\ D \in Nat /\ off \in Int /\ k \in Nat
          /\ Below \in Nat /\ Above \in Nat /\ b = c + d /\ b <= D
          /\ off - D >= -Below /\ Above >= off /\ x = (off - b) + k - 1
      BY <1>2, <1>3, <2>2, <2>3, <2>4
    <3>2. x >= -Below /\ x <= Above - 1
      BY <3>0, <3>1
    <3>3. c <= off - 1 - x /\ off - 1 - x < b
      BY <3>0, <3>1
    <3>4. x - (off - b) + 1 = k
      BY <3>0, <3>1
    <3> QED  BY <2>4, <3>1, <3>2, <3>3, <3>4
  <2>6. i \in Writers(sh, off, x)
    BY <1>1, <1>3, <2>2, <2>4, <2>5, WritersAre
  <2>7. FlushedByte(array, sh, off, x) = SlotBytes(sh[i])[k]
    <3>1. FlushedByte(array, sh, off, x) = SlotBytes(sh[i])[x - (off - Bottom(sh)[i]) + 1]
      <4>1. off \in Int /\ x \in Int /\ FitStack(sh) /\ NoPromises(sh)
        BY <1>3, <2>4
      <4> QED  BY <2>6, <4>1, FlushedByteIs
    <3> QED  BY <2>2, <2>5, <3>1
  <2> QED  BY <1>5, <2>2, <2>4, <2>5, <2>7
<1>9. new \in Arrays
  <2>1. ASSUME NEW x \in (-Below)..(Above - 1) PROVE FlushedByte(array, sh, off, x) \in Byte
    <3>1. CASE Writers(sh, off, x) = {}
      BY <3>1 DEF FlushedByte, Arrays
    <3>2. CASE Writers(sh, off, x) # {}
      <4>1. PICK i \in Writers(sh, off, x) : TRUE
        BY <3>2
      <4>2. PICK k : k = x - (off - Bottom(sh)[i]) + 1
        OBVIOUS
      <4>3. k \in 1..sh[i].depth /\ FlushedByte(array, sh, off, x) = SlotBytes(sh[i])[k]
        <5>1. off \in Int /\ x \in Int /\ FitStack(sh) /\ NoPromises(sh)
          BY <1>3
        <5>2. /\ x - (off - Bottom(sh)[i]) + 1 \in 1..sh[i].depth
              /\ FlushedByte(array, sh, off, x) = SlotBytes(sh[i])[x - (off - Bottom(sh)[i]) + 1]
          BY <5>1, FlushedByteIs
        <5> QED  BY <4>2, <5>2
      <4>4. i \in 1..l /\ Fits(sh[i])
        BY <1>1 DEF Writers, FitStack
      <4>5. SlotBytes(sh[i]) \in Seq(Byte) /\ Len(SlotBytes(sh[i])) = sh[i].depth
        BY <4>4, SlotBytesIs
      <4> QED  BY <4>3, <4>5, ElementOfSeq
    <3> QED  BY <3>1, <3>2
  <2>2. new = [x \in (-Below)..(Above - 1) |-> FlushedByte(array, sh, off, x)]
    BY <1>4, FlushedBytes
  <2> QED  BY <2>1, <2>2 DEF Arrays
<1>10. PICK o : o = off - D /\ o \in Offsets /\ o \in Int
  BY <1>2, <1>3 DEF Offsets
<1>11. FitStack(<<>>) /\ NoPromises(<<>>) /\ ShadowDepth(<<>>) = 0
  <2>1. <<>> \in Seq(Slot) /\ Len(<<>>) = 0 /\ 1..0 = {}
    OBVIOUS
  <2>2. FitStack(<<>>) /\ NoPromises(<<>>)
    BY <2>1 DEF FitStack, NoPromises
  <2> QED  BY <2>1, <2>2, DepthIs, BottomIs
<1>12. ASSUME NEW x \in 1..(Above - o) PROVE live[x] = new[o + x - 1]
  <2>0. Above - o = D + r /\ x \in Nat /\ x >= 1 /\ x <= D + r
    BY <1>2, <1>3, <1>10
  <2>1. CASE x <= D
    <3>1. D - x \in Nat /\ D - x < Bottom(sh)[l]
      BY <1>1, <1>2, <2>0, <2>1, DepthIs
    <3>2. PICK i \in 1..l : Bottom(sh)[i - 1] <= D - x /\ D - x < Bottom(sh)[i]
      BY <1>1, <3>1, Covered
    <3>3. i \in 0..l /\ i - 1 \in 0..l
      BY <1>1
    <3>4. PICK b, c, d : /\ b = Bottom(sh)[i] /\ c = Bottom(sh)[i - 1] /\ d = sh[i].depth
                         /\ b \in Nat /\ c \in Nat /\ d \in Nat /\ b = c + d
      BY <1>1, <3>3, BottomIs, BottomNat, FitLen
    <3>5. PICK k : k = x - (D - b)
      OBVIOUS
    <3>6. k \in 1..d /\ x = (D - b) + k /\ o + x - 1 = (off - b) + k - 1
      <4>1. /\ b \in Nat /\ c \in Nat /\ d \in Nat /\ D \in Nat /\ off \in Int /\ x \in Nat
            /\ b = c + d /\ o = off - D /\ x <= D /\ c <= D - x /\ D - x < b /\ k = x - (D - b)
        BY <1>2, <1>3, <1>10, <2>0, <2>1, <3>2, <3>4, <3>5
      <4> QED  BY <4>1
    <3>7. live[(D - b) + k] = SlotBytes(sh[i])[k]
      BY <1>1, <1>2, <3>4, <3>6 DEF IsLive
    <3>8. new[(off - b) + k - 1] = SlotBytes(sh[i])[k]
      BY <1>8, <3>4, <3>6
    <3> QED  BY <3>6, <3>7, <3>8
  <2>2. CASE ~(x <= D)
    <3>1. PICK k : k = x - D
      OBVIOUS
    <3>2. k \in 1..r /\ x = D + k /\ o + x - 1 = off + k - 1
      <4>1. /\ D \in Nat /\ r \in Nat /\ off \in Int /\ x \in Nat /\ o = off - D /\ k = x - D
            /\ x <= D + r /\ ~(x <= D)
        BY <1>2, <1>3, <1>10, <2>0, <2>2, <3>1
      <4> QED  BY <4>1
    <3>3. live[D + k] = array[off + k - 1]
      BY <1>2, <3>2 DEF IsLive
    <3>4. off + k - 1 \in (-Below)..(Above - 1) /\ off + k - 1 >= off
      <4>1. off >= -Below
        BY DEF Offsets
      <4> QED  BY <1>2, <1>3, <3>2, <4>1
    <3> QED  BY <1>7, <3>2, <3>3, <3>4
  <2> QED  BY <2>1, <2>2
<1>13. IsLive(live, <<>>, o, new)
  <2>1. Len(<<>>) = 0 /\ 1..0 = {}
    OBVIOUS
  <2>2. Len(live) = 0 + (Above - o)
    BY <1>2, <1>3, <1>10
  <2>3. \A k \in 1..(Above - o) : live[0 + k] = new[o + k - 1]
    <3>1. Above - o \in Nat
      BY <1>2, <1>3, <1>10
    <3>2. \A k \in 1..(Above - o) : 0 + k = k
      BY <3>1
    <3> QED  BY <1>12, <3>2
  <2> QED  BY <1>3, <1>11, <2>1, <2>2, <2>3 DEF IsLive
<1> QED  BY <1>2, <1>9, <1>10, <1>11, <1>13, FlushedOffsetIs

(* Without a shadow stack the live bytes are those of the array.           *)
LEMMA StoredBytes ==
  ASSUME NEW off, NEW array, NEW live, Plain(<<>>, off, array, live)
  PROVE  /\ live \in Seq(Byte) /\ Len(live) = Above - off /\ Above - off \in Nat /\ off \in Int
         /\ off >= -Below /\ off <= Above
         /\ \A k \in 1..(Above - off) : live[k] = array[off + k - 1]
<1>1. Len(<<>>) = 0 /\ <<>> \in Seq(Slot)
  OBVIOUS
<1>2. FitStack(<<>>)
  BY DEF Plain
<1>3. ShadowDepth(<<>>) = 0
  BY <1>1, <1>2, DepthIs, BottomIs
<1>4. off \in Int /\ Above - off \in Nat /\ off >= -Below /\ off <= Above
  BY SizesAssumption DEF Plain, Offsets
<1>5. Len(live) = Above - off /\ live \in Seq(Byte)
  BY <1>3, <1>4 DEF Plain, IsLive
<1>6. \A k \in 1..(Above - off) : 0 + k = k
  BY <1>4
<1>7. \A k \in 1..(Above - off) : live[0 + k] = array[off + k - 1]
  BY <1>3 DEF Plain, IsLive
<1> QED  BY <1>4, <1>5, <1>6, <1>7

LEMMA StoredPlain ==
  ASSUME NEW off \in Offsets, NEW array \in Arrays, NEW live \in Seq(Byte),
         Len(live) = Above - off,
         \A k \in 1..(Above - off) : live[k] = array[off + k - 1]
  PROVE  Plain(<<>>, off, array, live)
<1>1. Len(<<>>) = 0 /\ <<>> \in Seq(Slot) /\ 1..0 = {}
  OBVIOUS
<1>2. FitStack(<<>>) /\ NoPromises(<<>>)
  BY <1>1 DEF FitStack, NoPromises
<1>3. ShadowDepth(<<>>) = 0
  BY <1>1, <1>2, DepthIs, BottomIs
<1>4. Above - off \in Nat
  BY SizesAssumption DEF Offsets
<1>5. 0 + (Above - off) = Above - off /\ \A k \in 1..(Above - off) : 0 + k = k
  BY <1>4
<1>6. IsLive(live, <<>>, off, array)
  BY <1>1, <1>3, <1>5 DEF IsLive
<1> QED  BY <1>2, <1>6 DEF Plain

(* The live stack with the bytes v at its places i+1 to i+n.               *)
Written(live, i, n, v) ==
  [x \in DOMAIN live |-> IF x \in (i + 1)..(i + n) THEN v[x - i] ELSE live[x]]

(* A store into the array is a store into the live stack.                  *)
LEMMA StoreLive ==
  ASSUME NEW off, NEW array, NEW live, Plain(<<>>, off, array, live),
         NEW at \in Int, off <= at, NEW n \in Nat, at + n <= Above,
         NEW v, v \in Seq(Byte), Len(v) = n
  PROVE  Plain(<<>>, off, Store(array, at, v), Written(live, at - off, n, v))
<1>1. /\ live \in Seq(Byte) /\ Len(live) = Above - off /\ Above - off \in Nat /\ off \in Int
      /\ off >= -Below /\ off <= Above
      /\ \A k \in 1..(Above - off) : live[k] = array[off + k - 1]
  BY StoredBytes
<1>2. array \in Arrays /\ off \in Offsets /\ Above \in Nat /\ Below \in Nat
  BY SizesAssumption DEF Plain
<1>3. PICK i, m : i = at - off /\ i \in Nat /\ m = Above - off /\ m \in Nat
  BY <1>1
<1>4. i + n <= m /\ at = off + i /\ Above = off + m
  BY <1>1, <1>2, <1>3
<1>5. \A k \in 1..n : v[k] \in Byte
  BY ElementOfSeq
<1>6. PICK new : new = Store(array, at, v)
  OBVIOUS
<1>7. new = [x \in (-Below)..(Above - 1) |->
               IF x \in at..(at + n - 1) THEN v[x - at + 1] ELSE array[x]]
  <2>1. DOMAIN array = (-Below)..(Above - 1)
    BY <1>2 DEF Arrays
  <2> QED  BY <1>6, <2>1 DEF Store
<1>8. new \in Arrays
  <2>1. ASSUME NEW x \in (-Below)..(Above - 1)
        PROVE  (IF x \in at..(at + n - 1) THEN v[x - at + 1] ELSE array[x]) \in Byte
    <3>1. x \in at..(at + n - 1) => x - at + 1 \in 1..n
      BY <1>2
    <3>2. array[x] \in Byte
      BY <1>2 DEF Arrays
    <3> QED  BY <1>5, <3>1, <3>2
  <2> QED  BY <1>7, <2>1 DEF Arrays
<1>9. PICK w : w = Written(live, i, n, v)
  OBVIOUS
<1>10. w = [x \in 1..m |-> IF x \in (i + 1)..(i + n) THEN v[x - i] ELSE live[x]]
  <2>1. DOMAIN live = 1..m
    BY <1>1, <1>3, LenProperties
  <2> QED  BY <1>9, <2>1 DEF Written
<1>11. w \in Seq(Byte) /\ Len(w) = m
  <2>1. ASSUME NEW x \in 1..m
        PROVE  (IF x \in (i + 1)..(i + n) THEN v[x - i] ELSE live[x]) \in Byte
    <3>1. x \in (i + 1)..(i + n) => x - i \in 1..n
      BY <1>3
    <3>2. live[x] \in Byte
      BY <1>1, <1>3, ElementOfSeq
    <3> QED  BY <1>5, <3>1, <3>2
  <2> QED  BY <1>3, <1>10, <2>1
<1>12. ASSUME NEW k \in 1..m PROVE w[k] = new[off + k - 1]
  <2>1. PICK x : x = off + k - 1 /\ x \in (-Below)..(Above - 1)
    BY <1>1, <1>2, <1>3, <1>4
  <2>2. (x \in at..(at + n - 1)) <=> (k \in (i + 1)..(i + n))
    BY <1>1, <1>3, <1>4, <2>1
  <2>3. x - at + 1 = k - i
    BY <1>1, <1>3, <1>4, <2>1
  <2>4. live[k] = array[x]
    BY <1>1, <1>3, <2>1
  <2>5. new[x] = IF k \in (i + 1)..(i + n) THEN v[k - i] ELSE live[k]
    BY <1>7, <2>1, <2>2, <2>3, <2>4
  <2> QED  BY <1>10, <2>1, <2>5
<1> QED  BY <1>1, <1>2, <1>3, <1>6, <1>8, <1>9, <1>11, <1>12, StoredPlain

-----------------------------------------------------------------------------
(* The inductive invariant.  Every slot is as wide as its value or is a    *)
(* promise of flags, only the topmost slot may be one, and the promises of *)
(* registers are for whole words; between blocks nothing waits; the VSP    *)
(* that the lifter computes is the recorded one.                           *)
Promising(sh) ==
  /\ \A i \in 1..Len(sh) : sh[i].flagsPromise # NoPromise => i = Len(sh)
  /\ \A i \in 1..Len(sh) : sh[i].flagsPromise \in 0..MaxLength
Keys == {key \in 0..(ContextSize - PtrSize) : key % PtrSize = 0}
StackInv(sh, off, array) ==
  FitStack(sh) /\ Promising(sh) /\ off \in Offsets /\ array \in Arrays
ContextInv(context, calculators) ==
  /\ context \in Seq(Byte) /\ Len(context) = ContextSize
  /\ DOMAIN calculators \subseteq Keys
  /\ \A key \in DOMAIN calculators : calculators[key] \in 1..MaxLength
CountersInv ==
  /\ inBlock \in BOOLEAN
  /\ vspAfter \in Int
  /\ pos \in 0..MaxLength
  /\ status \in {"ok", "exit", "strange", "null", "badIR"}
RInv ==
  /\ IInv
  /\ StackInv(shadowStack, stackOffset, stackArray)
  /\ ContextInv(virtualContext, flagCalculators)
  /\ CountersInv
  /\ status = "ok" => CurrentVsp = vspAfter
  /\ status = "ok" /\ ~inBlock => shadowStack = <<>>

LEMMA OpsAre ==
  ASSUME Regular, NEW h \in Handlers
  PROVE  /\ h.op \in Ops /\ h.d \in {1, 2, 4, 8} /\ h.arg \in Int
         /\ StackDepth(h.d) \in {2, 4, 8} /\ h.d <= StackDepth(h.d)
         /\ h.d # 1 => StackDepth(h.d) = h.d
         /\ WholeWords(h)
<1>1. h \in Handler
  BY HandlersAssumption
<1> QED  BY <1>1 DEF Handler, StackDepth, Regular

LEMMA Traffic ==
  ASSUME NEW h
  PROVE  /\ h.op = "Pop" => Popped(h) = StackDepth(h.d) /\ Pushed(h) = 0
         /\ h.op \in {"PushReg", "PushConst", "PushVsp"} => Popped(h) = 0 /\ Pushed(h) = StackDepth(h.d)
         /\ h.op = "ReadMem" => Popped(h) = PtrSize /\ Pushed(h) = StackDepth(h.d)
         /\ h.op = "WriteMem" => Popped(h) = PtrSize + StackDepth(h.d) /\ Pushed(h) = 0
         /\ h.op = "Jmp" => Popped(h) = PtrSize /\ Pushed(h) = 0
         /\ h.op \in Binary => Popped(h) = 2 * StackDepth(h.d) /\ Pushed(h) = StackDepth(h.d) + PtrSize
         /\ h.op \in Shift => Popped(h) = StackDepth(h.d) + 2 /\ Pushed(h) = StackDepth(h.d) + PtrSize
         /\ h.op \in DoubleShift => /\ Popped(h) = 2 * StackDepth(h.d) + 2
                                    /\ Pushed(h) = StackDepth(h.d) + PtrSize
         /\ h.op = "Entry" => Popped(h) = 0 /\ Pushed(h) = PtrSize * (Len(EntryRegs) + 3)
         /\ h.op = "Exit" => Popped(h) = PtrSize * (Len(ExitRegs) + 2) /\ Pushed(h) = 0
  BY DEF Popped, Pushed, Binary, Shift, DoubleShift, Alu

(* Unless flags are popped into a register, nothing is promised.           *)
LEMMA LiveIs ==
  ASSUME RInv
  PROVE  /\ IsLive(LiveStack, shadowStack, stackOffset, stackArray)
         /\ LiveStack \in Seq(Byte) /\ Len(LiveStack) \in Nat
         /\ Len(LiveStack) = Above - CurrentVsp /\ CurrentVsp \in Int
<1>1. FitStack(shadowStack) /\ stackOffset \in Offsets /\ stackArray \in Arrays
  BY DEF RInv, StackInv
<1>2. IsLive(LiveStack, shadowStack, stackOffset, stackArray)
  BY <1>1, LiveIsLive, LiveStackIs
<1>3. /\ LiveStack \in Seq(Byte)
      /\ Len(LiveStack) = ShadowDepth(shadowStack) + (Above - stackOffset)
      /\ Len(LiveStack) \in Nat /\ ShadowDepth(shadowStack) \in Nat
      /\ Above - stackOffset \in Nat /\ stackOffset \in Int
  BY <1>1, <1>2, LiveLen
<1>4. Above \in Nat
  BY SizesAssumption
<1>5. Len(LiveStack) = Above - (stackOffset - ShadowDepth(shadowStack))
  BY <1>3, <1>4
<1> QED  BY <1>2, <1>3, <1>5 DEF CurrentVsp

LEMMA PlainState ==
  ASSUME Regular, RInv, NEW h, Legal(h), ~(h.op = "Pop" /\ h.d = PtrSize)
  PROVE  Plain(shadowStack, stackOffset, stackArray, LiveStack)
<1>1. FitStack(shadowStack) /\ stackOffset \in Offsets /\ stackArray \in Arrays
  BY DEF RInv, StackInv
<1>2. Len(shadowStack) \in Nat
  BY <1>1, FitLen
<1>3. Len(shadowStack) > 0 => shadowStack[Len(shadowStack)].flagsPromise = NoPromise
  BY DEF Regular, Legal, Disciplined, Assumptions
<1>4. NoPromises(shadowStack)
  BY <1>2, <1>3 DEF NoPromises, RInv, StackInv, Promising
<1> QED  BY <1>1, <1>4, LiveIs DEF Plain

LEMMA TrafficNat ==
  ASSUME Regular, NEW h \in Handlers
  PROVE  Popped(h) \in Nat /\ Pushed(h) \in Nat
<1>1. StackDepth(h.d) \in Nat /\ PtrSize \in Nat
  BY OpsAre DEF PtrSize
<1>2. Len(EntryRegs) \in Nat /\ Len(ExitRegs) \in Nat
  BY RegsAssumption
<1> QED  BY <1>1, <1>2 DEF Popped, Pushed, PtrSize

LEMMA EmitInv ==
  ASSUME Regular, RInv, IInv', NEW h \in Handlers, Starts(h, h.op),
         NEW sh, NEW off, NEW consumed, Emit(h, sh, off, consumed),
         StackInv(sh, off, stackArray'), ContextInv(virtualContext', flagCalculators'),
         status' \in {"ok", "exit"}, inBlock' \in BOOLEAN,
         status' = "ok" => off - ShadowDepth(sh) = CurrentVsp + Popped(h) - Pushed(h),
         status' = "ok" /\ ~inBlock' => sh = <<>>
  PROVE  RInv'
<1>1. /\ shadowStack' = sh /\ stackOffset' = off /\ vspAfter' = RecordedVsp(h) /\ pos' = pos + 1
      /\ pos < MaxLength /\ status = "ok"
  BY DEF Emit, Starts
<1>2. h.op # "PopVsp"
  BY OpsAre DEF WholeWords
<1>3. vspAfter' = vspAfter + Popped(h) - Pushed(h)
  BY <1>1, <1>2 DEF RecordedVsp
<1>4. vspAfter \in Int /\ CurrentVsp = vspAfter /\ pos \in 0..MaxLength
  BY <1>1 DEF RInv, CountersInv
<1>5. vspAfter' \in Int /\ pos' \in 0..MaxLength
  BY <1>1, <1>3, <1>4, TrafficNat, SizesAssumption
<1>6. CurrentVsp' = off - ShadowDepth(sh)
  BY <1>1 DEF CurrentVsp
<1>7. status' = "ok" => CurrentVsp' = vspAfter'
  BY <1>3, <1>4, <1>6
<1>8. StackInv(shadowStack', stackOffset', stackArray')
  BY <1>1
<1>9. CountersInv'
  BY <1>5 DEF CountersInv
<1> QED  BY <1>1, <1>7, <1>8, <1>9 DEF RInv

(* A step of the machine that leaves live is what a handler emits that     *)
(* leaves live on its shadow stack and array.                              *)
LEMMA EmitStep ==
  ASSUME RInv, NEW h, Starts(h, h.op), status' = "ok", Popped(h) \in Nat,
         NEW sh, NEW off, NEW consumed, Emit(h, sh, off, consumed),
         StackInv(sh, off, stackArray'),
         NEW live, IsLive(live, sh, off, stackArray')
  PROVE  /\ VM!Step(h, Popped(h), live, consumed)
         /\ ~Gone /\ ~Gone'
<1>1. status = "ok" /\ pos < MaxLength
  BY DEF Starts
<1>2. ~Gone /\ ~Gone'
  BY <1>1 DEF Gone
<1>3. Popped(h) <= Len(LiveStack)
  <2>1. Len(LiveStack) = Above - CurrentVsp
    BY LiveIs
  <2> QED  BY <2>1 DEF Starts, Legal
<1>4. shadowStack' = sh /\ stackOffset' = off /\ executed' = <<h, consumed>> /\ pos' = pos + 1
      /\ off - ShadowDepth(sh) >= -Below
  BY DEF Emit
<1>5. LiveStack' = live
  <2>1. LiveStack' = LiveOf(shadowStack', stackOffset', stackArray')
    BY DEF LiveStack, LiveOf, Load, LoadOf
  <2>2. FitStack(sh) /\ off \in Offsets /\ stackArray' \in Arrays
    BY DEF StackInv
  <2>3. IsLive(LiveOf(sh, off, stackArray'), sh, off, stackArray')
    BY <2>2, LiveIsLive
  <2>4. LiveOf(sh, off, stackArray') = live
    BY <2>2, <2>3, LiveUnique
  <2> QED  BY <1>4, <2>1, <2>4
<1>6. Len(live) <= Above + Below
  <2>1. /\ Len(live) = ShadowDepth(sh) + (Above - off) /\ ShadowDepth(sh) \in Nat /\ off \in Int
    BY LiveLen DEF StackInv
  <2> QED  BY <1>4, <2>1, SizesAssumption
<1>7. (IF Gone THEN <<>> ELSE LiveStack)' = live
  BY <1>2, <1>5
<1>8. Popped(h) <= Len(IF Gone THEN <<>> ELSE LiveStack)
  BY <1>2, <1>3
<1> QED  BY <1>1, <1>2, <1>4, <1>6, <1>7, <1>8 DEF VM!Step

(* The register file by its stored bytes and its promises.                 *)
PromisedBy(calculators, x) ==
  {key \in DOMAIN calculators : x \in (key + 1)..(key + PtrSize)}
ContextOf(context, calculators) ==
  [x \in 1..ContextSize |->
     IF PromisedBy(calculators, x) = {} THEN context[x]
     ELSE LET key == CHOOSE key \in PromisedBy(calculators, x) : TRUE
          IN FlagsOf(calculators[key])[x - key]]

LEMMA LiveContextIs ==
  /\ LiveContext = ContextOf(virtualContext, flagCalculators)
  /\ LiveContext' = ContextOf(virtualContext', flagCalculators')
  BY DEF LiveContext, ContextOf, Promised, PromisedBy

SameContext == UNCHANGED <<flagCalculators, virtualContext>>

LEMMA ContextStays ==
  ASSUME ~Gone, ~Gone', SameContext
  PROVE  UNCHANGED (IF Gone THEN <<>> ELSE LiveContext) /\ UNCHANGED ~Gone
  BY LiveContextIs DEF SameContext

(* The vocabulary of the machine is that of the lifter.                    *)
LEMMA SameWords ==
  /\ VM!PtrSize = PtrSize /\ VM!ImageBaseDif = ImageBaseDif
  /\ VM!Binary = Binary /\ VM!Shift = Shift /\ VM!DoubleShift = DoubleShift
  /\ \A d : VM!StackDepth(d) = StackDepth(d)
  /\ \A kind, id, n : VM!Word(kind, id, n) = Word(kind, id, n)
  /\ \A v, n : VM!Trunc(v, n) = Trunc(v, n) /\ VM!ZeroExtend(v, n) = ZeroExtend(v, n)
  /\ \A n : VM!FlagsOf(n) = FlagsOf(n) /\ VM!StackAddress(n) = StackAddress(n)
  /\ \A n : VM!NativeReg(n) = NativeReg(n)
  /\ \A v : VM!IsStackAddress(v) = IsStackAddress(v) /\ VM!OffsetOf(v) = OffsetOf(v)
  /\ \A a, b, n : VM!SumOf(a, b, n) = SumOf(a, b, n)
<1>1. \A kind, id, n : VM!Word(kind, id, n) = Word(kind, id, n)
  BY DEF VM!Word, Word
<1>2. VM!PtrSize = PtrSize
  BY DEF VM!PtrSize, PtrSize
<1>3. \A n : VM!StackAddress(n) = StackAddress(n)
  BY <1>1, <1>2 DEF VM!StackAddress, StackAddress
<1>4. \A v : VM!IsStackAddress(v) = IsStackAddress(v)
  BY <1>2, <1>3 DEF VM!IsStackAddress, IsStackAddress
<1>5. \A v : VM!IsConstant(v) = IsConstant(v)
  BY <1>1 DEF VM!IsConstant, IsConstant
<1>6. \A a, b, n : VM!SumOf(a, b, n) = SumOf(a, b, n)
  BY <1>1, <1>3, <1>4, <1>5 DEF VM!SumOf, SumOf
<1>7. \A v, n : VM!Trunc(v, n) = Trunc(v, n) /\ VM!ZeroExtend(v, n) = ZeroExtend(v, n)
  BY <1>1 DEF VM!Trunc, Trunc, VM!ZeroExtend, ZeroExtend
<1>8. /\ \A n : VM!FlagsOf(n) = FlagsOf(n) /\ VM!NativeReg(n) = NativeReg(n)
      /\ VM!ImageBaseDif = ImageBaseDif
  BY <1>1, <1>2 DEF VM!FlagsOf, FlagsOf, VM!NativeReg, NativeReg, VM!ImageBaseDif, ImageBaseDif
<1>9. /\ VM!Binary = Binary /\ VM!Shift = Shift /\ VM!DoubleShift = DoubleShift
      /\ \A d : VM!StackDepth(d) = StackDepth(d)
  BY DEF VM!Binary, Binary, VM!Shift, Shift, VM!DoubleShift, DoubleShift, VM!StackDepth, StackDepth
<1>10. \A v : VM!OffsetOf(v) = OffsetOf(v)
  BY DEF VM!OffsetOf, OffsetOf
<1> QED  BY <1>1, <1>2, <1>3, <1>4, <1>6, <1>7, <1>8, <1>9, <1>10

(* What every handler shows: the invariant is kept, and the machine takes  *)
(* the step too, or none.                                                  *)
Simulates == RInv' /\ [VM!Next]_(VM!vars)

LEMMA PushPromising ==
  ASSUME NEW sh, FitStack(sh), NoPromises(sh), NEW s, Fits(s), s.flagsPromise \in 0..MaxLength
  PROVE  Promising(Append(sh, s))
<1>1. PICK n : n = Len(sh) /\ n \in Nat
  BY FitLen
<1>2. PICK new : new = Append(sh, s)
  OBVIOUS
<1>3. Len(new) = n + 1 /\ new[n + 1] = s /\ \A i \in 1..n : new[i] = sh[i]
  BY <1>1, <1>2, PushFits
<1>4. \A i \in 1..(n + 1) : i \in 1..n \/ i = n + 1
  BY <1>1
<1>5. NoPromise \in 0..MaxLength
  BY SizesAssumption DEF NoPromise
<1>6. \A i \in 1..n : new[i].flagsPromise = NoPromise
  BY <1>1, <1>3 DEF NoPromises
<1>7. \A i \in 1..(n + 1) : /\ new[i].flagsPromise # NoPromise => i = n + 1
                            /\ new[i].flagsPromise \in 0..MaxLength
  BY <1>3, <1>4, <1>5, <1>6
<1> QED  BY <1>2, <1>3, <1>7 DEF Promising

LEMMA PlainPromising ==
  ASSUME NEW sh, NoPromises(sh)
  PROVE  Promising(sh)
  BY SizesAssumption DEF Promising, NoPromises, NoPromise

(* A handler that pushes one value.                                        *)
LEMMA PushSim ==
  ASSUME Regular, RInv, IInv', NEW h \in Handlers, Starts(h, h.op),
         h.op \in {"PushReg", "PushConst", "PushVsp"},
         NEW s, Fits(s), s.flagsPromise = NoPromise, s.depth = StackDepth(h.d),
         NEW consumed, Emit(h, Append(shadowStack, s), stackOffset, consumed),
         UNCHANGED <<flagCalculators, stackArray, virtualContext, inBlock, status>>
  PROVE  /\ RInv' /\ VM!Step(h, 0, s.value \o LiveStack, consumed) /\ ~Gone /\ ~Gone'
         /\ UNCHANGED (IF Gone THEN <<>> ELSE LiveContext) /\ UNCHANGED ~Gone
<1>1. status = "ok" /\ Legal(h) /\ inBlock
  BY DEF Starts
<1>2. PICK sh : sh = Append(shadowStack, s)
  OBVIOUS
<1>3. Plain(shadowStack, stackOffset, stackArray, LiveStack)
  BY <1>1, PlainState
<1>4. IsLive(s.value \o LiveStack, sh, stackOffset, stackArray)
  <2>1. SlotBytes(s) = s.value
    BY SlotBytesIs
  <2>2. IsLive(SlotBytes(s) \o LiveStack, sh, stackOffset, stackArray)
    BY <1>2, <1>3, PushLive DEF Plain
  <2> QED  BY <2>1, <2>2
<1>5. FitStack(sh) /\ ShadowDepth(sh) = ShadowDepth(shadowStack) + s.depth
  BY <1>2, <1>3, PushFits DEF Plain
<1>6. Promising(sh)
  <2>1. NoPromise \in 0..MaxLength
    BY SizesAssumption DEF NoPromise
  <2> QED  BY <1>2, <1>3, <2>1, PushPromising DEF Plain
<1>7. StackInv(sh, stackOffset, stackArray')
  BY <1>3, <1>5, <1>6 DEF Plain, StackInv
<1>8. ContextInv(virtualContext', flagCalculators')
  BY DEF RInv
<1>9. Popped(h) = 0 /\ Pushed(h) = s.depth
  BY Traffic
<1>10. stackOffset - ShadowDepth(sh) = CurrentVsp + Popped(h) - Pushed(h)
  <2>1. PICK o, x, y : /\ o = stackOffset /\ x = ShadowDepth(shadowStack) /\ y = s.depth
                       /\ o \in Int /\ x \in Nat /\ y \in Nat
    BY <1>3, LiveLen, OpsAre DEF Plain
  <2>2. o - (x + y) = (o - x) + 0 - y
    BY <2>1
  <2> QED  BY <1>5, <1>9, <2>1, <2>2 DEF CurrentVsp
<1>11. RInv'
  <2>1. status' \in {"ok", "exit"} /\ inBlock' \in BOOLEAN /\ inBlock'
    BY <1>1 DEF RInv, CountersInv
  <2>2. Emit(h, sh, stackOffset, consumed)
    BY <1>2
  <2> QED  BY <1>7, <1>8, <1>10, <2>1, <2>2, EmitInv
<1>12. VM!Step(h, 0, s.value \o LiveStack, consumed) /\ ~Gone /\ ~Gone'
  <2>1. status' = "ok" /\ Popped(h) \in Nat
    BY <1>1, <1>9
  <2>2. Emit(h, sh, stackOffset, consumed)
    BY <1>2
  <2>3. IsLive(s.value \o LiveStack, sh, stackOffset, stackArray')
    BY <1>4
  <2>4. VM!Step(h, Popped(h), s.value \o LiveStack, consumed) /\ ~Gone /\ ~Gone'
    BY <1>7, <2>1, <2>2, <2>3, EmitStep
  <2> QED  BY <1>9, <2>4
<1> QED  BY <1>11, <1>12, ContextStays DEF SameContext

LEMMA ValueSlotFits ==
  ASSUME NEW v, v \in Seq(Byte), Len(v) > 0
  PROVE  LET s == ValueSlot(v, Len(v))
         IN Fits(s) /\ s.flagsPromise = NoPromise /\ s.depth = Len(v) /\ s.value = v
<1>1. Len(v) \in Nat
  BY LenProperties
<1> QED  BY <1>1 DEF ValueSlot, Fits, Slot, NoPromise

LEMMA PushConstSim ==
  ASSUME Regular, RInv, IInv', NEW h \in Handlers, LiftVmPushConst(h)
  PROVE  Simulates
<1>1. Starts(h, "PushConst") /\ h.op = "PushConst"
  BY DEF LiftVmPushConst, Starts
<1>2. PICK n, w, v : /\ n = StackDepth(h.d) /\ w = Word("cst", h.arg, h.d)
                     /\ v = ZeroExtend(w, n)
  OBVIOUS
<1>3. PICK s : s = ValueSlot(v, n)
  OBVIOUS
<1>4. /\ Emit(h, Append(shadowStack, s), stackOffset, <<>>)
      /\ UNCHANGED <<flagCalculators, stackArray, virtualContext, inBlock, status>>
  BY <1>2, <1>3 DEF LiftVmPushConst
<1>5. n \in {2, 4, 8} /\ h.d \in Nat /\ h.d <= n /\ h.arg \in Int
  BY <1>2, OpsAre
<1>6. v \in Seq(Byte) /\ Len(v) = n
  <2>1. w \in Seq(Byte) /\ Len(w) = h.d
    BY <1>2, <1>5, WordIs, ZenonT(40)
  <2> QED  BY <1>2, <1>5, <2>1, ExtendIs
<1>7. Fits(s) /\ s.flagsPromise = NoPromise /\ s.depth = n /\ s.value = v
  <2>1. Len(v) > 0
    BY <1>5, <1>6
  <2> QED  BY <1>3, <1>6, <2>1, ValueSlotFits
<1>8. /\ RInv' /\ VM!Step(h, 0, v \o LiveStack, <<>>) /\ ~Gone /\ ~Gone'
      /\ UNCHANGED (IF Gone THEN <<>> ELSE LiveContext) /\ UNCHANGED ~Gone
  <2>1. Starts(h, h.op) /\ h.op \in {"PushReg", "PushConst", "PushVsp"} /\ s.depth = StackDepth(h.d)
    BY <1>1, <1>2, <1>7
  <2> QED  BY <1>4, <1>7, <2>1, PushSim
<1>9. VM!PushConst(h)
  <2>1. (IF Gone THEN <<>> ELSE LiveStack) = LiveStack
    BY <1>8
  <2> QED  BY <1>1, <1>2, <1>8, <2>1, SameWords DEF VM!PushConst
<1>10. VM!Next
  BY <1>9 DEF VM!Next
<1> QED  BY <1>8, <1>10 DEF Simulates

(* After the first a elements, the next d.                                 *)
LEMMA RangeIs ==
  ASSUME NEW S, NEW s, s \in Seq(S), NEW a \in Nat, NEW d \in Nat, a + d <= Len(s)
  PROVE  /\ SubSeq(s, a + 1, a + d) \in Seq(S) /\ Len(SubSeq(s, a + 1, a + d)) = d
         /\ \A k \in 1..d : SubSeq(s, a + 1, a + d)[k] = s[a + k]
<1>1. PICK n : n = Len(s) /\ n \in Nat
  BY LenProperties
<1>2. \A i \in (a + 1)..(a + d) : s[i] \in S
  BY <1>1, ElementOfSeq
<1>3. PICK r : r = SubSeq(s, a + 1, a + d)
  OBVIOUS
<1>4. /\ r \in Seq(S) /\ Len(r) = IF a + 1 <= a + d THEN (a + d) - (a + 1) + 1 ELSE 0
      /\ \A i \in 1..((a + d) - (a + 1) + 1) : r[i] = s[(a + 1) + i - 1]
  BY <1>1, <1>2, <1>3, SubSeqProperties
<1>5. Len(r) = d
  BY <1>4
<1>6. \A k \in 1..d : r[k] = s[a + k]
  <2> TAKE k \in 1..d
  <2>1. k \in 1..((a + d) - (a + 1) + 1) /\ (a + 1) + k - 1 = a + k
    OBVIOUS
  <2> QED  BY <1>4, <2>1
<1> QED  BY <1>3, <1>4, <1>5, <1>6

(* The bytes of a register that is promised, and of one that is not.       *)
LEMMA ContextIs ==
  ASSUME NEW context, NEW calculators, ContextInv(context, calculators)
  PROVE  /\ ContextOf(context, calculators) \in Seq(Byte)
         /\ Len(ContextOf(context, calculators)) = ContextSize
         /\ \A key \in DOMAIN calculators : \A k \in 1..PtrSize :
              /\ key + k \in 1..ContextSize
              /\ ContextOf(context, calculators)[key + k] = FlagsOf(calculators[key])[k]
         /\ \A x \in 1..ContextSize :
              (\A key \in DOMAIN calculators : x \notin (key + 1)..(key + PtrSize)) =>
                ContextOf(context, calculators)[x] = context[x]
<1>1. /\ context \in Seq(Byte) /\ Len(context) = ContextSize /\ ContextSize \in Nat
      /\ \A key \in DOMAIN calculators : key \in Keys /\ calculators[key] \in Nat
  BY SizesAssumption DEF ContextInv
<1>2. PICK c : c = ContextOf(context, calculators)
  OBVIOUS
<1> DEFINE byte(x) == IF PromisedBy(calculators, x) = {} THEN context[x]
                      ELSE LET key == CHOOSE key \in PromisedBy(calculators, x) : TRUE
                           IN FlagsOf(calculators[key])[x - key]
<1>3. c = [x \in 1..ContextSize |-> byte(x)]
  BY <1>2 DEF ContextOf
<1>4. ASSUME NEW key1 \in Keys, NEW key2 \in Keys, NEW x \in Int,
             x \in (key1 + 1)..(key1 + 8), x \in (key2 + 1)..(key2 + 8)
      PROVE  key1 = key2
  <2>1. key1 \in Int /\ key2 \in Int /\ key1 % 8 = 0 /\ key2 % 8 = 0
    BY <1>1 DEF Keys, PtrSize
  <2>2. key1 - key2 < 8 /\ key2 - key1 < 8
    BY <1>4, <2>1
  <2> QED  BY <2>1, <2>2
<1>5. ASSUME NEW key \in DOMAIN calculators, NEW x \in (key + 1)..(key + PtrSize)
      PROVE  byte(x) = FlagsOf(calculators[key])[x - key]
  <2>1. key \in Keys /\ key \in Int /\ x \in Int /\ PtrSize = 8
    BY <1>1 DEF Keys, PtrSize
  <2>2. PromisedBy(calculators, x) = {key}
    <3>1. key \in PromisedBy(calculators, x)
      BY DEF PromisedBy
    <3>2. \A other \in PromisedBy(calculators, x) : other = key
      BY <1>1, <1>4, <2>1 DEF PromisedBy
    <3> QED  BY <3>1, <3>2
  <2>3. (CHOOSE k \in {key} : TRUE) = key
    OBVIOUS
  <2> QED  BY <2>2, <2>3
<1>6. \A n \in Nat : FlagsOf(n) \in Seq(Byte) /\ Len(FlagsOf(n)) = 8
  <2> TAKE n \in Nat
  <2>1. n \in Int /\ 8 \in Nat
    OBVIOUS
  <2>2. Word("flg", n, 8) \in Seq(Byte) /\ Len(Word("flg", n, 8)) = 8
    BY <2>1, WordIs
  <2> QED  BY <2>2 DEF FlagsOf, PtrSize
<1>7. ASSUME NEW x \in 1..ContextSize PROVE byte(x) \in Byte
  <2>1. CASE PromisedBy(calculators, x) = {}
    BY <1>1, <2>1, ElementOfSeq
  <2>2. CASE PromisedBy(calculators, x) # {}
    <3>1. PICK key \in DOMAIN calculators : x \in (key + 1)..(key + PtrSize)
      BY <2>2 DEF PromisedBy
    <3>2. x - key \in 1..8 /\ calculators[key] \in Nat
      BY <1>1, <3>1 DEF Keys, PtrSize
    <3>3. FlagsOf(calculators[key])[x - key] \in Byte
      BY <1>6, <3>2, ElementOfSeq
    <3> HIDE DEF byte
    <3> QED  BY <1>5, <3>1, <3>3
  <2> QED  BY <2>1, <2>2
<1>8. c \in Seq(Byte) /\ Len(c) = ContextSize
  <2> HIDE DEF byte
  <2> QED  BY <1>1, <1>3, <1>7
<1>9. ASSUME NEW key \in DOMAIN calculators, NEW k \in 1..PtrSize
      PROVE  key + k \in 1..ContextSize /\ c[key + k] = FlagsOf(calculators[key])[k]
  <2>1. /\ key \in Nat /\ k \in 1..8 /\ key <= ContextSize - 8 /\ PtrSize = 8
    BY <1>1 DEF Keys, PtrSize
  <2>2. key + k \in 1..ContextSize /\ key + k \in (key + 1)..(key + PtrSize) /\ (key + k) - key = k
    BY <1>1, <2>1
  <2>3. byte(key + k) = FlagsOf(calculators[key])[k]
    <3> HIDE DEF byte
    <3> QED  BY <1>5, <2>2
  <2> HIDE DEF byte
  <2> QED  BY <1>3, <2>2, <2>3
<1>10. ASSUME NEW x \in 1..ContextSize,
              \A key \in DOMAIN calculators : x \notin (key + 1)..(key + PtrSize)
       PROVE  c[x] = context[x]
  <2>1. PromisedBy(calculators, x) = {}
    BY <1>10 DEF PromisedBy
  <2> QED  BY <1>3, <2>1
<1> QED  BY <1>2, <1>8, <1>9, <1>10

LEMMA PushVspSim ==
  ASSUME Regular, RInv, IInv', NEW h \in Handlers, LiftVmPushVsp(h)
  PROVE  Simulates
<1>1. Starts(h, "PushVsp") /\ h.op = "PushVsp"
  BY DEF LiftVmPushVsp, Starts
<1>2. PICK n, vsp : n = StackDepth(h.d) /\ vsp = StackAddress(CurrentVsp)
  OBVIOUS
<1>3. PICK s : s = IF h.d = PtrSize THEN PointerSlot(vsp) ELSE ValueSlot(Trunc(vsp, n), n)
  OBVIOUS
<1>4. /\ Emit(h, Append(shadowStack, s), stackOffset, <<>>)
      /\ UNCHANGED <<flagCalculators, stackArray, virtualContext, inBlock, status>>
  BY <1>2, <1>3 DEF LiftVmPushVsp
<1>5. n \in {2, 4, 8} /\ (h.d = 8 => n = 8) /\ PtrSize = 8
  BY <1>2, OpsAre DEF PtrSize
<1>6. vsp \in Seq(Byte) /\ Len(vsp) = 8
  BY <1>2, <1>5, LiveIs, WordIs, ZenonT(60) DEF StackAddress
<1>7. PICK v : v = Trunc(vsp, n)
  OBVIOUS
<1>8. v \in Seq(Byte) /\ Len(v) = n
  <2>1. n \in Nat /\ n <= Len(vsp)
    BY <1>5, <1>6
  <2> QED  BY <1>6, <1>7, <2>1, TruncIs
<1>9. Fits(s) /\ s.flagsPromise = NoPromise /\ s.depth = n /\ s.value = v
  <2>1. CASE h.d = PtrSize
    <3>1. v = vsp
      BY <1>5, <1>6, <1>7, <2>1, SubSeqFull DEF Trunc
    <3>2. s = [value |-> vsp, depth |-> 8, ptr |-> TRUE, isVspPush |-> TRUE, flagsPromise |-> 0]
      BY <1>3, <1>5, <2>1 DEF PointerSlot, ValueSlot, NoPromise
    <3>3. n = 8
      BY <1>5, <2>1
    <3>4. s \in Slot
      BY <1>6, <3>2 DEF Slot
    <3> QED  BY <1>6, <3>1, <3>2, <3>3, <3>4 DEF Fits, NoPromise
  <2>2. CASE h.d # PtrSize
    <3>1. Len(v) > 0
      BY <1>5, <1>8
    <3> QED  BY <1>3, <1>7, <1>8, <2>2, <3>1, ValueSlotFits
  <2> QED  BY <2>1, <2>2
<1>10. /\ RInv' /\ VM!Step(h, 0, v \o LiveStack, <<>>) /\ ~Gone /\ ~Gone'
       /\ UNCHANGED (IF Gone THEN <<>> ELSE LiveContext) /\ UNCHANGED ~Gone
  <2>1. Starts(h, h.op) /\ h.op \in {"PushReg", "PushConst", "PushVsp"} /\ s.depth = StackDepth(h.d)
    BY <1>1, <1>2, <1>9
  <2> QED  BY <1>4, <1>9, <2>1, PushSim
<1>11. VM!PushVsp(h)
  <2>1. (IF Gone THEN <<>> ELSE LiveStack) = LiveStack
    BY <1>10
  <2>2. VM!Vsp = CurrentVsp
    <3>1. Above - Len(LiveStack) = CurrentVsp
      BY LiveIs, SizesAssumption
    <3> QED  BY <2>1, <3>1 DEF VM!Vsp
  <2> QED  BY <1>1, <1>2, <1>7, <1>10, <2>1, <2>2, SameWords DEF VM!PushVsp
<1>12. VM!Next
  BY <1>11 DEF VM!Next
<1> QED  BY <1>10, <1>12 DEF Simulates

(* What a handler reads from a register, promised or not.                  *)
LEMMA RegisterIs ==
  ASSUME Regular, RInv, NEW h \in Handlers, Legal(h), h.op \in {"Pop", "PushReg"},
         NEW v, v = IF h.arg \in DOMAIN flagCalculators THEN FlagsOf(flagCalculators[h.arg])
                    ELSE SubSeq(virtualContext, h.arg + 1, h.arg + h.d)
  PROVE  /\ v \in Seq(Byte) /\ Len(v) = h.d
         /\ v = SubSeq(LiveContext, h.arg + 1, h.arg + h.d)
         /\ h.arg \in DOMAIN flagCalculators => h.d = 8
<1>1. PICK a, d : /\ a = h.arg /\ d = h.d /\ a \in Nat /\ d \in {1, 2, 4, 8} /\ d \in Nat
                  /\ a + d <= ContextSize
  BY OpsAre DEF WholeWords
<1>2. \A key \in DOMAIN flagCalculators :
        a + d > key /\ a < key + PtrSize => a = key /\ d = PtrSize
  BY <1>1 DEF Legal, Disciplined, Regular, Assumptions
<1>3. ContextInv(virtualContext, flagCalculators)
  BY DEF RInv
<1>4. PICK c : c = LiveContext
  OBVIOUS
<1>5. /\ c \in Seq(Byte) /\ Len(c) = ContextSize
      /\ \A key \in DOMAIN flagCalculators : \A k \in 1..PtrSize :
           c[key + k] = FlagsOf(flagCalculators[key])[k]
      /\ \A x \in 1..ContextSize :
           (\A key \in DOMAIN flagCalculators : x \notin (key + 1)..(key + PtrSize)) =>
             c[x] = virtualContext[x]
  BY <1>3, <1>4, LiveContextIs, ContextIs
<1>6. PICK r : r = SubSeq(c, a + 1, a + d)
  OBVIOUS
<1>7. r \in Seq(Byte) /\ Len(r) = d /\ \A k \in 1..d : r[k] = c[a + k]
  <2>1. c \in Seq(Byte) /\ a \in Nat /\ d \in Nat /\ a + d <= Len(c)
    BY <1>1, <1>5
  <2>2. /\ SubSeq(c, a + 1, a + d) \in Seq(Byte) /\ Len(SubSeq(c, a + 1, a + d)) = d
        /\ \A k \in 1..d : SubSeq(c, a + 1, a + d)[k] = c[a + k]
    BY <2>1, RangeIs
  <2> QED  BY <1>6, <2>2
<1>8. \A key \in DOMAIN flagCalculators : key \in Nat /\ flagCalculators[key] \in Nat
  BY <1>3 DEF ContextInv, Keys
<1>9. ContextSize \in Nat /\ PtrSize = 8
  BY SizesAssumption DEF PtrSize
<1>10. CASE a \in DOMAIN flagCalculators
  <2>1. d = 8
    BY <1>1, <1>2, <1>9, <1>10
  <2>2. PICK f : f = FlagsOf(flagCalculators[a])
    OBVIOUS
  <2>3. f \in Seq(Byte) /\ Len(f) = 8
    <3>1. PICK n : n = flagCalculators[a] /\ n \in Int
      BY <1>8, <1>10
    <3>2. 8 \in Nat
      OBVIOUS
    <3> QED  BY <1>9, <2>2, <3>1, <3>2, WordIs, ZenonT(80) DEF FlagsOf
  <2>4. \A k \in 1..8 : r[k] = f[k]
    BY <1>5, <1>7, <1>9, <1>10, <2>1, <2>2
  <2>5. r = f
    BY <1>7, <2>1, <2>3, <2>4, SeqEqual
  <2>6. v = f
    BY <1>1, <1>10, <2>2
  <2> QED  BY <1>1, <1>4, <1>6, <1>7, <2>1, <2>5, <2>6
<1>11. CASE a \notin DOMAIN flagCalculators
  <2>1. PICK m : m = SubSeq(virtualContext, a + 1, a + d)
    OBVIOUS
  <2>2. m \in Seq(Byte) /\ Len(m) = d /\ \A k \in 1..d : m[k] = virtualContext[a + k]
    <3>1. PICK x : x = virtualContext
      OBVIOUS
    <3>2. x \in Seq(Byte) /\ a + d <= Len(x) /\ a \in Nat /\ d \in Nat
      BY <1>1, <1>3, <3>1 DEF ContextInv
    <3>3. /\ SubSeq(x, a + 1, a + d) \in Seq(Byte) /\ Len(SubSeq(x, a + 1, a + d)) = d
          /\ \A k \in 1..d : SubSeq(x, a + 1, a + d)[k] = x[a + k]
      BY <3>2, RangeIs
    <3> QED  BY <2>1, <3>1, <3>3
  <2>3. ASSUME NEW k \in 1..d PROVE r[k] = m[k]
    <3>1. PICK x : x = a + k /\ x \in 1..ContextSize /\ x <= a + d /\ x > a
      <4>1. a \in Nat /\ d \in Nat /\ ContextSize \in Nat /\ a + d <= ContextSize
        BY <1>1, <1>9
      <4>2. k \in Nat /\ k >= 1 /\ k <= d
        BY <4>1
      <4>3. a + k \in 1..ContextSize /\ a + k <= a + d /\ a + k > a
        BY <4>1, <4>2
      <4> QED  BY <4>3
    <3>2. ASSUME NEW key \in DOMAIN flagCalculators, x \in (key + 1)..(key + PtrSize) PROVE FALSE
      <4>1. key \in Nat /\ key < x /\ x <= key + PtrSize
        BY <1>8, <1>9, <3>2
      <4>2. a + d > key /\ a < key + PtrSize
        BY <1>1, <1>9, <3>1, <4>1
      <4>3. a = key
        BY <1>2, <4>2
      <4> QED  BY <1>11, <4>3
    <3>3. c[x] = virtualContext[x]
      BY <1>5, <3>1, <3>2
    <3> QED  BY <1>7, <2>2, <3>1, <3>3
  <2>4. r = m
    BY <1>7, <2>2, <2>3, SeqEqual
  <2>5. v = m
    BY <1>1, <1>11, <2>1
  <2> QED  BY <1>1, <1>4, <1>6, <1>7, <1>11, <2>4, <2>5
<1> QED  BY <1>10, <1>11

(* A handler that stops the lifter is no step of the machine.              *)
LEMMA StopSim ==
  ASSUME RInv, IInv', status = "ok", NEW error, Stop(error)
  PROVE  Simulates
<1>1. /\ status' = error /\ error \in {"strange", "null", "badIR"}
      /\ UNCHANGED <<stackOffset, shadowStack, flagCalculators, stackArray,
                     virtualContext, inBlock, vspAfter, pos, executed>>
  BY DEF Stop
<1>2. ~Gone /\ ~Gone'
  BY <1>1 DEF Gone
<1>3. LiveStack' = LiveStack
  BY <1>1 DEF LiveStack, Load
<1>4. UNCHANGED (IF Gone THEN <<>> ELSE LiveStack)
  BY <1>2, <1>3
<1>5. UNCHANGED (IF Gone THEN <<>> ELSE LiveContext) /\ UNCHANGED ~Gone
  BY <1>1, <1>2, ContextStays DEF SameContext
<1>6. UNCHANGED VM!vars
  BY <1>1, <1>4, <1>5 DEF VM!vars
<1>7. RInv'
  <2>1. CountersInv'
    BY <1>1 DEF RInv, CountersInv
  <2>2. ContextInv(virtualContext', flagCalculators')
    BY <1>1 DEF RInv
  <2>3. StackInv(shadowStack', stackOffset', stackArray')
    BY <1>1 DEF RInv
  <2>4. status' # "ok"
    BY <1>1
  <2> QED  BY <2>1, <2>2, <2>3, <2>4 DEF RInv
<1> QED  BY <1>6, <1>7 DEF Simulates

LEMMA BlockSim ==
  ASSUME RInv, IInv', LiftBasicBlock
  PROVE  Simulates
<1>1. /\ status = "ok" /\ ~inBlock /\ inBlock' = TRUE /\ shadowStack' = <<>>
      /\ UNCHANGED <<stackOffset, flagCalculators, stackArray, virtualContext,
                     vspAfter, pos, executed, status>>
  BY DEF LiftBasicBlock
<1>2. shadowStack = <<>>
  BY <1>1 DEF RInv
<1>3. UNCHANGED shadowStack
  BY <1>1, <1>2
<1>4. ~Gone /\ ~Gone'
  BY <1>1 DEF Gone
<1>5. LiveStack' = LiveStack /\ CurrentVsp' = CurrentVsp
  BY <1>1, <1>3 DEF LiveStack, Load, CurrentVsp
<1>6. UNCHANGED (IF Gone THEN <<>> ELSE LiveStack)
  BY <1>4, <1>5
<1>7. UNCHANGED (IF Gone THEN <<>> ELSE LiveContext) /\ UNCHANGED ~Gone
  BY <1>1, <1>4, ContextStays DEF SameContext
<1>8. UNCHANGED VM!vars
  BY <1>1, <1>6, <1>7 DEF VM!vars
<1>9. RInv'
  <2>1. CountersInv'
    BY <1>1 DEF RInv, CountersInv
  <2>2. ContextInv(virtualContext', flagCalculators')
    BY <1>1 DEF RInv
  <2>3. StackInv(shadowStack', stackOffset', stackArray')
    BY <1>1, <1>3 DEF RInv
  <2>4. CurrentVsp' = vspAfter' /\ inBlock'
    BY <1>1, <1>5 DEF RInv
  <2> QED  BY <2>1, <2>2, <2>3, <2>4 DEF RInv
<1> QED  BY <1>8, <1>9 DEF Simulates

LEMMA PushRegSim ==
  ASSUME Regular, RInv, IInv', NEW h \in Handlers, LiftVmPushReg(h)
  PROVE  Simulates
<1>1. Starts(h, "PushReg") /\ h.op = "PushReg" /\ status = "ok" /\ Legal(h)
  BY DEF LiftVmPushReg, Starts
<1>2. PICK n, v : /\ n = StackDepth(h.d)
                  /\ v = IF h.arg \in DOMAIN flagCalculators THEN FlagsOf(flagCalculators[h.arg])
                         ELSE SubSeq(virtualContext, h.arg + 1, h.arg + h.d)
  OBVIOUS
<1>3. PICK w : w = IF h.d = 1 THEN ZeroExtend(v, n) ELSE v
  OBVIOUS
<1>4. PICK s : s = ValueSlot(w, n)
  OBVIOUS
<1>5. \/ Stop("badIR")
      \/ /\ Emit(h, Append(shadowStack, s), stackOffset, <<v>>)
         /\ UNCHANGED <<flagCalculators, stackArray, virtualContext, inBlock, status>>
  BY <1>2, <1>3, <1>4 DEF LiftVmPushReg
<1>6. CASE Stop("badIR")
  BY <1>1, <1>6, StopSim
<1>7. CASE /\ Emit(h, Append(shadowStack, s), stackOffset, <<v>>)
           /\ UNCHANGED <<flagCalculators, stackArray, virtualContext, inBlock, status>>
  <2>1. n \in {2, 4, 8} /\ h.d \in Nat /\ h.d <= n /\ (h.d # 1 => n = h.d)
    BY <1>2, OpsAre
  <2>2. v \in Seq(Byte) /\ Len(v) = h.d /\ v = SubSeq(LiveContext, h.arg + 1, h.arg + h.d)
    BY <1>1, <1>2, RegisterIs
  <2>3. w = ZeroExtend(v, n)
    <3>1. v \in Seq(Byte) /\ n \in Int
      BY <2>1, <2>2
    <3>2. n <= Len(v) => ZeroExtend(v, n) = v
      BY <3>1, ExtendIs
    <3>3. h.d # 1 => n <= Len(v)
      BY <2>1, <2>2
    <3> QED  BY <1>3, <3>2, <3>3
  <2>4. w \in Seq(Byte) /\ Len(w) = n
    <3>1. v \in Seq(Byte) /\ n \in Int
      BY <2>1, <2>2
    <3>2. Len(v) <= n => ZeroExtend(v, n) \in Seq(Byte) /\ Len(ZeroExtend(v, n)) = n
      BY <3>1, ExtendIs
    <3>3. Len(v) <= n
      BY <2>1, <2>2
    <3> QED  BY <2>3, <3>2, <3>3
  <2>5. Fits(s) /\ s.flagsPromise = NoPromise /\ s.depth = n /\ s.value = w
    <3>1. Len(w) > 0
      BY <2>1, <2>4
    <3> QED  BY <1>4, <2>4, <3>1, ValueSlotFits
  <2>6. /\ RInv' /\ VM!Step(h, 0, w \o LiveStack, <<v>>) /\ ~Gone /\ ~Gone'
        /\ UNCHANGED (IF Gone THEN <<>> ELSE LiveContext) /\ UNCHANGED ~Gone
    <3>1. Starts(h, h.op) /\ h.op \in {"PushReg", "PushConst", "PushVsp"} /\ s.depth = StackDepth(h.d)
      BY <1>1, <1>2, <2>5
    <3> QED  BY <1>7, <2>5, <3>1, PushSim
  <2>7. VM!PushReg(h)
    <3>1. (IF Gone THEN <<>> ELSE LiveStack) = LiveStack
      BY <2>6
    <3>2. (IF Gone THEN <<>> ELSE LiveContext) = LiveContext
      BY <2>6
    <3> QED  BY <1>1, <1>2, <2>2, <2>3, <2>6, <3>1, <3>2, SameWords DEF VM!PushReg
  <2>8. VM!Next
    BY <2>7 DEF VM!Next
  <2> QED  BY <2>6, <2>8 DEF Simulates
<1> QED  BY <1>5, <1>6, <1>7

(* What ContextIs says, byte by byte.                                      *)
IsContext(whole, context, calculators) ==
  /\ \A key \in DOMAIN calculators : \A x \in (key + 1)..(key + PtrSize) :
       whole[x] = FlagsOf(calculators[key])[x - key]
  /\ \A x \in 1..ContextSize :
       (\A key \in DOMAIN calculators : x \notin (key + 1)..(key + PtrSize)) =>
         whole[x] = context[x]

LEMMA ContextBytes ==
  ASSUME NEW context, NEW calculators, ContextInv(context, calculators),
         NEW whole, whole = ContextOf(context, calculators)
  PROVE  /\ IsContext(whole, context, calculators)
         /\ whole \in Seq(Byte) /\ Len(whole) = ContextSize /\ DOMAIN whole = 1..ContextSize
<1>1. /\ whole \in Seq(Byte) /\ Len(whole) = ContextSize
      /\ \A key \in DOMAIN calculators : \A k \in 1..PtrSize :
           whole[key + k] = FlagsOf(calculators[key])[k]
      /\ \A x \in 1..ContextSize :
           (\A key \in DOMAIN calculators : x \notin (key + 1)..(key + PtrSize)) =>
             whole[x] = context[x]
  BY ContextIs
<1>2. ASSUME NEW key \in DOMAIN calculators, NEW x \in (key + 1)..(key + PtrSize)
      PROVE  whole[x] = FlagsOf(calculators[key])[x - key]
  <2>1. key \in Int /\ PtrSize = 8
    BY DEF ContextInv, Keys, PtrSize
  <2>2. x - key \in 1..PtrSize /\ key + (x - key) = x
    BY <2>1
  <2> QED  BY <1>1, <2>2
<1>3. DOMAIN whole = 1..ContextSize
  BY <1>1, LenProperties
<1> QED  BY <1>1, <1>2, <1>3 DEF IsContext

(* The bytes that a pop writes into the register file.                     *)
Target(arg, d) ==
  /\ arg \in Nat /\ d \in {1, 2, 4, 8} /\ arg + d <= ContextSize /\ (d = 8 => arg % 8 = 0)
Whole(calculators, arg, d) ==
  \A key \in DOMAIN calculators :
    arg + d > key /\ arg < key + PtrSize => key = arg /\ d = 8
Replaced(whole, arg, d, v) ==
  [x \in DOMAIN whole |-> IF x \in (arg + 1)..(arg + d) THEN v[x - arg] ELSE whole[x]]
Without(calculators, arg) ==
  [key \in DOMAIN calculators \ {(arg \div PtrSize) * PtrSize} |-> calculators[key]]
With(calculators, arg, n) ==
  [key \in DOMAIN Without(calculators, arg) \cup {arg} |->
     IF key = arg THEN n ELSE Without(calculators, arg)[key]]

(* A pop erases at most the promise that it overwrites.                    *)
LEMMA WithoutIs ==
  ASSUME NEW context, NEW calculators, ContextInv(context, calculators),
         NEW arg, NEW d, Target(arg, d), Whole(calculators, arg, d)
  PROVE  /\ DOMAIN Without(calculators, arg) = DOMAIN calculators \ {arg}
         /\ \A key \in DOMAIN calculators \ {arg} :
              /\ Without(calculators, arg)[key] = calculators[key]
              /\ \A x \in (key + 1)..(key + PtrSize) : x \notin (arg + 1)..(arg + d)
         /\ arg \in DOMAIN calculators => d = 8
<1>1. /\ arg \in Nat /\ d \in Nat \ {0} /\ d \in Int /\ PtrSize = 8
      /\ \A key \in DOMAIN calculators : key \in Nat /\ key % 8 = 0
  BY DEF Target, ContextInv, Keys, PtrSize
<1>2. PICK register : register = (arg \div 8) * 8 /\ register \in Nat
  BY <1>1
<1>3. register <= arg /\ arg < register + 8
  BY <1>1, <1>2
<1>4. register \in DOMAIN calculators => register = arg
  <2>1. arg + d > register /\ arg < register + PtrSize
    BY <1>1, <1>2, <1>3
  <2> QED  BY <2>1 DEF Whole
<1>5. arg \in DOMAIN calculators => register = arg /\ d = 8
  <2>1. SUFFICES ASSUME arg \in DOMAIN calculators PROVE register = arg /\ d = 8
    OBVIOUS
  <2>2. arg % 8 = 0
    BY <1>1, <2>1
  <2>3. register = arg
    BY <1>1, <1>2, <2>2
  <2>4. arg + d > arg /\ arg < arg + PtrSize
    BY <1>1
  <2> QED  BY <2>1, <2>3, <2>4 DEF Whole
<1>6. DOMAIN calculators \ {register} = DOMAIN calculators \ {arg}
  BY <1>4, <1>5
<1>7. ASSUME NEW key \in DOMAIN calculators \ {arg}, NEW x \in (key + 1)..(key + PtrSize),
             x \in (arg + 1)..(arg + d)
      PROVE  FALSE
  <2>1. key \in Nat /\ x \in Int /\ x > key /\ x <= key + 8 /\ x > arg /\ x <= arg + d
    BY <1>1, <1>7
  <2>2. arg + d > key /\ arg < key + PtrSize
    BY <1>1, <2>1
  <2> QED  BY <2>2 DEF Whole
<1> QED  BY <1>1, <1>2, <1>5, <1>6, <1>7 DEF Without

(* A value in a register takes the place of the bytes that were there.     *)
LEMMA ValueInContext ==
  ASSUME NEW context, NEW calculators, ContextInv(context, calculators),
         NEW arg, NEW d, Target(arg, d), Whole(calculators, arg, d),
         NEW v, v \in Seq(Byte), Len(v) = d,
         NEW new, new = Replaced(context, arg, d, v)
  PROVE  /\ ContextInv(new, Without(calculators, arg))
         /\ ContextOf(new, Without(calculators, arg))
              = Replaced(ContextOf(context, calculators), arg, d, v)
<1>1. PICK kept, old, whole :
        /\ kept = Without(calculators, arg) /\ old = ContextOf(context, calculators)
        /\ whole = ContextOf(new, kept)
  OBVIOUS
<1>2. /\ DOMAIN kept = DOMAIN calculators \ {arg}
      /\ \A key \in DOMAIN kept :
           /\ key \in DOMAIN calculators /\ kept[key] = calculators[key]
           /\ \A x \in (key + 1)..(key + PtrSize) : x \notin (arg + 1)..(arg + d)
      /\ arg \in DOMAIN calculators => d = 8
  <2>1. /\ DOMAIN Without(calculators, arg) = DOMAIN calculators \ {arg}
        /\ \A key \in DOMAIN calculators \ {arg} :
             /\ Without(calculators, arg)[key] = calculators[key]
             /\ \A x \in (key + 1)..(key + PtrSize) : x \notin (arg + 1)..(arg + d)
        /\ arg \in DOMAIN calculators => d = 8
    BY WithoutIs
  <2> QED  BY <1>1, <2>1
<1>3. arg \in Nat /\ d \in Nat /\ PtrSize = 8 /\ ContextSize \in Nat /\ arg + d <= ContextSize
  BY SizesAssumption DEF Target, PtrSize
<1>4. context \in Seq(Byte) /\ Len(context) = ContextSize /\ DOMAIN context = 1..ContextSize
  BY LenProperties DEF ContextInv
<1>5. /\ DOMAIN new = 1..ContextSize
      /\ \A x \in 1..ContextSize :
           new[x] = IF x \in (arg + 1)..(arg + d) THEN v[x - arg] ELSE context[x]
  BY <1>4 DEF Replaced
<1>6. new \in Seq(Byte) /\ Len(new) = ContextSize
  <2>1. ASSUME NEW x \in 1..ContextSize PROVE new[x] \in Byte
    <3>1. CASE x \in (arg + 1)..(arg + d)
      <4>1. x - arg \in 1..Len(v)
        BY <1>3, <3>1
      <4>2. v[x - arg] \in Byte
        BY <4>1, ElementOfSeq
      <4> QED  BY <1>5, <3>1, <4>2
    <3>2. CASE x \notin (arg + 1)..(arg + d)
      <4>1. context[x] \in Byte
        BY <1>4, ElementOfSeq
      <4> QED  BY <1>5, <3>2, <4>1
    <3> QED  BY <3>1, <3>2
  <2>2. new = [x \in 1..ContextSize |-> new[x]]
    BY <1>4, <1>5 DEF Replaced
  <2> QED  BY <1>3, <2>1, <2>2
<1>7. ContextInv(new, kept)
  BY <1>2, <1>6 DEF ContextInv
<1>8. IsContext(whole, new, kept) /\ DOMAIN whole = 1..ContextSize
  BY <1>1, <1>7, ContextBytes
<1>9. IsContext(old, context, calculators) /\ DOMAIN old = 1..ContextSize
  BY <1>1, ContextBytes
<1>10. ASSUME NEW x \in 1..ContextSize
       PROVE  whole[x] = IF x \in (arg + 1)..(arg + d) THEN v[x - arg] ELSE old[x]
  <2>1. CASE x \in (arg + 1)..(arg + d)
    <3>1. \A key \in DOMAIN kept : x \notin (key + 1)..(key + PtrSize)
      BY <1>2, <2>1
    <3> QED  BY <1>5, <1>8, <2>1, <3>1 DEF IsContext
  <2>2. CASE x \notin (arg + 1)..(arg + d)
    <3>1. CASE \E key \in DOMAIN kept : x \in (key + 1)..(key + PtrSize)
      <4>1. PICK key \in DOMAIN kept : x \in (key + 1)..(key + PtrSize)
        BY <3>1
      <4>2. whole[x] = FlagsOf(kept[key])[x - key]
        BY <1>8, <4>1 DEF IsContext
      <4>3. old[x] = FlagsOf(calculators[key])[x - key]
        BY <1>2, <1>9, <4>1 DEF IsContext
      <4> QED  BY <1>2, <2>2, <4>2, <4>3
    <3>2. CASE \A key \in DOMAIN kept : x \notin (key + 1)..(key + PtrSize)
      <4>1. whole[x] = new[x]
        BY <1>8, <3>2 DEF IsContext
      <4>2. ASSUME NEW key \in DOMAIN calculators PROVE x \notin (key + 1)..(key + PtrSize)
        <5>1. CASE key = arg
          BY <1>2, <1>3, <2>2, <5>1
        <5>2. CASE key # arg
          BY <1>2, <3>2, <5>2
        <5> QED  BY <5>1, <5>2
      <4>3. old[x] = context[x]
        BY <1>9, <4>2 DEF IsContext
      <4> QED  BY <1>5, <2>2, <4>1, <4>3
    <3> QED  BY <3>1, <3>2
  <2> QED  BY <2>1, <2>2
<1>11. whole = Replaced(old, arg, d, v)
  <2>1. whole = [x \in 1..ContextSize |-> whole[x]]
    BY <1>1 DEF ContextOf
  <2> QED  BY <1>9, <1>10, <2>1 DEF Replaced
<1> QED  BY <1>1, <1>7, <1>11

(* A promise in a register stands for the flags.                           *)
LEMMA PromiseInContext ==
  ASSUME NEW context, NEW calculators, ContextInv(context, calculators),
         NEW arg, Target(arg, 8), Whole(calculators, arg, 8), NEW n \in 1..MaxLength
  PROVE  /\ ContextInv(context, With(calculators, arg, n))
         /\ ContextOf(context, With(calculators, arg, n))
              = Replaced(ContextOf(context, calculators), arg, 8, FlagsOf(n))
<1>1. PICK kept, old, promise, whole :
        /\ kept = Without(calculators, arg) /\ old = ContextOf(context, calculators)
        /\ promise = With(calculators, arg, n) /\ whole = ContextOf(context, promise)
  OBVIOUS
<1>2. /\ DOMAIN kept = DOMAIN calculators \ {arg}
      /\ \A key \in DOMAIN kept :
           /\ key \in DOMAIN calculators /\ kept[key] = calculators[key]
           /\ \A x \in (key + 1)..(key + PtrSize) : x \notin (arg + 1)..(arg + 8)
  <2>1. /\ DOMAIN Without(calculators, arg) = DOMAIN calculators \ {arg}
        /\ \A key \in DOMAIN calculators \ {arg} :
             /\ Without(calculators, arg)[key] = calculators[key]
             /\ \A x \in (key + 1)..(key + PtrSize) : x \notin (arg + 1)..(arg + 8)
    BY WithoutIs
  <2> QED  BY <1>1, <2>1
<1>3. /\ DOMAIN promise = DOMAIN calculators \cup {arg} /\ promise[arg] = n
      /\ \A key \in DOMAIN kept : promise[key] = calculators[key]
  BY <1>1, <1>2 DEF With
<1>4. arg \in Nat /\ PtrSize = 8 /\ ContextSize \in Nat /\ arg + 8 <= ContextSize /\ arg % 8 = 0
  BY SizesAssumption DEF Target, PtrSize
<1>5. ContextInv(context, promise)
  <2>1. arg \in Keys
    BY <1>4 DEF Keys
  <2> QED  BY <1>2, <1>3, <2>1 DEF ContextInv
<1>6. IsContext(whole, context, promise) /\ DOMAIN whole = 1..ContextSize
  BY <1>1, <1>5, ContextBytes
<1>7. IsContext(old, context, calculators) /\ DOMAIN old = 1..ContextSize
  BY <1>1, ContextBytes
<1>8. ASSUME NEW x \in 1..ContextSize
      PROVE  whole[x] = IF x \in (arg + 1)..(arg + 8) THEN FlagsOf(n)[x - arg] ELSE old[x]
  <2>1. CASE x \in (arg + 1)..(arg + 8)
    BY <1>3, <1>4, <1>6, <2>1 DEF IsContext
  <2>2. CASE x \notin (arg + 1)..(arg + 8)
    <3>1. CASE \E key \in DOMAIN kept : x \in (key + 1)..(key + PtrSize)
      <4>1. PICK key \in DOMAIN kept : x \in (key + 1)..(key + PtrSize)
        BY <3>1
      <4>2. whole[x] = FlagsOf(promise[key])[x - key]
        BY <1>2, <1>3, <1>6, <4>1 DEF IsContext
      <4>3. old[x] = FlagsOf(calculators[key])[x - key]
        BY <1>2, <1>7, <4>1 DEF IsContext
      <4> QED  BY <1>3, <2>2, <4>2, <4>3
    <3>2. CASE \A key \in DOMAIN kept : x \notin (key + 1)..(key + PtrSize)
      <4>1. ASSUME NEW key \in DOMAIN promise PROVE x \notin (key + 1)..(key + PtrSize)
        <5>1. CASE key = arg
          BY <1>4, <2>2, <5>1
        <5>2. CASE key # arg
          BY <1>2, <1>3, <3>2, <5>2
        <5> QED  BY <5>1, <5>2
      <4>2. whole[x] = context[x]
        BY <1>6, <4>1 DEF IsContext
      <4>3. \A key \in DOMAIN calculators : x \notin (key + 1)..(key + PtrSize)
        BY <1>3, <4>1
      <4>4. old[x] = context[x]
        BY <1>7, <4>3 DEF IsContext
      <4> QED  BY <2>2, <4>2, <4>4
    <3> QED  BY <3>1, <3>2
  <2> QED  BY <2>1, <2>2
<1>9. whole = Replaced(old, arg, 8, FlagsOf(n))
  <2>1. whole = [x \in 1..ContextSize |-> whole[x]]
    BY <1>1 DEF ContextOf
  <2> QED  BY <1>7, <1>8, <2>1 DEF Replaced
<1> QED  BY <1>1, <1>5, <1>9

(* A handler that leaves live on the shadow stack sh and its array, in one *)
(* step of the machine that takes and leaves as many bytes.                *)
LEMMA EmitSim ==
  ASSUME Regular, RInv, IInv', NEW h \in Handlers, Starts(h, h.op),
         NEW sh, NEW off, NEW live, NEW consumed, Emit(h, sh, off, consumed),
         StackInv(sh, off, stackArray'), IsLive(live, sh, off, stackArray'),
         Len(live) = Len(LiveStack) - Popped(h) + Pushed(h),
         ContextInv(virtualContext', flagCalculators'), status' = "ok",
         inBlock' \in BOOLEAN, ~inBlock' => sh = <<>>
  PROVE  /\ RInv' /\ VM!Step(h, Popped(h), live, consumed)
         /\ (IF Gone THEN <<>> ELSE LiveStack) = LiveStack
         /\ (IF Gone THEN <<>> ELSE LiveContext) = LiveContext
         /\ (IF Gone THEN <<>> ELSE LiveContext)' = LiveContext'
         /\ UNCHANGED ~Gone
<1>1. PICK o, x, y, n, m, a : /\ o = off /\ x = ShadowDepth(sh) /\ y = Len(LiveStack)
                              /\ n = Popped(h) /\ m = Pushed(h) /\ a = Above
  OBVIOUS
<1>2. /\ Len(live) = x + (a - o) /\ x \in Nat /\ o \in Int /\ a \in Nat
  BY <1>1, LiveLen, SizesAssumption DEF StackInv
<1>3. n \in Nat /\ m \in Nat
  BY <1>1, TrafficNat
<1>4. y = a - CurrentVsp /\ CurrentVsp \in Int
  BY <1>1, LiveIs
<1>5. x + (a - o) = y - n + m
  BY <1>1, <1>2
<1>6. o - x = CurrentVsp + n - m
  BY <1>2, <1>3, <1>4, <1>5
<1>7. RInv'
  <2>1. status' \in {"ok", "exit"} /\ (status' = "ok" /\ ~inBlock' => sh = <<>>)
    OBVIOUS
  <2>2. status' = "ok" => off - ShadowDepth(sh) = CurrentVsp + Popped(h) - Pushed(h)
    BY <1>1, <1>6
  <2> QED  BY <2>1, <2>2, EmitInv
<1>8. VM!Step(h, Popped(h), live, consumed) /\ ~Gone /\ ~Gone'
  <2>1. Popped(h) \in Nat
    BY <1>1, <1>3
  <2> QED  BY <2>1, EmitStep
<1> QED  BY <1>7, <1>8

(* A pop of a promise takes its slot off.                                  *)
LEMMA PromisePop ==
  ASSUME NEW sh, NEW off, NEW live, FitStack(sh), Promising(sh), off \in Offsets,
         stackArray \in Arrays, IsLive(live, sh, off, stackArray),
         Len(sh) > 0, sh[Len(sh)].flagsPromise # NoPromise,
         NEW p, p = ShadowPop(sh, off, PtrSize)
  PROVE  /\ p.flagsPromise = sh[Len(sh)].flagsPromise /\ p.off = off
         /\ Plain(p.sh, off, stackArray, After(live, PtrSize))
         /\ PtrSize <= Len(live) /\ Trunc(live, PtrSize) = FlagsOf(p.flagsPromise)
<1>1. PICK n, top, rest : /\ n = Len(sh) /\ top = sh[n] /\ rest = SubSeq(sh, 1, n - 1)
                          /\ n \in Nat \ {0}
  <2>1. Len(sh) \in Nat /\ Len(sh) > 0
    BY FitLen
  <2>2. Len(sh) \in Nat \ {0}
    BY <2>1
  <2> QED  BY <2>2, Zenon
<1>2. Fits(top) /\ top.depth = PtrSize /\ PtrSize = 8 /\ sh # <<>>
  BY <1>1 DEF FitStack, Fits, PtrSize
<1>3. /\ p.flagsPromise = top.flagsPromise /\ p.off = off /\ p.sh = rest
  BY <1>1, <1>2 DEF ShadowPop, PopSlot
<1>4. /\ \A k \in 1..8 : live[k] = SlotBytes(top)[k]
      /\ ShadowDepth(sh) - Bottom(sh)[n - 1] = 8 /\ 8 <= ShadowDepth(sh)
  <2>1. /\ \A k \in 1..sh[Len(sh)].depth : live[k] = SlotBytes(sh[Len(sh)])[k]
        /\ ShadowDepth(sh) - Bottom(sh)[Len(sh) - 1] = sh[Len(sh)].depth
        /\ sh[Len(sh)].depth <= ShadowDepth(sh)
    BY <1>1, TopLive
  <2> QED  BY <1>1, <1>2, <2>1
<1>5. n - 1 \in 0..n
  BY <1>1
<1>6. IsLive(After(live, 8), rest, off, stackArray)
  <2>1. IsLive(After(live, ShadowDepth(sh) - Bottom(sh)[n - 1]), SubSeq(sh, 1, n - 1), off, stackArray)
    BY <1>1, <1>5, WholeLive
  <2> QED  BY <1>1, <1>4, <2>1
<1>7. FitStack(rest)
  BY <1>1, <1>5, PrefixFits
<1>8. NoPromises(rest)
  <2>1. \A i \in 1..(n - 1) : sh[i].flagsPromise = NoPromise
    BY <1>1 DEF Promising
  <2> QED  BY <1>1, <1>5, <2>1, PrefixPromises
<1>9. live \in Seq(Byte) /\ 8 <= Len(live)
  <2>1. /\ live \in Seq(Byte) /\ Len(live) = ShadowDepth(sh) + (Above - off)
        /\ Above - off \in Nat /\ ShadowDepth(sh) \in Nat
    BY LiveLen
  <2> QED  BY <1>4, <2>1
<1>10. Trunc(live, 8) = FlagsOf(top.flagsPromise)
  <2>1. PICK t, f : t = Trunc(live, 8) /\ f = SlotBytes(top)
    OBVIOUS
  <2>2. t \in Seq(Byte) /\ Len(t) = 8 /\ \A k \in 1..8 : t[k] = live[k]
    <3>1. 8 \in Nat
      OBVIOUS
    <3> QED  BY <1>9, <2>1, <3>1, TruncIs
  <2>3. f \in Seq(Byte) /\ Len(f) = 8 /\ f = FlagsOf(top.flagsPromise)
    BY <1>1, <1>2, <2>1, SlotBytesIs
  <2>4. t = f
    BY <1>4, <2>1, <2>2, <2>3, SeqEqual, SMTT(30)
  <2> QED  BY <2>1, <2>3, <2>4
<1> QED  BY <1>1, <1>2, <1>3, <1>6, <1>7, <1>8, <1>9, <1>10 DEF Plain

(* The two ways a pop can go: into the promises, or into the register file.*)
LEMMA PopSim ==
  ASSUME Regular, RInv, IInv', NEW h \in Handlers, LiftVmPop(h)
  PROVE  Simulates
<1>1. Starts(h, "Pop") /\ h.op = "Pop" /\ status = "ok" /\ Legal(h) /\ inBlock
  BY DEF LiftVmPop, Starts
<1>2. PICK arg, d, n, p, live, context, calculators :
        /\ arg = h.arg /\ d = h.d /\ n = StackDepth(d) /\ p = PopTop(n) /\ live = LiveStack
        /\ context = virtualContext /\ calculators = flagCalculators
  OBVIOUS
<1>3. PICK v : v = IF d = 1 THEN Trunc(p.value, 1) ELSE p.value
  OBVIOUS
<1>4. /\ p.err = "ok"
      /\ \/ /\ p.flagsPromise # NoPromise
            /\ flagCalculators' = With(calculators, arg, p.flagsPromise)
            /\ Emit(h, p.sh, p.off, <<FlagsOf(p.flagsPromise)>>)
            /\ UNCHANGED virtualContext
         \/ /\ p.flagsPromise = NoPromise
            /\ flagCalculators' = Without(calculators, arg)
            /\ virtualContext' = Replaced(context, arg, Len(v), v)
            /\ Emit(h, p.sh, p.off, <<v>>)
      /\ UNCHANGED <<stackArray, inBlock, status>>
  BY <1>2, <1>3 DEF LiftVmPop, With, Without, Erased, Replaced
<1>5. Target(arg, d) /\ d \in {1, 2, 4, 8} /\ n \in {2, 4, 8} /\ d <= n /\ (d # 1 => n = d)
  BY <1>1, <1>2, OpsAre DEF WholeWords, Target, PtrSize
<1>6. Whole(calculators, arg, d)
  BY <1>1, <1>2 DEF Legal, Disciplined, Regular, Assumptions, Whole, PtrSize
<1>7. ContextInv(context, calculators)
  BY <1>2 DEF RInv
<1>8. Popped(h) = n /\ Pushed(h) = 0
  BY <1>1, <1>2, Traffic
<1>9. /\ IsLive(live, shadowStack, stackOffset, stackArray) /\ live \in Seq(Byte)
      /\ Len(live) \in Nat /\ n <= Len(live)
  <2>1. n <= Above - CurrentVsp
    BY <1>1, <1>8 DEF Legal
  <2> QED  BY <1>2, <2>1, LiveIs
<1>10. ASSUME NEW bytes, bytes = Trunc(live, d), NEW sh, NEW off,
              Emit(h, sh, off, <<bytes>>), StackInv(sh, off, stackArray),
              IsLive(After(live, n), sh, off, stackArray),
              ContextInv(virtualContext', flagCalculators'),
              LiveContext' = Replaced(LiveContext, arg, d, bytes)
       PROVE  Simulates
  <2>1. PICK left : left = After(live, n)
    OBVIOUS
  <2>2. Len(left) = Len(live) - n + 0
    <3>1. n \in Nat
      BY <1>5
    <3>2. Len(After(live, n)) = Len(live) - n
      BY <1>9, <3>1, AfterIs
    <3> QED  BY <1>9, <2>1, <3>1, <3>2
  <2>3. Len(left) = Len(LiveStack) - Popped(h) + Pushed(h)
    BY <1>2, <1>8, <2>2
  <2>4. /\ Starts(h, h.op) /\ StackInv(sh, off, stackArray') /\ IsLive(left, sh, off, stackArray')
        /\ status' = "ok" /\ inBlock' \in BOOLEAN /\ inBlock'
    BY <1>1, <1>4, <1>10, <2>1 DEF RInv, CountersInv
  <2>5. /\ RInv' /\ VM!Step(h, Popped(h), left, <<bytes>>)
        /\ (IF Gone THEN <<>> ELSE LiveStack) = LiveStack
        /\ (IF Gone THEN <<>> ELSE LiveContext) = LiveContext
        /\ (IF Gone THEN <<>> ELSE LiveContext)' = LiveContext'
        /\ UNCHANGED ~Gone
    BY <1>10, <2>3, <2>4, EmitSim
  <2>6. VM!Step(h, n, SubSeq(LiveStack, n + 1, Len(LiveStack)), <<Trunc(LiveStack, d)>>)
    BY <1>2, <1>8, <1>10, <2>1, <2>5 DEF After
  <2>7. LiveContext' = [x \in DOMAIN LiveContext |->
                          IF x \in (h.arg + 1)..(h.arg + h.d)
                          THEN Trunc(LiveStack, h.d)[x - h.arg] ELSE LiveContext[x]]
    BY <1>2, <1>10 DEF Replaced
  <2>8. VM!Pop(h)
    BY <1>1, <1>2, <2>5, <2>6, <2>7, SameWords DEF VM!Pop, VM!Drop
  <2>9. VM!Next
    BY <2>8 DEF VM!Next
  <2> QED  BY <2>5, <2>9 DEF Simulates
<1>11. CASE Len(shadowStack) > 0 /\ shadowStack[Len(shadowStack)].flagsPromise # NoPromise
  <2>1. d = 8 /\ n = 8 /\ PtrSize = 8
    BY <1>1, <1>2, <1>5, <1>11 DEF Legal, Disciplined, Regular, Assumptions, PtrSize
  <2>2. /\ p.flagsPromise = shadowStack[Len(shadowStack)].flagsPromise /\ p.off = stackOffset
        /\ Plain(p.sh, stackOffset, stackArray, After(live, 8))
        /\ Trunc(live, 8) = FlagsOf(p.flagsPromise)
    <3>1. p = ShadowPop(shadowStack, stackOffset, PtrSize)
      BY <1>2, <2>1 DEF PopTop
    <3>2. StackInv(shadowStack, stackOffset, stackArray)
      BY DEF RInv
    <3> QED  BY <1>9, <1>11, <2>1, <3>1, <3>2, PromisePop DEF StackInv
  <2>3. p.flagsPromise # NoPromise
    BY <1>11, <2>2
  <2>4. PICK m : m = p.flagsPromise /\ m \in 1..MaxLength
    <3>1. /\ Len(shadowStack) \in Nat
          /\ \A i \in 1..Len(shadowStack) : shadowStack[i].flagsPromise \in 0..MaxLength
      BY FitLen DEF RInv, StackInv, Promising
    <3>2. p.flagsPromise \in 0..MaxLength
      BY <1>11, <2>2, <3>1
    <3> QED  BY <2>3, <3>2, SizesAssumption DEF NoPromise
  <2>5. /\ flagCalculators' = With(calculators, arg, m) /\ virtualContext' = context
        /\ Emit(h, p.sh, p.off, <<FlagsOf(m)>>)
    BY <1>2, <1>4, <2>3, <2>4
  <2>6. /\ ContextInv(context, With(calculators, arg, m))
        /\ ContextOf(context, With(calculators, arg, m))
             = Replaced(ContextOf(context, calculators), arg, 8, FlagsOf(m))
    BY <1>5, <1>6, <1>7, <2>1, <2>4, PromiseInContext
  <2>7. LiveContext' = Replaced(LiveContext, arg, d, FlagsOf(m))
    BY <1>2, <2>1, <2>5, <2>6, LiveContextIs
  <2>8. ContextInv(virtualContext', flagCalculators')
    BY <2>5, <2>6
  <2>9. StackInv(p.sh, p.off, stackArray) /\ IsLive(After(live, n), p.sh, p.off, stackArray)
    BY <2>1, <2>2, PlainPromising DEF Plain, StackInv
  <2>10. FlagsOf(m) = Trunc(live, d)
    BY <2>1, <2>2, <2>4
  <2> QED  BY <1>10, <2>5, <2>7, <2>8, <2>9, <2>10
<1>12. CASE ~(Len(shadowStack) > 0 /\ shadowStack[Len(shadowStack)].flagsPromise # NoPromise)
  <2>1. Plain(shadowStack, stackOffset, stackArray, live)
    <3>1. FitStack(shadowStack) /\ Len(shadowStack) \in Nat
      BY FitLen DEF RInv, StackInv
    <3>2. NoPromises(shadowStack)
      BY <1>12, <3>1 DEF NoPromises, RInv, StackInv, Promising
    <3> QED  BY <1>9, <3>2 DEF Plain, RInv, StackInv
  <2>2. Pops(p, shadowStack, stackOffset, stackArray, live, n)
    <3>1. n \in Nat /\ p = ShadowPop(shadowStack, stackOffset, n)
      BY <1>2, <1>5 DEF PopTop
    <3> QED  BY <1>4, <1>9, <2>1, <3>1, PopLive
  <2>3. /\ flagCalculators' = Without(calculators, arg)
        /\ virtualContext' = Replaced(context, arg, Len(v), v)
        /\ Emit(h, p.sh, p.off, <<v>>)
    BY <1>4, <2>2 DEF Pops
  <2>4. v = Trunc(live, d)
    <3>1. CASE d = 1
      <4>1. 1 \in Nat /\ 1 <= n /\ n \in Nat
        BY <1>5
      <4>2. SubSeq(SubSeq(live, 1, n), 1, 1) = SubSeq(live, 1, 1)
        BY <1>9, <4>1, TruncTrunc
      <4> QED  BY <1>3, <2>2, <3>1, <4>2 DEF Pops, Trunc
    <3>2. CASE d # 1
      BY <1>3, <1>5, <2>2, <3>2 DEF Pops
    <3> QED  BY <3>1, <3>2
  <2>5. v \in Seq(Byte) /\ Len(v) = d
    <3>1. d \in Nat /\ d <= Len(live)
      BY <1>5, <1>9
    <3> QED  BY <1>9, <2>4, <3>1, TruncIs
  <2>6. PICK new : new = Replaced(context, arg, d, v)
    OBVIOUS
  <2>7. /\ ContextInv(new, Without(calculators, arg))
        /\ ContextOf(new, Without(calculators, arg))
             = Replaced(ContextOf(context, calculators), arg, d, v)
    BY <1>5, <1>6, <1>7, <2>5, <2>6, ValueInContext
  <2>8. virtualContext' = new
    BY <2>3, <2>5, <2>6
  <2>9. LiveContext' = Replaced(LiveContext, arg, d, v)
    BY <1>2, <2>3, <2>7, <2>8, LiveContextIs
  <2>10. ContextInv(virtualContext', flagCalculators')
    BY <2>3, <2>7, <2>8
  <2>11. StackInv(p.sh, p.off, stackArray) /\ IsLive(After(live, n), p.sh, p.off, stackArray)
    BY <2>1, <2>2, PlainPromising DEF Plain, StackInv, Pops
  <2> QED  BY <1>10, <2>3, <2>4, <2>9, <2>10, <2>11
<1> QED  BY <1>11, <1>12

-----------------------------------------------------------------------------
LEMMA ConcatAssoc ==
  ASSUME NEW S, NEW a \in Seq(S), NEW b \in Seq(S), NEW c \in Seq(S)
  PROVE  (a \o b) \o c = a \o (b \o c)
<1>1. PICK l, m, n : /\ l = Len(a) /\ m = Len(b) /\ n = Len(c)
                     /\ l \in Nat /\ m \in Nat /\ n \in Nat
  BY LenProperties, Zenon
<1>2. PICK ab, bc : ab = a \o b /\ bc = b \o c
  OBVIOUS
<1>3. ab \in Seq(S) /\ Len(ab) = l + m
  BY <1>1, <1>2, ConcatAt
<1>4. bc \in Seq(S) /\ Len(bc) = m + n
  BY <1>1, <1>2, ConcatAt
<1>5. \A k \in 1..l : ab[k] = a[k]
  BY <1>1, <1>2, ConcatAt
<1>6. \A k \in 1..m : ab[l + k] = b[k] /\ bc[k] = b[k]
  BY <1>1, <1>2, ConcatAt
<1>7. \A k \in 1..n : bc[m + k] = c[k]
  BY <1>1, <1>2, ConcatAt
<1>8. PICK x, y : x = ab \o c /\ y = a \o bc
  OBVIOUS
<1>9. /\ x \in Seq(S) /\ Len(x) = (l + m) + n
      /\ \A k \in 1..(l + m) : x[k] = ab[k]
      /\ \A k \in 1..n : x[(l + m) + k] = c[k]
  <2>1. /\ ab \o c \in Seq(S) /\ Len(ab \o c) = Len(ab) + Len(c)
        /\ \A k \in 1..Len(ab) : (ab \o c)[k] = ab[k]
        /\ \A k \in 1..Len(c) : (ab \o c)[Len(ab) + k] = c[k]
    <3>1. ab \in Seq(S)
      BY <1>3
    <3> QED  BY <3>1, ConcatAt
  <2> QED  BY <1>1, <1>3, <1>8, <2>1
<1>10. /\ y \in Seq(S) /\ Len(y) = l + (m + n)
       /\ \A k \in 1..l : y[k] = a[k]
       /\ \A k \in 1..(m + n) : y[l + k] = bc[k]
  <2>1. /\ a \o bc \in Seq(S) /\ Len(a \o bc) = Len(a) + Len(bc)
        /\ \A k \in 1..Len(a) : (a \o bc)[k] = a[k]
        /\ \A k \in 1..Len(bc) : (a \o bc)[Len(a) + k] = bc[k]
    BY <1>4, ConcatAt
  <2> QED  BY <1>1, <1>4, <1>8, <2>1
<1>11. ASSUME NEW k \in 1..((l + m) + n) PROVE x[k] = y[k]
  <2>1. k \in Nat /\ k >= 1 /\ k <= (l + m) + n
    BY <1>1
  <2>2. CASE k <= l
    <3>1. k \in 1..l /\ k \in 1..(l + m)
      BY <1>1, <2>1, <2>2
    <3> QED  BY <1>5, <1>9, <1>10, <3>1
  <2>3. CASE k > l /\ k <= l + m
    <3>1. PICK i : i = k - l /\ i \in 1..m /\ i \in 1..(m + n) /\ k = l + i /\ k \in 1..(l + m)
      BY <1>1, <2>1, <2>3
    <3> QED  BY <1>6, <1>9, <1>10, <3>1
  <2>4. CASE k > l + m
    <3>1. PICK i : i = k - (l + m) /\ i \in 1..n /\ m + i \in 1..(m + n)
                   /\ k = (l + m) + i /\ k = l + (m + i)
      BY <1>1, <2>1, <2>4, SMTT(30)
    <3> QED  BY <1>7, <1>9, <1>10, <3>1, SMTT(30)
  <2> QED  BY <1>1, <2>1, <2>2, <2>3, <2>4
<1>12. Len(x) = Len(y) /\ Len(x) = (l + m) + n
  BY <1>1, <1>9, <1>10
<1>13. x = y
  BY <1>9, <1>10, <1>11, <1>12, SeqEqual
<1> QED  BY <1>2, <1>8, <1>13

(* Pops that follow each other.                                            *)
LEMMA PopsPlain ==
  ASSUME NEW p, NEW sh, NEW off, NEW array, NEW live, NEW d, Pops(p, sh, off, array, live, d),
         array \in Arrays
  PROVE  Plain(p.sh, p.off, array, After(live, d))
  BY DEF Pops, Plain

LEMMA UnderIs ==
  ASSUME NEW live \in Seq(Byte), NEW a \in Nat, NEW b \in Nat, a + b <= Len(live)
  PROVE  /\ Trunc(After(live, a), b) = SubSeq(live, a + 1, a + b)
         /\ SubSeq(live, a + 1, a + b) \in Seq(Byte) /\ Len(SubSeq(live, a + 1, a + b)) = b
<1>1. PICK rest, u : rest = After(live, a) /\ u = SubSeq(live, a + 1, a + b)
  OBVIOUS
<1>2. Len(live) \in Nat /\ a <= Len(live)
  BY LenProperties
<1>3. /\ rest \in Seq(Byte) /\ Len(rest) = Len(live) - a
      /\ \A k \in 1..(Len(live) - a) : rest[k] = live[a + k]
  BY <1>1, <1>2, AfterIs
<1>4. u \in Seq(Byte) /\ Len(u) = b /\ \A k \in 1..b : u[k] = live[a + k]
  <2>1. /\ SubSeq(live, a + 1, a + b) \in Seq(Byte) /\ Len(SubSeq(live, a + 1, a + b)) = b
        /\ \A k \in 1..b : SubSeq(live, a + 1, a + b)[k] = live[a + k]
    BY RangeIs
  <2> QED  BY <1>1, <2>1
<1>5. PICK t : t = Trunc(rest, b)
  OBVIOUS
<1>6. t \in Seq(Byte) /\ Len(t) = b /\ \A k \in 1..b : t[k] = rest[k]
  <2>1. b <= Len(rest)
    BY <1>2, <1>3
  <2> QED  BY <1>3, <1>5, <2>1, TruncIs
<1>7. \A k \in 1..b : k \in 1..(Len(live) - a)
  BY <1>2
<1>8. t = u
  <2>1. \A k \in 1..b : t[k] = u[k]
    BY <1>3, <1>4, <1>6, <1>7
  <2> QED  BY <1>4, <1>6, <2>1, SeqEqual
<1> QED  BY <1>1, <1>4, <1>5, <1>8

(* A first pop, and what the one after it finds.                           *)
LEMMA PopNext ==
  ASSUME NEW sh, NEW off, NEW live, Plain(sh, off, stackArray, live),
         NEW d \in Nat, NEW e \in Nat, d + e <= Len(live),
         NEW p, p = ShadowPop(sh, off, d), NEW q, q = PopAfter(p, e), q.err = "ok"
  PROVE  /\ p.err = "ok" /\ q = ShadowPop(p.sh, p.off, e)
         /\ Plain(p.sh, p.off, stackArray, After(live, d))
         /\ Plain(q.sh, q.off, stackArray, After(live, d + e))
         /\ p.value = Trunc(live, d) /\ p.flagsPromise = NoPromise
         /\ q.value = SubSeq(live, d + 1, d + e) /\ q.flagsPromise = NoPromise
         /\ ShadowDepth(sh) <= d + e => ShadowDepth(q.sh) = 0
<1>1. p.err = "ok" /\ q = ShadowPop(p.sh, p.off, e)
  BY DEF PopAfter
<1>2. live \in Seq(Byte) /\ Len(live) \in Nat /\ d <= Len(live) /\ stackArray \in Arrays
  BY LiveLen DEF Plain
<1>3. Pops(p, sh, off, stackArray, live, d)
  BY <1>1, <1>2, PopLive
<1>4. PICK left : left = After(live, d)
  OBVIOUS
<1>5. Plain(p.sh, p.off, stackArray, left)
  BY <1>2, <1>3, <1>4, PopsPlain
<1>6. e <= Len(left)
  <2>1. Len(After(live, d)) = Len(live) - d
    BY <1>2, AfterIs
  <2> QED  BY <1>2, <1>4, <2>1
<1>7. Pops(q, p.sh, p.off, stackArray, left, e)
  BY <1>1, <1>5, <1>6, PopLive
<1>8. Plain(q.sh, q.off, stackArray, After(left, e))
  BY <1>2, <1>7, PopsPlain
<1>9. After(left, e) = After(live, d + e)
  BY <1>2, <1>4, AfterAfter
<1>10. q.value = SubSeq(live, d + 1, d + e)
  <2>1. Trunc(After(live, d), e) = SubSeq(live, d + 1, d + e)
    BY <1>2, UnderIs
  <2> QED  BY <1>4, <1>7, <2>1 DEF Pops
<1>11. ShadowDepth(sh) <= d + e => ShadowDepth(q.sh) = 0
  <2>1. PICK x, y, z : x = ShadowDepth(sh) /\ y = ShadowDepth(p.sh) /\ z = ShadowDepth(q.sh)
    OBVIOUS
  <2>2. x \in Nat
    BY <2>1, LiveLen DEF Plain
  <2>3. y = (IF x <= d THEN 0 ELSE x - d) /\ z = (IF y <= e THEN 0 ELSE y - e)
    BY <1>3, <1>7, <2>1 DEF Pops
  <2>4. x <= d + e => z = 0
    BY <2>2, <2>3
  <2> QED  BY <2>1, <2>4
<1> QED  BY <1>1, <1>3, <1>4, <1>5, <1>7, <1>8, <1>9, <1>10, <1>11 DEF Pops

LEMMA FlagsSlotFits ==
  ASSUME NEW n \in Nat \ {0}
  PROVE  /\ Fits(FlagsSlot(n)) /\ FlagsSlot(n).flagsPromise = n /\ FlagsSlot(n).depth = 8
         /\ SlotBytes(FlagsSlot(n)) = FlagsOf(n)
<1>1. PICK s : s = FlagsSlot(n)
  OBVIOUS
<1>2. s = [value |-> <<>>, depth |-> 8, ptr |-> FALSE, isVspPush |-> FALSE, flagsPromise |-> n]
  BY <1>1 DEF FlagsSlot, ValueSlot, PtrSize, NoPromise
<1>3. <<>> \in Seq(Byte)
  OBVIOUS
<1>4. s \in Slot
  BY <1>2, <1>3 DEF Slot
<1>5. Fits(s)
  BY <1>2, <1>4 DEF Fits, NoPromise, PtrSize
<1> QED  BY <1>1, <1>2, <1>5 DEF SlotBytes, NoPromise

(* An arithmetic handler leaves its result and, above it, its flags.       *)
LEMMA AluSim ==
  ASSUME Regular, RInv, IInv', NEW h \in Handlers, Starts(h, h.op), h.op \in Alu,
         NEW p, NEW s, NEW consumed, EmitAlu(h, p, s, consumed),
         NEW rest, rest = After(LiveStack, Popped(h)), Plain(p.sh, p.off, stackArray, rest),
         Fits(s), s.flagsPromise = NoPromise, s.depth = StackDepth(h.d)
  PROVE  /\ RInv' /\ VM!Step(h, Popped(h), FlagsOf(pos + 1) \o s.value \o rest, consumed)
         /\ (IF Gone THEN <<>> ELSE LiveStack) = LiveStack
         /\ UNCHANGED (IF Gone THEN <<>> ELSE LiveContext) /\ UNCHANGED ~Gone
<1>1. status = "ok" /\ inBlock /\ Legal(h) /\ pos \in Nat /\ pos < MaxLength /\ MaxLength \in Nat
  BY SizesAssumption DEF Starts, RInv, CountersInv
<1>2. PICK sh, off, f, new, bytes :
        /\ sh = p.sh /\ off = p.off /\ f = FlagsSlot(pos + 1)
        /\ new = Append(Append(sh, s), f) /\ bytes = FlagsOf(pos + 1)
  OBVIOUS
<1>3. /\ Fits(f) /\ f.flagsPromise = pos + 1 /\ f.depth = 8 /\ SlotBytes(f) = bytes
      /\ f.flagsPromise \in 0..MaxLength
  <2>1. pos + 1 \in Nat \ {0} /\ pos + 1 \in 0..MaxLength
    BY <1>1
  <2> QED  BY <1>2, <2>1, FlagsSlotFits
<1>4. /\ FitStack(sh) /\ NoPromises(sh) /\ off \in Offsets /\ stackArray \in Arrays
      /\ IsLive(rest, sh, off, stackArray)
  BY <1>2 DEF Plain
<1>5. PICK one : one = Append(sh, s)
  OBVIOUS
<1>6. FitStack(one) /\ NoPromises(one)
  BY <1>4, <1>5, PushFits, PushPromises
<1>7. IsLive(s.value \o rest, one, off, stackArray)
  <2>1. SlotBytes(s) = s.value
    BY SlotBytesIs
  <2>2. IsLive(SlotBytes(s) \o rest, one, off, stackArray)
    BY <1>4, <1>5, PushLive
  <2> QED  BY <2>1, <2>2
<1>8. FitStack(new) /\ Promising(new)
  <2>1. new = Append(one, f)
    BY <1>2, <1>5
  <2>2. FitStack(Append(one, f)) /\ Promising(Append(one, f))
    BY <1>3, <1>6, PushFits, PushPromising
  <2> QED  BY <2>1, <2>2
<1>9. PICK live : live = bytes \o (s.value \o rest)
  OBVIOUS
<1>10. IsLive(live, new, off, stackArray)
  <2>1. new = Append(one, f)
    BY <1>2, <1>5
  <2>2. PICK under : under = s.value \o rest
    OBVIOUS
  <2>3. IsLive(SlotBytes(f) \o under, Append(one, f), off, stackArray)
    BY <1>3, <1>4, <1>6, <1>7, <2>2, PushLive
  <2> QED  BY <1>3, <1>9, <2>1, <2>2, <2>3
<1>11. /\ bytes \in Seq(Byte) /\ Len(bytes) = 8 /\ s.value \in Seq(Byte)
       /\ Len(s.value) = s.depth /\ s.depth \in Nat
  <2>1. bytes \in Seq(Byte) /\ Len(bytes) = 8
    BY <1>3, SlotBytesIs
  <2> QED  BY <2>1 DEF Fits, Slot
<1>12. rest \in Seq(Byte) /\ Len(rest) = Len(LiveStack) - Popped(h) /\ Len(rest) \in Nat
  <2>1. Popped(h) \in Nat /\ LiveStack \in Seq(Byte) /\ Popped(h) <= Len(LiveStack)
    BY <1>1, LiveIs, TrafficNat DEF Legal
  <2>2. Len(After(LiveStack, Popped(h))) = Len(LiveStack) - Popped(h)
    BY <2>1, AfterIs
  <2> QED  BY <1>4, <2>2, LiveLen
<1>13. live = (bytes \o s.value) \o rest
  <2>1. PICK v, r : v = s.value /\ r = rest
    OBVIOUS
  <2>2. bytes \in Seq(Byte) /\ v \in Seq(Byte) /\ r \in Seq(Byte)
    BY <1>11, <1>12, <2>1
  <2>3. (bytes \o v) \o r = bytes \o (v \o r)
    BY <2>2, ConcatAssoc
  <2> QED  BY <1>9, <2>1, <2>3
<1>14. Len(live) = Len(LiveStack) - Popped(h) + Pushed(h)
  <2>1. Pushed(h) = s.depth + 8
    BY Traffic DEF Alu, PtrSize
  <2>2. PICK under : under = s.value \o rest
    OBVIOUS
  <2>3. under \in Seq(Byte) /\ Len(under) = s.depth + Len(rest)
    BY <1>11, <1>12, <2>2, ConcatAt
  <2>4. Len(live) = 8 + Len(under)
    <3>1. bytes \in Seq(Byte) /\ under \in Seq(Byte)
      BY <1>11, <2>3
    <3>2. Len(bytes \o under) = Len(bytes) + Len(under)
      BY <3>1, ConcatAt
    <3> QED  BY <1>9, <1>11, <2>2, <3>2
  <2> QED  BY <1>11, <1>12, <2>1, <2>3, <2>4
<1>15. /\ Emit(h, new, off, consumed)
       /\ UNCHANGED <<flagCalculators, stackArray, virtualContext, inBlock, status>>
  <2>1. sh \o <<s, f>> = new
    <3>1. sh \in Seq(Slot) /\ s \in Slot /\ f \in Slot
      BY <1>3, <1>4 DEF FitStack, Fits
    <3> QED  BY <1>2, <3>1
  <2> QED  BY <1>2, <2>1 DEF EmitAlu
<1>16. /\ StackInv(new, off, stackArray') /\ IsLive(live, new, off, stackArray')
       /\ ContextInv(virtualContext', flagCalculators') /\ status' = "ok"
       /\ inBlock' \in BOOLEAN /\ inBlock'
  BY <1>1, <1>4, <1>8, <1>10, <1>15 DEF StackInv, RInv, CountersInv
<1>17. /\ RInv' /\ VM!Step(h, Popped(h), live, consumed)
       /\ (IF Gone THEN <<>> ELSE LiveStack) = LiveStack
       /\ UNCHANGED ~Gone /\ ~Gone /\ ~Gone'
  <2>1. ~Gone /\ ~Gone'
    BY <1>1, <1>16 DEF Gone
  <2> QED  BY <1>14, <1>15, <1>16, <2>1, EmitSim
<1>18. UNCHANGED (IF Gone THEN <<>> ELSE LiveContext)
  BY <1>15, <1>17, ContextStays DEF SameContext
<1> QED  BY <1>2, <1>13, <1>17, <1>18

LEMMA UseOk ==
  /\ \A a, b : UseError(<<a>>, b) = "ok" => a.err = "ok" /\ a.flagsPromise = NoPromise
  /\ \A a, c, b : UseError(<<a, c>>, b) = "ok" => c.err = "ok"
  /\ \A a, c, e, b : UseError(<<a, c, e>>, b) = "ok" => e.err = "ok"
<1>1. ASSUME NEW a, NEW b, UseError(<<a>>, b) = "ok"
      PROVE  a.err = "ok" /\ a.flagsPromise = NoPromise
  <2>1. <<a>>[Len(<<a>>)] = a /\ 1 \in DOMAIN <<a>> /\ <<a>>[1] = a
    OBVIOUS
  <2>2. a.err = "ok"
    BY <1>1, <2>1 DEF UseError
  <2>3. ~(\E i \in DOMAIN <<a>> : <<a>>[i].flagsPromise # NoPromise)
    BY <1>1, <2>1, <2>2 DEF UseError
  <2> QED  BY <2>1, <2>2, <2>3
<1>2. ASSUME NEW a, NEW c, NEW b, UseError(<<a, c>>, b) = "ok" PROVE c.err = "ok"
  <2>1. <<a, c>>[Len(<<a, c>>)] = c
    OBVIOUS
  <2> QED  BY <1>2, <2>1 DEF UseError
<1>3. ASSUME NEW a, NEW c, NEW e, NEW b, UseError(<<a, c, e>>, b) = "ok" PROVE e.err = "ok"
  <2>1. <<a, c, e>>[Len(<<a, c, e>>)] = e
    OBVIOUS
  <2> QED  BY <1>3, <2>1 DEF UseError
<1> QED  BY <1>1, <1>2, <1>3

(* A shorter operand under the same bytes.                                 *)
LEMMA CutUnder ==
  ASSUME NEW live \in Seq(Byte), NEW a \in Nat, NEW b \in Nat, a + b <= Len(live),
         NEW c \in Nat, c <= b
  PROVE  Trunc(SubSeq(live, a + 1, a + b), c) = SubSeq(live, a + 1, a + c)
<1>1. PICK rest : rest = After(live, a)
  OBVIOUS
<1>2. Len(live) \in Nat /\ a <= Len(live)
  BY LenProperties
<1>3. rest \in Seq(Byte) /\ b <= Len(rest)
  <2>1. After(live, a) \in Seq(Byte) /\ Len(After(live, a)) = Len(live) - a
    BY <1>2, AfterIs
  <2> QED  BY <1>1, <1>2, <2>1
<1>4. SubSeq(SubSeq(rest, 1, b), 1, c) = SubSeq(rest, 1, c)
  BY <1>3, TruncTrunc
<1>5. Trunc(After(live, a), b) = SubSeq(live, a + 1, a + b)
  BY UnderIs
<1>6. Trunc(After(live, a), c) = SubSeq(live, a + 1, a + c)
  BY <1>2, UnderIs, SMTT(30)
<1> QED  BY <1>1, <1>4, <1>5, <1>6 DEF Trunc

(* The two operands of a handler and the stack under them.                 *)
PopsTwo(p, q, d, e) == p = PopTop(d) /\ q = PopAfter(p, e) /\ q.err = "ok"
Operands(p, q, d, e, live) ==
  /\ Plain(q.sh, q.off, stackArray, After(live, d + e))
  /\ p.value = Trunc(live, d) /\ p.flagsPromise = NoPromise
  /\ q.value = SubSeq(live, d + 1, d + e) /\ q.flagsPromise = NoPromise
  /\ p.err = "ok" /\ (ShadowDepth(shadowStack) <= d + e => ShadowDepth(q.sh) = 0)
  /\ live \in Seq(Byte) /\ d + e <= Len(live)

LEMMA OperandsAre ==
  ASSUME Regular, RInv, NEW h \in Handlers, Starts(h, h.op), h.op # "Pop",
         NEW d \in Nat, NEW e \in Nat, d + e <= Popped(h),
         NEW p, NEW q, PopsTwo(p, q, d, e)
  PROVE  /\ Operands(p, q, d, e, LiveStack)
         /\ Popped(h) <= Len(LiveStack) /\ Popped(h) \in Nat
<1>1. Plain(shadowStack, stackOffset, stackArray, LiveStack)
  BY PlainState DEF Starts
<1>2. /\ Popped(h) <= Len(LiveStack) /\ LiveStack \in Seq(Byte) /\ Popped(h) \in Nat
      /\ Len(LiveStack) \in Nat
  BY LiveIs, TrafficNat DEF Starts, Legal
<1>3. PICK live : live = LiveStack
  OBVIOUS
<1>4. d + e <= Len(live)
  BY <1>2, <1>3
<1>5. p = ShadowPop(shadowStack, stackOffset, d) /\ q = PopAfter(p, e) /\ q.err = "ok"
  BY DEF PopTop, PopsTwo
<1>6. live \in Seq(Byte) /\ Plain(shadowStack, stackOffset, stackArray, live)
  BY <1>1, <1>2, <1>3
<1>7. /\ p.err = "ok" /\ Plain(q.sh, q.off, stackArray, After(live, d + e))
      /\ p.value = Trunc(live, d) /\ p.flagsPromise = NoPromise
      /\ q.value = SubSeq(live, d + 1, d + e) /\ q.flagsPromise = NoPromise
      /\ ShadowDepth(shadowStack) <= d + e => ShadowDepth(q.sh) = 0
  BY <1>4, <1>5, <1>6, PopNext
<1>8. Operands(p, q, d, e, live)
  BY <1>4, <1>6, <1>7 DEF Operands
<1> QED  BY <1>2, <1>3, <1>8

LEMMA NorSim ==
  ASSUME Regular, RInv, IInv', NEW h \in Handlers, LiftVmNor(h)
  PROVE  Simulates
<1>1. /\ Starts(h, h.op) /\ h.op \in {"Nor", "Nand"} /\ status = "ok"
      /\ h.op \in Binary /\ h.op \in Alu /\ h.op # "Pop" /\ h.op # "Add"
  BY DEF LiftVmNor, Starts, Binary, Alu
<1>2. PICK d, n, b, a : d = h.d /\ n = StackDepth(d) /\ b = PopTop(n) /\ a = PopAfter(b, n)
  OBVIOUS
<1>3. PICK s, consumed : /\ s = ValueSlot(ZeroExtend(Word("res", pos + 1, d), n), n)
                         /\ consumed = <<Trunc(b.value, d), Trunc(a.value, d)>>
  OBVIOUS
<1>4. PICK used : used = UseError(<<b, a>>, TRUE)
  OBVIOUS
<1>5. PICK error :
        /\ error = IF used = "ok" /\ Len(consumed[1]) # Len(consumed[2]) THEN "badIR" ELSE used
        /\ (Stop(error) \/ (error = "ok" /\ EmitAlu(h, a, s, consumed)))
  BY <1>2, <1>3, <1>4 DEF LiftVmNor
<1>6. CASE Stop(error)
  BY <1>1, <1>6, StopSim
<1>7. CASE error = "ok" /\ EmitAlu(h, a, s, consumed)
  <2>1. a.err = "ok"
    <3>1. UseError(<<b, a>>, TRUE) = "ok"
      BY <1>4, <1>5, <1>7
    <3> QED  BY <3>1, UseOk
  <2>2. n \in Nat /\ d \in Nat /\ d <= n /\ n > 0 /\ Popped(h) = 2 * n /\ n + n = 2 * n
    BY <1>1, <1>2, OpsAre, Traffic
  <2>3. PICK live, rest : live = LiveStack /\ rest = After(LiveStack, Popped(h))
    OBVIOUS
  <2>4. /\ Plain(a.sh, a.off, stackArray, After(live, n + n))
        /\ b.value = Trunc(live, n) /\ a.value = SubSeq(live, n + 1, n + n)
        /\ 2 * n <= Len(live) /\ live \in Seq(Byte)
    <3>1. n + n <= Popped(h) /\ n \in Nat
      BY <2>2
    <3>2. PopsTwo(b, a, n, n)
      BY <1>2, <2>1 DEF PopsTwo
    <3>3. Operands(b, a, n, n, LiveStack) /\ Popped(h) <= Len(LiveStack)
      BY <1>1, <3>1, <3>2, OperandsAre
    <3> QED  BY <2>2, <2>3, <3>3 DEF Operands
  <2>5. Plain(a.sh, a.off, stackArray, rest)
    BY <2>2, <2>3, <2>4
  <2>6. Trunc(b.value, d) = Trunc(live, d)
    <3>1. n <= Len(live)
      BY <2>2, <2>4
    <3>2. SubSeq(SubSeq(live, 1, n), 1, d) = SubSeq(live, 1, d)
      BY <2>2, <2>4, <3>1, TruncTrunc
    <3> QED  BY <2>4, <3>2 DEF Trunc
  <2>7. Trunc(a.value, d) = SubSeq(live, n + 1, n + d)
    <3>1. n + n <= Len(live)
      BY <2>2, <2>4
    <3>2. Trunc(SubSeq(live, n + 1, n + n), d) = SubSeq(live, n + 1, n + d)
      BY <2>2, <2>4, <3>1, CutUnder
    <3> QED  BY <2>4, <3>2
  <2>8. PICK result, v : result = Word("res", pos + 1, d) /\ v = ZeroExtend(result, n)
    OBVIOUS
  <2>9. v \in Seq(Byte) /\ Len(v) = n
    <3>1. result \in Seq(Byte) /\ Len(result) = d
      <4>1. pos + 1 \in Int
        BY DEF RInv, CountersInv
      <4> QED  BY <2>2, <2>8, <4>1, WordIs
    <3>2. n \in Int /\ Len(result) <= n
      BY <2>2, <3>1
    <3>3. result \in Seq(Byte)
      BY <3>1
    <3>4. ZeroExtend(result, n) \in Seq(Byte) /\ Len(ZeroExtend(result, n)) = n
      BY <3>2, <3>3, ExtendIs
    <3> QED  BY <2>8, <3>4
  <2>10. Fits(s) /\ s.flagsPromise = NoPromise /\ s.depth = n /\ s.value = v
    <3>1. Len(v) > 0
      BY <2>2, <2>9
    <3> QED  BY <1>3, <2>8, <2>9, <3>1, ValueSlotFits
  <2>11. /\ RInv' /\ VM!Step(h, Popped(h), FlagsOf(pos + 1) \o v \o rest, consumed)
         /\ (IF Gone THEN <<>> ELSE LiveStack) = LiveStack
         /\ UNCHANGED (IF Gone THEN <<>> ELSE LiveContext) /\ UNCHANGED ~Gone
    BY <1>1, <1>2, <1>7, <2>3, <2>5, <2>10, AluSim
  <2>12. VM!Step(h, 2 * n, FlagsOf(pos + 1) \o v \o SubSeq(live, 2 * n + 1, Len(live)),
                 <<Trunc(live, d), SubSeq(live, n + 1, n + d)>>)
    BY <1>3, <2>2, <2>3, <2>6, <2>7, <2>11 DEF After
  <2>13. VM!BinaryAlu(h)
    BY <1>1, <1>2, <2>3, <2>4, <2>8, <2>11, <2>12, SameWords
       DEF VM!BinaryAlu, VM!Compute, VM!Drop, VM!Under
  <2>14. VM!Next
    BY <2>13 DEF VM!Next
  <2> QED  BY <2>11, <2>14 DEF Simulates
<1> QED  BY <1>5, <1>6, <1>7

(* A result that is a word of its own.                                     *)
LEMMA ResultIs ==
  ASSUME RInv, NEW d \in {2, 4, 8}, NEW v, v = Word("res", pos + 1, d)
  PROVE  v \in Seq(Byte) /\ Len(v) = d /\ ZeroExtend(v, d) = v /\ d > 0 /\ d \in Nat
<1>1. v \in Seq(Byte) /\ Len(v) = d
  <2>1. pos + 1 \in Int /\ d \in Nat
    BY DEF RInv, CountersInv
  <2> QED  BY <2>1, WordIs
<1>2. PICK w : w = v
  OBVIOUS
<1>3. w \in Seq(Byte) /\ d \in Int /\ d <= Len(w)
  BY <1>1, <1>2
<1>4. ZeroExtend(w, d) = w
  BY <1>3, ExtendIs
<1> QED  BY <1>1, <1>2, <1>4

LEMMA ShiftSim ==
  ASSUME Regular, RInv, IInv', NEW h \in Handlers, LiftVmShift(h)
  PROVE  Simulates
<1>1. /\ Starts(h, h.op) /\ h.op \in Shift /\ status = "ok"
      /\ h.op \in Alu /\ h.op # "Pop"
  BY DEF LiftVmShift, Starts, Shift, Alu
<1>2. PICK d, n, val, amt :
        d = h.d /\ n = StackDepth(d) /\ val = PopTop(n) /\ amt = PopAfter(val, 2)
  OBVIOUS
<1>3. PICK v, s, consumed : /\ v = Word("res", pos + 1, n) /\ s = ValueSlot(v, n)
                            /\ consumed = <<val.value, Trunc(amt.value, 1)>>
  OBVIOUS
<1>4. PICK error :
        /\ error = UseError(<<val, amt>>, FALSE)
        /\ (Stop(error) \/ (error = "ok" /\ EmitAlu(h, amt, s, consumed)))
  BY <1>2, <1>3 DEF LiftVmShift
<1>5. CASE Stop(error)
  BY <1>1, <1>5, StopSim
<1>6. CASE error = "ok" /\ EmitAlu(h, amt, s, consumed)
  <2>1. amt.err = "ok"
    BY <1>4, <1>6, UseOk
  <2>2. n = d /\ n \in {2, 4, 8} /\ Popped(h) = n + 2
    <3>1. d # 1
      BY <1>1, <1>2, OpsAre DEF WholeWords, Binary, Shift
    <3> QED  BY <1>1, <1>2, <3>1, OpsAre, Traffic
  <2>3. PICK live, rest : live = LiveStack /\ rest = After(LiveStack, Popped(h))
    OBVIOUS
  <2>4. Operands(val, amt, n, 2, live)
    <3>1. n + 2 <= Popped(h) /\ n \in Nat /\ 2 \in Nat
      BY <2>2
    <3>2. PopsTwo(val, amt, n, 2)
      BY <1>2, <2>1 DEF PopsTwo
    <3>3. Operands(val, amt, n, 2, LiveStack)
      BY <1>1, <3>1, <3>2, OperandsAre
    <3> QED  BY <2>3, <3>3
  <2>5. Plain(amt.sh, amt.off, stackArray, rest)
    BY <2>2, <2>3, <2>4 DEF Operands
  <2>6. Trunc(amt.value, 1) = SubSeq(live, n + 1, n + 1)
    <3>1. n + 2 <= Len(live) /\ n \in Nat /\ 2 \in Nat /\ 1 \in Nat /\ 1 <= 2 /\ live \in Seq(Byte)
      BY <2>2, <2>4 DEF Operands
    <3>2. Trunc(SubSeq(live, n + 1, n + 2), 1) = SubSeq(live, n + 1, n + 1)
      BY <3>1, CutUnder
    <3> QED  BY <2>4, <3>2 DEF Operands
  <2>7. v \in Seq(Byte) /\ Len(v) = n /\ ZeroExtend(v, n) = v /\ n > 0
    BY <1>3, <2>2, ResultIs
  <2>8. Fits(s) /\ s.flagsPromise = NoPromise /\ s.depth = n /\ s.value = v
    <3>1. Len(v) > 0
      BY <2>7
    <3> QED  BY <1>3, <2>7, <3>1, ValueSlotFits
  <2>9. /\ RInv' /\ VM!Step(h, Popped(h), FlagsOf(pos + 1) \o v \o rest, consumed)
        /\ (IF Gone THEN <<>> ELSE LiveStack) = LiveStack
        /\ UNCHANGED (IF Gone THEN <<>> ELSE LiveContext) /\ UNCHANGED ~Gone
    BY <1>1, <1>2, <1>6, <2>3, <2>5, <2>8, AluSim
  <2>10. VM!Step(h, n + 2,
                 FlagsOf(pos + 1) \o ZeroExtend(v, n) \o SubSeq(live, n + 2 + 1, Len(live)),
                 <<Trunc(live, n), SubSeq(live, n + 1, n + 1)>>)
    BY <1>3, <2>2, <2>3, <2>4, <2>6, <2>7, <2>9 DEF After, Operands
  <2>11. VM!ShiftAlu(h)
    BY <1>1, <1>2, <1>3, <2>2, <2>3, <2>9, <2>10, SameWords
       DEF VM!ShiftAlu, VM!Compute, VM!Drop, VM!Under
  <2>12. VM!Next
    BY <2>11 DEF VM!Next
  <2> QED  BY <2>9, <2>12 DEF Simulates
<1> QED  BY <1>4, <1>5, <1>6

(* The sum of two operands of n bytes is as wide as they are.              *)
LEMMA SumIs ==
  ASSUME NEW n \in Nat, NEW id \in Int, NEW a, NEW b, a \in Seq(Byte), b \in Seq(Byte),
         Len(a) = n, Len(b) = n, n > 0
  PROVE  SumOf(a, b, id) \in Seq(Byte) /\ Len(SumOf(a, b, id)) = n
<1>1. a[1] \in Byte /\ b[1] \in Byte
  BY ElementOfSeq
<1>2. a[1][2] \in Int /\ b[1][2] \in Int
  BY <1>1 DEF Byte
<1>3. PICK x : x = a[1][2] + b[1][2] /\ x \in Int /\ x = b[1][2] + a[1][2]
  <2>1. PICK y, z : y = a[1][2] /\ z = b[1][2]
    OBVIOUS
  <2>2. y \in Int /\ z \in Int
    BY <1>2, <2>1
  <2>3. y + z \in Int /\ y + z = z + y
    BY <2>2
  <2> QED  BY <2>1, <2>3, Zenon
<1>4. StackAddress(x) \in Seq(Byte) /\ Len(StackAddress(x)) = 8
  <2>1. 8 \in Nat
    OBVIOUS
  <2> QED  BY <1>3, <2>1, WordIs, ZenonT(60) DEF StackAddress, PtrSize
<1>5. Word("res", id, n) \in Seq(Byte) /\ Len(Word("res", id, n)) = n
  BY WordIs
<1>6. CASE IsStackAddress(a) /\ IsConstant(b)
  <2>1. n = 8 /\ SumOf(a, b, id) = StackAddress(x)
    BY <1>3, <1>6 DEF IsStackAddress, PtrSize, SumOf
  <2> QED  BY <1>4, <2>1
<1>7. CASE ~(IsStackAddress(a) /\ IsConstant(b)) /\ IsStackAddress(b) /\ IsConstant(a)
  <2>1. n = 8 /\ SumOf(a, b, id) = StackAddress(x)
    BY <1>3, <1>7 DEF IsStackAddress, PtrSize, SumOf
  <2> QED  BY <1>4, <2>1
<1>8. CASE ~(IsStackAddress(a) /\ IsConstant(b)) /\ ~(IsStackAddress(b) /\ IsConstant(a))
  <2>1. SumOf(a, b, id) = Word("res", id, n)
    BY <1>8 DEF SumOf
  <2> QED  BY <1>5, <2>1
<1> QED  BY <1>6, <1>7, <1>8

LEMMA AddSim ==
  ASSUME Regular, RInv, IInv', NEW h \in Handlers, LiftVmAdd(h)
  PROVE  Simulates
<1>1. /\ Starts(h, h.op) /\ h.op = "Add" /\ status = "ok"
      /\ h.op \in Alu /\ h.op \in Binary /\ h.op # "Pop"
  BY DEF LiftVmAdd, Starts, Binary, Alu
<1>2. PICK d, n, b, a : d = h.d /\ n = StackDepth(d) /\ b = PopTop(n) /\ a = PopAfter(b, n)
  OBVIOUS
<1>3. PICK single, v, s, consumed :
        /\ single = (a.isVspPush # b.isVspPush)
        /\ v = SumOf(a.value, b.value, pos + 1)
        /\ s = [ValueSlot(v, n) EXCEPT !.ptr = single, !.isVspPush = single]
        /\ consumed = <<Trunc(b.value, d), Trunc(a.value, d)>>
  OBVIOUS
<1>4. PICK used : used = UseError(<<b, a>>, single)
  OBVIOUS
<1>5. PICK error :
        /\ error = IF used = "ok" /\ Len(a.value) # Len(b.value) THEN "badIR" ELSE used
        /\ (Stop(error) \/ (error = "ok" /\ EmitAlu(h, a, s, consumed)))
  BY <1>2, <1>3, <1>4 DEF LiftVmAdd
<1>6. CASE Stop(error)
  BY <1>1, <1>6, StopSim
<1>7. CASE error = "ok" /\ EmitAlu(h, a, s, consumed)
  <2>1. a.err = "ok"
    <3>1. UseError(<<b, a>>, single) = "ok"
      BY <1>4, <1>5, <1>7
    <3> QED  BY <3>1, UseOk
  <2>2. n = d /\ n \in {2, 4, 8} /\ Popped(h) = 2 * n
    <3>1. d # 1
      BY <1>1, <1>2, OpsAre DEF WholeWords, Binary, Shift
    <3> QED  BY <1>1, <1>2, <3>1, OpsAre, Traffic
  <2>3. PICK live, rest : live = LiveStack /\ rest = After(LiveStack, Popped(h))
    OBVIOUS
  <2>4. Operands(b, a, n, n, live)
    <3>1. n + n <= Popped(h) /\ n \in Nat
      BY <2>2
    <3>2. PopsTwo(b, a, n, n)
      BY <1>2, <2>1 DEF PopsTwo
    <3>3. Operands(b, a, n, n, LiveStack)
      BY <1>1, <3>1, <3>2, OperandsAre
    <3> QED  BY <2>3, <3>3
  <2>5. Plain(a.sh, a.off, stackArray, rest)
    <3>1. n + n = Popped(h)
      BY <2>2
    <3> QED  BY <2>3, <2>4, <3>1 DEF Operands
  <2>6. PICK x, y : /\ x = b.value /\ y = a.value
                    /\ x = Trunc(live, n) /\ y = SubSeq(live, n + 1, n + n)
    BY <2>4 DEF Operands
  <2>7. x \in Seq(Byte) /\ y \in Seq(Byte) /\ Len(x) = n /\ Len(y) = n
    <3>1. n \in Nat /\ n + n <= Len(live) /\ live \in Seq(Byte) /\ n <= Len(live)
      BY <2>2, <2>4 DEF Operands
    <3>2. Trunc(live, n) \in Seq(Byte) /\ Len(Trunc(live, n)) = n
      BY <3>1, TruncIs
    <3>3. SubSeq(live, n + 1, n + n) \in Seq(Byte) /\ Len(SubSeq(live, n + 1, n + n)) = n
      BY <3>1, UnderIs
    <3> QED  BY <2>6, <3>2, <3>3
  <2>8. Trunc(x, d) = x /\ Trunc(y, d) = y
    <3>1. SubSeq(x, 1, Len(x)) = x /\ SubSeq(y, 1, Len(y)) = y
      BY <2>7, SubSeqFull
    <3> QED  BY <2>2, <2>7, <3>1 DEF Trunc
  <2>9. v \in Seq(Byte) /\ Len(v) = n /\ n > 0
    <3>1. pos + 1 \in Int /\ n \in Nat /\ n > 0
      BY <2>2 DEF RInv, CountersInv
    <3>2. SumOf(y, x, pos + 1) \in Seq(Byte) /\ Len(SumOf(y, x, pos + 1)) = n
      BY <2>7, <3>1, SumIs
    <3> QED  BY <1>3, <2>6, <3>1, <3>2
  <2>10. ZeroExtend(v, n) = v
    <3>1. PICK w : w = v
      OBVIOUS
    <3>2. w \in Seq(Byte) /\ n \in Int /\ n <= Len(w)
      BY <2>2, <2>9, <3>1
    <3>3. ZeroExtend(w, n) = w
      BY <3>2, ExtendIs
    <3> QED  BY <3>1, <3>3
  <2>11. Fits(s) /\ s.flagsPromise = NoPromise /\ s.depth = n /\ s.value = v
    <3>1. s = [value |-> v, depth |-> n, ptr |-> single, isVspPush |-> single, flagsPromise |-> 0]
      BY <1>3 DEF ValueSlot, NoPromise
    <3>2. single \in BOOLEAN
      BY <1>3
    <3>3. s \in Slot
      BY <2>2, <2>9, <3>1, <3>2 DEF Slot
    <3> QED  BY <2>9, <3>1, <3>3 DEF Fits, NoPromise
  <2>12. /\ RInv' /\ VM!Step(h, Popped(h), FlagsOf(pos + 1) \o v \o rest, consumed)
         /\ (IF Gone THEN <<>> ELSE LiveStack) = LiveStack
         /\ UNCHANGED (IF Gone THEN <<>> ELSE LiveContext) /\ UNCHANGED ~Gone
    BY <1>1, <1>2, <1>7, <2>3, <2>5, <2>11, AluSim
  <2>13. VM!Step(h, 2 * n,
                 FlagsOf(pos + 1) \o ZeroExtend(v, n) \o SubSeq(live, 2 * n + 1, Len(live)),
                 <<x, y>>)
    BY <1>3, <2>2, <2>3, <2>6, <2>8, <2>10, <2>12 DEF After
  <2>14. v = SumOf(y, x, pos + 1) /\ 2 * n <= Len(live)
    <3>1. n + n <= Len(live) /\ 2 * n = n + n
      BY <2>2, <2>4 DEF Operands
    <3> QED  BY <1>3, <2>6, <3>1
  <2>15. VM!BinaryAlu(h)
    BY <1>1, <1>2, <2>2, <2>3, <2>6, <2>12, <2>13, <2>14, SameWords
       DEF VM!BinaryAlu, VM!Compute, VM!Drop, VM!Under
  <2>16. VM!Next
    BY <2>15 DEF VM!Next
  <2> QED  BY <2>12, <2>16 DEF Simulates
<1> QED  BY <1>5, <1>6, <1>7

LEMMA DoubleShiftSim ==
  ASSUME Regular, RInv, IInv', NEW h \in Handlers, LiftVmDoubleShift(h)
  PROVE  Simulates
<1>1. /\ Starts(h, h.op) /\ h.op \in DoubleShift /\ status = "ok"
      /\ h.op \in Alu /\ h.op # "Pop"
  BY DEF LiftVmDoubleShift, Starts, DoubleShift, Alu
<1>2. PICK d, n, dst, src, count :
        /\ d = h.d /\ n = StackDepth(d)
        /\ dst = PopTop(n) /\ src = PopAfter(dst, n) /\ count = PopAfter(src, 2)
  OBVIOUS
<1>3. PICK v, s, consumed :
        /\ v = Word("res", pos + 1, d) /\ s = ValueSlot(v, n)
        /\ consumed = <<Trunc(dst.value, d), Trunc(src.value, d), Trunc(count.value, 1)>>
  OBVIOUS
<1>4. PICK error :
        /\ error = UseError(<<dst, src, count>>, FALSE)
        /\ (Stop(error) \/ (error = "ok" /\ EmitAlu(h, count, s, consumed)))
  BY <1>2, <1>3 DEF LiftVmDoubleShift
<1>5. CASE Stop(error)
  BY <1>1, <1>5, StopSim
<1>6. CASE error = "ok" /\ EmitAlu(h, count, s, consumed)
  <2>1. count.err = "ok" /\ src.err = "ok" /\ count = ShadowPop(src.sh, src.off, 2)
    <3>1. count.err = "ok"
      BY <1>4, <1>6, UseOk
    <3> QED  BY <1>2, <3>1 DEF PopAfter
  <2>2. n = d /\ n \in {2, 4, 8} /\ Popped(h) = 2 * n + 2
    <3>1. d # 1
      BY <1>1, <1>2, OpsAre DEF WholeWords, Binary, DoubleShift
    <3> QED  BY <1>1, <1>2, <3>1, OpsAre, Traffic
  <2>3. PICK live, rest, under :
          live = LiveStack /\ rest = After(LiveStack, Popped(h)) /\ under = After(live, 2 * n)
    OBVIOUS
  <2>4. Operands(dst, src, n, n, live) /\ Popped(h) <= Len(live)
    <3>1. n + n <= Popped(h) /\ n \in Nat
      BY <2>2
    <3>2. PopsTwo(dst, src, n, n)
      BY <1>2, <2>1 DEF PopsTwo
    <3>3. Operands(dst, src, n, n, LiveStack) /\ Popped(h) <= Len(LiveStack)
      BY <1>1, <3>1, <3>2, OperandsAre
    <3> QED  BY <2>3, <3>3
  <2>5. /\ live \in Seq(Byte) /\ Len(live) \in Nat /\ n \in Nat /\ 2 * n \in Nat /\ n + n = 2 * n
        /\ 2 * n + 2 <= Len(live) /\ 2 * n <= Len(live) /\ n <= Len(live) /\ n + n <= Len(live)
        /\ 2 \in Nat /\ 1 \in Nat /\ 1 <= 2
    <3>1. live \in Seq(Byte) /\ Len(live) \in Nat
      BY <2>4 DEF Operands
    <3> QED  BY <2>2, <2>4, <3>1
  <2>6. Plain(src.sh, src.off, stackArray, under)
    BY <2>3, <2>4, <2>5 DEF Operands
  <2>7. Pops(count, src.sh, src.off, stackArray, under, 2)
    <3>1. 2 <= Len(under)
      <4>1. Len(After(live, 2 * n)) = Len(live) - 2 * n
        BY <2>5, AfterIs
      <4> QED  BY <2>3, <2>5, <4>1
    <3> QED  BY <2>1, <2>5, <2>6, <3>1, PopLive
  <2>8. Plain(count.sh, count.off, stackArray, rest)
    <3>1. stackArray \in Arrays
      BY <2>6 DEF Plain
    <3>2. Plain(count.sh, count.off, stackArray, After(under, 2))
      BY <2>7, <3>1, PopsPlain
    <3>3. After(After(live, 2 * n), 2) = After(live, 2 * n + 2)
      BY <2>5, AfterAfter
    <3> QED  BY <2>2, <2>3, <3>2, <3>3
  <2>9. Trunc(count.value, 1) = SubSeq(live, 2 * n + 1, 2 * n + 1)
    <3>1. count.value = Trunc(under, 2)
      BY <2>7 DEF Pops
    <3>2. Trunc(After(live, 2 * n), 2) = SubSeq(live, 2 * n + 1, 2 * n + 2)
      BY <2>5, UnderIs
    <3>3. Trunc(SubSeq(live, 2 * n + 1, 2 * n + 2), 1) = SubSeq(live, 2 * n + 1, 2 * n + 1)
      BY <2>5, CutUnder
    <3> QED  BY <2>3, <3>1, <3>2, <3>3
  <2>10. PICK x, y : /\ x = dst.value /\ y = src.value
                     /\ x = Trunc(live, n) /\ y = SubSeq(live, n + 1, n + n)
    BY <2>4 DEF Operands
  <2>11. Trunc(x, d) = x /\ Trunc(y, d) = y
    <3>1. Trunc(live, n) \in Seq(Byte) /\ Len(Trunc(live, n)) = n
      BY <2>5, TruncIs
    <3>2. SubSeq(live, n + 1, n + n) \in Seq(Byte) /\ Len(SubSeq(live, n + 1, n + n)) = n
      BY <2>5, UnderIs
    <3>3. x \in Seq(Byte) /\ y \in Seq(Byte) /\ Len(x) = n /\ Len(y) = n
      BY <2>10, <3>1, <3>2
    <3>4. SubSeq(x, 1, Len(x)) = x /\ SubSeq(y, 1, Len(y)) = y
      BY <3>3, SubSeqFull
    <3> QED  BY <2>2, <3>3, <3>4 DEF Trunc
  <2>12. v \in Seq(Byte) /\ Len(v) = n /\ ZeroExtend(v, n) = v /\ n > 0
    BY <1>3, <2>2, ResultIs
  <2>13. Fits(s) /\ s.flagsPromise = NoPromise /\ s.depth = n /\ s.value = v
    <3>1. Len(v) > 0
      BY <2>12
    <3> QED  BY <1>3, <2>12, <3>1, ValueSlotFits
  <2>14. /\ RInv' /\ VM!Step(h, Popped(h), FlagsOf(pos + 1) \o v \o rest, consumed)
         /\ (IF Gone THEN <<>> ELSE LiveStack) = LiveStack
         /\ UNCHANGED (IF Gone THEN <<>> ELSE LiveContext) /\ UNCHANGED ~Gone
    BY <1>1, <1>2, <1>6, <2>3, <2>8, <2>13, AluSim
  <2>15. VM!Step(h, 2 * n + 2,
                 FlagsOf(pos + 1) \o ZeroExtend(v, n) \o SubSeq(live, 2 * n + 2 + 1, Len(live)),
                 <<Trunc(live, n), SubSeq(live, n + 1, n + n), SubSeq(live, 2 * n + 1, 2 * n + 1)>>)
    BY <1>3, <2>2, <2>3, <2>9, <2>10, <2>11, <2>12, <2>14 DEF After
  <2>16. VM!DoubleShiftAlu(h)
    BY <1>1, <1>2, <1>3, <2>2, <2>3, <2>14, <2>15, SameWords
       DEF VM!DoubleShiftAlu, VM!Compute, VM!Drop, VM!Under
  <2>17. VM!Next
    BY <2>16 DEF VM!Next
  <2> QED  BY <2>14, <2>17 DEF Simulates
<1> QED  BY <1>4, <1>5, <1>6

-----------------------------------------------------------------------------
(* Handlers that flush the shadow stack.                                   *)
LEMMA EmptyStack ==
  /\ FitStack(<<>>) /\ NoPromises(<<>>) /\ Promising(<<>>)
  /\ ShadowDepth(<<>>) = 0
<1>1. Len(<<>>) = 0 /\ <<>> \in Seq(Slot)
  OBVIOUS
<1>2. FitStack(<<>>) /\ NoPromises(<<>>)
  BY <1>1 DEF FitStack, NoPromises
<1>3. Bottom(<<>>)[0] = 0
  BY <1>1, BottomIs
<1> QED  BY <1>1, <1>2, <1>3, PlainPromising, DepthIs

LEMMA NothingWaits ==
  ASSUME NEW sh, FitStack(sh), ShadowDepth(sh) = 0
  PROVE  sh = <<>>
<1>1. PICK n : n = Len(sh) /\ n \in Nat
  BY FitLen
<1>2. n = 0
  <2>1. SUFFICES ASSUME n # 0 PROVE FALSE
    OBVIOUS
  <2>2. n \in 1..n /\ n - 1 \in 0..n
    BY <1>1, <2>1
  <2>3. Bottom(sh)[n] = Bottom(sh)[n - 1] + sh[n].depth
    BY <1>1, <2>2, BottomIs
  <2>4. Bottom(sh)[n - 1] \in Nat
    BY <1>1, <2>2, BottomNat
  <2>5. sh[n].depth \in Nat \ {0}
    BY <1>1, <2>2, FitLen
  <2>6. Bottom(sh)[n] = 0
    BY <1>1, DepthIs
  <2> QED  BY <2>3, <2>4, <2>5, <2>6
<1>3. sh \in Seq(Slot)
  BY DEF FitStack
<1> QED  BY <1>1, <1>2, <1>3, EmptySeq

(* The first operand of an access is known to be an address of the stack   *)
(* exactly when it is one.                                                 *)
LEMMA KnownVsp ==
  ASSUME Regular, RInv, NEW h, Starts(h, h.op), h.op \in {"ReadMem", "WriteMem"},
         NEW a, a = PopTop(PtrSize), a.err = "ok"
  PROVE  /\ IsStackAddress(Trunc(LiveStack, PtrSize)) => a.isVspPush = TRUE
         /\ ~IsStackAddress(Trunc(LiveStack, PtrSize)) => a.isVspPush = FALSE
<1>1. PICK n, top : n = Len(shadowStack) /\ n \in Nat /\ top = shadowStack[n]
  BY FitLen DEF RInv, StackInv
<1>2. (n > 0 /\ top.isVspPush) <=> IsStackAddress(Trunc(LiveStack, PtrSize))
  BY <1>1 DEF Starts, Legal, Disciplined, Regular, Assumptions
<1>3. shadowStack \in Seq(Slot)
  BY DEF RInv, StackInv, FitStack
<1>4. CASE n > 0 /\ top.depth = PtrSize
  <2>1. a.isVspPush = top.isVspPush
    BY <1>1, <1>4 DEF PopTop, ShadowPop, PopSlot
  <2>2. top.isVspPush \in BOOLEAN
    <3>1. n \in 1..Len(shadowStack)
      BY <1>1, <1>4
    <3>2. top \in Slot
      BY <1>1, <1>3, <3>1, ElementOfSeq
    <3> QED  BY <3>2 DEF Slot
  <2> QED  BY <1>2, <1>4, <2>1, <2>2
<1>5. CASE ~(n > 0 /\ top.depth = PtrSize)
  <2>1. a.isVspPush = FALSE
    <3>1. ~(shadowStack # <<>> /\ shadowStack[Len(shadowStack)].depth = PtrSize)
      BY <1>1, <1>3, <1>5
    <3>2. a = PopPieces(shadowStack, stackOffset, PtrSize, TopDepth(shadowStack),
                        WholeSlots(shadowStack, PtrSize),
                        PtrSize - TopDepth(shadowStack)[WholeSlots(shadowStack, PtrSize)])
      BY <3>1 DEF PopTop, ShadowPop
    <3> QED  BY <3>2 DEF PopPieces, Failed
  <2>2. ~(n > 0 /\ top.isVspPush)
    <3>1. SUFFICES ASSUME n > 0, top.isVspPush PROVE FALSE
      OBVIOUS
    <3>2. n \in 1..Len(shadowStack) /\ n \in DOMAIN shadowStack
      BY <1>1, <1>3, <3>1
    <3>3. WellFormed(top)
      BY <1>1, <3>2, ElementOfSeq DEF RInv, IInv, Starts, GoodStack
    <3> QED  BY <1>5, <3>1, <3>3 DEF WellFormed
  <2> QED  BY <1>2, <2>1, <2>2
<1> QED  BY <1>4, <1>5

(* Where an accessed address lies in the live stack.                       *)
LEMMA AccessIs ==
  ASSUME Regular, RInv, NEW h \in Handlers, Starts(h, h.op), h.op \in {"ReadMem", "WriteMem"},
         IsStackAddress(Trunc(LiveStack, PtrSize)),
         NEW at, at = OffsetOf(Trunc(LiveStack, PtrSize)),
         NEW off \in Int, Above - off = Len(LiveStack) - Popped(h)
  PROVE  /\ at \in Int /\ off <= at /\ at + h.d <= Above
         /\ at - CurrentVsp \in Popped(h)..(Len(LiveStack) - h.d)
         /\ off = CurrentVsp + Popped(h)
<1>1. PICK n, d, l, c, m : /\ n = Popped(h) /\ d = h.d /\ l = Len(LiveStack) /\ c = CurrentVsp
                           /\ m = Above
  OBVIOUS
<1>2. n \in Nat /\ d \in Nat /\ m \in Nat
  BY <1>1, TrafficNat, OpsAre, SizesAssumption
<1>3. l = m - c /\ c \in Int /\ l \in Nat
  BY <1>1, LiveIs
<1>4. vspAfter = c
  BY <1>1 DEF Starts, RInv
<1>5. at \in (c + n)..(m - d)
  BY <1>1, <1>4 DEF Starts, Legal
<1>6. m - off = l - n
  BY <1>1
<1>7. at \in Int /\ off <= at /\ at + d <= m /\ at - c \in n..(l - d) /\ off = c + n
  BY <1>2, <1>3, <1>5, <1>6
<1> QED  BY <1>1, <1>7

LEMMA JmpSim ==
  ASSUME Regular, RInv, IInv', NEW h \in Handlers, LiftVmJmpIndirect(h)
  PROVE  Simulates
<1>1. /\ Starts(h, h.op) /\ h.op = "Jmp" /\ status = "ok" /\ Legal(h)
  BY DEF LiftVmJmpIndirect, Starts
<1>2. PICK p, error : p = PopTop(8) /\ error = UseError(<<p>>, FALSE)
  OBVIOUS
<1>3. \/ Stop(error)
      \/ /\ error = "ok"
         /\ stackArray' = Flushed(stackArray, p.sh, p.off)
         /\ Emit(h, <<>>, FlushedOffset(p.sh, p.off), <<p.value>>)
         /\ flagCalculators' = NoCalculators
         /\ inBlock' = FALSE
         /\ UNCHANGED <<virtualContext, status>>
  BY <1>2 DEF LiftVmJmpIndirect, PtrSize
<1>4. CASE Stop(error)
  BY <1>1, <1>4, StopSim
<1>5. CASE /\ error = "ok"
           /\ stackArray' = Flushed(stackArray, p.sh, p.off)
           /\ Emit(h, <<>>, FlushedOffset(p.sh, p.off), <<p.value>>)
           /\ flagCalculators' = NoCalculators
           /\ inBlock' = FALSE
           /\ UNCHANGED <<virtualContext, status>>
  <2>1. p.err = "ok"
    BY <1>2, <1>5, UseOk
  <2>2. PICK live, rest : live = LiveStack /\ rest = After(LiveStack, 8)
    OBVIOUS
  <2>3. Popped(h) = 8 /\ Pushed(h) = 0
    BY <1>1, Traffic DEF PtrSize
  <2>4. live \in Seq(Byte) /\ Len(live) \in Nat /\ 8 <= Len(live) /\ 8 \in Nat
    BY <1>1, <2>2, <2>3, LiveIs DEF Legal
  <2>5. Plain(shadowStack, stackOffset, stackArray, live)
    BY <1>1, <2>2, PlainState
  <2>6. Pops(p, shadowStack, stackOffset, stackArray, live, 8)
    BY <1>2, <2>1, <2>4, <2>5, PopLive DEF PopTop
  <2>7. PICK sh, o, off, array :
          /\ sh = p.sh /\ o = p.off /\ off = o - ShadowDepth(sh) /\ array = Flushed(stackArray, sh, o)
    OBVIOUS
  <2>8. Plain(sh, o, stackArray, rest)
    <3>1. stackArray \in Arrays
      BY <2>5 DEF Plain
    <3>2. Plain(p.sh, p.off, stackArray, After(live, 8))
      BY <2>6, <3>1, PopsPlain
    <3> QED  BY <2>2, <2>7, <3>2
  <2>9. FlushedOffset(sh, o) = off
    BY <2>7, <2>8, FlushedOffsetIs DEF Plain
  <2>10. off >= -Below
    <3>1. FlushedOffset(sh, o) - ShadowDepth(<<>>) >= -Below
      BY <1>5, <2>7 DEF Emit
    <3>2. off \in Int
      <4>1. o \in Int /\ ShadowDepth(sh) \in Nat
        BY <2>8, LiveLen DEF Plain
      <4> QED  BY <2>7, <4>1
    <3> QED  BY <2>9, <3>1, <3>2, EmptyStack
  <2>11. Plain(<<>>, off, array, rest)
    BY <2>7, <2>8, <2>10, FlushLive
  <2>12. /\ Emit(h, <<>>, off, <<p.value>>) /\ stackArray' = array
    BY <1>5, <2>7, <2>9
  <2>13. StackInv(<<>>, off, stackArray') /\ IsLive(rest, <<>>, off, stackArray')
    BY <2>11, <2>12, EmptyStack DEF StackInv, Plain
  <2>14. DOMAIN flagCalculators = {}
    BY <1>1 DEF Legal, Disciplined, Regular, Assumptions
  <2>15. ContextInv(virtualContext', flagCalculators') /\ LiveContext' = LiveContext
    <3>1. DOMAIN flagCalculators' = {}
      BY <1>5 DEF NoCalculators
    <3>2. ContextInv(virtualContext', flagCalculators')
      BY <1>5, <3>1 DEF ContextInv, RInv
    <3>3. \A x : PromisedBy(flagCalculators, x) = {} /\ PromisedBy(flagCalculators', x) = {}
      BY <2>14, <3>1 DEF PromisedBy
    <3>4. ContextOf(virtualContext', flagCalculators') = ContextOf(virtualContext, flagCalculators)
      BY <1>5, <3>3 DEF ContextOf
    <3> QED  BY <3>2, <3>4, LiveContextIs
  <2>16. Len(rest) = Len(LiveStack) - Popped(h) + Pushed(h)
    <3>1. Len(After(live, 8)) = Len(live) - 8
      BY <2>4, AfterIs
    <3> QED  BY <2>2, <2>3, <2>4, <3>1
  <2>17. /\ RInv' /\ VM!Step(h, Popped(h), rest, <<p.value>>)
         /\ (IF Gone THEN <<>> ELSE LiveStack) = LiveStack
         /\ (IF Gone THEN <<>> ELSE LiveContext) = LiveContext
         /\ (IF Gone THEN <<>> ELSE LiveContext)' = LiveContext'
         /\ UNCHANGED ~Gone
    <3>1. status' = "ok" /\ inBlock' \in BOOLEAN /\ (~inBlock' => <<>> = <<>>)
      BY <1>1, <1>5
    <3> QED  BY <1>1, <2>12, <2>13, <2>15, <2>16, <3>1, EmitSim
  <2>18. VM!Step(h, 8, SubSeq(live, 8 + 1, Len(live)), <<Trunc(live, 8)>>)
    BY <2>2, <2>3, <2>6, <2>17 DEF After, Pops
  <2>19. VM!Jmp(h)
    BY <1>1, <2>2, <2>15, <2>17, <2>18, SameWords DEF VM!Jmp, VM!Drop, PtrSize
  <2>20. VM!Next
    BY <2>19 DEF VM!Next
  <2> QED  BY <2>17, <2>20 DEF Simulates
<1> QED  BY <1>3, <1>4, <1>5

(* When nothing waits, the flush before an access moves nothing.           *)
LEMMA DrainedFlush ==
  ASSUME NEW sh, NEW off, NEW rest, Plain(sh, off, stackArray, rest), ShadowDepth(sh) = 0,
         NEW array, array = Flushed(stackArray, sh, off)
  PROVE  sh = <<>> /\ FlushedOffset(sh, off) = off /\ Plain(<<>>, off, array, rest) /\ off \in Int
<1>1. sh = <<>>
  BY NothingWaits DEF Plain
<1>2. off \in Int /\ off >= -Below
  BY SizesAssumption DEF Plain, Offsets
<1>3. off - ShadowDepth(sh) = off
  BY <1>2
<1>4. /\ FlushedOffset(sh, off) = off - ShadowDepth(sh)
      /\ Plain(<<>>, off - ShadowDepth(sh), array, rest)
  <2>1. off - ShadowDepth(sh) >= -Below
    BY <1>2, <1>3
  <2> QED  BY <2>1, FlushLive
<1> QED  BY <1>1, <1>2, <1>3, <1>4

LEMMA BytesAre ==
  ASSUME NEW s, s \in Seq(Byte), NEW a \in Nat, NEW d \in Nat, a + d <= Len(s),
         NEW u, u = SubSeq(s, a + 1, a + d)
  PROVE  u \in Seq(Byte) /\ Len(u) = d /\ \A k \in 1..d : u[k] = s[a + k]
<1>1. /\ SubSeq(s, a + 1, a + d) \in Seq(Byte) /\ Len(SubSeq(s, a + 1, a + d)) = d
      /\ \A k \in 1..d : SubSeq(s, a + 1, a + d)[k] = s[a + k]
  BY RangeIs
<1> QED  BY <1>1

(* An access that reads bytes of the stack reads those of the live stack.  *)
LEMMA ReadBytes ==
  ASSUME NEW live, live \in Seq(Byte), NEW n \in Nat, n <= Len(live),
         NEW off, NEW array, Plain(<<>>, off, array, After(live, n)),
         NEW at \in Int, NEW d \in Nat, off <= at, at + d <= Above
  PROVE  LoadOf(array, at, d) = SubSeq(live, (at - (off - n)) + 1, (at - (off - n)) + d)
<1>1. PICK rest, v, u, j, i :
        /\ rest = After(live, n) /\ v = [k \in 1..d |-> array[at + k - 1]] /\ i = at - (off - n)
        /\ j = at - off /\ u = SubSeq(live, j + n + 1, j + n + d)
  OBVIOUS
<1>2. /\ rest \in Seq(Byte) /\ Len(rest) = Above - off /\ Above - off \in Nat /\ off \in Int
      /\ \A k \in 1..(Above - off) : rest[k] = array[off + k - 1]
  <2>1. Plain(<<>>, off, array, rest)
    BY <1>1
  <2> QED  BY <2>1, StoredBytes
<1>3. /\ Len(rest) = Len(live) - n /\ \A k \in 1..(Len(live) - n) : rest[k] = live[n + k]
  BY <1>1, AfterIs
<1>4. Len(live) \in Nat /\ Above \in Nat
  BY LenProperties, SizesAssumption
<1>5. j \in Nat /\ j + d <= Above - off /\ i = j + n /\ (j + n) + d <= Len(live) /\ j + n \in Nat
  BY <1>1, <1>2, <1>3, <1>4
<1>6. u \in Seq(Byte) /\ Len(u) = d /\ \A k \in 1..d : u[k] = live[(j + n) + k]
  <2>1. PICK m : m = j + n
    OBVIOUS
  <2>2. m \in Nat /\ m + d <= Len(live)
    BY <1>5, <2>1
  <2>3. u = SubSeq(live, m + 1, m + d)
    BY <1>1, <2>1
  <2>4. u \in Seq(Byte) /\ Len(u) = d /\ \A k \in 1..d : u[k] = live[m + k]
    BY <2>2, <2>3, BytesAre
  <2> QED  BY <2>1, <2>4
<1>7. ASSUME NEW k \in 1..d PROVE array[at + k - 1] = u[k]
  <2>1. j + k \in 1..(Above - off) /\ off + (j + k) - 1 = at + k - 1 /\ n + (j + k) = (j + n) + k
    <3>1. off \in Int /\ Above - off \in Nat
      BY <1>2
    <3>2. j \in Nat /\ j + d <= Above - off
      BY <1>5
    <3>3. j = at - off
      BY <1>1
    <3>4. at = off + j
      BY <3>1, <3>3
    <3> QED  BY <3>1, <3>2, <3>4
  <2>2. rest[j + k] = array[off + (j + k) - 1]
    BY <1>2, <2>1
  <2>3. rest[j + k] = live[n + (j + k)]
    BY <1>2, <1>3, <2>1
  <2> QED  BY <1>6, <2>1, <2>2, <2>3
<1>8. v = [k \in 1..d |-> u[k]]
  BY <1>1, <1>7
<1>9. u = [k \in 1..d |-> u[k]]
  BY <1>6
<1> QED  BY <1>1, <1>5, <1>8, <1>9 DEF LoadOf

LEMMA ReadMemSim ==
  ASSUME Regular, RInv, IInv', NEW h \in Handlers, LiftVmReadMem(h)
  PROVE  Simulates
<1>1. /\ Starts(h, h.op) /\ h.op = "ReadMem" /\ status = "ok" /\ Legal(h) /\ inBlock
  BY DEF LiftVmReadMem, Starts
<1>2. PICK d, a, error : d = h.d /\ a = PopTop(8) /\ error = UseError(<<a>>, TRUE)
  OBVIOUS
<1>3. PICK array, at, read :
        /\ array = Flushed(stackArray, a.sh, a.off) /\ at = OffsetOf(a.value)
        /\ read = IF a.isVspPush
                  THEN ValueSlot([k \in 1..d |-> array[at + k - 1]], d)
                  ELSE ValueSlot(Word("res", pos + 1, d), StackDepth(d))
  OBVIOUS
<1>4. \/ Stop(error)
      \/ /\ error = "ok" /\ stackArray' = array
         /\ Emit(h, Append(a.sh, read), FlushedOffset(a.sh, a.off), <<a.value>>)
         /\ status' \in {"ok", "address"}
         /\ UNCHANGED <<flagCalculators, virtualContext, inBlock>>
  BY <1>2, <1>3 DEF LiftVmReadMem, GenerateMemoryAccess, PtrSize
<1>5. CASE Stop(error)
  BY <1>1, <1>5, StopSim
<1>6. CASE /\ error = "ok" /\ stackArray' = array
           /\ Emit(h, Append(a.sh, read), FlushedOffset(a.sh, a.off), <<a.value>>)
           /\ status' \in {"ok", "address"}
           /\ UNCHANGED <<flagCalculators, virtualContext, inBlock>>
  <2>1. a.err = "ok"
    BY <1>2, <1>6, UseOk
  <2>2. PICK live, rest : live = LiveStack /\ rest = After(LiveStack, 8)
    OBVIOUS
  <2>3. Popped(h) = 8 /\ Pushed(h) = d /\ d \in {2, 4, 8} /\ StackDepth(d) = d
    <3>1. d # 1
      BY <1>1, <1>2, OpsAre DEF WholeWords
    <3>2. StackDepth(d) = d
      BY <1>2, <3>1, OpsAre
    <3> QED  BY <1>1, <1>2, <3>1, <3>2, OpsAre, Traffic DEF PtrSize
  <2>4. live \in Seq(Byte) /\ Len(live) \in Nat /\ 8 <= Len(live) /\ 8 \in Nat /\ d \in Nat
    BY <1>1, <2>2, <2>3, LiveIs DEF Legal
  <2>5. Plain(shadowStack, stackOffset, stackArray, live)
    BY <1>1, <2>2, PlainState
  <2>6. Pops(a, shadowStack, stackOffset, stackArray, live, 8)
    BY <1>2, <2>1, <2>4, <2>5, PopLive DEF PopTop
  <2>7. PICK sh, off : sh = a.sh /\ off = a.off
    OBVIOUS
  <2>8. Plain(sh, off, stackArray, rest)
    <3>1. stackArray \in Arrays
      BY <2>5 DEF Plain
    <3>2. Plain(a.sh, a.off, stackArray, After(live, 8))
      BY <2>6, <3>1, PopsPlain
    <3> QED  BY <2>2, <2>7, <3>2
  <2>9. ShadowDepth(sh) = 0
    <3>1. ShadowDepth(shadowStack) <= 8
      BY <1>1, <2>3 DEF Legal, Disciplined, Regular, Assumptions
    <3> QED  BY <2>6, <2>7, <3>1 DEF Pops
  <2>10. sh = <<>> /\ FlushedOffset(sh, off) = off /\ Plain(<<>>, off, array, rest) /\ off \in Int
    BY <1>3, <2>7, <2>8, <2>9, DrainedFlush
  <2>11. Len(rest) = Len(live) - 8
    BY <2>2, <2>4, AfterIs
  <2>12. a.value = Trunc(live, 8)
    BY <2>6 DEF Pops
  <2>13. PICK stacked, i, v :
           /\ stacked = IsStackAddress(Trunc(live, 8)) /\ i = at - CurrentVsp
           /\ v = IF stacked THEN SubSeq(live, i + 1, i + d) ELSE Word("res", pos + 1, d)
    OBVIOUS
  <2>14. /\ stacked => a.isVspPush = TRUE
         /\ ~stacked => a.isVspPush = FALSE
    BY <1>1, <1>2, <2>1, <2>2, <2>13, KnownVsp DEF PtrSize
  <2>15. stacked => /\ at \in Int /\ off <= at /\ at + d <= Above /\ i \in 8..(Len(live) - d)
                    /\ off = CurrentVsp + 8
    <3>1. Above - off = Len(LiveStack) - Popped(h)
      <4>1. Len(rest) = Above - off
        BY <2>10, StoredBytes
      <4> QED  BY <2>2, <2>3, <2>11, <4>1
    <3>2. SUFFICES ASSUME stacked
                   PROVE  /\ at \in Int /\ off <= at /\ at + d <= Above /\ i \in 8..(Len(live) - d)
                          /\ off = CurrentVsp + 8
      OBVIOUS
    <3>3. IsStackAddress(Trunc(LiveStack, PtrSize)) /\ at = OffsetOf(Trunc(LiveStack, PtrSize))
      BY <1>3, <2>2, <2>12, <2>13, <3>2 DEF PtrSize
    <3>4. /\ at \in Int /\ off <= at /\ at + h.d <= Above
          /\ at - CurrentVsp \in Popped(h)..(Len(LiveStack) - h.d)
          /\ off = CurrentVsp + Popped(h)
      BY <1>1, <2>10, <3>1, <3>3, AccessIs
    <3> QED  BY <1>2, <2>2, <2>3, <2>13, <3>4
  <2>16. read = ValueSlot(v, d) /\ v \in Seq(Byte) /\ Len(v) = d
    <3>1. CASE stacked
      <4>1. [k \in 1..d |-> array[at + k - 1]] = SubSeq(live, i + 1, i + d)
        <5>1. i = at - (off - 8)
          <6>1. PICK c : c = CurrentVsp /\ c \in Int
            BY LiveIs
          <6> QED  BY <2>10, <2>13, <2>15, <3>1, <6>1
        <5>2. Plain(<<>>, off, array, After(live, 8))
          BY <2>2, <2>10
        <5>3. /\ live \in Seq(Byte) /\ 8 \in Nat /\ 8 <= Len(live) /\ at \in Int /\ d \in Nat
              /\ off <= at /\ at + d <= Above
          BY <2>4, <2>15, <3>1
        <5>4. LoadOf(array, at, d) = SubSeq(live, (at - (off - 8)) + 1, (at - (off - 8)) + d)
          BY <5>2, <5>3, ReadBytes
        <5> QED  BY <5>1, <5>4 DEF LoadOf
      <4>2. i \in Nat /\ i + d <= Len(live)
        BY <2>4, <2>15, <3>1
      <4>3. SubSeq(live, i + 1, i + d) \in Seq(Byte) /\ Len(SubSeq(live, i + 1, i + d)) = d
        BY <2>4, <4>2, RangeIs
      <4> QED  BY <1>3, <2>13, <2>14, <3>1, <4>1, <4>3
    <3>2. CASE ~stacked
      <4>1. v \in Seq(Byte) /\ Len(v) = d
        BY <2>3, <2>13, <3>2, ResultIs
      <4> QED  BY <1>3, <2>3, <2>13, <2>14, <3>2, <4>1
    <3> QED  BY <2>13, <3>1, <3>2
  <2>17. Fits(read) /\ read.flagsPromise = NoPromise /\ read.depth = d /\ SlotBytes(read) = v
    <3>1. Len(v) > 0
      BY <2>3, <2>16
    <3>2. Fits(read) /\ read.flagsPromise = NoPromise /\ read.depth = d /\ read.value = v
      BY <2>16, <3>1, ValueSlotFits
    <3> QED  BY <3>2, SlotBytesIs
  <2>18. PICK new, left : new = Append(<<>>, read) /\ left = v \o rest
    OBVIOUS
  <2>19. FitStack(new) /\ Promising(new) /\ IsLive(left, new, off, array)
    <3>1. FitStack(<<>>) /\ off \in Offsets /\ IsLive(rest, <<>>, off, array)
      BY <2>10 DEF Plain
    <3>2. IsLive(SlotBytes(read) \o rest, Append(<<>>, read), off, array)
      BY <2>17, <3>1, PushLive
    <3>3. read.flagsPromise \in 0..MaxLength
      BY <2>17, SizesAssumption DEF NoPromise
    <3>4. FitStack(Append(<<>>, read)) /\ Promising(Append(<<>>, read))
      BY <2>17, <3>3, EmptyStack, PushFits, PushPromising
    <3> QED  BY <2>17, <2>18, <3>2, <3>4
  <2>20. /\ StackInv(new, off, stackArray') /\ IsLive(left, new, off, stackArray')
         /\ Emit(h, new, off, <<a.value>>)
    BY <1>6, <2>7, <2>10, <2>18, <2>19 DEF StackInv, Plain
  <2>21. Len(left) = Len(LiveStack) - Popped(h) + Pushed(h)
    <3>1. rest \in Seq(Byte) /\ v \in Seq(Byte)
      BY <2>2, <2>4, <2>16, AfterIs
    <3>2. Len(v \o rest) = Len(v) + Len(rest)
      BY <3>1, ConcatAt
    <3> QED  BY <2>2, <2>3, <2>4, <2>11, <2>16, <2>18, <3>2
  <2>22. status' = "ok"
    BY <1>6 DEF IInv
  <2>23. /\ RInv' /\ VM!Step(h, Popped(h), left, <<a.value>>)
         /\ (IF Gone THEN <<>> ELSE LiveStack) = LiveStack
         /\ UNCHANGED ~Gone /\ ~Gone /\ ~Gone'
    <3>1. ContextInv(virtualContext', flagCalculators') /\ inBlock' \in BOOLEAN /\ inBlock'
      BY <1>1, <1>6 DEF RInv, CountersInv
    <3>2. ~Gone /\ ~Gone'
      BY <1>1, <2>22 DEF Gone
    <3> QED  BY <1>1, <2>20, <2>21, <2>22, <3>1, <3>2, EmitSim
  <2>24. UNCHANGED (IF Gone THEN <<>> ELSE LiveContext)
    BY <1>6, <2>23, ContextStays DEF SameContext
  <2>25. ZeroExtend(v, d) = v
    <3>1. PICK w : w = v
      OBVIOUS
    <3>2. w \in Seq(Byte) /\ d \in Int /\ d <= Len(w)
      BY <2>4, <2>16, <3>1
    <3>3. ZeroExtend(w, d) = w
      BY <3>2, ExtendIs
    <3> QED  BY <3>1, <3>3
  <2>26. VM!Vsp = CurrentVsp
    <3>1. Above - Len(LiveStack) = CurrentVsp
      BY LiveIs, SizesAssumption
    <3> QED  BY <2>23, <3>1 DEF VM!Vsp
  <2>27. VM!Step(h, 8, ZeroExtend(v, StackDepth(d)) \o SubSeq(live, 8 + 1, Len(live)),
                 <<Trunc(live, 8)>>)
    BY <2>2, <2>3, <2>12, <2>18, <2>23, <2>25 DEF After
  <2>28. /\ i = OffsetOf(Trunc(live, 8)) - VM!Vsp
         /\ IsStackAddress(Trunc(live, 8)) => i \in 8..(Len(live) - d)
         /\ v = IF IsStackAddress(Trunc(live, 8)) THEN SubSeq(live, i + 1, i + d)
                ELSE Word("res", pos + 1, d)
    BY <1>3, <2>12, <2>13, <2>15, <2>26
  <2>29. VM!ReadMem(h)
    BY <1>1, <1>2, <2>2, <2>4, <2>23, <2>24, <2>27, <2>28, SameWords
       DEF VM!ReadMem, VM!Drop, VM!Under, PtrSize
  <2>30. VM!Next
    BY <2>29 DEF VM!Next
  <2> QED  BY <2>23, <2>24, <2>30 DEF Simulates
<1> QED  BY <1>4, <1>5, <1>6

LEMMA WriteMemSim ==
  ASSUME Regular, RInv, IInv', NEW h \in Handlers, LiftVmWriteMem(h)
  PROVE  Simulates
<1>1. /\ Starts(h, h.op) /\ h.op = "WriteMem" /\ status = "ok" /\ Legal(h) /\ inBlock
      /\ h.op # "Pop"
  BY DEF LiftVmWriteMem, Starts
<1>2. PICK d, n, a, p : d = h.d /\ n = StackDepth(d) /\ a = PopTop(8) /\ p = PopAfter(a, n)
  OBVIOUS
<1>3. PICK v, noValue, used :
        /\ v = IF d = 1 THEN Trunc(p.value, 1) ELSE p.value
        /\ noValue = (p.flagsPromise # NoPromise) /\ used = UseError(<<a>>, TRUE)
  OBVIOUS
<1>4. PICK error : error = IF used # "ok" THEN used
                           ELSE IF p.err # "ok" THEN p.err
                           ELSE IF p.ptr /\ ~a.isVspPush THEN "badIR" ELSE "ok"
  OBVIOUS
<1>5. \/ Stop(error)
      \/ error = "ok" /\ GenerateMemoryAccess(h, a, p.sh, p.off, noValue, v, <<a.value, v>>)
  BY <1>2, <1>3, <1>4 DEF LiftVmWriteMem, PtrSize
<1>6. CASE Stop(error)
  BY <1>1, <1>6, StopSim
<1>7. CASE error = "ok" /\ GenerateMemoryAccess(h, a, p.sh, p.off, noValue, v, <<a.value, v>>)
  <2>1. a.err = "ok" /\ p.err = "ok"
    <3>1. p.err = "ok"
      BY <1>4, <1>7
    <3> QED  BY <1>2, <3>1 DEF PopAfter
  <2>2. PICK live, m, rest : live = LiveStack /\ m = 8 + n /\ rest = After(LiveStack, m)
    OBVIOUS
  <2>3. /\ Popped(h) = m /\ Pushed(h) = 0 /\ d \in {1, 2, 4, 8} /\ n \in {2, 4, 8} /\ d <= n
        /\ d \in Nat /\ n \in Nat /\ m \in Nat /\ 8 \in Nat /\ (d # 1 => n = d)
    BY <1>1, <1>2, <2>2, OpsAre, Traffic DEF PtrSize
  <2>4. Operands(a, p, 8, n, live) /\ m <= Len(live)
    <3>1. 8 + n <= Popped(h)
      BY <2>2, <2>3
    <3>2. PopsTwo(a, p, 8, n)
      BY <1>2, <2>1 DEF PopsTwo
    <3>3. n \in Nat /\ 8 \in Nat
      BY <2>3
    <3>4. Operands(a, p, 8, n, LiveStack) /\ Popped(h) <= Len(LiveStack)
      BY <1>1, <3>1, <3>2, <3>3, OperandsAre
    <3> QED  BY <2>2, <2>3, <3>4
  <2>5. PICK sh, off, array, at :
          /\ sh = p.sh /\ off = p.off /\ array = Flushed(stackArray, sh, off)
          /\ at = OffsetOf(a.value)
    OBVIOUS
  <2>6. ~noValue
    BY <1>3, <2>4 DEF Operands
  <2>7. /\ stackArray' = IF a.isVspPush THEN Store(array, at, v) ELSE array
        /\ Emit(h, sh, FlushedOffset(sh, off), <<a.value, v>>)
        /\ status' \in {"ok", "address"}
        /\ UNCHANGED <<flagCalculators, virtualContext, inBlock>>
    BY <1>7, <2>5, <2>6 DEF GenerateMemoryAccess
  <2>8. live \in Seq(Byte) /\ Len(live) \in Nat
    BY <2>2, LiveIs
  <2>9. Plain(sh, off, stackArray, rest)
    BY <2>2, <2>4, <2>5 DEF Operands
  <2>10. ShadowDepth(sh) = 0
    <3>1. ShadowDepth(shadowStack) <= m
      BY <1>1, <2>3 DEF Legal, Disciplined, Regular, Assumptions
    <3> QED  BY <2>2, <2>4, <2>5, <3>1 DEF Operands
  <2>11. sh = <<>> /\ FlushedOffset(sh, off) = off /\ Plain(<<>>, off, array, rest) /\ off \in Int
    BY <2>5, <2>9, <2>10, DrainedFlush
  <2>12. rest \in Seq(Byte) /\ Len(rest) = Len(live) - m
    BY <2>2, <2>3, <2>4, <2>8, AfterIs
  <2>13. a.value = Trunc(live, 8)
    BY <2>4 DEF Operands
  <2>14. v = SubSeq(live, 8 + 1, 8 + d) /\ v \in Seq(Byte) /\ Len(v) = d
    <3>1. p.value = SubSeq(live, 8 + 1, 8 + n)
      BY <2>4 DEF Operands
    <3>2. 8 + n <= Len(live) /\ 8 + d <= Len(live)
      BY <2>2, <2>3, <2>4, <2>8
    <3>3. v = SubSeq(live, 8 + 1, 8 + d)
      <4>0. Trunc(SubSeq(live, 8 + 1, 8 + n), d) = SubSeq(live, 8 + 1, 8 + d)
        <5>1. 8 \in Nat /\ n \in Nat /\ d \in Nat /\ d <= n /\ 8 + n <= Len(live)
          BY <2>3, <3>2
        <5>2. live \in Seq(Byte)
          BY <2>8
        <5> QED  BY <5>1, <5>2, CutUnder
      <4>1. CASE d = 1
        BY <1>3, <3>1, <4>0, <4>1
      <4>2. CASE d # 1
        BY <1>3, <2>3, <3>1, <4>2
      <4> QED  BY <4>1, <4>2
    <3>4. SubSeq(live, 8 + 1, 8 + d) \in Seq(Byte) /\ Len(SubSeq(live, 8 + 1, 8 + d)) = d
      BY <2>3, <2>8, <3>2, UnderIs, ZenonT(40)
    <3> QED  BY <3>3, <3>4
  <2>15. PICK stacked, i, left :
           /\ stacked = IsStackAddress(Trunc(live, 8)) /\ i = at - (CurrentVsp + m)
           /\ left = IF stacked THEN Written(rest, i, d, v) ELSE rest
    OBVIOUS
  <2>16. /\ stacked => a.isVspPush = TRUE
         /\ ~stacked => a.isVspPush = FALSE
    BY <1>1, <1>2, <2>1, <2>2, <2>15, KnownVsp DEF PtrSize
  <2>17. stacked => /\ at \in Int /\ off <= at /\ at + d <= Above
                    /\ i \in 0..(Len(rest) - d) /\ i = at - off
    <3>1. Above - off = Len(LiveStack) - Popped(h)
      <4>1. Len(rest) = Above - off
        BY <2>11, StoredBytes
      <4> QED  BY <2>2, <2>3, <2>12, <4>1
    <3>2. SUFFICES ASSUME stacked
                   PROVE  /\ at \in Int /\ off <= at /\ at + d <= Above
                          /\ i \in 0..(Len(rest) - d) /\ i = at - off
      OBVIOUS
    <3>3. IsStackAddress(Trunc(LiveStack, PtrSize)) /\ at = OffsetOf(Trunc(LiveStack, PtrSize))
      BY <2>2, <2>5, <2>13, <2>15, <3>2 DEF PtrSize
    <3>4. /\ at \in Int /\ off <= at /\ at + h.d <= Above
          /\ at - CurrentVsp \in Popped(h)..(Len(LiveStack) - h.d)
          /\ off = CurrentVsp + Popped(h)
      BY <1>1, <2>11, <3>1, <3>3, AccessIs
    <3>5. PICK c, l, r : /\ c = CurrentVsp /\ l = Len(live) /\ r = Len(rest)
                         /\ c \in Int /\ l \in Nat /\ r = l - m
      BY <2>8, <2>12, LiveIs
    <3>6. at \in Int /\ off = c + m /\ at - c \in m..(l - d) /\ i = at - (c + m)
      BY <1>2, <2>2, <2>3, <2>15, <3>4, <3>5
    <3>7. i \in 0..(r - d) /\ i = at - off
      BY <2>3, <3>5, <3>6
    <3> QED  BY <1>2, <3>4, <3>5, <3>7
  <2>18. Plain(<<>>, off, stackArray', left)
    <3>1. CASE stacked
      <4>1. Plain(<<>>, off, Store(array, at, v), Written(rest, at - off, d, v))
        <5>1. at \in Int /\ off <= at /\ at + d <= Above /\ d \in Nat
          BY <2>3, <2>17, <3>1
        <5> QED  BY <2>11, <2>14, <5>1, StoreLive
      <4> QED  BY <2>7, <2>15, <2>16, <2>17, <3>1, <4>1
    <3>2. CASE ~stacked
      BY <2>7, <2>11, <2>15, <2>16, <3>2
    <3> QED  BY <2>15, <3>1, <3>2
  <2>19. /\ StackInv(<<>>, off, stackArray') /\ IsLive(left, <<>>, off, stackArray')
         /\ Emit(h, <<>>, off, <<a.value, v>>)
    BY <2>7, <2>11, <2>18, EmptyStack DEF StackInv, Plain
  <2>20. Len(left) = Len(LiveStack) - Popped(h) + Pushed(h)
    <3>1. Len(left) = Above - off /\ Len(rest) = Above - off
      BY <2>11, <2>18, StoredBytes
    <3> QED  BY <2>2, <2>3, <2>8, <2>12, <3>1
  <2>21. status' = "ok"
    BY <2>7 DEF IInv
  <2>22. /\ RInv' /\ VM!Step(h, Popped(h), left, <<a.value, v>>)
         /\ (IF Gone THEN <<>> ELSE LiveStack) = LiveStack
         /\ UNCHANGED ~Gone /\ ~Gone /\ ~Gone'
    <3>1. ContextInv(virtualContext', flagCalculators') /\ inBlock' \in BOOLEAN /\ inBlock'
      BY <1>1, <2>7 DEF RInv, CountersInv
    <3>2. ~Gone /\ ~Gone'
      BY <1>1, <2>21 DEF Gone
    <3> QED  BY <1>1, <2>19, <2>20, <2>21, <3>1, <3>2, EmitSim
  <2>23. UNCHANGED (IF Gone THEN <<>> ELSE LiveContext)
    BY <2>7, <2>22, ContextStays DEF SameContext
  <2>24. VM!Vsp = CurrentVsp
    <3>1. Above - Len(LiveStack) = CurrentVsp
      BY LiveIs, SizesAssumption
    <3> QED  BY <2>22, <3>1 DEF VM!Vsp
  <2>25. PICK under : under = SubSeq(live, m + 1, Len(live))
    OBVIOUS
  <2>26. rest = under
    BY <2>2, <2>25 DEF After
  <2>27. VM!Step(h, m, IF IsStackAddress(Trunc(live, 8))
                       THEN [x \in DOMAIN under |->
                               IF x \in (i + 1)..(i + d)
                               THEN SubSeq(live, 8 + 1, 8 + d)[x - i] ELSE under[x]]
                       ELSE under,
                 <<Trunc(live, 8), SubSeq(live, 8 + 1, 8 + d)>>)
    BY <2>3, <2>13, <2>14, <2>15, <2>22, <2>26 DEF Written
  <2>28. /\ i = OffsetOf(Trunc(live, 8)) - (VM!Vsp + m)
         /\ IsStackAddress(Trunc(live, 8)) => i \in 0..(Len(under) - d)
    BY <2>5, <2>13, <2>15, <2>17, <2>24, <2>26
  <2>29. VM!WriteMem(h)
    BY <1>1, <1>2, <2>2, <2>4, <2>22, <2>23, <2>25, <2>27, <2>28, SameWords
       DEF VM!WriteMem, VM!Drop, VM!Under, PtrSize
  <2>30. VM!Next
    BY <2>29 DEF VM!Next
  <2> QED  BY <2>22, <2>23, <2>30 DEF Simulates
<1> QED  BY <1>5, <1>6, <1>7

-----------------------------------------------------------------------------
(* A stack of slots put on another one.                                    *)
LEMMA ConcatFits ==
  ASSUME NEW sh, FitStack(sh), NEW more, FitStack(more)
  PROVE  /\ FitStack(sh \o more) /\ Len(sh \o more) = Len(sh) + Len(more)
         /\ \A i \in 1..Len(sh) : (sh \o more)[i] = sh[i]
         /\ \A i \in 1..Len(more) : (sh \o more)[Len(sh) + i] = more[i]
         /\ \A i \in 0..Len(sh) : Bottom(sh \o more)[i] = Bottom(sh)[i]
         /\ \A i \in 0..Len(more) :
              Bottom(sh \o more)[Len(sh) + i] = ShadowDepth(sh) + Bottom(more)[i]
         /\ ShadowDepth(sh \o more) = ShadowDepth(sh) + ShadowDepth(more)
<1>1. PICK n, m : n = Len(sh) /\ m = Len(more) /\ n \in Nat /\ m \in Nat
  BY FitLen
<1>2. sh \in Seq(Slot) /\ more \in Seq(Slot)
  BY DEF FitStack
<1>3. PICK new : new = sh \o more
  OBVIOUS
<1>4. /\ new \in Seq(Slot) /\ Len(new) = n + m
      /\ \A i \in 1..n : new[i] = sh[i]
      /\ \A i \in 1..m : new[n + i] = more[i]
  <2>1. /\ sh \o more \in Seq(Slot) /\ Len(sh \o more) = Len(sh) + Len(more)
        /\ \A i \in 1..Len(sh) : (sh \o more)[i] = sh[i]
        /\ \A i \in 1..Len(more) : (sh \o more)[Len(sh) + i] = more[i]
    BY <1>2, ConcatAt
  <2> QED  BY <1>1, <1>3, <2>1
<1>5. FitStack(new)
  <2>1. ASSUME NEW i \in 1..(n + m) PROVE Fits(new[i])
    <3>1. CASE i \in 1..n
      BY <1>1, <1>4, <3>1 DEF FitStack
    <3>2. CASE i \notin 1..n
      <4>1. PICK k \in 1..m : i = n + k
        <5>1. i - n \in 1..m /\ i = n + (i - n)
          BY <1>1, <3>2
        <5> QED  BY <5>1
      <4>2. new[n + k] = more[k] /\ Fits(more[k])
        BY <1>1, <1>4 DEF FitStack
      <4> QED  BY <4>1, <4>2
    <3> QED  BY <3>1, <3>2
  <2> QED  BY <1>4, <2>1 DEF FitStack
<1>6. \A i \in 0..n : Bottom(new)[i] = Bottom(sh)[i]
  <2>1. /\ n \in 0..Len(new) /\ n <= Len(sh) /\ \A i \in 1..n : new[i] = sh[i]
        /\ Len(new) \in Nat /\ Len(sh) \in Nat
    BY <1>1, <1>4
  <2> QED  BY <2>1, SameBottom
<1>7. PICK D : D = ShadowDepth(sh) /\ D \in Nat /\ Bottom(sh)[n] = D
  BY <1>1, DepthIs
<1>8. \A i \in 0..m : Bottom(new)[n + i] = D + Bottom(more)[i]
  <2> DEFINE T == {i \in 0..m : ~(Bottom(new)[n + i] = D + Bottom(more)[i])}
  <2>1. SUFFICES ASSUME T # {} PROVE FALSE
    OBVIOUS
  <2>2. PICK i \in T : \A k \in T : i <= k
    <3> HIDE DEF T
    <3>1. T \subseteq Nat
      BY <1>1 DEF T
    <3> QED  BY <2>1, <3>1, LeastNumber
  <2>3. i # 0
    <3>1. Bottom(more)[0] = 0 /\ n + 0 = n /\ n \in 0..n /\ D + 0 = D
      BY <1>1, <1>7, BottomIs
    <3>2. Bottom(new)[n + 0] = D + Bottom(more)[0]
      BY <1>6, <1>7, <3>1
    <3> QED  BY <3>2
  <2>4. i \in 1..m /\ i - 1 \in 0..m /\ n + i \in 1..Len(new) /\ n + i - 1 = n + (i - 1)
    BY <1>1, <1>4, <2>3
  <2>5. Bottom(new)[n + (i - 1)] = D + Bottom(more)[i - 1]
    <3>1. i - 1 \notin T
      BY <1>1, <2>2, <2>4
    <3> QED  BY <2>4, <3>1
  <2>6. Bottom(new)[n + i] = Bottom(new)[n + (i - 1)] + more[i].depth
    <3>1. Len(new) \in Nat
      BY <1>1, <1>4
    <3>2. PICK j : j = n + i
      OBVIOUS
    <3>3. j \in 1..Len(new) /\ j - 1 = n + (i - 1)
      <4>1. i \in 1..m /\ n \in Nat /\ m \in Nat /\ Len(new) = n + m
        BY <1>1, <1>4, <2>4
      <4> HIDE DEF T
      <4> QED  BY <3>2, <4>1
    <3>4. Bottom(new)[j] = Bottom(new)[j - 1] + new[j].depth
      BY <3>1, <3>3, BottomIs
    <3>5. new[j] = more[i]
      BY <1>4, <2>4, <3>2
    <3> QED  BY <3>2, <3>3, <3>4, <3>5
  <2>7. Bottom(more)[i] = Bottom(more)[i - 1] + more[i].depth
    BY <1>1, <2>4, BottomIs
  <2>8. Bottom(more)[i - 1] \in Nat /\ more[i].depth \in Nat
    BY <1>1, <2>4, BottomNat, FitLen
  <2> QED  BY <1>7, <2>5, <2>6, <2>7, <2>8
<1>9. ShadowDepth(new) = D + ShadowDepth(more)
  <2>1. ShadowDepth(new) = Bottom(new)[Len(new)]
    BY <1>5, DepthIs
  <2>2. m \in 0..m /\ ShadowDepth(more) = Bottom(more)[m]
    BY <1>1, DepthIs
  <2> QED  BY <1>4, <1>8, <2>1, <2>2
<1> QED  BY <1>1, <1>3, <1>4, <1>5, <1>6, <1>7, <1>8, <1>9

(* Their bytes come before the others, the last slot's first.              *)
LEMMA ConcatLive ==
  ASSUME NEW sh, FitStack(sh), NEW more, FitStack(more), NEW off \in Offsets, NEW array,
         NEW live, IsLive(live, sh, off, array),
         NEW b, b = FlattenSeq([i \in 1..Len(more) |-> SlotBytes(FromTop(more, i))])
  PROVE  IsLive(b \o live, sh \o more, off, array)
<1>1. PICK n : n = Len(sh) /\ n \in Nat
  BY FitLen
<1>2. PICK D : D = ShadowDepth(sh) /\ D \in Nat
  BY DepthIs
<1>3. PICK d : d = ShadowDepth(more) /\ d \in Nat
  BY DepthIs
<1>4. PICK m : m = Above - off /\ m \in Nat
  BY SizesAssumption DEF Offsets
<1>5. PICK e : e = Len(more) /\ e \in Nat
  BY FitLen
<1>6. /\ b \in Seq(Byte) /\ Len(b) = d
      /\ \A i \in 1..e : \A k \in 1..more[i].depth :
           b[(d - Bottom(more)[i]) + k] = SlotBytes(more[i])[k]
  BY <1>3, <1>5, SlotsFlat, SMTT(30)
<1>7. /\ live \in Seq(Byte) /\ Len(live) = D + m
      /\ \A i \in 1..n : \A k \in 1..sh[i].depth :
           live[(D - Bottom(sh)[i]) + k] = SlotBytes(sh[i])[k]
      /\ \A k \in 1..m : live[D + k] = array[off + k - 1]
  BY <1>1, <1>2, <1>4 DEF IsLive
<1>8. PICK all : all = b \o live
  OBVIOUS
<1>9. /\ all \in Seq(Byte) /\ Len(all) = d + (D + m)
      /\ \A k \in 1..d : all[k] = b[k]
      /\ \A k \in 1..(D + m) : all[d + k] = live[k]
  <2>1. /\ b \o live \in Seq(Byte) /\ Len(b \o live) = Len(b) + Len(live)
        /\ \A k \in 1..Len(b) : (b \o live)[k] = b[k]
        /\ \A k \in 1..Len(live) : (b \o live)[Len(b) + k] = live[k]
    <3>1. b \in Seq(Byte) /\ live \in Seq(Byte)
      BY <1>6, <1>7
    <3> QED  BY <3>1, ConcatAt
  <2>2. Len(b) = d /\ Len(live) = D + m /\ b \o live = all
    BY <1>6, <1>7, <1>8
  <2> QED  BY <2>1, <2>2
<1>10. PICK new : new = sh \o more
  OBVIOUS
<1>11. /\ Len(new) = n + e /\ ShadowDepth(new) = D + d
       /\ \A i \in 1..n : new[i] = sh[i] /\ Bottom(new)[i] = Bottom(sh)[i]
       /\ \A i \in 1..e : new[n + i] = more[i] /\ Bottom(new)[n + i] = D + Bottom(more)[i]
  <2>1. /\ Len(sh \o more) = Len(sh) + Len(more)
        /\ \A i \in 1..Len(sh) : (sh \o more)[i] = sh[i]
        /\ \A i \in 1..Len(more) : (sh \o more)[Len(sh) + i] = more[i]
        /\ \A i \in 0..Len(sh) : Bottom(sh \o more)[i] = Bottom(sh)[i]
        /\ \A i \in 0..Len(more) :
             Bottom(sh \o more)[Len(sh) + i] = ShadowDepth(sh) + Bottom(more)[i]
        /\ ShadowDepth(sh \o more) = ShadowDepth(sh) + ShadowDepth(more)
    BY ConcatFits
  <2>2. (\A i \in 1..n : i \in 0..n) /\ (\A i \in 1..e : i \in 0..e)
    BY <1>1, <1>5
  <2> QED  BY <1>1, <1>2, <1>3, <1>5, <1>10, <2>1, <2>2
<1>12. ASSUME NEW i \in 1..(n + e), NEW k \in 1..new[i].depth
       PROVE  all[((D + d) - Bottom(new)[i]) + k] = SlotBytes(new[i])[k]
  <2>1. CASE i \in 1..n
    <3>1. i \in 0..n
      BY <1>1, <2>1
    <3>2. new[i] = sh[i] /\ Bottom(new)[i] = Bottom(sh)[i] /\ k \in 1..sh[i].depth
      BY <1>11, <2>1
    <3>3. PICK x : x = (D - Bottom(sh)[i]) + k /\ x \in 1..D
      BY <1>1, <1>2, <2>1, <3>2, PlaceIn
    <3>4. Bottom(sh)[i] \in Nat
      BY <1>1, <3>1, BottomNat
    <3>5. sh[i].depth \in Nat
      BY <1>1, <2>1, FitLen
    <3>6. ((D + d) - Bottom(new)[i]) + k = d + x /\ x \in 1..(D + m)
      <4>1. PICK c, y : c = Bottom(sh)[i] /\ y = sh[i].depth /\ c \in Nat /\ y \in Nat
        BY <3>4, <3>5
      <4>2. k \in 1..y /\ x = (D - c) + k /\ Bottom(new)[i] = c
        BY <3>2, <3>3, <4>1
      <4>3. ((D + d) - c) + k = d + ((D - c) + k)
        BY <1>2, <1>3, <4>1, <4>2
      <4>4. x \in 1..(D + m)
        BY <1>2, <1>4, <3>3
      <4> QED  BY <4>2, <4>3, <4>4
    <3>7. all[d + x] = live[x] /\ live[x] = SlotBytes(sh[i])[k]
      BY <1>7, <1>9, <2>1, <3>2, <3>3, <3>6
    <3> QED  BY <3>2, <3>6, <3>7
  <2>2. CASE i \notin 1..n
    <3>1. PICK j \in 1..e : i = n + j
      <4>1. i - n \in 1..e /\ i = n + (i - n)
        BY <1>1, <1>5, <2>2
      <4> QED  BY <4>1
    <3>2. new[i] = more[j] /\ Bottom(new)[i] = D + Bottom(more)[j] /\ k \in 1..more[j].depth
      BY <1>11, <3>1
    <3>3. PICK x : x = (d - Bottom(more)[j]) + k /\ x \in 1..d
      BY <1>3, <1>5, <3>2, PlaceIn
    <3>4. Bottom(more)[j] \in Nat
      <4>1. j \in 0..e
        BY <1>5
      <4> QED  BY <1>5, <4>1, BottomNat
    <3>5. more[j].depth \in Nat
      BY <1>5, FitLen
    <3>6. ((D + d) - Bottom(new)[i]) + k = x
      BY <1>2, <1>3, <3>2, <3>3, <3>4, <3>5
    <3>7. all[x] = b[x] /\ b[x] = SlotBytes(more[j])[k]
      BY <1>6, <1>9, <3>2, <3>3
    <3> QED  BY <3>2, <3>6, <3>7
  <2> QED  BY <2>1, <2>2
<1>13. ASSUME NEW k \in 1..m
       PROVE  all[(D + d) + k] = array[off + k - 1]
  <2>1. D + k \in 1..(D + m) /\ (D + d) + k = d + (D + k)
    BY <1>2, <1>3, <1>4
  <2>2. all[d + (D + k)] = live[D + k]
    BY <1>9, <2>1
  <2> QED  BY <1>7, <2>1, <2>2
<1>14. Len(all) = (D + d) + m
  BY <1>2, <1>3, <1>4, <1>9
<1>15. /\ all \in Seq(Byte) /\ Len(all) = ShadowDepth(new) + (Above - off)
       /\ \A i \in 1..Len(new) : \A k \in 1..new[i].depth :
            all[(ShadowDepth(new) - Bottom(new)[i]) + k] = SlotBytes(new[i])[k]
       /\ \A k \in 1..(Above - off) : all[ShadowDepth(new) + k] = array[off + k - 1]
  BY <1>4, <1>9, <1>11, <1>12, <1>13, <1>14
<1> QED  BY <1>8, <1>10, <1>15 DEF IsLive

-----------------------------------------------------------------------------
(* The frame that VM_ENTRY pushes.                                         *)
LEMMA EvenDepth ==
  ASSUME NEW sh, FitStack(sh), \A i \in 1..Len(sh) : sh[i].depth = 8
  PROVE  ShadowDepth(sh) = 8 * Len(sh)
<1>1. PICK n : n = Len(sh) /\ n \in Nat
  BY FitLen
<1>2. \A i \in 0..n : Bottom(sh)[i] = 8 * i
  <2> DEFINE T == {i \in 0..n : ~(Bottom(sh)[i] = 8 * i)}
  <2>1. SUFFICES ASSUME T # {} PROVE FALSE
    OBVIOUS
  <2>2. PICK i \in T : \A k \in T : i <= k
    <3> HIDE DEF T
    <3>1. T \subseteq Nat
      BY <1>1 DEF T
    <3> QED  BY <2>1, <3>1, LeastNumber
  <2>3. i # 0
    <3>1. Bottom(sh)[0] = 0
      BY <1>1, BottomIs
    <3> QED  BY <3>1
  <2>4. PICK j : j = i - 1 /\ j \in 0..n /\ i \in 1..n /\ i = j + 1
    BY <1>1, <2>3
  <2>5. Bottom(sh)[j] = 8 * j
    <3>1. j \notin T
      <4> HIDE DEF T
      <4>1. i \in Nat
        BY <2>4
      <4> QED  BY <2>2, <2>4, <4>1
    <3> QED  BY <2>4, <3>1
  <2>6. Bottom(sh)[i] = Bottom(sh)[j] + 8
    BY <1>1, <2>4, BottomIs
  <2>7. Bottom(sh)[i] = 8 * i
    BY <2>4, <2>5, <2>6
  <2> QED  BY <2>7
<1>3. n \in 0..n
  BY <1>1
<1> QED  BY <1>1, <1>2, <1>3, DepthIs

WordSlot(v) == ValueSlot(v, PtrSize)

LEMMA WordSlotFits ==
  ASSUME NEW v, v \in Seq(Byte), Len(v) = 8
  PROVE  /\ Fits(WordSlot(v)) /\ WordSlot(v).flagsPromise = NoPromise
         /\ WordSlot(v).depth = 8 /\ SlotBytes(WordSlot(v)) = v
<1>1. PICK s : s = ValueSlot(v, Len(v))
  OBVIOUS
<1>2. Fits(s) /\ s.flagsPromise = NoPromise /\ s.depth = Len(v) /\ s.value = v
  <2>1. Len(v) > 0
    OBVIOUS
  <2> QED  BY <1>1, <2>1, ValueSlotFits
<1>3. s = WordSlot(v)
  BY <1>1 DEF WordSlot, PtrSize
<1>4. SlotBytes(s) = s.value
  BY <1>2, SlotBytesIs
<1> QED  BY <1>2, <1>3, <1>4

ZeroWord == Word("cst", 0, PtrSize)

LEMMA WordsAre ==
  /\ ZeroWord \in Seq(Byte) /\ Len(ZeroWord) = 8
  /\ ImageBaseDif \in Seq(Byte) /\ Len(ImageBaseDif) = 8
  /\ \A e \in Int : NativeReg(e) \in Seq(Byte) /\ Len(NativeReg(e)) = 8
<1>1. \A e \in Int : Word("nat", e, 8) \in Seq(Byte) /\ Len(Word("nat", e, 8)) = 8
  BY WordIs
<1>2. Word("cst", 0, 8) \in Seq(Byte) /\ Len(Word("cst", 0, 8)) = 8
  <2>1. 0 \in Int /\ 8 \in Nat
    OBVIOUS
  <2> QED  BY <2>1, WordIs
<1>3. 16 \in Int
  OBVIOUS
<1> QED  BY <1>1, <1>2, <1>3 DEF ZeroWord, ImageBaseDif, NativeReg, PtrSize

(* The registers that VM_ENTRY pushes, all of them known.                  *)
EntrySlots ==
  FlattenSeq([i \in 1..Len(EntryRegs) |->
                IF EntryRegs[i] = -1 THEN <<>>
                ELSE <<ValueSlot(NativeReg(EntryRegs[i]), PtrSize)>>])

LEMMA EntrySlotsAre ==
  ASSUME -1 \notin Range(EntryRegs)
  PROVE  /\ EntrySlots \in Seq(Slot) /\ Len(EntrySlots) = Len(EntryRegs)
         /\ \A i \in 1..Len(EntryRegs) : EntrySlots[i] = WordSlot(NativeReg(EntryRegs[i]))
<1>1. PICK n : n = Len(EntryRegs) /\ n \in Nat
  BY RegsAssumption
<1>2. \A i \in 1..n : EntryRegs[i] \in Int /\ EntryRegs[i] # -1
  BY <1>1, RegsAssumption DEF Range
<1>3. PICK s : s = [i \in 1..n |-> IF EntryRegs[i] = -1 THEN <<>>
                                   ELSE <<ValueSlot(NativeReg(EntryRegs[i]), PtrSize)>>]
  OBVIOUS
<1>4. \A i \in 1..n : s[i] = <<WordSlot(NativeReg(EntryRegs[i]))>>
  BY <1>2, <1>3 DEF WordSlot
<1>5. \A i \in 1..n : WordSlot(NativeReg(EntryRegs[i])) \in Slot
  <2> TAKE i \in 1..n
  <2>1. NativeReg(EntryRegs[i]) \in Seq(Byte) /\ Len(NativeReg(EntryRegs[i])) = 8
    BY <1>2, WordsAre
  <2> QED  BY <2>1, WordSlotFits DEF Fits
<1>6. PICK end : end = [i \in 0..n |-> i]
  OBVIOUS
<1>7. Ends(Slot, s, n, end)
  <2>1. \A i \in 1..n : s[i] \in Seq(Slot) /\ Len(s[i]) = 1
    <3>1. \A x \in Slot : <<x>> \in Seq(Slot) /\ Len(<<x>>) = 1
      OBVIOUS
    <3> QED  BY <1>4, <1>5, <3>1
  <2>2. end[0] = 0 /\ \A i \in 1..n : end[i] = end[i - 1] + Len(s[i])
    BY <1>1, <1>6, <2>1, SMTT(30)
  <2>3. n \in Nat /\ Len(s) = n /\ (n = 0 => s = <<>>)
    BY <1>1, <1>3
  <2> QED  BY <2>1, <2>2, <2>3 DEF Ends
<1>8. IsFlat(FlattenSeq(s), Slot, s, n, end)
  BY <1>7, FlattenIs
<1>9. EntrySlots = FlattenSeq(s)
  BY <1>1, <1>3 DEF EntrySlots
<1>10. EntrySlots \in Seq(Slot) /\ Len(EntrySlots) = n
  BY <1>1, <1>6, <1>8, <1>9 DEF IsFlat
<1>11. ASSUME NEW i \in 1..n PROVE EntrySlots[i] = WordSlot(NativeReg(EntryRegs[i]))
  <2>1. end[i - 1] = i - 1 /\ i - 1 + 1 = i
    BY <1>1, <1>6
  <2>2. 1 \in 1..Len(s[i]) /\ s[i][1] = WordSlot(NativeReg(EntryRegs[i]))
    BY <1>4
  <2>3. FlattenSeq(s)[end[i - 1] + 1] = s[i][1]
    BY <1>8, <2>2 DEF IsFlat
  <2> QED  BY <1>9, <2>1, <2>2, <2>3
<1> QED  BY <1>1, <1>10, <1>11

EntryFrame == <<WordSlot(ZeroWord), WordSlot(ZeroWord)>> \o EntrySlots \o <<WordSlot(ImageBaseDif)>>

LEMMA EntryFrameIs ==
  ASSUME -1 \notin Range(EntryRegs), NEW r, r = Len(EntryRegs)
  PROVE  /\ FitStack(EntryFrame) /\ NoPromises(EntryFrame) /\ Len(EntryFrame) = r + 3
         /\ ShadowDepth(EntryFrame) = 8 * (r + 3)
         /\ \A i \in 1..(r + 3) :
              SlotBytes(FromTop(EntryFrame, i)) =
                IF i = 1 THEN ImageBaseDif
                ELSE IF i <= r + 1 THEN NativeReg(EntryRegs[r + 2 - i])
                ELSE ZeroWord
<1>1. r \in Nat /\ \A i \in 1..r : EntryRegs[i] \in Int
  BY RegsAssumption
<1>2. PICK zero, dif, regs, f : /\ zero = WordSlot(ZeroWord) /\ dif = WordSlot(ImageBaseDif)
                                /\ regs = EntrySlots /\ f = EntryFrame
  OBVIOUS
<1> DEFINE Good(s, v) == /\ Fits(s) /\ s \in Slot /\ s.flagsPromise = NoPromise
                         /\ s.depth = 8 /\ SlotBytes(s) = v
<1>3. Good(zero, ZeroWord) /\ Good(dif, ImageBaseDif)
  <2>1. /\ ZeroWord \in Seq(Byte) /\ Len(ZeroWord) = 8
        /\ ImageBaseDif \in Seq(Byte) /\ Len(ImageBaseDif) = 8
    BY WordsAre
  <2> QED  BY <1>2, <2>1, WordSlotFits DEF Fits
<1>4. /\ regs \in Seq(Slot) /\ Len(regs) = r
      /\ \A i \in 1..r : regs[i] = WordSlot(NativeReg(EntryRegs[i]))
  BY <1>2, EntrySlotsAre
<1>5. \A i \in 1..r : Good(regs[i], NativeReg(EntryRegs[i]))
  <2> TAKE i \in 1..r
  <2>1. NativeReg(EntryRegs[i]) \in Seq(Byte) /\ Len(NativeReg(EntryRegs[i])) = 8
    BY <1>1, WordsAre
  <2> QED  BY <1>4, <2>1, WordSlotFits DEF Fits
<1>6. f = (<<zero, zero>> \o regs) \o <<dif>>
  BY <1>2 DEF EntryFrame
<1>7. PICK low : low = <<zero, zero>> \o regs
  OBVIOUS
<1> HIDE DEF Good
<1>8. /\ low \in Seq(Slot) /\ Len(low) = 2 + r /\ low[1] = zero /\ low[2] = zero
      /\ \A i \in 1..r : low[2 + i] = regs[i]
  <2>1. PICK z : z = <<zero, zero>> /\ z \in Seq(Slot) /\ Len(z) = 2 /\ z[1] = zero /\ z[2] = zero
    <3>1. zero \in Slot
      BY <1>3 DEF Good
    <3>2. \A x \in Slot : /\ <<x, x>> \in Seq(Slot) /\ Len(<<x, x>>) = 2
                          /\ <<x, x>>[1] = x /\ <<x, x>>[2] = x
      BY SMTT(30)
    <3> QED  BY <3>1, <3>2, Zenon
  <2>2. /\ z \o regs \in Seq(Slot) /\ Len(z \o regs) = Len(z) + Len(regs)
        /\ \A k \in 1..Len(z) : (z \o regs)[k] = z[k]
        /\ \A k \in 1..Len(regs) : (z \o regs)[Len(z) + k] = regs[k]
    BY <1>4, <2>1, ConcatAt
  <2> QED  BY <1>4, <1>7, <2>1, <2>2
<1>9. /\ f \in Seq(Slot) /\ Len(f) = r + 3
      /\ f[1] = zero /\ f[2] = zero /\ f[r + 3] = dif /\ \A i \in 1..r : f[2 + i] = regs[i]
  <2>1. PICK t : t = <<dif>> /\ t \in Seq(Slot) /\ Len(t) = 1 /\ t[1] = dif
    <3>1. dif \in Slot
      BY <1>3 DEF Good
    <3>2. \A x \in Slot : <<x>> \in Seq(Slot) /\ Len(<<x>>) = 1 /\ <<x>>[1] = x
      OBVIOUS
    <3> QED  BY <3>1, <3>2, Zenon
  <2>2. /\ low \o t \in Seq(Slot) /\ Len(low \o t) = Len(low) + Len(t)
        /\ \A k \in 1..Len(low) : (low \o t)[k] = low[k]
        /\ \A k \in 1..Len(t) : (low \o t)[Len(low) + k] = t[k]
    BY <1>8, <2>1, ConcatAt
  <2>3. f = low \o t
    BY <1>6, <1>7, <2>1
  <2>4. Len(f) = r + 3 /\ f[r + 3] = dif
    <3>1. Len(f) = (2 + r) + 1 /\ f[(2 + r) + 1] = dif
      BY <1>8, <2>1, <2>2, <2>3
    <3> QED  BY <1>1, <3>1
  <2>5. \A k \in 1..(2 + r) : f[k] = low[k]
    BY <1>8, <2>2, <2>3
  <2>6. 1 \in 1..(2 + r) /\ 2 \in 1..(2 + r) /\ \A i \in 1..r : 2 + i \in 1..(2 + r)
    BY <1>1
  <2> QED  BY <1>8, <2>2, <2>3, <2>4, <2>5, <2>6
<1> DEFINE Bytes(i) == IF i = 1 THEN ImageBaseDif
                       ELSE IF i <= r + 1 THEN NativeReg(EntryRegs[r + 2 - i])
                       ELSE ZeroWord
<1>10. ASSUME NEW i \in 1..(r + 3) PROVE Good(f[r + 4 - i], Bytes(i))
  <2>1. CASE i = 1
    <3>1. r + 4 - i = r + 3
      BY <1>1, <2>1
    <3> QED  BY <1>3, <1>9, <2>1, <3>1
  <2>2. CASE i # 1 /\ i <= r + 1
    <3>1. PICK k \in 1..r : k = r + 2 - i
      <4>1. r + 2 - i \in 1..r
        BY <1>1, <2>2
      <4> QED  BY <4>1
    <3>2. r + 4 - i = 2 + k
      BY <1>1, <3>1
    <3>3. f[2 + k] = regs[k] /\ Good(regs[k], NativeReg(EntryRegs[k]))
      BY <1>5, <1>9
    <3>4. Bytes(i) = NativeReg(EntryRegs[k])
      BY <2>2, <3>1
    <3> QED  BY <3>2, <3>3, <3>4
  <2>3. CASE i # 1 /\ ~(i <= r + 1)
    <3>1. r + 4 - i \in {1, 2}
      BY <1>1, <2>3
    <3>2. Bytes(i) = ZeroWord
      BY <2>3
    <3> QED  BY <1>3, <1>9, <3>1, <3>2
  <2> QED  BY <2>1, <2>2, <2>3
<1> HIDE DEF Bytes
<1>11. ASSUME NEW j \in 1..(r + 3) PROVE Fits(f[j]) /\ f[j].flagsPromise = NoPromise /\ f[j].depth = 8
  <2>1. PICK i \in 1..(r + 3) : r + 4 - i = j
    <3>1. r + 4 - j \in 1..(r + 3) /\ r + 4 - (r + 4 - j) = j
      BY <1>1
    <3> QED  BY <3>1
  <2> QED  BY <1>10, <2>1 DEF Good
<1>12. FitStack(f) /\ NoPromises(f)
  BY <1>9, <1>11 DEF FitStack, NoPromises
<1>13. ShadowDepth(f) = 8 * (r + 3)
  BY <1>9, <1>11, <1>12, EvenDepth
<1>14. \A i \in 1..(r + 3) : SlotBytes(FromTop(f, i)) = Bytes(i)
  <2> TAKE i \in 1..(r + 3)
  <2>1. FromTop(f, i) = f[r + 4 - i]
    <3>1. Len(f) + 1 - i = r + 4 - i
      BY <1>1, <1>9
    <3> QED  BY <3>1 DEF FromTop
  <2> QED  BY <1>10, <2>1 DEF Good
<1> QED  BY <1>2, <1>9, <1>12, <1>13, <1>14 DEF Bytes

LEMMA EntrySim ==
  ASSUME Regular, RInv, IInv', NEW h \in Handlers, LiftVmEntry(h)
  PROVE  Simulates
<1>1. Starts(h, h.op) /\ h.op = "Entry" /\ status = "ok" /\ inBlock /\ Legal(h)
  BY DEF LiftVmEntry, Starts
<1>2. PICK r : r = Len(EntryRegs) /\ r \in Nat /\ -1 \notin Range(EntryRegs)
  BY RegsAssumption DEF Regular
<1>3. PICK sh : sh = shadowStack \o EntryFrame
  OBVIOUS
<1>4. Plain(shadowStack, stackOffset, stackArray, LiveStack)
  BY <1>1, PlainState
<1>5. /\ Emit(h, sh, stackOffset, <<>>)
      /\ UNCHANGED <<flagCalculators, stackArray, virtualContext, inBlock, status>>
  <2>1. PICK z, t : z = <<WordSlot(ZeroWord), WordSlot(ZeroWord)>> /\ t = <<WordSlot(ImageBaseDif)>>
    OBVIOUS
  <2>2. /\ Emit(h, ((shadowStack \o z) \o EntrySlots) \o t, stackOffset, <<>>)
        /\ UNCHANGED <<flagCalculators, stackArray, virtualContext, inBlock, status>>
    BY <2>1 DEF LiftVmEntry, EntrySlots, WordSlot, ZeroWord
  <2>3. EntryFrame = (z \o EntrySlots) \o t
    BY <2>1 DEF EntryFrame
  <2>4. shadowStack \in Seq(Slot) /\ EntrySlots \in Seq(Slot)
    BY <1>2, <1>4, EntrySlotsAre DEF Plain, FitStack
  <2>5. z \in Seq(Slot) /\ t \in Seq(Slot)
    <3>1. WordSlot(ZeroWord) \in Slot /\ WordSlot(ImageBaseDif) \in Slot
      BY WordsAre, WordSlotFits DEF Fits
    <3>2. \A x \in Slot : <<x, x>> \in Seq(Slot) /\ <<x>> \in Seq(Slot)
      OBVIOUS
    <3> QED  BY <2>1, <3>1, <3>2, Zenon
  <2>6. PICK all, zr, zrt, sz : /\ all = shadowStack /\ zr = z \o EntrySlots /\ zrt = zr \o t
                                /\ sz = shadowStack \o z
    OBVIOUS
  <2>7. zr \in Seq(Slot)
    BY <2>4, <2>5, <2>6, ConcatAt
  <2>8. (all \o z) \o EntrySlots = all \o (z \o EntrySlots)
    BY <2>4, <2>5, <2>6, ConcatAssoc, SMTT(20)
  <2>9. (all \o zr) \o t = all \o (zr \o t)
    BY <2>4, <2>5, <2>6, <2>7, ConcatAssoc
  <2>10. ((shadowStack \o z) \o EntrySlots) \o t = sh
    BY <1>3, <2>3, <2>6, <2>8, <2>9, Zenon
  <2> QED  BY <2>2, <2>10
<1>6. PICK flat : flat = FlattenSeq([i \in 1..Len(EntryFrame) |-> SlotBytes(FromTop(EntryFrame, i))])
  OBVIOUS
<1>7. /\ FitStack(EntryFrame) /\ NoPromises(EntryFrame) /\ Len(EntryFrame) = r + 3
      /\ ShadowDepth(EntryFrame) = 8 * (r + 3)
  BY <1>2, EntryFrameIs
<1>8. IsLive(flat \o LiveStack, sh, stackOffset, stackArray)
  BY <1>3, <1>4, <1>6, <1>7, ConcatLive DEF Plain
<1>9. FitStack(sh) /\ ShadowDepth(sh) = ShadowDepth(shadowStack) + 8 * (r + 3)
  <2>1. FitStack(shadowStack) /\ FitStack(EntryFrame)
    BY <1>4, <1>7 DEF Plain
  <2>2. /\ FitStack(shadowStack \o EntryFrame)
        /\ ShadowDepth(shadowStack \o EntryFrame) = ShadowDepth(shadowStack) + ShadowDepth(EntryFrame)
    BY <2>1, ConcatFits
  <2> QED  BY <1>3, <1>7, <2>2
<1>10. NoPromises(sh)
  <2>1. FitStack(shadowStack) /\ FitStack(EntryFrame) /\ NoPromises(shadowStack)
    BY <1>4, <1>7 DEF Plain
  <2>2. PICK n, m : n = Len(shadowStack) /\ m = Len(EntryFrame) /\ n \in Nat /\ m \in Nat
    BY <2>1, FitLen
  <2>3. /\ Len(sh) = n + m /\ \A i \in 1..n : sh[i] = shadowStack[i]
        /\ \A i \in 1..m : sh[n + i] = EntryFrame[i]
    BY <1>3, <2>1, <2>2, ConcatFits
  <2>4. ASSUME NEW i \in 1..(n + m) PROVE sh[i].flagsPromise = NoPromise
    <3>1. CASE i \in 1..n
      BY <2>1, <2>2, <2>3, <3>1 DEF NoPromises
    <3>2. CASE i \notin 1..n
      <4>1. i - n \in 1..m /\ n + (i - n) = i
        BY <2>2, <3>2
      <4>2. sh[n + (i - n)] = EntryFrame[i - n]
        BY <2>3, <4>1
      <4> QED  BY <1>7, <2>2, <4>1, <4>2 DEF NoPromises
    <3> QED  BY <3>1, <3>2
  <2> QED  BY <2>3, <2>4 DEF NoPromises
<1>11. StackInv(sh, stackOffset, stackArray')
  BY <1>4, <1>5, <1>9, <1>10, PlainPromising DEF Plain, StackInv
<1>12. Popped(h) = 0 /\ Pushed(h) = 8 * (r + 3)
  BY <1>1, <1>2, Traffic DEF PtrSize
<1>13. Len(flat \o LiveStack) = Len(LiveStack) - Popped(h) + Pushed(h)
  <2>1. flat \in Seq(Byte) /\ Len(flat) = 8 * (r + 3)
    BY <1>6, <1>7, SlotsFlat
  <2>2. LiveStack \in Seq(Byte) /\ Len(LiveStack) \in Nat
    BY LiveIs
  <2>3. Len(flat \o LiveStack) = Len(flat) + Len(LiveStack)
    BY <2>1, <2>2, ConcatAt
  <2> QED  BY <1>2, <1>12, <2>1, <2>2, <2>3
<1>14. /\ RInv' /\ VM!Step(h, Popped(h), flat \o LiveStack, <<>>)
       /\ (IF Gone THEN <<>> ELSE LiveStack) = LiveStack
       /\ (IF Gone THEN <<>> ELSE LiveContext) = LiveContext
       /\ (IF Gone THEN <<>> ELSE LiveContext)' = LiveContext'
       /\ UNCHANGED ~Gone
  <2>1. /\ status' = "ok" /\ inBlock' \in BOOLEAN /\ (~inBlock' => sh = <<>>)
        /\ ContextInv(virtualContext', flagCalculators')
    BY <1>1, <1>5 DEF RInv
  <2>2. IsLive(flat \o LiveStack, sh, stackOffset, stackArray')
    BY <1>5, <1>8
  <2> QED  BY <1>1, <1>5, <1>11, <1>13, <2>1, <2>2, EmitSim
<1>15. flat = FlattenSeq([i \in 1..(r + 3) |->
                            IF i = 1 THEN ImageBaseDif
                            ELSE IF i <= r + 1 THEN NativeReg(EntryRegs[r + 2 - i])
                            ELSE Word("cst", 0, PtrSize)])
  <2>1. \A i \in 1..(r + 3) : SlotBytes(FromTop(EntryFrame, i)) =
                              IF i = 1 THEN ImageBaseDif
                              ELSE IF i <= r + 1 THEN NativeReg(EntryRegs[r + 2 - i])
                              ELSE Word("cst", 0, PtrSize)
    BY <1>2, EntryFrameIs DEF ZeroWord
  <2>2. [i \in 1..Len(EntryFrame) |-> SlotBytes(FromTop(EntryFrame, i))]
          = [i \in 1..(r + 3) |-> IF i = 1 THEN ImageBaseDif
                                  ELSE IF i <= r + 1 THEN NativeReg(EntryRegs[r + 2 - i])
                                  ELSE Word("cst", 0, PtrSize)]
    BY <1>7, <2>1
  <2> QED  BY <1>6, <2>2
<1>16. UNCHANGED (IF Gone THEN <<>> ELSE LiveContext)
  <2>1. LiveContext' = LiveContext
    BY <1>5, LiveContextIs
  <2> QED  BY <1>14, <2>1
<1>17. VM!Entry(h)
  <2>1. PICK frame : frame = [i \in 1..(r + 3) |->
                                IF i = 1 THEN ImageBaseDif
                                ELSE IF i <= r + 1 THEN NativeReg(EntryRegs[r + 2 - i])
                                ELSE Word("cst", 0, PtrSize)]
    OBVIOUS
  <2>2. flat = VM!FlattenSeq(frame)
    <3>1. flat = FlattenSeq(frame)
      BY <1>15, <2>1
    <3>2. FlattenSeq(frame) = VM!FlattenSeq(frame)
      BY DEF FlattenSeq, VM!FlattenSeq
    <3> QED  BY <3>1, <3>2
  <2>3. VM!Step(h, 0, VM!FlattenSeq(frame) \o LiveStack, <<>>)
    BY <1>12, <1>14, <2>2
  <2> QED  BY <1>1, <1>2, <1>14, <1>16, <2>1, <2>3, SameWords DEF VM!Entry
<1>18. VM!Next
  BY <1>17 DEF VM!Next
<1> QED  BY <1>14, <1>18 DEF Simulates

-----------------------------------------------------------------------------
(* The pops of VM_EXIT, one word after the other.                          *)
PopsFrom(f, first, n) ==
  f = [i \in 1..n |-> IF i = 1 THEN first ELSE PopAfter(f[i - 1], PtrSize)]

LEMMA PopsExist ==
  ASSUME NEW first, NEW m \in Nat
  PROVE  \E f : PopsFrom(f, first, m)
<1> DEFINE T == {k \in Nat : ~\E f : PopsFrom(f, first, k)}
<1>1. SUFFICES ASSUME T # {} PROVE FALSE
  BY Zenon
<1>2. PICK k \in T : \A j \in T : k <= j
  <2> HIDE DEF T
  <2>1. T \subseteq Nat
    BY DEF T
  <2> QED  BY <1>1, <2>1, LeastNumber
<1>3. k # 0
  <2>1. PopsFrom([n \in 1..0 |-> 0], first, 0)
    BY DEF PopsFrom
  <2> QED  BY <2>1
<1>4. PICK j \in Nat : k = j + 1
  BY <1>3
<1>5. PICK f : PopsFrom(f, first, j)
  <2>1. j \notin T
    <3> HIDE DEF T
    <3> QED  BY <1>2, <1>4
  <2> QED  BY <2>1
<1> DEFINE g == [n \in 1..k |-> IF n = 1 THEN first
                                ELSE IF n = k THEN PopAfter(f[j], PtrSize) ELSE f[n]]
<1>6. PopsFrom(g, first, k)
  <2>1. \A n \in 1..j : f[n] = IF n = 1 THEN first ELSE PopAfter(f[n - 1], PtrSize)
    BY <1>5 DEF PopsFrom
  <2>2. \A n \in 1..k : g[n] = IF n = 1 THEN first ELSE PopAfter(g[n - 1], PtrSize)
    <3> TAKE n \in 1..k
    <3>1. CASE n = 1
      BY <3>1
    <3>2. CASE n = k /\ n # 1
      <4>1. k - 1 = j /\ j \in 1..k /\ j # k /\ j \in 1..j
        BY <1>4, <3>2
      <4>2. g[j] = f[j]
        BY <2>1, <4>1
      <4> QED  BY <3>2, <4>1, <4>2
    <3>3. CASE n # 1 /\ n # k
      <4>1. n \in 1..j /\ n - 1 \in 1..k /\ n - 1 # k /\ n - 1 \in 1..j
        BY <1>4, <3>3
      <4>2. g[n - 1] = f[n - 1] /\ g[n] = f[n]
        BY <2>1, <3>3, <4>1
      <4> QED  BY <2>1, <3>3, <4>1, <4>2
    <3> QED  BY <3>1, <3>2, <3>3
  <2> QED  BY <2>2 DEF PopsFrom
<1> QED  BY <1>6

(* After i pops without an error, the i topmost words are the values.      *)
Popping(f, i, live) ==
  /\ \A j \in 1..i : f[j].value = SubSeq(live, 8 * (j - 1) + 1, 8 * (j - 1) + 8)
  /\ Plain(f[i].sh, f[i].off, stackArray, After(live, 8 * i))

LEMMA PopsAre ==
  ASSUME NEW n \in Nat, n > 0, NEW live, Plain(shadowStack, stackOffset, stackArray, live),
         8 * n <= Len(live), NEW f, PopsFrom(f, PopTop(PtrSize), n), f[n].err = "ok"
  PROVE  Popping(f, n, live)
<1>1. /\ f[1] = PopTop(8)
      /\ \A i \in 1..n : i # 1 => f[i] = PopAfter(f[i - 1], 8)
  BY DEF PopsFrom, PtrSize
<1>2. live \in Seq(Byte) /\ Len(live) \in Nat /\ stackArray \in Arrays
  BY LiveLen DEF Plain
<1> DEFINE Right(i) == f[i].err = "ok" => Popping(f, i, live)
           T == {i \in 1..n : ~Right(i)}
<1>3. SUFFICES ASSUME T # {} PROVE FALSE
  <2>1. n \in 1..n
    OBVIOUS
  <2> QED  BY <2>1
<1>4. PICK i \in T : \A k \in T : i <= k
  <2> HIDE DEF T
  <2>1. T \subseteq Nat
    BY DEF T
  <2> QED  BY <1>3, <2>1, LeastNumber
<1>5. i \in 1..n /\ f[i].err = "ok" /\ ~Popping(f, i, live)
  OBVIOUS
<1>6. CASE i = 1
  <2>1. f[1] = ShadowPop(shadowStack, stackOffset, 8) /\ f[1].err = "ok"
    BY <1>1, <1>5, <1>6 DEF PopTop
  <2>2. 8 <= Len(live)
    BY <1>2
  <2>3. Pops(f[1], shadowStack, stackOffset, stackArray, live, 8)
    BY <2>1, <2>2, PopLive
  <2>4. Plain(f[1].sh, f[1].off, stackArray, After(live, 8))
    BY <1>2, <2>3, PopsPlain
  <2>5. f[1].value = SubSeq(live, 1, 8)
    BY <2>3 DEF Pops, Trunc
  <2>6. Popping(f, 1, live)
    <3>1. 8 * 1 = 8 /\ 8 * (1 - 1) + 1 = 1 /\ 8 * (1 - 1) + 8 = 8 /\ \A j \in 1..1 : j = 1
      OBVIOUS
    <3> QED  BY <2>4, <2>5, <3>1 DEF Popping
  <2> QED  BY <1>5, <1>6, <2>6
<1>7. CASE i # 1
  <2>1. PICK k : k = i - 1 /\ k \in 1..n /\ i = k + 1 /\ k \in Nat
    BY <1>5, <1>7
  <2>2. f[i] = PopAfter(f[k], 8)
    BY <1>1, <1>5, <1>7, <2>1
  <2>3. f[k].err = "ok" /\ f[i] = ShadowPop(f[k].sh, f[k].off, 8)
    BY <1>5, <2>2 DEF PopAfter
  <2>4. Popping(f, k, live)
    <3>1. k \notin T
      <4> HIDE DEF T
      <4>1. i \in Nat
        BY <1>5
      <4> QED  BY <1>4, <2>1, <4>1
    <3> QED  BY <2>1, <2>3, <3>1
  <2>5. PICK left, a : left = After(live, 8 * k) /\ a = 8 * k
    OBVIOUS
  <2>6. a \in Nat /\ a + 8 = 8 * i /\ a + 8 <= Len(live) /\ 8 * (i - 1) = a
    BY <1>2, <1>5, <2>1, <2>5
  <2>7. Plain(f[k].sh, f[k].off, stackArray, left)
    BY <2>4, <2>5 DEF Popping
  <2>8. 8 <= Len(left)
    <3>1. a <= Len(live)
      BY <1>2, <2>6
    <3>2. Len(After(live, a)) = Len(live) - a
      BY <1>2, <2>6, <3>1, AfterIs
    <3> QED  BY <1>2, <2>5, <2>6, <3>2
  <2>9. Pops(f[i], f[k].sh, f[k].off, stackArray, left, 8)
    BY <1>5, <2>3, <2>7, <2>8, PopLive
  <2>10. Plain(f[i].sh, f[i].off, stackArray, After(left, 8))
    BY <1>2, <2>9, PopsPlain
  <2>11. After(left, 8) = After(live, 8 * i)
    <3>1. After(After(live, a), 8) = After(live, a + 8)
      BY <1>2, <2>6, AfterAfter
    <3> QED  BY <2>5, <2>6, <3>1
  <2>12. f[i].value = SubSeq(live, a + 1, a + 8)
    <3>1. Trunc(After(live, a), 8) = SubSeq(live, a + 1, a + 8)
      BY <1>2, <2>6, UnderIs, ZenonT(40)
    <3> QED  BY <2>5, <2>9, <3>1 DEF Pops
  <2>13. \A j \in 1..i : f[j].value = SubSeq(live, 8 * (j - 1) + 1, 8 * (j - 1) + 8)
    <3> TAKE j \in 1..i
    <3>1. CASE j = i
      BY <2>6, <2>12, <3>1
    <3>2. CASE j # i
      <4>1. j \in 1..k
        BY <1>5, <2>1, <3>2
      <4> QED  BY <2>4, <4>1 DEF Popping
    <3> QED  BY <3>1, <3>2
  <2>14. Popping(f, i, live)
    BY <2>10, <2>11, <2>13 DEF Popping
  <2> QED  BY <1>5, <2>14
<1> QED  BY <1>6, <1>7

LEMMA ExitSim ==
  ASSUME Regular, RInv, IInv', NEW h \in Handlers, LiftVmExit(h)
  PROVE  Simulates
<1>1. Starts(h, h.op) /\ h.op = "Exit" /\ status = "ok" /\ Legal(h) /\ pos < MaxLength
  BY DEF LiftVmExit, Starts
<1>2. PICK r : r = Len(ExitRegs) + 2 /\ r \in Nat /\ r > 0
  BY RegsAssumption
<1>3. PICK f : f = CHOOSE g : PopsFrom(g, PopTop(PtrSize), r)
  OBVIOUS
<1>4. PopsFrom(f, PopTop(PtrSize), r)
  BY <1>2, <1>3, PopsExist
<1>5. PICK error :
        /\ error = "ok" => f[r].err = "ok"
        /\ \/ Stop(error)
           \/ /\ error = "ok"
              /\ Emit(h, f[r].sh, f[r].off, [i \in 1..r |-> f[i].value])
              /\ flagCalculators' = NoCalculators
              /\ status' = "exit"
              /\ inBlock' = FALSE
              /\ UNCHANGED <<stackArray, virtualContext>>
  <2> DEFINE R == Len(ExitRegs) + 2
             F == CHOOSE g : g = [i \in 1..R |-> IF i = 1 THEN PopTop(PtrSize)
                                                ELSE PopAfter(g[i - 1], PtrSize)]
             E == IF F[R].err # "ok" THEN F[R].err
                  ELSE IF \E i \in {i \in 1..R : i <= Len(ExitRegs) => ExitRegs[i] # -1} :
                            F[i].flagsPromise # NoPromise THEN "null"
                  ELSE "ok"
  <2>1. \/ Stop(E)
        \/ /\ E = "ok"
           /\ Emit(h, F[R].sh, F[R].off, [i \in 1..R |-> F[i].value])
           /\ flagCalculators' = NoCalculators
           /\ status' = "exit"
           /\ inBlock' = FALSE
           /\ UNCHANGED <<stackArray, virtualContext>>
    BY DEF LiftVmExit
  <2>2. E = "ok" => F[R].err = "ok"
    <3> HIDE DEF R, F
    <3>1. F[R].err # "ok" => E = F[R].err
      BY DEF E
    <3> HIDE DEF E
    <3> QED  BY <3>1
  <2>3. F = f
    BY <1>2, <1>3 DEF PopsFrom
  <2>4. R = r
    BY <1>2
  <2> HIDE DEF R, F, E
  <2>5. PICK e : e = E
    OBVIOUS
  <2> QED  BY <2>1, <2>2, <2>3, <2>4, <2>5, Zenon
<1>6. CASE Stop(error)
  BY <1>1, <1>6, StopSim
<1>7. CASE /\ error = "ok"
           /\ Emit(h, f[r].sh, f[r].off, [i \in 1..r |-> f[i].value])
           /\ flagCalculators' = NoCalculators
           /\ status' = "exit"
           /\ inBlock' = FALSE
           /\ UNCHANGED <<stackArray, virtualContext>>
  <2>1. f[r].err = "ok"
    BY <1>5, <1>7
  <2>2. PICK live : live = LiveStack
    OBVIOUS
  <2>3. Popped(h) = 8 * r /\ Popped(h) <= Len(live)
    <3>1. Popped(h) <= Len(LiveStack)
      BY LiveIs, <1>1 DEF Legal
    <3> QED  BY <1>1, <1>2, <2>2, <3>1, Traffic DEF PtrSize
  <2>4. Plain(shadowStack, stackOffset, stackArray, live)
    BY <1>1, <2>2, PlainState
  <2>5. Popping(f, r, live)
    BY <1>2, <1>4, <2>1, <2>3, <2>4, PopsAre
  <2>6. PICK sh, off, consumed : sh = f[r].sh /\ off = f[r].off /\ consumed = [i \in 1..r |-> f[i].value]
    OBVIOUS
  <2>7. StackInv(sh, off, stackArray')
    BY <1>7, <2>5, <2>6, PlainPromising DEF Popping, Plain, StackInv
  <2>8. ContextInv(virtualContext', flagCalculators')
    <3>1. DOMAIN flagCalculators' = {}
      BY <1>7 DEF NoCalculators
    <3> QED  BY <1>7, <3>1 DEF ContextInv, RInv
  <2>9. RInv'
    <3>1. Emit(h, sh, off, consumed)
      BY <1>7, <2>6
    <3>2. status' = "exit" /\ inBlock' \in BOOLEAN
      BY <1>7
    <3> QED  BY <1>1, <2>7, <2>8, <3>1, <3>2, EmitInv
  <2>10. consumed = [i \in 1..r |-> SubSeq(live, 8 * (i - 1) + 1, 8 * (i - 1) + 8)]
    BY <2>5, <2>6 DEF Popping
  <2>11. executed' = <<h, consumed>> /\ pos' = pos + 1
    BY <1>7, <2>6 DEF Emit
  <2>12. ~Gone /\ Gone'
    BY <1>1, <1>7 DEF Gone
  <2>13. VM!Step(h, 8 * r, <<>>, consumed)
    <3>1. Len(<<>>) <= Above + Below
      BY SizesAssumption
    <3>2. (IF Gone THEN <<>> ELSE LiveStack) = live /\ (IF Gone THEN <<>> ELSE LiveStack)' = <<>>
      BY <2>2, <2>12
    <3> QED  BY <1>1, <2>3, <2>11, <2>12, <3>1, <3>2 DEF VM!Step
  <2>14. (IF Gone THEN <<>> ELSE LiveStack) = LiveStack /\ (IF Gone THEN <<>> ELSE LiveContext)' = <<>>
    BY <2>12
  <2>15. VM!Exit(h)
    BY <1>1, <1>2, <2>2, <2>10, <2>12, <2>13, <2>14, SameWords DEF VM!Exit, VM!Under, PtrSize
  <2>16. VM!Next
    BY <2>15 DEF VM!Next
  <2> QED  BY <2>9, <2>16 DEF Simulates
<1> QED  BY <1>5, <1>6, <1>7

-----------------------------------------------------------------------------
LEMMA InitSim ==
  ASSUME Init
  PROVE  RInv /\ VM!Init
<1>1. /\ stackOffset = 0 /\ shadowStack = <<>> /\ flagCalculators = NoCalculators
      /\ stackArray = [x \in (-Below)..(Above - 1) |-> <<"mem", 0, x + 1>>]
      /\ virtualContext = Word("ctx", 0, ContextSize)
      /\ inBlock = FALSE /\ vspAfter = 0 /\ pos = 0 /\ executed = <<>> /\ status = "ok"
  BY DEF Init
<1>2. Above \in Nat /\ Below \in Nat /\ ContextSize \in Nat /\ MaxLength \in Nat
  BY SizesAssumption
<1>3. 0 \in Offsets /\ stackArray \in Arrays
  <2>1. \A x \in (-Below)..(Above - 1) : <<"mem", 0, x + 1>> \in Byte
    BY <1>2 DEF Byte
  <2> QED  BY <1>1, <1>2, <2>1 DEF Offsets, Arrays
<1>4. DOMAIN flagCalculators = {}
  BY <1>1 DEF NoCalculators
<1>5. virtualContext \in Seq(Byte) /\ Len(virtualContext) = ContextSize
  <2>1. 0 \in Int
    OBVIOUS
  <2>2. Word("ctx", 0, ContextSize) \in Seq(Byte) /\ Len(Word("ctx", 0, ContextSize)) = ContextSize
    BY <1>2, <2>1, WordIs
  <2> QED  BY <1>1, <2>2
<1>6. RInv
  <2>1. StackInv(<<>>, 0, stackArray)
    BY <1>3, EmptyStack DEF StackInv
  <2>2. ContextInv(virtualContext, flagCalculators)
    BY <1>4, <1>5 DEF ContextInv
  <2>3. CountersInv
    <3>1. inBlock \in BOOLEAN
      BY <1>1
    <3>2. vspAfter \in Int /\ pos \in 0..MaxLength
      BY <1>1, <1>2
    <3>3. status \in {"ok", "exit", "strange", "null", "badIR"}
      BY <1>1
    <3> QED  BY <3>1, <3>2, <3>3 DEF CountersInv
  <2>4. CurrentVsp = vspAfter
    <3>1. 0 - ShadowDepth(<<>>) = 0
      BY EmptyStack
    <3> QED  BY <1>1, <3>1 DEF CurrentVsp
  <2>5. StackInv(shadowStack, stackOffset, stackArray)
    BY <1>1, <2>1
  <2> QED  BY <1>1, <2>2, <2>3, <2>4, <2>5, InitIInv DEF RInv
<1>7. ~Gone
  BY <1>1 DEF Gone
<1>8. LiveStack = Word("mem", 0, Above)
  <2>1. PICK w : w = Word("mem", 0, Above)
    OBVIOUS
  <2>2. w \in Seq(Byte) /\ Len(w) = Above
    <3>1. 0 \in Int
      OBVIOUS
    <3>2. Word("mem", 0, Above) \in Seq(Byte) /\ Len(Word("mem", 0, Above)) = Above
      BY <1>2, <3>1, WordIs
    <3> QED  BY <2>1, <3>2
  <2>3. \A k \in 1..Above : w[k] = <<"mem", 0, k>>
    BY <2>1 DEF Word
  <2>4. \A k \in 1..Above : stackArray[0 + k - 1] = <<"mem", 0, k>>
    <3> TAKE k \in 1..Above
    <3>1. 0 + k - 1 \in (-Below)..(Above - 1) /\ 0 + k - 1 + 1 = k
      BY <1>2
    <3> QED  BY <1>1, <3>1
  <2>5. IsLive(w, <<>>, 0, stackArray)
    <3>1. Len(<<>>) = 0 /\ Above - 0 = Above /\ 0 + Above = Above
      BY <1>2
    <3>2. \A k \in 1..Above : w[0 + k] = stackArray[0 + k - 1]
      BY <1>2, <2>3, <2>4
    <3> QED  BY <2>2, <3>1, <3>2, EmptyStack DEF IsLive
  <2>6. IsLive(LiveStack, shadowStack, stackOffset, stackArray)
    BY <1>6, LiveIs
  <2>7. IsLive(LiveStack, <<>>, 0, stackArray)
    BY <1>1, <2>6
  <2>8. LiveStack = w
    BY <1>3, <2>5, <2>7, EmptyStack, LiveUnique
  <2> QED  BY <2>1, <2>8
<1>9. LiveContext = Word("ctx", 0, ContextSize)
  <2>1. \A x : Promised(x) = {}
    BY <1>4 DEF Promised
  <2>2. LiveContext = [x \in 1..ContextSize |-> virtualContext[x]]
    BY <2>1 DEF LiveContext
  <2> QED  BY <1>1, <2>2 DEF Word
<1>10. VM!Init
  <2>1. /\ (IF Gone THEN <<>> ELSE LiveStack) = Word("mem", 0, Above)
        /\ (IF Gone THEN <<>> ELSE LiveContext) = Word("ctx", 0, ContextSize)
        /\ ~Gone = TRUE
    BY <1>7, <1>8, <1>9
  <2> QED  BY <1>1, <2>1, SameWords DEF VM!Init
<1> QED  BY <1>6, <1>10

(* The step that only stops, when a pop does not find what it wants.       *)
LEMMA StopInPopSim ==
  ASSUME RInv, IInv', NEW h, StopInPop(h)
  PROVE  Simulates
<1>1. status = "ok" /\ Stop(PopTop(Popped(h)).err)
  BY DEF StopInPop, Starts
<1> QED  BY <1>1, StopSim

LEMMA StutterSim ==
  ASSUME RInv, UNCHANGED vars
  PROVE  Simulates
<1>1. /\ UNCHANGED <<stackOffset, shadowStack, flagCalculators, stackArray>>
      /\ UNCHANGED <<virtualContext, inBlock, vspAfter, pos, executed, status>>
  BY DEF vars
<1>2. RInv'
  <2>1. IInv'
    BY <1>1 DEF RInv, IInv
  <2>2. StackInv(shadowStack', stackOffset', stackArray') /\ ContextInv(virtualContext', flagCalculators')
    BY <1>1 DEF RInv
  <2>3. CountersInv'
    BY <1>1 DEF RInv, CountersInv
  <2>4. CurrentVsp' = CurrentVsp
    BY <1>1 DEF CurrentVsp
  <2> QED  BY <1>1, <2>1, <2>2, <2>3, <2>4 DEF RInv
<1>3. LiveStack' = LiveStack /\ LiveContext' = LiveContext /\ Gone' = Gone
  BY <1>1 DEF LiveStack, Load, LiveContext, Promised, Gone
<1>4. UNCHANGED VM!vars
  BY <1>1, <1>3 DEF VM!vars
<1> QED  BY <1>2, <1>4 DEF Simulates

LEMMA NextSim ==
  ASSUME Regular, RInv, [Next]_vars
  PROVE  Simulates
<1>1. IInv'
  BY NextIInv DEF RInv
<1>2. CASE LiftBasicBlock
  BY <1>1, <1>2, BlockSim
<1>3. ASSUME NEW h \in Handlers, LiftHandler(h)
      PROVE  Simulates
  <2>1. ~LiftVmPopVsp(h)
    <3>1. h.op # "PopVsp"
      BY OpsAre DEF WholeWords
    <3> QED  BY <3>1 DEF LiftVmPopVsp, Starts
  <2> QED  BY <1>1, <1>3, <2>1, StopInPopSim, PopSim, PushRegSim, PushConstSim, PushVspSim,
              ReadMemSim, WriteMemSim, AddSim, NorSim, ShiftSim, DoubleShiftSim, JmpSim,
              EntrySim, ExitSim DEF LiftHandler
<1>4. CASE UNCHANGED vars
  BY <1>4, StutterSim
<1> QED  BY <1>2, <1>3, <1>4 DEF Next

LEMMA SpecRInv == ASSUME Regular PROVE Spec => []RInv
<1>1. Init => RInv
  BY InitSim
<1>2. RInv /\ [Next]_vars => RInv'
  BY NextSim DEF Simulates
<1> QED  BY <1>1, <1>2, PTL DEF Spec

(* On traces of whole words that meet the assumptions, the lifted code is  *)
(* the machine of the trace: every handler leaves the stack, the registers *)
(* and the operands that the machine leaves.                               *)
THEOREM LifterImplementsMachine == ASSUME Regular PROVE Spec => ImplementsMachine
<1>1. Init => VM!Init
  BY InitSim
<1>2. RInv /\ [Next]_vars => [VM!Next]_(VM!vars)
  BY NextSim DEF Simulates
<1>3. Spec => []RInv
  BY SpecRInv
<1>4. Spec => VM!Spec
  BY <1>1, <1>2, <1>3, PTL DEF Spec, VM!Spec
<1> QED  BY <1>4 DEF ImplementsMachine

(* There, the state stays what its declarations say.                       *)
THEOREM LifterTypesHold == ASSUME Regular PROVE Spec => []TypeOK
<1>1. RInv => TypeOK
  <2> SUFFICES ASSUME RInv PROVE TypeOK
    OBVIOUS
  <2>1. stackOffset \in Int /\ shadowStack \in Seq(Slot) /\ stackArray \in [(-Below)..(Above - 1) -> Byte]
    BY DEF RInv, StackInv, FitStack, Offsets, Arrays
  <2>2. /\ virtualContext \in Seq(Byte) /\ Len(virtualContext) = ContextSize
        /\ DOMAIN flagCalculators \subseteq Keys
        /\ \A key \in DOMAIN flagCalculators : flagCalculators[key] \in 1..MaxLength
    BY DEF RInv, ContextInv
  <2>3. Keys \subseteq 0..(ContextSize - 1)
    BY SizesAssumption DEF Keys, PtrSize
  <2> QED  BY <2>1, <2>2, <2>3 DEF TypeOK, RInv, CountersInv
<1>2. Spec => []RInv
  BY SpecRInv
<1> QED  BY <1>1, <1>2, PTL

(* There, a waiting value is as wide as its slot: FlushVsp leaves no stale *)
(* byte, and ShadowPop puts slots together without padding.                *)
THEOREM SlotsStayFilled == ASSUME Regular PROVE Spec => []SlotsFilled
<1>1. RInv => SlotsFilled
  <2> SUFFICES ASSUME RInv, NEW i \in DOMAIN shadowStack,
                      shadowStack[i].flagsPromise = NoPromise
               PROVE  Len(shadowStack[i].value) = shadowStack[i].depth
    BY DEF SlotsFilled
  <2>1. FitStack(shadowStack)
    BY DEF RInv, StackInv
  <2>2. i \in 1..Len(shadowStack)
    BY <2>1, FitLen
  <2> QED  BY <2>1, <2>2 DEF FitStack, Fits
<1>2. Spec => []RInv
  BY SpecRInv
<1> QED  BY <1>1, <1>2, PTL

(* There, the VSP that VM_PUSH_VSP pushes is the recorded one: only the    *)
(* offset of VM_POP_VSP leads it astray.                                   *)
THEOREM VspStaysTracked == ASSUME Regular PROVE Spec => []VspTracked
<1>1. RInv => VspTracked
  BY DEF RInv, VspTracked
<1>2. Spec => []RInv
  BY SpecRInv
<1> QED  BY <1>1, <1>2, PTL
=============================================================================
