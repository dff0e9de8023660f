---------------------------- MODULE FlagArithmetic ----------------------------
(***************************************************************************)
(* What the lifted code computes for the arithmetic handlers, bit by bit:  *)
(* the result that LiftVmAdd ... LiftVmShrd push and the flags that        *)
(* CalculateFlagsFromPromise makes of the operands, next to what the       *)
(* processor computes when the handler runs.                               *)
(*                                                                         *)
(* A value is the set of the positions of its bits that are set, an        *)
(* outcome a set that is empty where LLVM leaves the value undefined       *)
(* (poison).  The sizes are scaled down: a byte has ByteBits bits, a slot  *)
(* of the stack two or four bytes, and the processor looks at the low bits *)
(* of a count, enough for the widest operand.                              *)
(*                                                                         *)
(* One step runs one handler; its first operand is the result of the one   *)
(* before, so that what a handler leaves in the upper byte of its slot is  *)
(* seen by the next.                                                       *)
(***************************************************************************)
EXTENDS Integers, FiniteSets, FiniteSetsExt

CONSTANTS
  ByteBits,      \* bits of a byte
  SlotBytes,     \* sizes of the slots
  Args,          \* bound: values that are pushed
  Counts,        \* bound: values of the byte that counts a shift
  MaxHandlers    \* bound: handlers run

ASSUME SizesAssumption ==
  ByteBits \in Nat \ {0} /\ SlotBytes \subseteq {2, 4} /\ MaxHandlers \in Nat
ASSUME ArgsAssumption == Args \subseteq SUBSET (0..(4 * ByteBits - 1)) /\ Counts \subseteq Nat

VARIABLES
  slot,          \* bits of the slot on top of the stack
  machine,       \* the value the machine has there
  lifted,        \* the value the lifted code has there, if it has one
  machineFlags,  \* flags of the last handler, none where it left them alone
  liftedFlags,
  last           \* history: the last handler, and whether the older path agrees

vars == <<slot, machine, lifted, machineFlags, liftedFlags, last>>

Bits(w) == 0..(w - 1)
Trunc(w, v) == v \cap Bits(w)
Num(v) == MapThenSumSet(LAMBDA i : 2^i, v)
OfNum(w, n) == {i \in Bits(w) : (n \div 2^i) % 2 = 1}
Signed(w, v) == Num(v) - IF w - 1 \in v THEN 2^w ELSE 0

-----------------------------------------------------------------------------
(* The instructions of LLVM.  A count is extended from a byte, so that a   *)
(* difference below zero wraps to one above every width.  Plausible slips, *)
(* here and below: a word inverted for a byte, operands swapped, a carry   *)
(* when nothing was carried, a carry or a shift that is one bit off.       *)
Shl(w, v, n) == IF n \in Bits(w) THEN {Trunc(w, {i + n : i \in v})} ELSE {}
LShr(w, v, n) == IF n \in Bits(w) THEN {{i - n : i \in {j \in v : j >= n}}} ELSE {}
Add(w, a, b) == OfNum(w, Num(a) + Num(b))
NotOfSlot(w, v) == Bits(IF w = ByteBits THEN 2 * w ELSE w) \ v
Not(w, v) == Bits(w) \ v
ICmpSLT0(w, v) == w - 1 \in v
Low(v) == 0 \in v                     \* trunc to i1
FShl(w, high, low, n) ==
  LET k == n % w IN Trunc(w, {i + k : i \in high}) \cup {i - (w - k) : i \in low \ Bits(w - k)}
SwappedFShr(w, high, low, n) ==
  LET k == n % w IN {i - k : i \in high \ Bits(k)} \cup Trunc(w, {i + w - k : i \in low})
FShr(w, high, low, n) ==
  LET k == n % w IN {i - k : i \in low \ Bits(k)} \cup Trunc(w, {i + w - k : i \in high})

ZF == 6
SF == 7
CF == 0
OF == 11
Flag(bit, isSet) == IF isSet THEN {bit} ELSE {}
PackFlags(w, res, cf, of) ==
  Flag(ZF, res = {}) \cup Flag(SF, ICmpSLT0(w, res)) \cup Flag(CF, cf) \cup Flag(OF, of)

SignedOverflow(w, a, b) ==
  LET sum == Signed(w, a) + Signed(w, b) IN sum >= 2^(w - 1) \/ sum < -(2^(w - 1))
CarryIfEqual(w, a, b) ==
  {PackFlags(w, Add(w, a, b), Num(Add(w, a, b)) <= Num(a), SignedOverflow(w, a, b))}
FlagsOfAdd(w, a, b) ==
  {PackFlags(w, Add(w, a, b), Num(Add(w, a, b)) < Num(a), SignedOverflow(w, a, b))}
FlagsOfNor(w, a, b) == {PackFlags(w, Not(w, a \cup b), FALSE, FALSE)}
FlagsOfNand(w, a, b) == {PackFlags(w, Not(w, a \cap b), FALSE, FALSE)}
FlagsOfShl(w, val, amt) ==
  {PackFlags(w, res, Low(out), ICmpSLT0(w, res) # Low(out)) :
     res \in Shl(w, val, amt), out \in LShr(w, val, w - amt)}
CarryOffByOne(w, val, amt) ==
  {PackFlags(w, res, Low(res), ICmpSLT0(w, val)) : res \in LShr(w, val, amt)}
FlagsOfShr(w, val, amt) ==
  {PackFlags(w, res, Low(out), ICmpSLT0(w, val)) :
     res \in LShr(w, val, amt), out \in LShr(w, val, amt - 1)}
(* Every possible part1 with every possible part2.                         *)
Joined(high, low) == {part1 \cup part2 : part1 \in high, part2 \in low}
FlagsOfShld(w, dest, src, count) ==
  {PackFlags(w, res, Low(out), ICmpSLT0(w, res) # Low(out)) :
     res \in Joined(Shl(w, dest, count), LShr(w, src, w - count)),
     out \in LShr(w, dest, w - count)}
FlagsOfShrd(w, dest, src, count) ==
  {PackFlags(w, res, Low(out), ICmpSLT0(w, res) # ICmpSLT0(w, dest)) :
     res \in Joined(LShr(w, dest, count), Shl(w, src, w - count)),
     out \in LShr(w, dest, count - 1)}

(* The handlers of depth d, in bits, on slots a and b and a count n.  The  *)
(* operands of 8 bits are taken as 16 bits; an addition and the shifts are *)
(* computed so, only the flags of the addition are not.                    *)
Wide(d) == IF d = ByteBits THEN 2 * ByteBits ELSE d
Lift(op, d, a, b, n) ==
  LET w == Wide(d)
      Outcome(results, flags) == [value |-> results, flags |-> flags]
  IN CASE op = "Add" -> Outcome({Add(w, a, b)}, FlagsOfAdd(d, Trunc(d, a), Trunc(d, b)))
       [] op = "Nor" -> Outcome({Not(d, Trunc(d, a \cup b))},
                                FlagsOfNor(d, Trunc(d, a), Trunc(d, b)))
       [] op = "Nand" -> Outcome({Not(d, Trunc(d, a \cap b))},
                                 FlagsOfNand(d, Trunc(d, a), Trunc(d, b)))
       [] op = "Shl" -> Outcome(Shl(w, a, n), FlagsOfShl(w, a, n))
       [] op = "Shr" -> Outcome(LShr(w, a, n), FlagsOfShr(w, a, n))
       [] op = "Shld" -> Outcome({FShl(w, a, b, n)}, FlagsOfShld(w, a, b, n))
       [] op = "Shrd" -> Outcome({FShr(w, b, a, n)}, FlagsOfShrd(w, a, b, n))

(* LLVMFunctionLifter computes a byte in 8 bits, and hands the operands of *)
(* a double shift to the right over in the order of one to the left.       *)
LiftOlder(op, d, a, b, n) ==
  LET x == Trunc(d, a)
      y == Trunc(d, b)
  IN CASE op = "Add" -> {Add(d, x, y)}
       [] op = "Nor" -> {Not(d, x \cup y)}
       [] op = "Nand" -> {Not(d, x \cap y)}
       [] op = "Shl" -> Shl(d, x, n)
       [] op = "Shr" -> LShr(d, x, n)
       [] op = "Shld" -> {FShl(d, x, y, n)}
       [] op = "Shrd" -> {FShr(d, x, y, n)}

-----------------------------------------------------------------------------
(* The processor.  It shifts by one bit as often as the masked count says; *)
(* a count of zero leaves the flags alone, one above the width makes those *)
(* of a double shift undefined, as it does the carry of a shift.           *)
CountMask == 4 * ByteBits            \* 32
ShiftLeft(w, v, in) == {i + 1 : i \in v \ {w - 1}} \cup Flag(0, in)
ShiftRight(w, v, in) == {i - 1 : i \in v \ {0}} \cup Flag(w - 1, in)

(* Left[k] and Right[k]: the value after k single shifts, and the last bit *)
(* that was shifted out.  The bits that come in are those of src.          *)
Left(w, v, src) ==
  LET f[k \in 0..(CountMask - 1)] ==
        IF k = 0 THEN <<v, FALSE>>
        ELSE <<ShiftLeft(w, f[k - 1][1], w - k \in src), w - 1 \in f[k - 1][1]>>
  IN f
Right(w, v, src) ==
  LET f[k \in 0..(CountMask - 1)] ==
        IF k = 0 THEN <<v, FALSE>>
        ELSE <<ShiftRight(w, f[k - 1][1], k - 1 \in src), 0 \in f[k - 1][1]>>
  IN f

ShiftFlags(w, before, after, k, of) ==
  IF k = 0 THEN {} ELSE {PackFlags(w, after[1], after[2], k = 1 /\ of)}

Processor(op, d, a, b, n) ==
  LET k == n % CountMask
      x == Trunc(d, a)
      y == Trunc(d, b)
      sum == OfNum(d, Num(x) + Num(y))
      signed == Signed(d, x) + Signed(d, y)
      Sign(v) == d - 1 \in v
      Shifted(after) ==
        [value |-> after[1],
         flags |-> ShiftFlags(d, x, after, k,
                     IF op \in {"Shl", "Shld"} THEN Sign(after[1]) # after[2]
                     ELSE Sign(x) # Sign(after[1]))]
  IN CASE op = "Add" ->
            [value |-> sum, flags |-> {PackFlags(d, sum, Num(x) + Num(y) >= 2^d,
                                                 Signed(d, sum) # signed)}]
       [] op = "Nor" -> [value |-> Bits(d) \ (x \cup y), flags |-> FlagsOfNor(d, x, y)]
       [] op = "Nand" -> [value |-> Bits(d) \ (x \cap y), flags |-> FlagsOfNand(d, x, y)]
       [] op = "Shl" -> Shifted(Left(d, x, {})[k])
       [] op = "Shr" -> Shifted(Right(d, x, {})[k])
       [] op = "Shld" -> Shifted(Left(d, x, y)[k])
       [] op = "Shrd" -> Shifted(Right(d, x, y)[k])

-----------------------------------------------------------------------------
Arithmetic == {"Add", "Nor", "Nand"}
Shift == {"Shl", "Shr"}
DoubleShift == {"Shld", "Shrd"}
Depths == IF slot = 2 * ByteBits THEN {ByteBits, slot} ELSE {slot}

(* The handler runs on the operands on the stack: the machine's and those  *)
(* of the lifted code, whatever it makes of its flags.                     *)
Run(op, d, b, n) ==
  LET native == Processor(op, d, machine, b, n)
      outcomes == {Lift(op, d, a, b, n) : a \in lifted}
  IN /\ machine' = native.value
     /\ machineFlags' = native.flags
     /\ lifted' = UNION {outcome.value : outcome \in outcomes}
     /\ liftedFlags' = UNION {outcome.flags : outcome \in outcomes}
     /\ last' = [op |-> op, d |-> d, n |-> n, count |-> last.count + 1,
                 older |-> LiftOlder(op, d, machine, b, n) = {native.value}]

RunArithmetic ==
  /\ last.count < MaxHandlers
  /\ \E op \in Arithmetic, d \in Depths, b \in Args : Run(op, d, Trunc(slot, b), 1)
  /\ UNCHANGED slot

RunShift ==
  /\ last.count < MaxHandlers
  /\ \E op \in Shift, d \in Depths, n \in Counts : Run(op, d, {}, n)
  /\ UNCHANGED slot

RunDoubleShift ==
  /\ last.count < MaxHandlers
  /\ \E op \in DoubleShift, b \in Args, n \in Counts : Run(op, slot, Trunc(slot, b), n)
  /\ UNCHANGED slot

Init ==
  /\ slot \in {n * ByteBits : n \in SlotBytes}
  /\ machine \in {Trunc(slot, a) : a \in Args}
  /\ lifted = {machine}
  /\ machineFlags = {} /\ liftedFlags = {}
  /\ last = [op |-> "none", d |-> 0, n |-> 0, count |-> 0, older |-> TRUE]

Next == RunArithmetic \/ RunShift \/ RunDoubleShift

Spec == Init /\ [][Next]_vars

-----------------------------------------------------------------------------
(* Both have the same value in the bits that the handler works on; the     *)
(* operand of the machine is of that width.                                *)
AgreeLow(d) == \A v \in lifted : Trunc(d, v) = Trunc(d, machine)
Agree == lifted = {machine}
Clean(d) == \A v \in lifted \cup {machine} : Trunc(d, v) = v
InRange(step) == step.op \in Arithmetic \/ step.n \in 1..(Wide(step.d) - 1)
Narrow(step) == step.d = ByteBits

(* An operation in range yields the result of the processor in the bits    *)
(* that the handler works on, whatever is above them; only the shift to    *)
(* the right of a byte draws in what its slot has in the upper byte.       *)
ResultAgrees ==
  [][\E step \in {last'} :
       AgreeLow(step.d) /\ InRange(step) /\ (step.op = "Shr" => Clean(step.d))
         => \A v \in lifted' : Trunc(step.d, v) = Trunc(step.d, machine')]_vars

(* The whole slot agrees, but for the carry of an addition and for the     *)
(* bits that a shift moves out of a byte: they stay in the upper byte.     *)
SlotAgrees ==
  [][\E step \in {last'} :
       Agree /\ Clean(step.d) /\ InRange(step)
         => Agree' \/ (Narrow(step) /\ step.op \in {"Add", "Shl"})]_vars

(* The flags are those of the processor, the overflow of a shift when it   *)
(* is by one bit; but a shift to the left of a byte takes them from the    *)
(* upper byte of its slot, so that its carry is not the last bit that was  *)
(* shifted out, and one to the right takes the overflow from there.        *)
FlagsAgree ==
  [][\E step \in {last'} :
       /\ InRange(step) /\ AgreeLow(step.d)
       /\ step.op \in Shift \cup DoubleShift => Clean(step.d)
       /\ ~(Narrow(step) /\ step.op = "Shl")
       => \A native \in machineFlags', flags \in liftedFlags' :
            /\ flags \cap {ZF, SF, CF} = native \cap {ZF, SF, CF}
            /\ (step.op \in Arithmetic \/ (step.n = 1 /\ ~Narrow(step)))
                 => (OF \in flags <=> OF \in native)]_vars

(* A result is undefined exactly when a shift is by the width or more; the *)
(* flags are as well, and of a shift by nothing, where the processor would *)
(* have kept the flags.                                                    *)
UndefinedOutOfRange ==
  [][\E step \in {last'} :
       lifted # {} =>
         /\ lifted' = {} <=> (step.op \in Shift /\ step.n >= Wide(step.d))
         /\ liftedFlags' = {} <=> ~InRange(step)]_vars

(* For counts below the width the older path has the result of the         *)
(* processor as well.  The comment at VM_SHRD of the newer lifter gives it:*)
(* "SHRD(Dst, Src, Count): Result = (Dst >> Count) | (Src << (Width -      *)
(* Count))"; the older one says of its call "SHRD = Funnel Shift Right".   *)
OlderAgrees == last.op \in Arithmetic \/ last.n < last.d => last.older
===============================================================================
