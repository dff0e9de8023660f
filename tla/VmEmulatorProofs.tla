--------------------------- MODULE VmEmulatorProofs ---------------------------
(***************************************************************************)
(* Whatever was traced, the emulation runs forward through the functions   *)
(* and into the block whose address was returned.  Both follow from what   *)
(* the loop of EmulateVmCode leaves in the map of names: the name of an    *)
(* address is that of the function after the last block that jumps there.  *)
(***************************************************************************)
EXTENDS VmEmulator, Induction, SequenceTheorems

(* The elements of the trace's blocks do not matter.                       *)
IsSequence == \E S : blocks \in Seq(S)

(* Each traced block jumps to the one after it.                            *)
Chained ==
  /\ \A i \in 1..(Len(blocks) - 1) : blocks[i].newVip = blocks[i + 1].vip
  /\ Len(blocks) > 0 => blocks[Len(blocks)].newVip = here

(* A named function follows a block that jumps to the address, and no      *)
(* block that jumps there comes later.                                     *)
NamesFollow ==
  \A vip \in DOMAIN handlerFunctionNames :
    /\ handlerFunctionNames[vip] \in 2..(prepared + 1)
    /\ blocks[handlerFunctionNames[vip] - 1].newVip = vip
NamesLast ==
  \A i \in 1..prepared :
    blocks[i].newVip # 0 =>
      /\ blocks[i].newVip \in DOMAIN handlerFunctionNames
      /\ handlerFunctionNames[blocks[i].newVip] >= i + 1
NeverZero == 0 \notin DOMAIN handlerFunctionNames

Phases ==
  /\ prepared \in 0..Len(blocks)
  /\ currentFunction \in Nat
  /\ phase = "trace" => prepared = 0
  /\ phase = "trace" \/ phase = "prepare" => ran = <<>>
  /\ phase = "run" => prepared = Len(blocks)

IInv ==
  /\ IsSequence /\ Chained /\ Phases
  /\ NamesFollow /\ NamesLast /\ NeverZero
  /\ RunsPopped

-----------------------------------------------------------------------------
LEMMA Starting == Init => IInv
<1> SUFFICES ASSUME Init PROVE IInv
  OBVIOUS
<1>1. blocks = <<>> /\ Len(blocks) = 0 /\ blocks \in Seq({})
  BY DEF Init
<1>2. IsSequence
  BY <1>1 DEF IsSequence
<1>3. Chained
  BY <1>1 DEF Chained
<1>4. Phases
  BY <1>1 DEF Phases, Init
<1>5. DOMAIN handlerFunctionNames = {}
  BY DEF Init
<1>6. NamesFollow /\ NeverZero
  BY <1>5 DEF NamesFollow, NeverZero
<1>7. NamesLast
  BY DEF NamesLast, Init
<1>8. RunsPopped
  BY DEF RunsPopped, Init
<1> QED
  BY <1>2, <1>3, <1>4, <1>6, <1>7, <1>8 DEF IInv

(* While the trace runs nothing is prepared: only the chain can break.     *)
LEMMA TracingStep ==
  ASSUME IInv, TraceBlock
  PROVE  IInv'
<1> DEFINE new == [vip |-> here, reads |-> [k \in ReadsOf(here) |-> NativeRead(native, here, k)], newVip |-> here']
<1>1. blocks' = Append(blocks, new)
  BY DEF TraceBlock
<1>2. PICK S : blocks \in Seq(S)
  BY DEF IInv, IsSequence
<1>3. new.vip = here /\ new.newVip = here'
  OBVIOUS
<1>4. /\ phase = "trace" /\ phase' = phase /\ prepared' = prepared /\ ran' = ran
      /\ handlerFunctionNames' = handlerFunctionNames /\ currentFunction' = currentFunction
  BY DEF TraceBlock, prepareVars, runVars
<1>5. prepared = 0 /\ ran = <<>> /\ currentFunction \in Nat
  BY <1>4 DEF IInv, Phases
<1> HIDE DEF new
<1>6. /\ blocks \in Seq(S \cup {new})
      /\ Len(blocks) \in Nat
  BY <1>2
<1>7. /\ blocks' \in Seq(S \cup {new})
      /\ Len(blocks') = Len(blocks) + 1
      /\ blocks'[Len(blocks) + 1] = new
      /\ \A i \in 1..Len(blocks) : blocks'[i] = blocks[i]
  BY <1>1, <1>6
<1>8. IsSequence'
  BY <1>7 DEF IsSequence
<1>9. Chained'
  <2>1. blocks'[Len(blocks')].newVip = here'
    BY <1>3, <1>6, <1>7
  <2>2. ASSUME NEW i \in 1..(Len(blocks') - 1)
        PROVE  blocks'[i].newVip = blocks'[i + 1].vip
    <3>1. CASE i = Len(blocks)
      <4>1. blocks'[i] = blocks[Len(blocks)] /\ Len(blocks) > 0
        BY <3>1, <1>6, <1>7
      <4>2. blocks[Len(blocks)].newVip = here
        BY <4>1 DEF IInv, Chained
      <4> QED
        BY <4>1, <4>2, <3>1, <1>3, <1>7
    <3>2. CASE i # Len(blocks)
      <4>1. i \in 1..(Len(blocks) - 1)
        BY <3>2, <1>6, <1>7
      <4>2. blocks'[i] = blocks[i] /\ blocks'[i + 1] = blocks[i + 1]
        BY <4>1, <1>6, <1>7
      <4> QED
        BY <4>1, <4>2 DEF IInv, Chained
    <3> QED
      BY <3>1, <3>2
  <2> QED
    BY <2>1, <2>2 DEF Chained
<1>10. Phases'
  BY <1>4, <1>5, <1>6, <1>7 DEF Phases
<1>11. NamesFollow'
  BY <1>4, <1>5 DEF IInv, NamesFollow
<1>12. NamesLast'
  BY <1>4, <1>5 DEF NamesLast
<1>13. NeverZero'
  BY <1>4 DEF IInv, NeverZero
<1>14. RunsPopped'
  BY <1>4, <1>5 DEF RunsPopped
<1> QED
  BY <1>8, <1>9, <1>10, <1>11, <1>12, <1>13, <1>14 DEF IInv

(* One more block has been named: the names of the other addresses stay,   *)
(* and its own target is named after it.                                   *)
LEMMA PreparingStep ==
  ASSUME IInv, PrepareBlock
  PROVE  IInv'
<1> DEFINE vip == blocks[prepared + 1].newVip
<1>1. /\ blocks' = blocks /\ here' = here /\ phase = "prepare" /\ phase' = phase
      /\ prepared' = prepared + 1 /\ prepared < Len(blocks)
      /\ ran' = ran /\ currentFunction' = currentFunction
  BY DEF PrepareBlock, traceVars, runVars
<1>2. handlerFunctionNames' =
        IF vip = 0 THEN handlerFunctionNames
        ELSE With(handlerFunctionNames, vip, prepared + 2)
  <2>1. handlerFunctionNames' =
          IF vip = 0 THEN handlerFunctionNames
          ELSE Named(handlerFunctionNames, vip, NextFunction(prepared + 1))
    BY DEF PrepareBlock
  <2>2. prepared + 1 + 1 = prepared + 2
    BY DEF IInv, Phases
  <2> QED
    BY <2>1, <2>2 DEF Named, NextFunction
<1>3. prepared \in Nat /\ prepared <= Len(blocks) /\ ran = <<>> /\ currentFunction \in Nat
  BY <1>1 DEF IInv, Phases
<1>4. Len(blocks) \in Nat
  BY DEF IInv, IsSequence
<1>5. IsSequence' /\ Chained'
  BY <1>1 DEF IInv, IsSequence, Chained
<1>6. Phases'
  BY <1>1, <1>3, <1>4 DEF Phases
<1>7. RunsPopped'
  BY <1>1 DEF RunsPopped
<1>8. NamesFollow' /\ NamesLast' /\ NeverZero'
  <2>1. CASE vip = 0
    <3>1. handlerFunctionNames' = handlerFunctionNames
      BY <1>2, <2>1
    <3>2. NamesFollow' /\ NeverZero'
      BY <3>1, <1>1, <1>3 DEF IInv, NamesFollow, NeverZero
    <3>3. NamesLast'
      BY <3>1, <2>1, <1>1, <1>3 DEF IInv, NamesLast
    <3> QED
      BY <3>2, <3>3
  <2>2. CASE vip # 0
    <3> HIDE DEF vip
    <3>1. /\ DOMAIN handlerFunctionNames' = DOMAIN handlerFunctionNames \cup {vip}
          /\ handlerFunctionNames'[vip] = prepared + 2
          /\ \A z \in DOMAIN handlerFunctionNames :
               z # vip => handlerFunctionNames'[z] = handlerFunctionNames[z]
      BY <1>2, <2>2 DEF With
    <3>2. blocks[prepared + 1].newVip = vip
      BY DEF vip
    <3>3. NeverZero'
      BY <3>1, <2>2 DEF IInv, NeverZero
    <3>4. ASSUME NEW z \in DOMAIN handlerFunctionNames'
          PROVE  /\ handlerFunctionNames'[z] \in 2..(prepared' + 1)
                 /\ blocks'[handlerFunctionNames'[z] - 1].newVip = z
      <4>1. CASE z = vip
        <5>1. handlerFunctionNames'[z] = prepared + 2 /\ prepared + 2 - 1 = prepared + 1
          BY <4>1, <3>1, <1>3
        <5> QED
          BY <5>1, <4>1, <3>2, <1>1, <1>3
      <4>2. CASE z # vip
        <5>1. z \in DOMAIN handlerFunctionNames /\ handlerFunctionNames'[z] = handlerFunctionNames[z]
          BY <4>2, <3>1
        <5>2. /\ handlerFunctionNames[z] \in 2..(prepared + 1)
              /\ blocks[handlerFunctionNames[z] - 1].newVip = z
          BY <5>1 DEF IInv, NamesFollow
        <5> QED
          BY <5>1, <5>2, <1>1, <1>3
      <4> QED
        BY <4>1, <4>2
    <3>5. ASSUME NEW i \in 1..prepared', blocks'[i].newVip # 0
          PROVE  /\ blocks'[i].newVip \in DOMAIN handlerFunctionNames'
                 /\ handlerFunctionNames'[blocks'[i].newVip] >= i + 1
      <4>1. CASE blocks[i].newVip = vip
        BY <4>1, <3>1, <1>1, <1>3
      <4>2. CASE blocks[i].newVip # vip
        <5>1. i \in 1..prepared
          BY <4>2, <3>2, <1>1, <1>3
        <5>2. /\ blocks[i].newVip \in DOMAIN handlerFunctionNames
              /\ handlerFunctionNames[blocks[i].newVip] >= i + 1
          BY <5>1, <3>5, <1>1 DEF IInv, NamesLast
        <5> QED
          BY <5>2, <4>2, <3>1, <1>1
      <4> QED
        BY <4>1, <4>2
    <3>6. NamesFollow'
      BY <3>4 DEF NamesFollow
    <3>7. NamesLast'
      BY <3>5 DEF NamesLast
    <3> QED
      BY <3>3, <3>6, <3>7
  <2> QED
    BY <2>1, <2>2
<1> QED
  BY <1>5, <1>6, <1>7, <1>8 DEF IInv

(* The function that is run next, if there is one, follows a block that    *)
(* jumps to the returned address, so it was lifted from a block there.     *)
LEMMA RunningStep ==
  ASSUME IInv, CallFunction
  PROVE  IInv'
<1>1. /\ blocks' = blocks /\ here' = here /\ prepared' = prepared
      /\ handlerFunctionNames' = handlerFunctionNames /\ phase = "run"
      /\ phase' \in {"run", "done"}
  BY DEF CallFunction, traceVars, prepareVars
<1>2. IsSequence' /\ Chained'
  BY <1>1 DEF IInv, IsSequence, Chained
<1>3. NamesFollow' /\ NamesLast' /\ NeverZero'
  BY <1>1 DEF IInv, NamesFollow, NamesLast, NeverZero
<1>4. prepared = Len(blocks) /\ prepared \in Nat /\ currentFunction \in Nat
  <2>1. Len(blocks) \in Nat
    BY DEF IInv, IsSequence
  <2> QED
    BY <1>1, <2>1 DEF IInv, Phases
<1>5. \/ /\ nextVip' \in DOMAIN handlerFunctionNames
         /\ currentFunction' = handlerFunctionNames[nextVip']
      \/ phase' = "done" /\ currentFunction' = currentFunction
  BY DEF CallFunction
<1>6. CASE /\ nextVip' \in DOMAIN handlerFunctionNames
           /\ currentFunction' = handlerFunctionNames[nextVip']
  <2>1. /\ currentFunction' \in 2..(Len(blocks) + 1)
        /\ blocks[currentFunction' - 1].newVip = nextVip'
    BY <1>6, <1>4 DEF IInv, NamesFollow
  <2>2. Phases'
    BY <1>1, <1>4, <2>1 DEF Phases
  <2>3. RunsPopped'
    <3> SUFFICES ASSUME Exists(currentFunction)'
                 PROVE  blocks[currentFunction'].vip = nextVip'
      BY <1>1 DEF RunsPopped
    <3>1. DOMAIN blocks = 1..Len(blocks)
      BY DEF IInv, IsSequence
    <3>2. currentFunction' \in 1..Len(blocks)
      BY <3>1, <1>1 DEF Exists
    <3> DEFINE f == currentFunction'
               n == Len(blocks)
    <3>5. n \in Nat /\ f \in 1..n /\ f \in 2..(n + 1)
      BY <3>2, <2>1, <1>4
    <3> HIDE DEF f, n
    <3>6. f - 1 \in 1..(n - 1) /\ f - 1 + 1 = f
      BY <3>5
    <3>3. currentFunction' - 1 \in 1..(Len(blocks) - 1) /\ currentFunction' - 1 + 1 = currentFunction'
      BY <3>6 DEF f, n
    <3>4. \A i \in 1..(Len(blocks) - 1) : blocks[i].newVip = blocks[i + 1].vip
      BY DEF IInv, Chained
    <3> QED
      BY <3>3, <3>4, <2>1
  <2> QED
    BY <2>2, <2>3, <1>2, <1>3 DEF IInv
<1>7. CASE phase' = "done" /\ currentFunction' = currentFunction
  <2>1. Phases'
    BY <1>1, <1>4, <1>7 DEF Phases
  <2>2. RunsPopped'
    BY <1>7 DEF RunsPopped
  <2> QED
    BY <2>1, <2>2, <1>2, <1>3 DEF IInv
<1> QED
  BY <1>5, <1>6, <1>7

(* The steps from one phase to another change nothing else.                *)
LEMMA PhaseStep ==
  ASSUME IInv, EmulateVmCode \/ RunEmulation \/ CallNothing \/ UNCHANGED vars
  PROVE  IInv'
<1>1. /\ blocks' = blocks /\ here' = here /\ prepared' = prepared
      /\ handlerFunctionNames' = handlerFunctionNames
      /\ currentFunction' = currentFunction /\ nextVip' = nextVip /\ ran' = ran
  BY DEF EmulateVmCode, RunEmulation, CallNothing, vars, traceVars, prepareVars, runVars
<1>2. IsSequence' /\ Chained'
  BY <1>1 DEF IInv, IsSequence, Chained
<1>3. NamesFollow' /\ NamesLast' /\ NeverZero'
  BY <1>1 DEF IInv, NamesFollow, NamesLast, NeverZero
<1>4. Phases'
  BY <1>1 DEF IInv, Phases, EmulateVmCode, RunEmulation, CallNothing, vars
<1>5. RunsPopped'
  <2>1. CASE EmulateVmCode
    BY <2>1 DEF RunsPopped, EmulateVmCode
  <2>2. CASE RunEmulation
    BY <2>2, <1>1 DEF IInv, Phases, RunsPopped, RunEmulation
  <2>3. CASE CallNothing
    BY <2>3 DEF RunsPopped, CallNothing
  <2>4. CASE UNCHANGED vars
    BY <2>4, <1>1 DEF IInv, RunsPopped, Exists, vars
  <2> QED
    BY <2>1, <2>2, <2>3, <2>4
<1> QED
  BY <1>2, <1>3, <1>4, <1>5 DEF IInv

LEMMA Inductive == Spec => []IInv
<1>1. ASSUME IInv, [Next]_vars PROVE IInv'
  BY <1>1, TracingStep, PreparingStep, RunningStep, PhaseStep DEF Next
<1> QED
  BY Starting, <1>1, PTL DEF Spec

-----------------------------------------------------------------------------
(* The function that RunEmulation calls next was lifted from a block at    *)
(* the address that the last one returned.                                 *)
THEOREM AlwaysRunsPopped == Spec => []RunsPopped
<1>1. IInv => RunsPopped
  BY DEF IInv
<1> QED
  BY <1>1, Inductive, PTL

(* After a function that returns its traced target, RunEmulation only      *)
(* calls a later one, so that it cannot run for ever without a target that *)
(* is computed from data.                                                  *)
THEOREM AlwaysRunsForward == Spec => RunsForward
<1>1. ASSUME IInv, Next, ran' # ran, phase' = "run",
             ~program[blocks[currentFunction].vip].byData
      PROVE  currentFunction' > currentFunction
  <2>1. CallFunction
    BY <1>1 DEF Next, TraceBlock, EmulateVmCode, PrepareBlock, RunEmulation, CallNothing, runVars
  <2>2. currentFunction \in 1..Len(blocks) /\ Len(blocks) \in Nat
    <3>1. DOMAIN blocks = 1..Len(blocks) /\ Len(blocks) \in Nat
      BY <1>1 DEF IInv, IsSequence
    <3> QED
      BY <3>1, <2>1 DEF CallFunction, Exists
  <2>3. prepared = Len(blocks)
    BY <1>1, <2>1 DEF IInv, Phases, CallFunction
  <2>4. nextVip' = blocks[currentFunction].newVip
    <3>1. nextVip' \in Returned(currentFunction)
      BY <2>1 DEF CallFunction
    <3> QED
      BY <3>1, <1>1, Zenon DEF Returned
  <2>5. /\ nextVip' \in DOMAIN handlerFunctionNames
        /\ currentFunction' = handlerFunctionNames[nextVip']
    BY <1>1, <2>1 DEF CallFunction
  <2>6. nextVip' # 0
    BY <1>1, <2>5 DEF IInv, NeverZero
  <2>7. handlerFunctionNames[nextVip'] >= currentFunction + 1
    BY <1>1, <2>2, <2>3, <2>4, <2>6 DEF IInv, NamesLast
  <2>8. handlerFunctionNames[nextVip'] \in Nat
    BY <1>1, <2>2, <2>3, <2>5 DEF IInv, NamesFollow
  <2> QED
    BY <2>2, <2>5, <2>7, <2>8
<1> DEFINE Forward ==
      ran' # ran /\ phase' = "run" /\ ~program[blocks[currentFunction].vip].byData =>
        currentFunction' > currentFunction
<1>2. IInv /\ [Next]_vars => [Forward]_vars
  BY <1>1
<1>3. [][Forward]_vars => RunsForward
  BY PTL DEF RunsForward
<1> QED
  BY <1>2, <1>3, Inductive, PTL DEF Spec

-----------------------------------------------------------------------------
(* Where every jump has a target of its own, the names go from each block  *)
(* to the one after it, and the emulation is the trace.                    *)
Clean == ~Repeats /\ ~ByDataSomewhere
UpTo(k) == [i \in 1..k |-> i]
VipsGiven == \A i \in 1..Len(blocks) : blocks[i].vip # 0
StartsFirst == phase = "trace" \/ phase = "prepare" => currentFunction = 1
RanInOrder ==
  Clean => \E k \in Nat :
    /\ ran = UpTo(k)
    /\ phase = "run" => currentFunction = k + 1 /\ k <= Len(blocks)
    /\ phase = "done" /\ ran # <<>> => k = Len(blocks)
OrderInv == VipsGiven /\ StartsFirst /\ RanInOrder

LEMMA UpToZero == UpTo(0) = <<>>
  BY DEF UpTo

LEMMA UpToFacts ==
  ASSUME NEW k \in Nat
  PROVE  /\ UpTo(k) \in Seq(Nat) /\ Len(UpTo(k)) = k
         /\ \A i \in 1..k : UpTo(k)[i] = i
  BY DEF UpTo

LEMMA UpToNext ==
  ASSUME NEW k \in Nat
  PROVE  Append(UpTo(k), k + 1) = UpTo(k + 1)
<1> DEFINE s == UpTo(k)
           t == UpTo(k + 1)
<1>1. s \in Seq(Nat) /\ Len(s) = k /\ \A i \in 1..k : s[i] = i
  BY UpToFacts
<1>2. t \in Seq(Nat) /\ Len(t) = k + 1 /\ \A i \in 1..(k + 1) : t[i] = i
  <2>1. k + 1 \in Nat
    OBVIOUS
  <2> QED  BY <2>1, UpToFacts
<1> HIDE DEF s, t
<1>3. /\ Append(s, k + 1) \in Seq(Nat) /\ Len(Append(s, k + 1)) = k + 1
      /\ \A i \in 1..(k + 1) : Append(s, k + 1)[i] = i
  BY <1>1
<1>4. Append(s, k + 1) = t
  BY <1>2, <1>3
<1> QED  BY <1>4 DEF s, t

LEMMA OrderStarts == Init => OrderInv
<1> SUFFICES ASSUME Init PROVE OrderInv
  OBVIOUS
<1>1. Len(blocks) = 0 /\ ran = UpTo(0) /\ phase = "trace" /\ currentFunction = 1
  BY UpToZero DEF Init
<1> QED  BY <1>1 DEF OrderInv, VipsGiven, StartsFirst, RanInOrder

(* Before the emulation nothing has run.                                   *)
LEMMA OrderBefore ==
  ASSUME IInv, OrderInv, TraceBlock \/ PrepareBlock
  PROVE  OrderInv'
<1>1. /\ ran = <<>> /\ ran' = ran /\ phase' = phase /\ phase \in {"trace", "prepare"}
      /\ currentFunction' = currentFunction
  BY DEF TraceBlock, PrepareBlock, runVars, IInv, Phases
<1>2. StartsFirst'
  BY <1>1 DEF OrderInv, StartsFirst
<1>3. RanInOrder'
  BY <1>1, UpToZero DEF RanInOrder
<1>4. VipsGiven'
  <2>1. CASE PrepareBlock
    BY <2>1 DEF PrepareBlock, traceVars, OrderInv, VipsGiven
  <2>2. CASE TraceBlock
    <3> DEFINE new == [vip |-> here, reads |-> [k \in ReadsOf(here) |-> NativeRead(native, here, k)], newVip |-> here']
    <3>1. blocks' = Append(blocks, new) /\ new.vip # 0
      BY <2>2 DEF TraceBlock
    <3> HIDE DEF new
    <3>2. PICK S : blocks \in Seq(S)
      BY DEF IInv, IsSequence
    <3>3. blocks \in Seq(S \cup {new}) /\ Len(blocks) \in Nat
      BY <3>2
    <3>4. /\ Len(blocks') = Len(blocks) + 1 /\ blocks'[Len(blocks) + 1] = new
          /\ \A i \in 1..Len(blocks) : blocks'[i] = blocks[i]
      BY <3>1, <3>3
    <3>5. \A i \in 1..(Len(blocks) + 1) : i \in 1..Len(blocks) \/ i = Len(blocks) + 1
      BY <3>3
    <3> QED  BY <3>1, <3>4, <3>5 DEF OrderInv, VipsGiven
  <2> QED  BY <1>1, <2>1, <2>2
<1> QED  BY <1>2, <1>3, <1>4 DEF OrderInv

(* The name that was returned is the one the block itself has given out.   *)
LEMMA OrderRunning ==
  ASSUME IInv, OrderInv, CallFunction
  PROVE  OrderInv'
<1>1. /\ blocks' = blocks /\ program' = program /\ phase = "run" /\ phase' \in {"run", "done"}
      /\ ran' = Append(ran, currentFunction) /\ prepared = Len(blocks)
  BY DEF CallFunction, traceVars, IInv, Phases
<1>2. VipsGiven' /\ StartsFirst'
  BY <1>1 DEF OrderInv, VipsGiven, StartsFirst
<1>3. ASSUME Clean PROVE RanInOrder'
  <2>1. PICK k \in Nat : ran = UpTo(k) /\ currentFunction = k + 1
    BY <1>1, <1>3 DEF OrderInv, RanInOrder
  <2>2. PICK n \in Nat : n = Len(blocks) /\ DOMAIN blocks = 1..n
    BY DEF IInv, IsSequence
  <2>3. currentFunction \in 1..n
    BY <2>2 DEF CallFunction, Exists
  <2>4. ran' = UpTo(k + 1) /\ k + 1 \in Nat
    <3>1. ran' = Append(UpTo(k), k + 1)
      <4>1. ran' = Append(ran, currentFunction)
        BY <1>1
      <4>2. ran = UpTo(k) /\ currentFunction = k + 1
        BY <2>1
      <4> QED  BY <4>1, <4>2, Zenon
    <3>2. Append(UpTo(k), k + 1) = UpTo(k + 1)
      BY <2>1, UpToNext
    <3> QED  BY <2>1, <3>1, <3>2
  <2>5. ~program[blocks[currentFunction].vip].byData
    BY <1>3, <2>2, <2>3, Zenon DEF Clean, ByDataSomewhere, AllBlocks
  <2>6. nextVip' = blocks[currentFunction].newVip
    <3>1. nextVip' \in Returned(currentFunction)
      BY DEF CallFunction
    <3> QED  BY <2>5, <3>1, Zenon DEF Returned
  <2>7. CASE nextVip' \in DOMAIN handlerFunctionNames
    <3>1. currentFunction' = handlerFunctionNames[nextVip'] /\ phase' = "run"
      BY <1>1, <2>7 DEF CallFunction
    <3>2. PICK g : g = handlerFunctionNames[nextVip']
      OBVIOUS
    <3>3. g \in 2..(n + 1) /\ blocks[g - 1].newVip = nextVip'
      BY <1>1, <2>2, <2>7, <3>2 DEF IInv, NamesFollow
    <3>4. PICK f : f = g - 1
      OBVIOUS
    <3>5. f \in 1..n
      BY <2>2, <3>3, <3>4
    <3>6. blocks[f].newVip = blocks[currentFunction].newVip
      BY <2>6, <3>3, <3>4, Zenon
    <3>7. f = currentFunction
      BY <1>3, <2>2, <2>3, <3>5, <3>6, Zenon DEF Clean, Repeats, AllBlocks
    <3>8. currentFunction' = k + 1 + 1 /\ k + 1 <= n
      BY <2>1, <2>3, <3>1, <3>2, <3>3, <3>4, <3>7
    <3>9. phase' # "done" /\ Len(blocks') = n
      BY <1>1, <2>2, <3>1
    <3> QED  BY <2>4, <3>8, <3>9 DEF RanInOrder
  <2>8. CASE nextVip' \notin DOMAIN handlerFunctionNames
    <3>1. phase' = "done"
      BY <2>8 DEF CallFunction
    <3>2. blocks[currentFunction].newVip = 0
      BY <1>1, <2>2, <2>3, <2>6, <2>8 DEF IInv, NamesLast
    <3>3. currentFunction = n
      <4> SUFFICES ASSUME currentFunction # n PROVE FALSE
        OBVIOUS
      <4>1. PICK c : c = currentFunction /\ c \in 1..(n - 1) /\ c + 1 \in 1..n
        BY <2>2, <2>3
      <4>2. blocks[c].newVip = blocks[c + 1].vip
        BY <2>2, <4>1 DEF IInv, Chained
      <4>3. blocks[c + 1].vip # 0
        BY <2>2, <4>1 DEF OrderInv, VipsGiven
      <4> QED  BY <3>2, <4>1, <4>2, <4>3
    <3>4. k + 1 = Len(blocks') /\ phase' # "run"
      BY <1>1, <2>1, <2>2, <3>1, <3>3
    <3> QED  BY <2>4, <3>4 DEF RanInOrder
  <2> QED  BY <2>7, <2>8
<1>4. ASSUME ~Clean PROVE RanInOrder'
  <2>1. Clean' <=> Clean
    BY <1>1 DEF Clean, Repeats, ByDataSomewhere, AllBlocks
  <2> QED  BY <1>4, <2>1 DEF RanInOrder
<1> QED  BY <1>2, <1>3, <1>4 DEF OrderInv

LEMMA OrderPhases ==
  ASSUME IInv, OrderInv, EmulateVmCode \/ RunEmulation \/ CallNothing \/ UNCHANGED vars
  PROVE  OrderInv'
<1>1. /\ blocks' = blocks /\ program' = program /\ ran' = ran
      /\ currentFunction' = currentFunction
  BY DEF EmulateVmCode, RunEmulation, CallNothing, vars, traceVars, prepareVars, runVars
<1>2. VipsGiven'
  BY <1>1 DEF OrderInv, VipsGiven
<1>3. Clean' <=> Clean
  BY <1>1 DEF Clean, Repeats, ByDataSomewhere, AllBlocks
<1>4. PICK n \in Nat : n = Len(blocks) /\ DOMAIN blocks = 1..n
  BY DEF IInv, IsSequence
<1>5. CASE EmulateVmCode
  <2>1. /\ phase = "trace" /\ phase' \in {"prepare", "done"} /\ ran = <<>> /\ ran = UpTo(0)
    BY <1>5, UpToZero DEF EmulateVmCode, IInv, Phases
  <2>2. StartsFirst'
    BY <1>1, <2>1 DEF OrderInv, StartsFirst
  <2>3. RanInOrder'
    BY <1>1, <2>1 DEF RanInOrder
  <2> QED  BY <1>2, <2>2, <2>3 DEF OrderInv
<1>6. CASE RunEmulation
  <2>1. /\ phase = "prepare" /\ phase' = "run" /\ ran = <<>> /\ ran = UpTo(0)
        /\ currentFunction = 1
    BY <1>6, UpToZero DEF RunEmulation, IInv, Phases, OrderInv, StartsFirst
  <2>2. StartsFirst'
    BY <2>1 DEF StartsFirst
  <2>3. currentFunction' = 0 + 1 /\ 0 <= Len(blocks')
    BY <1>1, <1>4, <2>1
  <2>4. RanInOrder'
    BY <1>1, <2>1, <2>3 DEF RanInOrder
  <2> QED  BY <1>2, <2>2, <2>4 DEF OrderInv
<1>7. CASE CallNothing
  <2>1. phase = "run" /\ phase' = "done" /\ currentFunction \notin 1..n
    BY <1>4, <1>7 DEF CallNothing, Exists
  <2>2. StartsFirst'
    BY <2>1 DEF StartsFirst
  <2>3. ASSUME Clean PROVE RanInOrder'
    <3>1. PICK k \in Nat : ran = UpTo(k) /\ currentFunction = k + 1 /\ k <= n
      BY <1>4, <2>1, <2>3 DEF OrderInv, RanInOrder
    <3>2. k = n
      BY <2>1, <3>1
    <3> QED  BY <1>1, <1>4, <2>1, <3>1, <3>2 DEF RanInOrder
  <2>4. RanInOrder'
    BY <1>3, <2>3 DEF RanInOrder
  <2> QED  BY <1>2, <2>2, <2>4 DEF OrderInv
<1>8. CASE UNCHANGED vars
  <2>1. phase' = phase
    BY <1>8 DEF vars
  <2>2. StartsFirst' /\ RanInOrder'
    BY <1>1, <1>3, <2>1 DEF OrderInv, StartsFirst, RanInOrder
  <2> QED  BY <1>2, <2>2 DEF OrderInv
<1> QED  BY <1>5, <1>6, <1>7, <1>8

(* Where no address is jumped to twice and no target comes from other      *)
(* data, RunEmulation calls the functions of the traced blocks in order,   *)
(* and ends after the last one.                                            *)
THEOREM AlwaysRunsTrace == Spec => []RunsTrace
<1>1. ASSUME IInv, OrderInv, [Next]_vars PROVE OrderInv'
  BY <1>1, OrderBefore, OrderRunning, OrderPhases DEF Next
<1>2. ASSUME OrderInv PROVE RunsTrace
  <2> SUFFICES ASSUME Clean
               PROVE  /\ ran = [i \in 1..Len(ran) |-> i]
                      /\ phase = "done" /\ ran # <<>> => Len(ran) = Len(blocks)
    BY DEF RunsTrace, Clean
  <2>1. PICK k \in Nat : ran = UpTo(k) /\ (phase = "done" /\ ran # <<>> => k = Len(blocks))
    BY <1>2 DEF OrderInv, RanInOrder
  <2>2. Len(ran) = k
    BY <2>1, UpToFacts
  <2> QED  BY <2>1, <2>2 DEF UpTo
<1> QED  BY <1>1, <1>2, OrderStarts, Inductive, PTL DEF Spec

-----------------------------------------------------------------------------
(* Memory: what a numbered collection of stores leaves of a byte.          *)
LEMMA StoredIs ==
  ASSUME NEW bytes, NEW stores
  PROVE  /\ \A x : x \in DOMAIN Stored(bytes, stores)
                     <=> (x \in DOMAIN bytes \/ Covering(stores, x) # {})
         /\ \A x \in DOMAIN bytes :
              Covering(stores, x) = {} => Stored(bytes, stores)[x] = bytes[x]
         /\ \A x : Covering(stores, x) # {} => Stored(bytes, stores)[x] = ByteOf(stores, x)
<1> DEFINE D == DOMAIN bytes
                  \cup UNION {Places(stores[k].address, stores[k].size) : k \in DOMAIN stores}
<1>1. Stored(bytes, stores)
        = [x \in D |-> IF Covering(stores, x) = {} THEN bytes[x] ELSE ByteOf(stores, x)]
  BY DEF Stored
<1>2. \A x : x \in D <=> (x \in DOMAIN bytes \/ Covering(stores, x) # {})
  <2> TAKE x
  <2>1. x \in UNION {Places(stores[k].address, stores[k].size) : k \in DOMAIN stores}
          <=> \E k \in DOMAIN stores : x \in Places(stores[k].address, stores[k].size)
    OBVIOUS
  <2>2. Covering(stores, x) # {}
          <=> \E k \in DOMAIN stores : x \in Places(stores[k].address, stores[k].size)
    BY DEF Covering
  <2> QED  BY <2>1, <2>2
<1> HIDE DEF D
<1> QED  BY <1>1, <1>2

LEMMA LastIs ==
  ASSUME NEW n \in Nat, NEW K, K \subseteq 1..n, K # {}
  PROVE  LastOf(K) \in K
<1> DEFINE T == {n - k : k \in K}
<1>1. T \subseteq Nat /\ T # {}
  OBVIOUS
<1>2. PICK t \in T : \A u \in T : t <= u
  <2> HIDE DEF T
  <2> QED  BY <1>1, LeastNumber
<1>3. PICK k \in K : t = n - k
  OBVIOUS
<1>4. \A l \in K : l <= k
  <2> TAKE l \in K
  <2>1. n - l \in T
    OBVIOUS
  <2>2. n - k <= n - l
    <3> HIDE DEF T
    <3> QED  BY <1>2, <1>3, <2>1
  <2>3. k \in 1..n /\ l \in 1..n
    OBVIOUS
  <2> QED  BY <2>2, <2>3
<1>5. \E m \in K : \A l \in K : l <= m
  BY <1>4
<1> QED  BY <1>5 DEF LastOf

(* Stores at other numbers or elsewhere do not matter.                     *)
LEMMA PartIs ==
  ASSUME NEW stores, NEW N, N \subseteq DOMAIN stores, NEW x
  PROVE  /\ Covering(Part(stores, N), x) = Covering(stores, x) \cap N
         /\ \A k \in N : Part(stores, N)[k] = stores[k]
  BY DEF Covering, Part

-----------------------------------------------------------------------------
(* The accesses of a block, absolute and relative to VSP.                  *)
IsProgram == program \in Programs
(* The bytes of an access, and the writes of a kind that cover a byte.     *)
PlacesOf(a) == Places(a.off, a.size)
WritesAt(b, k, vsp, x) ==
  {l \in WritesBefore(b, k) : Accesses(b)[l].vsp = vsp /\ x \in PlacesOf(Accesses(b)[l])}
ByteWritten(b, k, vsp, x) ==
  LET l == LastOf(WritesAt(b, k, vsp, x)) IN Written(b, l, x - Accesses(b)[l].off + 1)

LEMMA AccessesAre ==
  ASSUME IsProgram, NEW b \in DOMAIN program
  PROVE  /\ Len(Accesses(b)) \in Nat /\ DOMAIN Accesses(b) = 1..Len(Accesses(b))
         /\ \A k \in 1..Len(Accesses(b)) : Accesses(b)[k] \in AnyAccess
         /\ b \in Nat \ {0}
<1>1. program[b].accesses \in Seq(AnyAccess) /\ b \in Nat \ {0}
  BY ProgramsAssumption DEF IsProgram
<1>2. PICK s : s = Accesses(b)
  OBVIOUS
<1>3. s \in Seq(AnyAccess)
  BY <1>1, <1>2 DEF Accesses
<1>4. Len(s) \in Nat /\ DOMAIN s = 1..Len(s) /\ \A k \in 1..Len(s) : s[k] \in AnyAccess
  BY <1>3
<1> QED  BY <1>1, <1>2, <1>4

LEMMA WritesAre ==
  ASSUME IsProgram, NEW b \in DOMAIN program, NEW k \in 1..(Len(Accesses(b)) + 1)
  PROVE  /\ WritesBefore(b, k) \subseteq 1..Len(Accesses(b))
         /\ DOMAIN NativeStores(b, k) = WritesBefore(b, k)
         /\ DOMAIN EmulatedStores(b, k) = WritesBefore(b, k)
         /\ \A l \in WritesBefore(b, k) :
              /\ Accesses(b)[l] \in AnyAccess
              /\ NativeStores(b, k)[l].address = NativeAddress(Accesses(b)[l])
              /\ NativeStores(b, k)[l].size = Accesses(b)[l].size
              /\ NativeStores(b, k)[l].value = ValueWritten(b, l)
              /\ EmulatedStores(b, k)[l].address = EmulatedAddress(Accesses(b)[l])
              /\ EmulatedStores(b, k)[l].size = Accesses(b)[l].size
              /\ EmulatedStores(b, k)[l].value = ValueWritten(b, l)
<1>1. PICK n : n = Len(Accesses(b)) /\ n \in Nat
  BY AccessesAre
<1>2. WritesBefore(b, k) \subseteq 1..n
  BY <1>1 DEF WritesBefore
<1>3. \A l \in 1..n : Accesses(b)[l] \in AnyAccess
  BY <1>1, AccessesAre
<1> QED  BY <1>1, <1>2, <1>3 DEF NativeStores, EmulatedStores

LEMMA ByteIs ==
  ASSUME IsProgram, NEW b \in DOMAIN program, NEW k \in 1..(Len(Accesses(b)) + 1),
         NEW vsp, NEW x \in Int, NEW shift \in Int, NEW stores,
         Covering(stores, x + shift) = WritesAt(b, k, vsp, x), WritesAt(b, k, vsp, x) # {},
         \A l \in WritesAt(b, k, vsp, x) : /\ stores[l].address = Accesses(b)[l].off + shift
                                           /\ stores[l].value = ValueWritten(b, l)
  PROVE  ByteOf(stores, x + shift) = ByteWritten(b, k, vsp, x)
<1>1. PICK n \in Nat : n = Len(Accesses(b)) /\ WritesBefore(b, k) \subseteq 1..n
  BY AccessesAre, WritesAre
<1>2. PICK K : K = WritesAt(b, k, vsp, x) /\ K \subseteq 1..n /\ K # {}
  BY <1>1 DEF WritesAt
<1>3. PICK l : l = LastOf(K) /\ l \in K
  BY <1>2, LastIs
<1>4. Accesses(b)[l] \in AnyAccess
  BY <1>1, <1>2, <1>3, AccessesAre
<1>5. PICK a : a = Accesses(b)[l] /\ a.off \in Int /\ a.size \in Nat /\ x \in Places(a.off, a.size)
  BY <1>2, <1>3, <1>4 DEF WritesAt, PlacesOf, AnyAccess
<1>6. stores[l].address = a.off + shift /\ stores[l].value = [j \in 1..a.size |-> Written(b, l, j)]
  BY <1>2, <1>3, <1>5 DEF ValueWritten
<1>7. (x + shift) - (a.off + shift) + 1 = x - a.off + 1 /\ x - a.off + 1 \in 1..a.size
  BY <1>5 DEF Places
<1>8. ByteOf(stores, x + shift) = stores[l].value[(x + shift) - stores[l].address + 1]
  BY <1>2, <1>3 DEF ByteOf
<1>9. stores[l].value[(x + shift) - stores[l].address + 1] = Written(b, l, x - a.off + 1)
  BY <1>6, <1>7
<1>10. ByteWritten(b, k, vsp, x) = Written(b, l, x - a.off + 1)
  BY <1>2, <1>3, <1>5 DEF ByteWritten
<1> QED  BY <1>8, <1>9, <1>10

(* A byte of the program outside of both stacks, and one of its stack.     *)
IsAbsolute(x) ==
  \E c \in DOMAIN program : \E m \in 1..Len(Accesses(c)) :
    ~Accesses(c)[m].vsp /\ x \in PlacesOf(Accesses(c)[m])
IsRelative(y) ==
  \E c \in DOMAIN program : \E m \in 1..Len(Accesses(c)) :
    Accesses(c)[m].vsp /\ y \in PlacesOf(Accesses(c)[m])
EmulatedVsp == StackBase + StackBytes - SlotBytes

LEMMA AddressesAre ==
  ASSUME NEW a \in AnyAccess
  PROVE  /\ a.off \in Int /\ a.size \in Nat \ {0} /\ a.vsp \in BOOLEAN
         /\ ~a.vsp => NativeAddress(a) = a.off /\ EmulatedAddress(a) = a.off
         /\ a.vsp => NativeAddress(a) = a.off + NativeVsp
                     /\ EmulatedAddress(a) = a.off + EmulatedVsp
         /\ NativeAddress(a) \in Int /\ EmulatedAddress(a) \in Int
         /\ PlacesOf(a) \subseteq Int
         /\ NativeVsp \in Int /\ EmulatedVsp \in Int
<1>1. NativeVsp \in Nat /\ StackBase \in Nat /\ StackBytes \in Nat /\ SlotBytes \in Nat
  BY SizesAssumption
<1>2. a.off \in Int /\ a.size \in Nat \ {0} /\ a.vsp \in BOOLEAN
  BY DEF AnyAccess
<1>3. CASE a.vsp
  BY <1>1, <1>2, <1>3 DEF NativeAddress, EmulatedAddress, EmulatedVsp, PlacesOf, Places
<1>4. CASE ~a.vsp
  BY <1>1, <1>2, <1>4 DEF NativeAddress, EmulatedAddress, EmulatedVsp, PlacesOf, Places
<1> QED  BY <1>2, <1>3, <1>4

(* What is absolute lies in neither stack.                                 *)
LEMMA ApartIs ==
  ASSUME Apart, IsProgram, NEW b \in DOMAIN program, NEW k \in 1..Len(Accesses(b)),
         ~Accesses(b)[k].vsp
  PROVE  /\ ~InStack(EmulatedAddress(Accesses(b)[k]), Accesses(b)[k].size)
         /\ \A x \in PlacesOf(Accesses(b)[k]) : x \notin Places(StackBase, StackBytes)
         /\ \A c \in DOMAIN program : \A l \in 1..Len(Accesses(c)) :
              Accesses(c)[l].vsp =>
                \A x \in PlacesOf(Accesses(b)[k]) :
                  x \notin Places(NativeAddress(Accesses(c)[l]), Accesses(c)[l].size)
<1>1. PICK a : a = Accesses(b)[k] /\ a \in AnyAccess
  BY AccessesAre
<1>2. a.off \in Int /\ a.size \in Nat \ {0} /\ EmulatedAddress(a) = a.off
  BY <1>1, AddressesAre
<1>3. \A c \in DOMAIN program : \A l \in 1..Len(Accesses(c)) :
        /\ Away(a.off, a.size, StackBase, StackBytes)
        /\ Accesses(c)[l].vsp =>
             Away(a.off, a.size, NativeAddress(Accesses(c)[l]), Accesses(c)[l].size)
  BY <1>1, AccessesAre DEF Apart
<1>4. StackBase \in Nat /\ StackBytes \in Nat
  BY SizesAssumption
<1>5. Away(a.off, a.size, StackBase, StackBytes)
  BY <1>3
<1>6. ~InStack(a.off, a.size)
  BY <1>2, <1>4, <1>5 DEF InStack, Away
<1>7. \A x \in Places(a.off, a.size) : x \notin Places(StackBase, StackBytes)
  BY <1>2, <1>4, <1>5 DEF Places, Away
<1>8. ASSUME NEW c \in DOMAIN program, NEW l \in 1..Len(Accesses(c)), Accesses(c)[l].vsp,
             NEW x \in Places(a.off, a.size)
      PROVE  x \notin Places(NativeAddress(Accesses(c)[l]), Accesses(c)[l].size)
  <2>1. PICK s : s = Accesses(c)[l] /\ s \in AnyAccess
    BY AccessesAre
  <2>2. NativeAddress(s) \in Int /\ s.size \in Nat
    BY <2>1, AddressesAre
  <2>3. Away(a.off, a.size, NativeAddress(s), s.size)
    BY <1>3, <1>8, <2>1
  <2>4. x \notin Places(NativeAddress(s), s.size)
    <3>1. PICK y, m : y = NativeAddress(s) /\ m = s.size
      OBVIOUS
    <3>2. PICK o, n : o = a.off /\ n = a.size /\ o \in Int /\ n \in Nat
      BY <1>2
    <3>3. y \in Int /\ m \in Nat /\ (o + n <= y \/ y + m <= o)
      BY <2>2, <2>3, <3>1, <3>2 DEF Away
    <3>4. x \in o..(o + n - 1)
      BY <1>8, <3>2 DEF Places
    <3>5. x \notin y..(y + m - 1)
      BY <3>2, <3>3, <3>4
    <3> QED  BY <3>1, <3>5 DEF Places
  <2> QED  BY <2>1, <2>4
<1> QED  BY <1>1, <1>2, <1>6, <1>7, <1>8 DEF PlacesOf

LEMMA ShiftedPlaces ==
  ASSUME NEW a \in AnyAccess, NEW y \in Int
  PROVE  a.vsp =>
           /\ y + NativeVsp \in Places(NativeAddress(a), a.size) <=> y \in PlacesOf(a)
           /\ y + EmulatedVsp \in Places(EmulatedAddress(a), a.size) <=> y \in PlacesOf(a)
<1> SUFFICES ASSUME a.vsp PROVE
           /\ y + NativeVsp \in Places(NativeAddress(a), a.size) <=> y \in PlacesOf(a)
           /\ y + EmulatedVsp \in Places(EmulatedAddress(a), a.size) <=> y \in PlacesOf(a)
  OBVIOUS
<1>1. /\ a.off \in Int /\ a.size \in Nat /\ NativeVsp \in Int /\ EmulatedVsp \in Int
      /\ NativeAddress(a) = a.off + NativeVsp /\ EmulatedAddress(a) = a.off + EmulatedVsp
  BY AddressesAre
<1>2. PICK o, n : o = a.off /\ n = a.size
  OBVIOUS
<1>3. PICK v, w : v = NativeVsp /\ w = EmulatedVsp
  OBVIOUS
<1>4. o \in Int /\ n \in Nat /\ v \in Int /\ w \in Int
  BY <1>1, <1>2, <1>3
<1>5. /\ y + v \in (o + v)..(o + v + n - 1) <=> y \in o..(o + n - 1)
      /\ y + w \in (o + w)..(o + w + n - 1) <=> y \in o..(o + n - 1)
  BY <1>4
<1> QED  BY <1>1, <1>2, <1>3, <1>5 DEF Places, PlacesOf

(* The accesses of a block to its stack stay in the vector.                *)
OwnStack(b) ==
  \A l \in 1..Len(Accesses(b)) :
    Accesses(b)[l].vsp => InStack(EmulatedAddress(Accesses(b)[l]), Accesses(b)[l].size)
Inside(b, k) ==
  {l \in WritesBefore(b, k) : InStack(EmulatedStores(b, k)[l].address, EmulatedStores(b, k)[l].size)}

LEMMA InsideIs ==
  ASSUME Apart, IsProgram, NEW b \in DOMAIN program, OwnStack(b),
         NEW k \in 1..(Len(Accesses(b)) + 1)
  PROVE  /\ Inside(b, k) = {l \in WritesBefore(b, k) : Accesses(b)[l].vsp}
         /\ WritesBefore(b, k) \ Inside(b, k) = {l \in WritesBefore(b, k) : ~Accesses(b)[l].vsp}
<1>1. \A l \in WritesBefore(b, k) :
        InStack(EmulatedStores(b, k)[l].address, EmulatedStores(b, k)[l].size)
          <=> Accesses(b)[l].vsp
  <2> TAKE l \in WritesBefore(b, k)
  <2>1. /\ l \in 1..Len(Accesses(b))
        /\ EmulatedStores(b, k)[l].address = EmulatedAddress(Accesses(b)[l])
        /\ EmulatedStores(b, k)[l].size = Accesses(b)[l].size
    BY WritesAre
  <2>2. CASE Accesses(b)[l].vsp
    BY <2>1, <2>2 DEF OwnStack
  <2>3. CASE ~Accesses(b)[l].vsp
    BY <2>1, <2>3, ApartIs
  <2> QED  BY <2>2, <2>3
<1> QED  BY <1>1 DEF Inside

LEMMA NativeAbsolute ==
  ASSUME Apart, IsProgram, NEW b \in DOMAIN program, NEW k \in 1..(Len(Accesses(b)) + 1),
         NEW x, IsAbsolute(x)
  PROVE  /\ Covering(NativeStores(b, k), x) = WritesAt(b, k, FALSE, x)
         /\ WritesAt(b, k, FALSE, x) # {} =>
              ByteOf(NativeStores(b, k), x) = ByteWritten(b, k, FALSE, x)
<1>0. PICK c \in DOMAIN program :
        \E m \in 1..Len(Accesses(c)) : ~Accesses(c)[m].vsp /\ x \in PlacesOf(Accesses(c)[m])
  BY DEF IsAbsolute
<1>1. PICK m \in 1..Len(Accesses(c)) : ~Accesses(c)[m].vsp /\ x \in PlacesOf(Accesses(c)[m])
  BY <1>0
<1>2. x \in Int
  BY <1>1, AccessesAre, AddressesAre
<1>3. ASSUME NEW l \in WritesBefore(b, k)
      PROVE  x \in Places(NativeStores(b, k)[l].address, NativeStores(b, k)[l].size)
               <=> (Accesses(b)[l].vsp = FALSE /\ x \in PlacesOf(Accesses(b)[l]))
  <2>1. PICK a : a = Accesses(b)[l] /\ a \in AnyAccess /\ l \in 1..Len(Accesses(b))
                 /\ NativeStores(b, k)[l].address = NativeAddress(a)
                 /\ NativeStores(b, k)[l].size = a.size
    BY WritesAre
  <2>2. CASE a.vsp
    <3>1. x \notin Places(NativeAddress(a), a.size)
      BY <1>1, <2>1, <2>2, ApartIs
    <3> QED  BY <2>1, <2>2, <3>1
  <2>3. CASE ~a.vsp
    <3>1. NativeAddress(a) = a.off /\ a.vsp \in BOOLEAN
      BY <2>1, <2>3, AddressesAre
    <3> QED  BY <2>1, <2>3, <3>1 DEF PlacesOf
  <2> QED  BY <2>2, <2>3
<1>4. Covering(NativeStores(b, k), x) = WritesAt(b, k, FALSE, x)
  <2>1. DOMAIN NativeStores(b, k) = WritesBefore(b, k)
    BY WritesAre
  <2> QED  BY <1>3, <2>1 DEF Covering, WritesAt
<1>5. ASSUME WritesAt(b, k, FALSE, x) # {}
      PROVE  ByteOf(NativeStores(b, k), x) = ByteWritten(b, k, FALSE, x)
  <2>1. PICK z \in Int : z = 0
    OBVIOUS
  <2>2. x + z = x
    BY <1>2, <2>1
  <2>3. \A l \in WritesAt(b, k, FALSE, x) :
          /\ NativeStores(b, k)[l].address = Accesses(b)[l].off + z
          /\ NativeStores(b, k)[l].value = ValueWritten(b, l)
    <3> TAKE l \in WritesAt(b, k, FALSE, x)
    <3>1. l \in WritesBefore(b, k) /\ ~Accesses(b)[l].vsp
      BY DEF WritesAt
    <3>2. /\ Accesses(b)[l] \in AnyAccess
          /\ NativeStores(b, k)[l].address = NativeAddress(Accesses(b)[l])
          /\ NativeStores(b, k)[l].value = ValueWritten(b, l)
      BY <3>1, WritesAre
    <3>3. NativeAddress(Accesses(b)[l]) = Accesses(b)[l].off /\ Accesses(b)[l].off \in Int
      BY <3>1, <3>2, AddressesAre
    <3> QED  BY <2>1, <3>2, <3>3
  <2>4. Covering(NativeStores(b, k), x + z) = WritesAt(b, k, FALSE, x)
    BY <1>4, <2>2
  <2>5. ByteOf(NativeStores(b, k), x + z) = ByteWritten(b, k, FALSE, x)
    BY <1>2, <1>5, <2>3, <2>4, ByteIs
  <2> QED  BY <2>2, <2>5
<1> QED  BY <1>4, <1>5

LEMMA NativeRelative ==
  ASSUME Apart, IsProgram, NEW b \in DOMAIN program, NEW k \in 1..(Len(Accesses(b)) + 1),
         NEW y, IsRelative(y)
  PROVE  /\ Covering(NativeStores(b, k), y + NativeVsp) = WritesAt(b, k, TRUE, y)
         /\ WritesAt(b, k, TRUE, y) # {} =>
              ByteOf(NativeStores(b, k), y + NativeVsp) = ByteWritten(b, k, TRUE, y)
<1>0. PICK c \in DOMAIN program :
        \E m \in 1..Len(Accesses(c)) : Accesses(c)[m].vsp /\ y \in PlacesOf(Accesses(c)[m])
  BY DEF IsRelative
<1>1. PICK m \in 1..Len(Accesses(c)) : Accesses(c)[m].vsp /\ y \in PlacesOf(Accesses(c)[m])
  BY <1>0
<1>2. y \in Int /\ NativeVsp \in Int /\ Accesses(c)[m] \in AnyAccess
  BY <1>1, AccessesAre, AddressesAre
<1>3. y + NativeVsp \in Places(NativeAddress(Accesses(c)[m]), Accesses(c)[m].size)
  BY <1>1, <1>2, ShiftedPlaces
<1>4. ASSUME NEW l \in WritesBefore(b, k)
      PROVE  y + NativeVsp \in Places(NativeStores(b, k)[l].address, NativeStores(b, k)[l].size)
               <=> (Accesses(b)[l].vsp = TRUE /\ y \in PlacesOf(Accesses(b)[l]))
  <2>1. PICK a : a = Accesses(b)[l] /\ a \in AnyAccess /\ l \in 1..Len(Accesses(b))
                 /\ NativeStores(b, k)[l].address = NativeAddress(a)
                 /\ NativeStores(b, k)[l].size = a.size /\ a.vsp \in BOOLEAN
    BY WritesAre, AddressesAre
  <2>2. CASE a.vsp
    BY <1>2, <2>1, <2>2, ShiftedPlaces
  <2>3. CASE ~a.vsp
    <3>1. NativeAddress(a) = a.off
      BY <2>1, <2>3, AddressesAre
    <3>2. y + NativeVsp \notin PlacesOf(a)
      BY <1>1, <1>3, <2>1, <2>3, ApartIs
    <3> QED  BY <2>1, <2>3, <3>1, <3>2 DEF PlacesOf
  <2> QED  BY <2>2, <2>3
<1>5. Covering(NativeStores(b, k), y + NativeVsp) = WritesAt(b, k, TRUE, y)
  <2>1. DOMAIN NativeStores(b, k) = WritesBefore(b, k)
    BY WritesAre
  <2> QED  BY <1>4, <2>1 DEF Covering, WritesAt
<1>6. \A l \in WritesAt(b, k, TRUE, y) :
        /\ NativeStores(b, k)[l].address = Accesses(b)[l].off + NativeVsp
        /\ NativeStores(b, k)[l].value = ValueWritten(b, l)
  <2> TAKE l \in WritesAt(b, k, TRUE, y)
  <2>1. l \in WritesBefore(b, k) /\ Accesses(b)[l].vsp
    BY DEF WritesAt
  <2> QED  BY <2>1, WritesAre, AddressesAre
<1> QED  BY <1>2, <1>5, <1>6, ByteIs

(* The emulated stores that go to the virtual memory and to the vector.    *)
VirtualStores(b, k) == Part(EmulatedStores(b, k), WritesBefore(b, k) \ Inside(b, k))
VectorStores(b, k) == Part(EmulatedStores(b, k), Inside(b, k))

LEMMA MemoryIs ==
  ASSUME IsProgram, NEW b \in DOMAIN program, NEW k \in 1..(Len(Accesses(b)) + 1)
  PROVE  /\ MemoryBefore(b, k).stack = Stored(stack, VectorStores(b, k))
         /\ MemoryBefore(b, k).virtual = Stored(virtualMemory, VirtualStores(b, k))
<1>1. DOMAIN EmulatedStores(b, k) = WritesBefore(b, k)
  BY WritesAre
<1> QED
  BY <1>1 DEF MemoryBefore, SetVirtualMemoryValues, Memory, VectorStores, VirtualStores, Inside

LEMMA VirtualAbsolute ==
  ASSUME Apart, IsProgram, NEW b \in DOMAIN program, OwnStack(b),
         NEW k \in 1..(Len(Accesses(b)) + 1), NEW x \in Int
  PROVE  /\ Covering(VirtualStores(b, k), x) = WritesAt(b, k, FALSE, x)
         /\ WritesAt(b, k, FALSE, x) # {} =>
              ByteOf(VirtualStores(b, k), x) = ByteWritten(b, k, FALSE, x)
<1>1. PICK N : N = WritesBefore(b, k) \ Inside(b, k)
               /\ N = {l \in WritesBefore(b, k) : ~Accesses(b)[l].vsp}
  BY InsideIs
<1>2. ASSUME NEW l \in N
      PROVE  /\ VirtualStores(b, k)[l].address = Accesses(b)[l].off
             /\ VirtualStores(b, k)[l].size = Accesses(b)[l].size
             /\ VirtualStores(b, k)[l].value = ValueWritten(b, l)
             /\ Accesses(b)[l].vsp = FALSE /\ Accesses(b)[l].off \in Int
  <2>1. l \in WritesBefore(b, k) /\ ~Accesses(b)[l].vsp
    BY <1>1
  <2>2. VirtualStores(b, k)[l] = EmulatedStores(b, k)[l]
    BY <1>1 DEF VirtualStores, Part
  <2>3. /\ Accesses(b)[l] \in AnyAccess
        /\ EmulatedStores(b, k)[l].address = EmulatedAddress(Accesses(b)[l])
        /\ EmulatedStores(b, k)[l].size = Accesses(b)[l].size
        /\ EmulatedStores(b, k)[l].value = ValueWritten(b, l)
    BY <2>1, WritesAre
  <2>4. /\ EmulatedAddress(Accesses(b)[l]) = Accesses(b)[l].off
        /\ Accesses(b)[l].vsp \in BOOLEAN /\ Accesses(b)[l].off \in Int
    BY <2>1, <2>3, AddressesAre
  <2> QED  BY <2>1, <2>2, <2>3, <2>4
<1>3. DOMAIN VirtualStores(b, k) = N
  BY <1>1 DEF VirtualStores, Part
<1>4. Covering(VirtualStores(b, k), x) = WritesAt(b, k, FALSE, x)
  <2>1. WritesAt(b, k, FALSE, x) = {l \in N : x \in PlacesOf(Accesses(b)[l])}
    <3>1. \A l \in WritesBefore(b, k) : Accesses(b)[l].vsp \in BOOLEAN
      BY WritesAre, AddressesAre
    <3> QED  BY <1>1, <3>1 DEF WritesAt
  <2> QED  BY <1>2, <1>3, <2>1 DEF Covering, PlacesOf
<1>5. ASSUME WritesAt(b, k, FALSE, x) # {}
      PROVE  ByteOf(VirtualStores(b, k), x) = ByteWritten(b, k, FALSE, x)
  <2>1. PICK z \in Int : z = 0
    OBVIOUS
  <2>2. x + z = x
    BY <2>1
  <2>3. \A l \in WritesAt(b, k, FALSE, x) :
          /\ VirtualStores(b, k)[l].address = Accesses(b)[l].off + z
          /\ VirtualStores(b, k)[l].value = ValueWritten(b, l)
    <3> TAKE l \in WritesAt(b, k, FALSE, x)
    <3>1. l \in N
      BY <1>3, <1>4 DEF Covering
    <3>2. /\ VirtualStores(b, k)[l].address = Accesses(b)[l].off
          /\ VirtualStores(b, k)[l].value = ValueWritten(b, l)
          /\ Accesses(b)[l].off \in Int
      BY <1>2, <3>1
    <3> QED  BY <2>1, <3>2
  <2>4. Covering(VirtualStores(b, k), x + z) = WritesAt(b, k, FALSE, x)
    BY <1>4, <2>2
  <2>5. ByteOf(VirtualStores(b, k), x + z) = ByteWritten(b, k, FALSE, x)
    BY <1>5, <2>3, <2>4, ByteIs
  <2> QED  BY <2>2, <2>5
<1> QED  BY <1>4, <1>5

LEMMA VectorRelative ==
  ASSUME Apart, IsProgram, NEW b \in DOMAIN program, OwnStack(b),
         NEW k \in 1..(Len(Accesses(b)) + 1), NEW y \in Int
  PROVE  /\ Covering(VectorStores(b, k), y + EmulatedVsp) = WritesAt(b, k, TRUE, y)
         /\ WritesAt(b, k, TRUE, y) # {} =>
              ByteOf(VectorStores(b, k), y + EmulatedVsp) = ByteWritten(b, k, TRUE, y)
<1>1. PICK N : N = Inside(b, k) /\ N = {l \in WritesBefore(b, k) : Accesses(b)[l].vsp}
  BY InsideIs
<1>2. ASSUME NEW l \in N
      PROVE  /\ VectorStores(b, k)[l].address = EmulatedAddress(Accesses(b)[l])
             /\ VectorStores(b, k)[l].size = Accesses(b)[l].size
             /\ VectorStores(b, k)[l].value = ValueWritten(b, l)
             /\ Accesses(b)[l].vsp = TRUE /\ Accesses(b)[l] \in AnyAccess
             /\ EmulatedAddress(Accesses(b)[l]) = Accesses(b)[l].off + EmulatedVsp
  <2>1. l \in WritesBefore(b, k) /\ Accesses(b)[l].vsp
    BY <1>1
  <2>2. VectorStores(b, k)[l] = EmulatedStores(b, k)[l]
    BY <1>1 DEF VectorStores, Part
  <2>3. /\ Accesses(b)[l] \in AnyAccess
        /\ EmulatedStores(b, k)[l].address = EmulatedAddress(Accesses(b)[l])
        /\ EmulatedStores(b, k)[l].size = Accesses(b)[l].size
        /\ EmulatedStores(b, k)[l].value = ValueWritten(b, l)
    BY <2>1, WritesAre
  <2>4. /\ EmulatedAddress(Accesses(b)[l]) = Accesses(b)[l].off + EmulatedVsp
        /\ Accesses(b)[l].vsp \in BOOLEAN
    BY <2>1, <2>3, AddressesAre
  <2> QED  BY <2>1, <2>2, <2>3, <2>4
<1>3. DOMAIN VectorStores(b, k) = N
  BY <1>1 DEF VectorStores, Part
<1>4. Covering(VectorStores(b, k), y + EmulatedVsp) = WritesAt(b, k, TRUE, y)
  <2>1. WritesAt(b, k, TRUE, y) = {l \in N : y \in PlacesOf(Accesses(b)[l])}
    <3>1. \A l \in WritesBefore(b, k) : Accesses(b)[l].vsp \in BOOLEAN
      BY WritesAre, AddressesAre
    <3> QED  BY <1>1, <3>1 DEF WritesAt
  <2>2. \A l \in N : y + EmulatedVsp \in Places(VectorStores(b, k)[l].address, VectorStores(b, k)[l].size)
                       <=> y \in PlacesOf(Accesses(b)[l])
    <3> TAKE l \in N
    <3>1. PICK a : a = Accesses(b)[l] /\ a \in AnyAccess /\ a.vsp
      BY <1>2
    <3>2. y + EmulatedVsp \in Places(EmulatedAddress(a), a.size) <=> y \in PlacesOf(a)
      BY <3>1, ShiftedPlaces
    <3> QED  BY <1>2, <3>1, <3>2
  <2> QED  BY <1>3, <2>1, <2>2 DEF Covering
<1>5. \A l \in WritesAt(b, k, TRUE, y) :
        /\ VectorStores(b, k)[l].address = Accesses(b)[l].off + EmulatedVsp
        /\ VectorStores(b, k)[l].value = ValueWritten(b, l)
  <2> TAKE l \in WritesAt(b, k, TRUE, y)
  <2>1. l \in N
    BY <1>3, <1>4 DEF Covering
  <2> QED  BY <1>2, <2>1
<1>6. EmulatedVsp \in Int
  BY SizesAssumption DEF EmulatedVsp
<1> QED  BY <1>4, <1>5, <1>6, ByteIs

(* What an access reads, byte by byte.                                     *)
LEMMA LoadedIs ==
  ASSUME NEW bytes, NEW addr, NEW size \in Nat
  PROVE  /\ DOMAIN Loaded(bytes, addr, Initials(addr, size)) = 1..size
         /\ DOMAIN Loaded(bytes, addr, Zeros(size)) = 1..size
         /\ \A j \in 1..size :
              /\ addr + j - 1 \in DOMAIN bytes =>
                   /\ Loaded(bytes, addr, Initials(addr, size))[j] = bytes[addr + j - 1]
                   /\ Loaded(bytes, addr, Zeros(size))[j] = bytes[addr + j - 1]
              /\ addr + j - 1 \notin DOMAIN bytes =>
                   Loaded(bytes, addr, Initials(addr, size))[j] = Initial(addr + j - 1)
  BY DEF Loaded, Initials, Zeros

-----------------------------------------------------------------------------
(* The memory that the traced program had after each block, and what each  *)
(* block read there.                                                       *)
ReadsIn(b, memory) == [k \in ReadsOf(b) |-> NativeRead(memory, b, k)]
After(b, memory) == Stored(memory, NativeStores(b, Len(Accesses(b)) + 1))
History(mem) ==
  /\ mem[0] = NoBytes
  /\ mem[Len(blocks)] = native
  /\ \A i \in 1..Len(blocks) :
       /\ blocks[i].vip \in DOMAIN program
       /\ blocks[i].reads = ReadsIn(blocks[i].vip, mem[i - 1])
       /\ mem[i] = After(blocks[i].vip, mem[i - 1])
HereIsBlock == here \in DOMAIN program \cup {0}
StackIsVector == DOMAIN stack = Places(StackBase, StackBytes)
HistInv == IsProgram /\ HereIsBlock /\ \E mem : History(mem)

LEMMA SameProgram ==
  ASSUME program' = program
  PROVE  /\ \A b, m : ReadsIn(b, m)' = ReadsIn(b, m) /\ After(b, m)' = After(b, m)
         /\ \A b : Accesses(b)' = Accesses(b)
<1>1. \A b : Accesses(b)' = Accesses(b)
  BY DEF Accesses
<1>2. \A b, k : WritesBefore(b, k)' = WritesBefore(b, k)
  BY DEF WritesBefore, Accesses
<1>3. \A b, k : NativeStores(b, k)' = NativeStores(b, k)
  BY DEF NativeStores, WritesBefore, Accesses, ValueWritten
<1>4. \A b : ReadsOf(b)' = ReadsOf(b)
  BY DEF ReadsOf, Accesses
<1>5. \A b, m, k : NativeRead(m, b, k)' = NativeRead(m, b, k)
  BY <1>3 DEF NativeRead, Accesses
<1>6. \A b, m : After(b, m)' = After(b, m)
  BY <1>1, <1>3 DEF After
<1>7. \A b, m : ReadsIn(b, m)' = ReadsIn(b, m)
  BY <1>4, <1>5 DEF ReadsIn
<1> QED  BY <1>1, <1>6, <1>7

LEMMA HistoryStarts == Init => HistInv /\ StackIsVector
<1> SUFFICES ASSUME Init PROVE HistInv /\ StackIsVector
  OBVIOUS
<1>1. program \in Programs /\ here = Entry /\ native = NoBytes /\ blocks = <<>> /\ Len(blocks) = 0
      /\ stack = [x \in StackBase..(StackBase + StackBytes - 1) |-> Zero]
  BY DEF Init
<1>2. IsProgram /\ HereIsBlock
  BY <1>1, ProgramsAssumption DEF IsProgram, HereIsBlock
<1>3. StackIsVector
  BY <1>1 DEF StackIsVector, Places
<1>4. History([i \in 0..0 |-> NoBytes])
  <2>1. [i \in 0..0 |-> NoBytes][0] = NoBytes
    OBVIOUS
  <2> QED  BY <1>1, <2>1 DEF History
<1> QED  BY <1>2, <1>3, <1>4 DEF HistInv

LEMMA HistoryGrows ==
  ASSUME IInv, HistInv, TraceBlock
  PROVE  HistInv'
<1> DEFINE new == [vip |-> here, reads |-> ReadsIn(here, native), newVip |-> here']
<1>1. blocks' = Append(blocks, new) /\ program' = program /\ here # 0
      /\ native' = After(here, native)
  BY DEF TraceBlock, ReadsIn, After
<1>2. new.vip = here /\ new.reads = ReadsIn(here, native)
  OBVIOUS
<1> HIDE DEF new
<1>3. PICK S : blocks \in Seq(S)
  BY DEF IInv, IsSequence
<1>4. blocks \in Seq(S \cup {new}) /\ Len(blocks) \in Nat
  BY <1>3
<1>5. PICK n \in Nat : n = Len(blocks)
  BY <1>4
<1>6. Len(blocks') = n + 1 /\ blocks'[n + 1] = new /\ \A i \in 1..n : blocks'[i] = blocks[i]
  BY <1>1, <1>4, <1>5
<1>7. here \in DOMAIN program
  BY <1>1 DEF HistInv, HereIsBlock
<1>8. HereIsBlock' /\ IsProgram'
  <2>1. here' \in IF program[here].succ = {} THEN {0} ELSE program[here].succ
    BY DEF TraceBlock
  <2>2. program[here].succ \subseteq DOMAIN program
    BY <1>7, ProgramsAssumption DEF HistInv, IsProgram
  <2> QED  BY <1>1, <2>1, <2>2 DEF HereIsBlock, HistInv, IsProgram
<1>9. PICK mem : History(mem)
  BY DEF HistInv
<1>10. /\ mem[0] = NoBytes /\ mem[n] = native
       /\ \A i \in 1..n : /\ blocks[i].vip \in DOMAIN program
                          /\ blocks[i].reads = ReadsIn(blocks[i].vip, mem[i - 1])
                          /\ mem[i] = After(blocks[i].vip, mem[i - 1])
  BY <1>5, <1>9 DEF History
<1>11. PICK last, v : last = native' /\ v = here
  OBVIOUS
<1>12. PICK m2 : m2 = [i \in 0..(n + 1) |-> IF i = n + 1 THEN last ELSE mem[i]]
  OBVIOUS
<1>13. m2[n + 1] = last /\ \A i \in 0..n : m2[i] = mem[i]
  BY <1>12
<1>14. ASSUME NEW i \in 1..(n + 1)
       PROVE  /\ blocks'[i].vip \in DOMAIN program'
              /\ blocks'[i].reads = ReadsIn(blocks[i].vip, m2[i - 1])'
              /\ m2[i] = After(blocks[i].vip, m2[i - 1])'
  <2>1. PICK w, m : w = blocks'[i].vip /\ m = m2[i - 1]
    OBVIOUS
  <2>2. ReadsIn(w, m)' = ReadsIn(w, m) /\ After(w, m)' = After(w, m)
    BY <1>1, SameProgram
  <2>3. CASE i = n + 1
    <3>1. w = here /\ m = native /\ blocks'[i].reads = ReadsIn(here, native)
      BY <1>2, <1>6, <1>10, <1>13, <2>1, <2>3
    <3>2. m2[i] = After(here, native)
      BY <1>1, <1>11, <1>13, <2>3
    <3> QED  BY <1>1, <1>7, <2>1, <2>2, <3>1, <3>2
  <2>4. CASE i # n + 1
    <3>1. i \in 1..n /\ i - 1 \in 0..n
      BY <2>4
    <3>2. w = blocks[i].vip /\ m = mem[i - 1] /\ m2[i] = mem[i] /\ blocks'[i].reads = blocks[i].reads
      BY <1>6, <1>13, <2>1, <3>1
    <3> QED  BY <1>1, <1>10, <2>1, <2>2, <3>1, <3>2
  <2> QED  BY <2>3, <2>4
<1>15. m2[0] = NoBytes /\ m2[Len(blocks')] = native'
  BY <1>6, <1>10, <1>11, <1>13
<1>16. History(m2)'
  BY <1>6, <1>14, <1>15 DEF History
<1> QED  BY <1>8, <1>16 DEF HistInv

LEMMA HistoryStays ==
  ASSUME NEW mem, UNCHANGED traceVars
  PROVE  History(mem)' <=> History(mem)
<1>1. program' = program /\ blocks' = blocks /\ native' = native
  BY DEF traceVars
<1>2. \A b, m : ReadsIn(b, m)' = ReadsIn(b, m) /\ After(b, m)' = After(b, m)
  BY <1>1, SameProgram
<1> QED  BY <1>1, <1>2 DEF History

(* What the trace recorded of the blocks: their accesses' addresses.       *)
LEMMA ReadsAre ==
  ASSUME IsProgram, NEW mem, History(mem), NEW i \in 1..Len(blocks)
  PROVE  /\ blocks[i].vip \in DOMAIN program
         /\ DOMAIN blocks[i].reads = ReadsOf(blocks[i].vip)
         /\ \A k \in ReadsOf(blocks[i].vip) :
              /\ k \in 1..Len(Accesses(blocks[i].vip))
              /\ Accesses(blocks[i].vip)[k] \in AnyAccess
              /\ blocks[i].reads[k] = NativeRead(mem[i - 1], blocks[i].vip, k)
              /\ blocks[i].reads[k].address = NativeAddress(Accesses(blocks[i].vip)[k])
              /\ blocks[i].reads[k].size = Accesses(blocks[i].vip)[k].size
<1>1. PICK b, m, r : b = blocks[i].vip /\ m = mem[i - 1] /\ r = blocks[i].reads
  OBVIOUS
<1>2. b \in DOMAIN program /\ r = ReadsIn(b, m)
  BY <1>1 DEF History
<1>3. DOMAIN r = ReadsOf(b) /\ \A k \in ReadsOf(b) : r[k] = NativeRead(m, b, k)
  BY <1>2 DEF ReadsIn
<1>4. \A k \in ReadsOf(b) : k \in 1..Len(Accesses(b))
  BY DEF ReadsOf
<1>5. \A k \in ReadsOf(b) : Accesses(b)[k] \in AnyAccess
  BY <1>2, <1>4, AccessesAre
<1>6. \A k \in ReadsOf(b) : /\ r[k].address = NativeAddress(Accesses(b)[k])
                            /\ r[k].size = Accesses(b)[k].size
  <2> TAKE k \in ReadsOf(b)
  <2>1. /\ NativeRead(m, b, k).address = NativeAddress(Accesses(b)[k])
        /\ NativeRead(m, b, k).size = Accesses(b)[k].size
    BY DEF NativeRead
  <2> QED  BY <1>3, <2>1
<1> QED  BY <1>1, <1>2, <1>3, <1>4, <1>5, <1>6

LEMMA HistoryInductive ==
  ASSUME IInv, HistInv, [Next]_vars
  PROVE  HistInv'
<1>1. CASE TraceBlock
  BY <1>1, HistoryGrows
<1>2. CASE ~TraceBlock
  <2>1. UNCHANGED traceVars
    BY <1>2 DEF Next, EmulateVmCode, PrepareBlock, RunEmulation, CallFunction, CallNothing, vars
  <2>2. program' = program /\ here' = here
    BY <2>1 DEF traceVars
  <2>3. PICK mem : History(mem)
    BY DEF HistInv
  <2>4. History(mem)'
    BY <2>1, <2>3, HistoryStays
  <2>5. IsProgram' /\ HereIsBlock'
    BY <2>2 DEF HistInv, IsProgram, HereIsBlock
  <2> QED  BY <2>4, <2>5 DEF HistInv
<1> QED  BY <1>1, <1>2

(* What is stored inside the vector leaves its elements.                   *)
LEMMA VectorStays ==
  ASSUME StackIsVector, NEW stores,
         \A k \in DOMAIN stores :
           /\ stores[k].address \in Int /\ stores[k].size \in Nat
           /\ InStack(stores[k].address, stores[k].size)
  PROVE  DOMAIN Stored(stack, stores) = Places(StackBase, StackBytes)
<1>1. StackBase \in Nat /\ StackBytes \in Nat
  BY SizesAssumption
<1>2. ASSUME NEW x, Covering(stores, x) # {} PROVE x \in Places(StackBase, StackBytes)
  <2>1. PICK k \in DOMAIN stores : x \in Places(stores[k].address, stores[k].size)
    BY <1>2 DEF Covering
  <2>2. PICK a, n : a = stores[k].address /\ n = stores[k].size
    OBVIOUS
  <2>3. a \in Int /\ n \in Nat /\ InStack(a, n) /\ x \in Places(a, n)
    BY <2>1, <2>2
  <2> QED  BY <1>1, <2>3 DEF InStack, Places
<1>3. \A x : x \in DOMAIN Stored(stack, stores)
               <=> (x \in DOMAIN stack \/ Covering(stores, x) # {})
  BY StoredIs
<1> QED  BY <1>2, <1>3 DEF StackIsVector

LEMMA VectorInductive ==
  ASSUME HistInv, StackIsVector, IInv, [Next]_vars
  PROVE  StackIsVector'
<1>1. CASE PrepareBlock
  <2>1. PICK i : i = prepared + 1 /\ i \in 1..Len(blocks)
    BY <1>1 DEF PrepareBlock, IInv, Phases
  <2>2. PICK r : r = blocks[i].reads
    OBVIOUS
  <2> DEFINE P == Part(r, FirstReads(r))
             N == {k \in DOMAIN P : InStack(P[k].address, P[k].size)}
  <2>3. stack' = Stored(stack, Part(P, N))
    BY <1>1, <2>1, <2>2 DEF PrepareBlock, SetVirtualMemoryValues, Memory
  <2>4. PICK mem : History(mem)
    BY DEF HistInv
  <2>5. \A k \in DOMAIN r : r[k].address \in Int /\ r[k].size \in Nat
    <3> TAKE k \in DOMAIN r
    <3>1. PICK a : a = Accesses(blocks[i].vip)[k] /\ a \in AnyAccess
                   /\ r[k].address = NativeAddress(a) /\ r[k].size = a.size
      BY <2>1, <2>2, <2>4, ReadsAre DEF HistInv
    <3> QED  BY <3>1, AddressesAre
  <2>6. \A k \in DOMAIN P : k \in DOMAIN r /\ P[k] = r[k]
    BY DEF Part, FirstReads
  <2> HIDE DEF P
  <2>7. \A k \in DOMAIN Part(P, N) : k \in DOMAIN r /\ Part(P, N)[k] = r[k] /\ InStack(r[k].address, r[k].size)
    BY <2>6 DEF Part
  <2>8. DOMAIN Stored(stack, Part(P, N)) = Places(StackBase, StackBytes)
    <3>1. PICK q : q = Part(P, N)
      OBVIOUS
    <3>2. \A k \in DOMAIN q : /\ q[k].address \in Int /\ q[k].size \in Nat
                              /\ InStack(q[k].address, q[k].size)
      BY <2>5, <2>7, <3>1
    <3> HIDE DEF N
    <3> QED  BY <3>1, <3>2, VectorStays
  <2> QED  BY <2>3, <2>8 DEF StackIsVector
<1>2. CASE CallFunction
  <2>1. PICK i : i = currentFunction /\ i \in 1..Len(blocks)
    BY <1>2 DEF CallFunction, Exists, IInv, IsSequence
  <2>2. PICK b, k : b = blocks[i].vip /\ k = Len(Accesses(b)) + 1
    OBVIOUS
  <2>3. b \in DOMAIN program
    BY <2>1, <2>2, ReadsAre DEF HistInv
  <2>4. k \in 1..(Len(Accesses(b)) + 1)
    BY <2>2, <2>3, AccessesAre DEF HistInv
  <2>5. stack' = MemoryBefore(b, k).stack
    BY <1>2, <2>1, <2>2 DEF CallFunction
  <2>6. stack' = Stored(stack, VectorStores(b, k))
    BY <2>3, <2>4, <2>5, MemoryIs DEF HistInv
  <2>7. \A l \in DOMAIN VectorStores(b, k) :
          /\ VectorStores(b, k)[l].address \in Int /\ VectorStores(b, k)[l].size \in Nat
          /\ InStack(VectorStores(b, k)[l].address, VectorStores(b, k)[l].size)
    <3> TAKE l \in DOMAIN VectorStores(b, k)
    <3>1. l \in Inside(b, k) /\ VectorStores(b, k)[l] = EmulatedStores(b, k)[l]
      BY DEF VectorStores, Part
    <3>2. /\ l \in WritesBefore(b, k)
          /\ InStack(EmulatedStores(b, k)[l].address, EmulatedStores(b, k)[l].size)
      BY <3>1 DEF Inside
    <3>3. /\ EmulatedStores(b, k)[l].address \in Int
          /\ EmulatedStores(b, k)[l].size \in Nat
      BY <2>3, <2>4, <3>2, WritesAre, AddressesAre DEF HistInv
    <3> QED  BY <3>1, <3>2, <3>3
  <2> QED  BY <2>6, <2>7, VectorStays DEF StackIsVector
<1>3. CASE ~PrepareBlock /\ ~CallFunction
  <2>1. stack' = stack
    BY <1>3 DEF Next, TraceBlock, EmulateVmCode, RunEmulation, CallNothing, vars
  <2> QED  BY <2>1 DEF StackIsVector
<1> QED  BY <1>1, <1>2, <1>3

(* The function to call is the first or follows a block.                   *)
FunctionFollows == currentFunction \in 1..(Len(blocks) + 1)

LEMMA FunctionInductive ==
  ASSUME IInv, OrderInv, FunctionFollows, [Next]_vars
  PROVE  FunctionFollows'
<1>1. PICK n \in Nat : n = Len(blocks)
  BY DEF IInv, IsSequence
<1>2. CASE TraceBlock
  <2>1. PICK S : blocks \in Seq(S)
    BY DEF IInv, IsSequence
  <2>2. PICK new : blocks' = Append(blocks, new)
    BY <1>2 DEF TraceBlock
  <2>3. blocks \in Seq(S \cup {new})
    BY <2>1
  <2>4. Len(blocks') = n + 1
    BY <1>1, <2>2, <2>3
  <2>5. currentFunction' = currentFunction
    BY <1>2 DEF TraceBlock, runVars
  <2> QED  BY <1>1, <2>4, <2>5 DEF FunctionFollows
<1>3. CASE CallFunction
  <2>1. blocks' = blocks /\ handlerFunctionNames' = handlerFunctionNames /\ prepared <= Len(blocks)
        /\ prepared \in Nat
    BY <1>1, <1>3 DEF CallFunction, traceVars, prepareVars, IInv, Phases
  <2>2. CASE currentFunction' = currentFunction
    BY <2>1, <2>2 DEF FunctionFollows
  <2>3. CASE currentFunction' # currentFunction
    <3>1. /\ nextVip' \in DOMAIN handlerFunctionNames
          /\ currentFunction' = handlerFunctionNames[nextVip']
      BY <1>3, <2>3 DEF CallFunction
    <3>2. currentFunction' \in 2..(prepared + 1)
      BY <3>1 DEF IInv, NamesFollow
    <3> QED  BY <1>1, <2>1, <3>2 DEF FunctionFollows
  <2> QED  BY <2>2, <2>3
<1>4. CASE ~TraceBlock /\ ~CallFunction
  <2>1. blocks' = blocks /\ currentFunction' = currentFunction
    BY <1>4 DEF Next, EmulateVmCode, PrepareBlock, RunEmulation, CallNothing, vars, traceVars, runVars
  <2> QED  BY <2>1 DEF FunctionFollows
<1> QED  BY <1>2, <1>3, <1>4

PhaseIs == phase \in {"trace", "prepare", "run", "done"}
TypeInv == HistInv /\ StackIsVector /\ FunctionFollows /\ PhaseIs
AllInv == IInv /\ OrderInv /\ TypeInv

LEMMA AllInductive == Spec => []AllInv
<1>1. Init => AllInv
  <2> SUFFICES ASSUME Init PROVE AllInv
    OBVIOUS
  <2>1. FunctionFollows /\ PhaseIs
    BY DEF Init, FunctionFollows, PhaseIs
  <2> QED  BY <2>1, Starting, OrderStarts, HistoryStarts DEF AllInv, TypeInv
<1>2. ASSUME AllInv, [Next]_vars PROVE AllInv'
  <2>1. IInv'
    BY <1>2, TracingStep, PreparingStep, RunningStep, PhaseStep DEF AllInv, Next
  <2>2. OrderInv'
    BY <1>2, OrderBefore, OrderRunning, OrderPhases DEF AllInv, Next
  <2>3. HistInv' /\ StackIsVector' /\ FunctionFollows'
    BY <1>2, HistoryInductive, VectorInductive, FunctionInductive DEF AllInv, TypeInv
  <2>4. PhaseIs'
    BY <1>2 DEF AllInv, TypeInv, PhaseIs, Next, TraceBlock, EmulateVmCode, PrepareBlock,
                RunEmulation, CallFunction, CallNothing, vars
  <2> QED  BY <2>1, <2>2, <2>3, <2>4 DEF AllInv, TypeInv
<1> QED  BY <1>1, <1>2, PTL DEF Spec

(* The trace, the map of names, the stack vector and the position of       *)
(* RunEmulation keep their ranges: a name is that of a function after a    *)
(* prepared block, and what the hooks store inside the vector stays there. *)
THEOREM EmulatorTypeCorrect == Spec => []TypeOK
<1>1. ASSUME AllInv PROVE TypeOK
  <2>1. prepared \in 0..Len(blocks) /\ Len(blocks) \in Nat
    BY <1>1 DEF AllInv, IInv, Phases, IsSequence
  <2>2. \A vip \in DOMAIN handlerFunctionNames : handlerFunctionNames[vip] \in 2..(Len(blocks) + 1)
    <3> TAKE vip \in DOMAIN handlerFunctionNames
    <3>1. handlerFunctionNames[vip] \in 2..(prepared + 1)
      BY <1>1 DEF AllInv, IInv, NamesFollow
    <3> QED  BY <2>1, <3>1
  <2>3. DOMAIN stack = StackBase..(StackBase + StackBytes - 1)
    BY <1>1 DEF AllInv, TypeInv, StackIsVector, Places
  <2> QED  BY <1>1, <2>1, <2>2, <2>3
            DEF TypeOK, AllInv, TypeInv, HistInv, IsProgram, HereIsBlock, FunctionFollows, PhaseIs
<1> QED  BY <1>1, AllInductive, PTL

-----------------------------------------------------------------------------
(* The bytes that the traced program has written before an access; once    *)
(* written they stay so, and one that was not is read as it was initially. *)
AccessesIn(i) == Accesses(blocks[i].vip)
AccessOf(i, k) == AccessesIn(i)[k]
Held(mem, i, k, x) ==
  x \in DOMAIN mem[i - 1] \/ Covering(NativeStores(blocks[i].vip, k), x) # {}
Traced == IsProgram /\ IsSequence

LEMMA BlocksAre ==
  ASSUME Traced
  PROVE  Len(blocks) \in Nat /\ DOMAIN blocks = 1..Len(blocks)
  BY DEF Traced, IsSequence

LEMMA CoveringGrows ==
  ASSUME Traced, NEW b \in DOMAIN program, NEW k, NEW l, NEW x,
         k \in 1..(Len(Accesses(b)) + 1), l \in 1..(Len(Accesses(b)) + 1), k <= l
  PROVE  Covering(NativeStores(b, k), x) \subseteq Covering(NativeStores(b, l), x)
<1>1. PICK n \in Nat : n = Len(Accesses(b))
  BY AccessesAre DEF Traced
<1>2. WritesBefore(b, k) \subseteq WritesBefore(b, l)
  BY <1>1 DEF WritesBefore
<1>3. DOMAIN NativeStores(b, k) = WritesBefore(b, k) /\ DOMAIN NativeStores(b, l) = WritesBefore(b, l)
  BY WritesAre DEF Traced
<1>4. \A m \in WritesBefore(b, k) : NativeStores(b, k)[m] = NativeStores(b, l)[m]
  BY <1>2 DEF NativeStores
<1> QED  BY <1>2, <1>3, <1>4 DEF Covering

LEMMA BlockHolds ==
  ASSUME Traced, NEW mem, History(mem), NEW i \in 1..Len(blocks), NEW x,
         NEW k \in 1..(Len(AccessesIn(i)) + 1), Held(mem, i, k, x)
  PROVE  x \in DOMAIN mem[i]
<1>1. PICK b, n, m : b = blocks[i].vip /\ n = Len(Accesses(b)) /\ m = mem[i - 1]
  OBVIOUS
<1>2. b \in DOMAIN program /\ mem[i] = Stored(m, NativeStores(b, n + 1))
  BY <1>1 DEF History, After
<1>3. n \in Nat
  BY <1>1, <1>2, AccessesAre DEF Traced
<1>4. k \in 1..(n + 1) /\ n + 1 \in 1..(n + 1) /\ k <= n + 1
  BY <1>1, <1>3 DEF AccessesIn
<1>5. Covering(NativeStores(b, k), x) \subseteq Covering(NativeStores(b, n + 1), x)
  BY <1>1, <1>2, <1>4, CoveringGrows
<1>6. x \in DOMAIN m \/ Covering(NativeStores(b, n + 1), x) # {}
  BY <1>1, <1>5 DEF Held
<1> QED  BY <1>2, <1>6, StoredIs

LEMMA BytesStay ==
  ASSUME Traced, NEW mem, History(mem), NEW i, NEW j, i \in 0..Len(blocks), j \in 0..Len(blocks), i <= j
  PROVE  DOMAIN mem[i] \subseteq DOMAIN mem[j]
<1>1. PICK n \in Nat : n = Len(blocks)
  BY BlocksAre
<1> DEFINE T == {d \in Nat : i + d <= n /\ ~(DOMAIN mem[i] \subseteq DOMAIN mem[i + d])}
<1>2. SUFFICES ASSUME T # {} PROVE FALSE
  <2>1. PICK d \in Nat : i + d = j
    <3>1. j - i \in Nat /\ i + (j - i) = j
      BY <1>1
    <3> QED  BY <3>1
  <2>2. d \notin T
    BY <1>2
  <2> QED  BY <1>1, <2>1, <2>2
<1>3. PICK d \in T : \A e \in T : d <= e
  <2>1. T \subseteq Nat
    OBVIOUS
  <2> HIDE DEF T
  <2> QED  BY <1>2, <2>1, LeastNumber
<1>4. d # 0
  <2>1. i + 0 = i
    BY <1>1
  <2> QED  BY <2>1
<1>5. PICK e \in Nat : d = e + 1
  BY <1>4
<1>6. e \notin T
  BY <1>3, <1>5
<1>7. PICK c : c = i + d /\ c - 1 = i + e /\ c \in 1..n
  BY <1>1, <1>5
<1>8. DOMAIN mem[i] \subseteq DOMAIN mem[c - 1]
  BY <1>1, <1>6, <1>7
<1>9. mem[c] = Stored(mem[c - 1], NativeStores(blocks[c].vip, Len(Accesses(blocks[c].vip)) + 1))
  BY <1>1, <1>7 DEF History, After
<1>10. DOMAIN mem[c - 1] \subseteq DOMAIN mem[c]
  BY <1>9, StoredIs
<1> QED  BY <1>7, <1>8, <1>10

LEMMA HeldGrows ==
  ASSUME Traced, NEW mem, History(mem), NEW i \in 1..Len(blocks), NEW j \in 1..Len(blocks),
         NEW k \in 1..(Len(AccessesIn(i)) + 1), NEW l \in 1..(Len(AccessesIn(j)) + 1), NEW x,
         i < j \/ (i = j /\ k <= l), Held(mem, i, k, x)
  PROVE  Held(mem, j, l, x)
<1>1. CASE i < j
  <2>1. x \in DOMAIN mem[i]
    BY BlockHolds
  <2>2. i \in 0..Len(blocks) /\ j - 1 \in 0..Len(blocks) /\ i <= j - 1
    BY <1>1, BlocksAre
  <2>3. PICK h : h = j - 1
    OBVIOUS
  <2>4. DOMAIN mem[i] \subseteq DOMAIN mem[h]
    BY <2>2, <2>3, BytesStay
  <2> QED  BY <2>1, <2>3, <2>4 DEF Held
<1>2. CASE i = j /\ k <= l
  <2>1. blocks[i].vip \in DOMAIN program
    BY DEF History
  <2>2. PICK b : b = blocks[i].vip
    OBVIOUS
  <2>3. k \in 1..(Len(Accesses(b)) + 1) /\ l \in 1..(Len(Accesses(b)) + 1)
    BY <1>2, <2>2 DEF AccessesIn
  <2>4. Covering(NativeStores(b, k), x) \subseteq Covering(NativeStores(b, l), x)
    BY <1>2, <2>1, <2>2, <2>3, CoveringGrows
  <2> QED  BY <1>2, <2>2, <2>4 DEF Held
<1> QED  BY <1>1, <1>2

LEMMA Fresh ==
  ASSUME Traced, NEW mem, History(mem), NEW i \in 1..Len(blocks), NEW k \in ReadsOf(blocks[i].vip),
         NEW x \in Places(blocks[i].reads[k].address, blocks[i].reads[k].size), ~Held(mem, i, k, x)
  PROVE  blocks[i].reads[k].value[x - blocks[i].reads[k].address + 1] = Initial(x)
<1>1. PICK b, m : b = blocks[i].vip /\ m = mem[i - 1]
  OBVIOUS
<1>2. PICK a : a = Accesses(b)[k] /\ a \in AnyAccess
  BY <1>1, ReadsAre DEF Traced
<1>3. PICK r : r = NativeRead(m, b, k) /\ blocks[i].reads[k] = r
  BY <1>1, ReadsAre DEF Traced
<1>4. PICK s, q : s = NativeAddress(a) /\ q = a.size /\ s \in Int /\ q \in Nat
  BY <1>2, AddressesAre
<1>5. PICK f : f = Stored(m, NativeStores(b, k))
  OBVIOUS
<1>6. r.address = s /\ r.size = q /\ r.value = Loaded(f, s, Initials(s, q))
  BY <1>2, <1>3, <1>4, <1>5 DEF NativeRead
<1>7. x \notin DOMAIN f
  BY <1>1, <1>5, StoredIs DEF Held
<1>8. PICK j : j = x - s + 1 /\ j \in 1..q /\ s + j - 1 = x
  BY <1>3, <1>4, <1>6, SMTT(30) DEF Places
<1>9. Loaded(f, s, Initials(s, q))[j] = Initial(x)
  BY <1>4, <1>7, <1>8, LoadedIs
<1> QED  BY <1>3, <1>6, <1>8, <1>9

-----------------------------------------------------------------------------
(* The values put into the virtual memory: a byte that an absolute access  *)
(* reads before anything was written to it is the initial one.             *)
Defined ==
  \A a : a \in definedAddresses <=>
           \E i \in 1..prepared : \E k \in DOMAIN blocks[i].reads : blocks[i].reads[k].address = a
Seeded(mem) ==
  \A i \in (Len(ran) + 1)..prepared : \A k \in ReadsOf(blocks[i].vip) :
    ~AccessOf(i, k).vsp =>
      \A x \in PlacesOf(AccessOf(i, k)) :
        ~Held(mem, i, k, x) => x \in DOMAIN virtualMemory /\ virtualMemory[x] = Initial(x)

LEMMA BothCovered ==
  ASSUME NEW o \in Int, NEW n \in Nat, NEW u \in Int, NEW v \in Nat, NEW x,
         x \in Places(o, n), x \in Places(u, v)
  PROVE  o < u + v /\ u < o + n
<1>1. x \in Int /\ o <= x /\ x <= o + n - 1 /\ u <= x /\ x <= u + v - 1
  BY DEF Places
<1> QED  BY <1>1

LEMMA WholeIs ==
  ASSUME Traced, NEW mem, History(mem), TouchesWhole,
         NEW i \in 1..Len(blocks), NEW k \in 1..Len(AccessesIn(i)),
         NEW j \in 1..Len(blocks), NEW l \in 1..Len(AccessesIn(j)),
         ~AccessOf(i, k).vsp, ~AccessOf(j, l).vsp,
         NEW x \in PlacesOf(AccessOf(i, k)), x \in PlacesOf(AccessOf(j, l))
  PROVE  AccessOf(j, l).off = AccessOf(i, k).off /\ AccessOf(j, l).size = AccessOf(i, k).size
<1>1. blocks[i].vip \in DOMAIN program /\ blocks[j].vip \in DOMAIN program
  BY DEF History
<1>2. PICK a, c : a = AccessOf(i, k) /\ c = AccessOf(j, l)
  OBVIOUS
<1>3. a \in AnyAccess /\ c \in AnyAccess
  BY <1>1, <1>2, AccessesAre DEF Traced, AccessOf, AccessesIn
<1>4. a.off \in Int /\ a.size \in Nat /\ c.off \in Int /\ c.size \in Nat
  BY <1>3, AddressesAre
<1>5. Overlapping(a, c)
  <2>1. x \in Places(a.off, a.size) /\ x \in Places(c.off, c.size)
    BY <1>2 DEF PlacesOf
  <2>2. PICK o, n, u, v : o = a.off /\ n = a.size /\ u = c.off /\ v = c.size
    OBVIOUS
  <2>3. o \in Int /\ n \in Nat /\ u \in Int /\ v \in Nat /\ x \in Places(o, n) /\ x \in Places(u, v)
    BY <1>4, <2>1, <2>2
  <2>4. o < u + v /\ u < o + n
    BY <2>3, BothCovered
  <2> QED  BY <2>2, <2>4 DEF Overlapping
<1>6. k \in DOMAIN AccessesIn(i) /\ l \in DOMAIN AccessesIn(j)
  BY <1>1, AccessesAre DEF Traced, AccessesIn
<1>7. <<i, k>> \in Touched /\ <<j, l>> \in Touched
  BY <1>6, BlocksAre DEF Touched, AllBlocks, AccessesIn
<1>8. Access(<<i, k>>) = a /\ Access(<<j, l>>) = c
  BY <1>2 DEF Access, AccessOf, AccessesIn
<1> QED  BY <1>2, <1>5, <1>7, <1>8 DEF TouchesWhole

(* A read at a byte of an absolute access is of the same bytes.            *)
LEMMA ReadAt ==
  ASSUME Traced, Apart, TouchesWhole, NEW mem, History(mem),
         NEW i \in 1..Len(blocks), NEW k \in 1..Len(AccessesIn(i)),
         ~AccessOf(i, k).vsp, NEW x \in PlacesOf(AccessOf(i, k)),
         NEW p \in 1..Len(blocks), NEW l \in ReadsOf(blocks[p].vip),
         x \in Places(blocks[p].reads[l].address, blocks[p].reads[l].size)
  PROVE  /\ l \in 1..Len(AccessesIn(p)) /\ ~AccessOf(p, l).vsp
         /\ blocks[p].reads[l].address = AccessOf(i, k).off
         /\ blocks[p].reads[l].size = AccessOf(i, k).size
         /\ PlacesOf(AccessOf(p, l)) = PlacesOf(AccessOf(i, k))
<1>1. blocks[i].vip \in DOMAIN program /\ blocks[p].vip \in DOMAIN program
  BY DEF History
<1>2. PICK c : c = AccessOf(p, l) /\ c \in AnyAccess /\ l \in 1..Len(AccessesIn(p))
               /\ blocks[p].reads[l].address = NativeAddress(c)
               /\ blocks[p].reads[l].size = c.size
  BY ReadsAre DEF Traced, AccessOf, AccessesIn
<1>3. ~c.vsp
  <2> SUFFICES ASSUME c.vsp PROVE FALSE
    OBVIOUS
  <2>1. PICK b, d : b = blocks[i].vip /\ d = blocks[p].vip
    OBVIOUS
  <2>2. /\ ~Accesses(b)[k].vsp /\ x \in PlacesOf(Accesses(b)[k]) /\ k \in 1..Len(Accesses(b))
        /\ Accesses(d)[l] = c /\ l \in 1..Len(Accesses(d))
    BY <1>2, <2>1 DEF AccessOf, AccessesIn
  <2>3. x \notin Places(NativeAddress(Accesses(d)[l]), Accesses(d)[l].size)
    BY <1>1, <2>1, <2>2, ApartIs DEF Traced
  <2> QED  BY <1>2, <2>2, <2>3
<1>4. NativeAddress(c) = c.off
  BY <1>2, <1>3, AddressesAre
<1>5. x \in PlacesOf(c)
  BY <1>2, <1>4 DEF PlacesOf
<1>6. c.off = AccessOf(i, k).off /\ c.size = AccessOf(i, k).size
  BY <1>2, <1>3, <1>5, WholeIs
<1> QED  BY <1>2, <1>3, <1>4, <1>6 DEF PlacesOf

(* What one round of EmulateVmCode's loop stores outside of the vector.    *)
SeedStores(r) ==
  LET P == Part(r, FirstReads(r))
  IN Part(P, DOMAIN P \ {k \in DOMAIN P : InStack(P[k].address, P[k].size)})

LEMMA SeedStoresAre ==
  ASSUME NEW r, NEW x
  PROVE  /\ \A l : l \in Covering(SeedStores(r), x) <=>
                     /\ l \in FirstReads(r) /\ ~InStack(r[l].address, r[l].size)
                     /\ x \in Places(r[l].address, r[l].size)
         /\ \A l \in Covering(SeedStores(r), x) : SeedStores(r)[l] = r[l]
<1> DEFINE P == Part(r, FirstReads(r))
           N == DOMAIN P \ {k \in DOMAIN P : InStack(P[k].address, P[k].size)}
<1>1. DOMAIN P = FirstReads(r) /\ \A l \in FirstReads(r) : P[l] = r[l]
  BY DEF Part
<1>2. SeedStores(r) = Part(P, N)
  BY DEF SeedStores
<1> HIDE DEF P
<1>3. \A l : l \in N <=> l \in FirstReads(r) /\ ~InStack(r[l].address, r[l].size)
  BY <1>1
<1> HIDE DEF N
<1>4. DOMAIN SeedStores(r) = N /\ \A l \in N : SeedStores(r)[l] = P[l]
  BY <1>2 DEF Part
<1> QED  BY <1>1, <1>3, <1>4 DEF Covering

LEMMA SeedsAt ==
  ASSUME Traced, Apart, TouchesWhole, NEW mem, History(mem),
         NEW i \in 1..Len(blocks), NEW k \in 1..Len(AccessesIn(i)),
         ~AccessOf(i, k).vsp, NEW x \in PlacesOf(AccessOf(i, k)),
         NEW p \in 1..Len(blocks), NEW l, l \in Covering(SeedStores(blocks[p].reads), x)
  PROVE  /\ l \in FirstReads(blocks[p].reads)
         /\ l \in ReadsOf(blocks[p].vip)
         /\ blocks[p].reads[l].address = AccessOf(i, k).off
         /\ SeedStores(blocks[p].reads)[l] = blocks[p].reads[l]
<1>1. PICK r : r = blocks[p].reads
  OBVIOUS
<1>2. l \in FirstReads(r) /\ x \in Places(r[l].address, r[l].size) /\ SeedStores(r)[l] = r[l]
  BY <1>1, SeedStoresAre
<1>3. l \in ReadsOf(blocks[p].vip)
  BY <1>1, <1>2, ReadsAre DEF FirstReads, Traced
<1>4. r[l].address = AccessOf(i, k).off
  BY <1>1, <1>2, <1>3, ReadAt
<1> QED  BY <1>1, <1>2, <1>3, <1>4

(* Where an address has had its value no later one is put.                 *)
LEMMA SeedsKeep ==
  ASSUME Traced, Apart, TouchesWhole, NEW mem, History(mem),
         NEW i \in 1..Len(blocks), NEW k \in 1..Len(AccessesIn(i)),
         ~AccessOf(i, k).vsp, NEW x \in PlacesOf(AccessOf(i, k)),
         NEW p \in 1..Len(blocks), AccessOf(i, k).off \in definedAddresses,
         x \in DOMAIN virtualMemory
  PROVE  LET after == Stored(virtualMemory, SeedStores(blocks[p].reads))
         IN x \in DOMAIN after /\ after[x] = virtualMemory[x]
<1>1. Covering(SeedStores(blocks[p].reads), x) = {}
  <2> SUFFICES ASSUME NEW l \in Covering(SeedStores(blocks[p].reads), x) PROVE FALSE
    OBVIOUS
  <2>1. /\ l \in FirstReads(blocks[p].reads)
        /\ blocks[p].reads[l].address = AccessOf(i, k).off
    BY SeedsAt
  <2> QED  BY <2>1 DEF FirstReads
<1> QED  BY <1>1, StoredIs

(* The first read at an address puts its bytes there.                      *)
LEMMA SeedsPut ==
  ASSUME Traced, Apart, TouchesWhole, NEW mem, History(mem),
         NEW p \in 1..Len(blocks), NEW k \in ReadsOf(blocks[p].vip),
         ~AccessOf(p, k).vsp, NEW x \in PlacesOf(AccessOf(p, k)),
         AccessOf(p, k).off \notin definedAddresses, ~Held(mem, p, k, x)
  PROVE  LET after == Stored(virtualMemory, SeedStores(blocks[p].reads))
         IN x \in DOMAIN after /\ after[x] = Initial(x)
<1>1. PICK r, a : r = blocks[p].reads /\ a = AccessOf(p, k)
  OBVIOUS
<1>2. /\ DOMAIN r = ReadsOf(blocks[p].vip) /\ k \in 1..Len(AccessesIn(p))
      /\ a \in AnyAccess /\ r[k].address = NativeAddress(a) /\ r[k].size = a.size
  BY <1>1, ReadsAre DEF Traced, AccessOf, AccessesIn
<1>3. a.off \in Int /\ a.size \in Nat \ {0} /\ r[k].address = a.off /\ EmulatedAddress(a) = a.off
  BY <1>1, <1>2, AddressesAre
<1>4. a.off \in PlacesOf(a)
  BY <1>3 DEF PlacesOf, Places
<1> DEFINE T == {l \in DOMAIN r : r[l].address = a.off}
<1>5. k \in T
  BY <1>2, <1>3
<1>6. T \subseteq Nat
  BY <1>2 DEF ReadsOf
<1>7. PICK m \in T : \A l \in T : m <= l
  <2> HIDE DEF T
  <2> QED  BY <1>5, <1>6, LeastNumber
<1>8. m \in DOMAIN r /\ r[m].address = a.off /\ m \in Nat
  BY <1>6
<1>9. \A l \in DOMAIN r : l < m => r[l].address # a.off
  BY <1>2, <1>6, <1>7 DEF ReadsOf
<1>10. m \in FirstReads(r)
  BY <1>1, <1>8, <1>9 DEF FirstReads
<1>11. PICK q : q = r[m].size /\ q \in Nat \ {0}
  <2>1. PICK c : c \in AnyAccess /\ r[m].size = c.size
    BY <1>1, <1>2, <1>8, ReadsAre DEF Traced
  <2> QED  BY <2>1, AddressesAre
<1>12. a.off \in Places(r[m].address, r[m].size)
  BY <1>3, <1>8, <1>11 DEF Places
<1>13. q = a.size
  BY <1>1, <1>2, <1>4, <1>8, <1>11, <1>12, ReadAt
<1>14. x \in Places(r[m].address, r[m].size)
  BY <1>1, <1>8, <1>11, <1>13 DEF PlacesOf
<1>15. ~InStack(r[m].address, r[m].size)
  <2>1. blocks[p].vip \in DOMAIN program
    BY DEF History
  <2>2. ~InStack(EmulatedAddress(a), a.size)
    BY <1>1, <1>2, <2>1, ApartIs DEF Traced, AccessOf, AccessesIn
  <2> QED  BY <1>3, <1>8, <1>11, <1>13, <2>2
<1>16. m \in Covering(SeedStores(r), x)
  BY <1>10, <1>14, <1>15, SeedStoresAre
<1>17. \A l \in Covering(SeedStores(r), x) : l = m
  <2> TAKE l \in Covering(SeedStores(r), x)
  <2>1. l \in FirstReads(r) /\ r[l].address = a.off
    BY <1>1, <1>2, SeedsAt
  <2>2. l \in Nat /\ l \in T
    BY <1>6, <2>1 DEF FirstReads
  <2>3. m <= l
    BY <1>7, <2>2
  <2>4. ~(m < l)
    BY <1>8, <2>1 DEF FirstReads
  <2> QED  BY <1>8, <2>2, <2>3, <2>4
<1>18. LastOf(Covering(SeedStores(r), x)) = m
  <2>1. PICK K : K = Covering(SeedStores(r), x)
    OBVIOUS
  <2>2. K = {m}
    BY <1>16, <1>17, <2>1
  <2>3. LastOf({m}) = m
    BY <1>8 DEF LastOf
  <2> QED  BY <2>1, <2>2, <2>3
<1>19. ByteOf(SeedStores(r), x) = r[m].value[x - r[m].address + 1]
  <2>1. SeedStores(r)[m] = r[m]
    BY <1>16, SeedStoresAre
  <2> QED  BY <1>18, <2>1 DEF ByteOf
<1>20. ~Held(mem, p, m, x)
  <2>1. m <= k
    BY <1>5, <1>7
  <2>2. m \in 1..(Len(AccessesIn(p)) + 1) /\ k \in 1..(Len(AccessesIn(p)) + 1)
    <3>1. Len(AccessesIn(p)) \in Nat
      BY AccessesAre DEF Traced, AccessesIn, History
    <3>2. m \in 1..Len(AccessesIn(p))
      BY <1>2, <1>8 DEF ReadsOf, AccessesIn
    <3> QED  BY <1>2, <3>1, <3>2
  <2> QED  BY <2>1, <2>2, HeldGrows
<1>21. r[m].value[x - r[m].address + 1] = Initial(x)
  BY <1>1, <1>2, <1>8, <1>14, <1>20, Fresh
<1>22. /\ x \in DOMAIN Stored(virtualMemory, SeedStores(r))
       /\ Stored(virtualMemory, SeedStores(r))[x] = ByteOf(SeedStores(r), x)
  <2>1. Covering(SeedStores(r), x) # {}
    BY <1>16
  <2> QED  BY <2>1, StoredIs
<1> QED  BY <1>1, <1>19, <1>21, <1>22

Replayable == Clean /\ Apart /\ TouchesWhole /\ TouchesOwnStack /\ ReadsWhatItWrote

LEMMA TraceStays ==
  ASSUME UNCHANGED traceVars
  PROVE  /\ Replayable' <=> Replayable
         /\ \A b : ReadsOf(b)' = ReadsOf(b)
         /\ \A i, k : AccessOf(i, k)' = AccessOf(i, k)
         /\ \A mem, i, k, x : Held(mem, i, k, x)' <=> Held(mem, i, k, x)
<1>1. program' = program /\ blocks' = blocks
  BY DEF traceVars
<1>2. Clean' <=> Clean
  BY <1>1 DEF Clean, Repeats, ByDataSomewhere, AllBlocks
<1>3. Touched' = Touched
  BY <1>1 DEF Touched, Accesses, AllBlocks
<1>4. \A t : Access(t)' = Access(t)
  BY <1>1 DEF Access, Accesses
<1>12. Apart' <=> Apart
  BY <1>1 DEF Apart, Accesses, Away, NativeAddress
<1>5. TouchesWhole' <=> TouchesWhole
  BY <1>3, <1>4 DEF TouchesWhole
<1>6. TouchesOwnStack' <=> TouchesOwnStack
  BY <1>3, <1>4 DEF TouchesOwnStack
<1>7. ReadsWhatItWrote' <=> ReadsWhatItWrote
  BY <1>3, <1>4 DEF ReadsWhatItWrote
<1>8. \A b : ReadsOf(b)' = ReadsOf(b)
  BY <1>1 DEF ReadsOf, Accesses
<1>9. \A i, k : AccessOf(i, k)' = AccessOf(i, k)
  BY <1>1 DEF AccessOf, AccessesIn, Accesses
<1>10. \A b, k : NativeStores(b, k)' = NativeStores(b, k)
  BY <1>1 DEF NativeStores, WritesBefore, Accesses, ValueWritten
<1>11. \A mem, i, k, x : Held(mem, i, k, x)' <=> Held(mem, i, k, x)
  BY <1>1, <1>10 DEF Held
<1> QED  BY <1>2, <1>5, <1>6, <1>7, <1>8, <1>9, <1>11, <1>12 DEF Replayable

LEMMA DefinedInductive ==
  ASSUME IInv, Defined, [Next]_vars
  PROVE  Defined'
<1>1. prepared \in Nat
  BY DEF IInv, Phases
<1>2. CASE PrepareBlock
  <2>1. PICK p \in Nat : p = prepared
    BY <1>1
  <2>2. /\ blocks' = blocks /\ prepared' = p + 1
        /\ definedAddresses' = definedAddresses
             \cup {blocks[p + 1].reads[k].address : k \in DOMAIN blocks[p + 1].reads}
    BY <1>2, <2>1 DEF PrepareBlock, traceVars
  <2>3. \A i : i \in 1..(p + 1) <=> i \in 1..p \/ i = p + 1
    OBVIOUS
  <2> QED  BY <2>1, <2>2, <2>3 DEF Defined
<1>3. CASE TraceBlock
  <2>1. prepared' = prepared /\ prepared = 0 /\ definedAddresses' = definedAddresses
    BY <1>3 DEF TraceBlock, prepareVars, IInv, Phases
  <2> QED  BY <2>1 DEF Defined
<1>4. CASE ~PrepareBlock /\ ~TraceBlock
  <2>1. prepared' = prepared /\ blocks' = blocks /\ definedAddresses' = definedAddresses
    BY <1>4 DEF Next, EmulateVmCode, RunEmulation, CallFunction, CallNothing, vars, prepareVars, traceVars
  <2> QED  BY <2>1 DEF Defined
<1> QED  BY <1>2, <1>3, <1>4

LEMMA SeedingStep ==
  ASSUME AllInv, Defined, NEW mem, History(mem), Replayable, Seeded(mem), PrepareBlock
  PROVE  Seeded(mem)'
<1>1. Traced /\ Apart /\ TouchesWhole
  BY DEF AllInv, IInv, TypeInv, HistInv, Traced, Replayable
<1>2. PICK p : p = prepared + 1 /\ p \in 1..Len(blocks) /\ prepared \in Nat
  BY BlocksAre, <1>1 DEF PrepareBlock, AllInv, IInv, Phases
<1>3. /\ prepared' = p /\ blocks' = blocks /\ ran' = ran /\ ran = <<>>
      /\ virtualMemory' = Stored(virtualMemory, SeedStores(blocks[p].reads))
      /\ UNCHANGED traceVars
  <2>1. ran = <<>>
    BY DEF AllInv, IInv, Phases, PrepareBlock
  <2> QED  BY <1>2, <2>1 DEF PrepareBlock, traceVars, runVars, SetVirtualMemoryValues, Memory, SeedStores
<1>4. Len(ran) = 0 /\ Len(ran') = 0
  BY <1>3
<1>5. ASSUME NEW i \in 1..p, NEW k \in ReadsOf(blocks[i].vip), ~AccessOf(i, k).vsp,
             NEW x \in PlacesOf(AccessOf(i, k)), ~Held(mem, i, k, x)
      PROVE  LET after == Stored(virtualMemory, SeedStores(blocks[p].reads))
             IN x \in DOMAIN after /\ after[x] = Initial(x)
  <2>1. i \in 1..Len(blocks)
    BY <1>1, <1>2, BlocksAre
  <2>2. PICK a : a = AccessOf(i, k) /\ a \in AnyAccess /\ k \in 1..Len(AccessesIn(i))
                 /\ DOMAIN blocks[i].reads = ReadsOf(blocks[i].vip)
                 /\ blocks[i].reads[k].address = NativeAddress(a)
    BY <1>1, <2>1, ReadsAre DEF Traced, AccessOf, AccessesIn
  <2>3. a.off \in Int /\ a.size \in Nat \ {0} /\ NativeAddress(a) = a.off
    BY <1>5, <2>2, AddressesAre
  <2>4. CASE i \in 1..prepared
    <3>1. a.off \in definedAddresses
      BY <2>2, <2>3, <2>4 DEF Defined
    <3>2. x \in DOMAIN virtualMemory /\ virtualMemory[x] = Initial(x)
      BY <1>4, <1>5, <2>4 DEF Seeded
    <3> QED  BY <1>1, <1>2, <1>5, <2>1, <2>2, <3>1, <3>2, SeedsKeep
  <2>5. CASE i = p /\ a.off \in definedAddresses
    <3>0. PICK j \in 1..prepared : \E l \in DOMAIN blocks[j].reads : blocks[j].reads[l].address = a.off
      BY <2>5 DEF Defined
    <3>1. PICK l \in DOMAIN blocks[j].reads : blocks[j].reads[l].address = a.off
      BY <3>0
    <3>2. j \in 1..Len(blocks) /\ j < i
      BY <1>1, <1>2, <2>5, BlocksAre
    <3>3. PICK c : /\ c \in AnyAccess /\ l \in ReadsOf(blocks[j].vip)
                   /\ c = AccessOf(j, l) /\ l \in 1..Len(AccessesIn(j))
                   /\ blocks[j].reads[l].size = c.size
      BY <1>1, <3>1, <3>2, ReadsAre DEF Traced, AccessOf, AccessesIn
    <3>4. a.off \in PlacesOf(a) /\ a.off \in Places(blocks[j].reads[l].address, blocks[j].reads[l].size)
      <4>1. c.size \in Nat \ {0}
        BY <3>3, AddressesAre
      <4> QED  BY <2>3, <3>1, <3>3, <4>1 DEF PlacesOf, Places
    <3>5. ~AccessOf(j, l).vsp /\ PlacesOf(AccessOf(j, l)) = PlacesOf(AccessOf(i, k))
      BY <1>1, <1>5, <2>1, <2>2, <3>2, <3>3, <3>4, ReadAt, SMTT(30)
    <3>6. ~Held(mem, j, l, x)
      <4>1. l \in 1..(Len(AccessesIn(j)) + 1) /\ k \in 1..(Len(AccessesIn(i)) + 1)
        <5>1. blocks[i].vip \in DOMAIN program /\ blocks[j].vip \in DOMAIN program
          BY <2>1, <3>2 DEF History
        <5>2. Len(AccessesIn(i)) \in Nat /\ Len(AccessesIn(j)) \in Nat
          BY <1>1, <5>1, AccessesAre DEF Traced, AccessesIn
        <5> QED  BY <2>2, <3>3, <5>2
      <4> QED  BY <1>1, <1>5, <2>1, <3>2, <4>1, HeldGrows
    <3>7. x \in DOMAIN virtualMemory /\ virtualMemory[x] = Initial(x)
      BY <1>4, <1>5, <3>3, <3>5, <3>6 DEF Seeded
    <3> QED  BY <1>1, <1>2, <1>5, <2>1, <2>2, <2>5, <3>7, SeedsKeep
  <2>6. CASE i = p /\ a.off \notin definedAddresses
    BY <1>1, <1>2, <1>5, <2>2, <2>6, SeedsPut
  <2>7. i \in 1..prepared \/ i = p
    BY <1>2
  <2> QED  BY <2>4, <2>5, <2>6, <2>7
<1>6. /\ \A b : ReadsOf(b)' = ReadsOf(b)
      /\ \A i, k : AccessOf(i, k)' = AccessOf(i, k)
      /\ \A i, k, x : Held(mem, i, k, x)' <=> Held(mem, i, k, x)
  BY <1>3, TraceStays
<1>7. PICK after : after = Stored(virtualMemory, SeedStores(blocks[p].reads))
  OBVIOUS
<1>8. \A i \in 1..p : \A k \in ReadsOf(blocks[i].vip) :
        ~AccessOf(i, k).vsp =>
          \A x \in PlacesOf(AccessOf(i, k)) :
            ~Held(mem, i, k, x) => x \in DOMAIN after /\ after[x] = Initial(x)
  BY <1>5, <1>7
<1>9. virtualMemory' = after /\ (Len(ran) + 1)' = 1
  BY <1>3, <1>4, <1>7
<1> QED
  <2> SUFFICES ASSUME NEW i \in 1..p, NEW k \in ReadsOf(blocks[i].vip)',
                      ~(AccessOf(i, k).vsp)', NEW x \in PlacesOf(AccessOf(i, k))',
                      ~Held(mem, i, k, x)'
               PROVE  x \in DOMAIN after /\ after[x] = Initial(x)
    BY <1>3, <1>9 DEF Seeded
  <2>1. ReadsOf(blocks[i].vip)' = ReadsOf(blocks[i].vip)
    BY <1>3, <1>6
  <2>2. AccessOf(i, k)' = AccessOf(i, k)
    BY <1>6
  <2>3. PlacesOf(AccessOf(i, k))' = PlacesOf(AccessOf(i, k))
    BY <2>2 DEF PlacesOf, Places
  <2> QED  BY <1>6, <1>8, <2>1, <2>2, <2>3

-----------------------------------------------------------------------------
(* The emulated memory: what the traced program had written by the end of  *)
(* a block has the same byte, at the same absolute address or at the same  *)
(* distance from VSP.                                                      *)
SameBytes(m) ==
  /\ \A x : IsAbsolute(x) /\ x \in DOMAIN m =>
       x \in DOMAIN virtualMemory /\ virtualMemory[x] = m[x]
  /\ \A y : IsRelative(y) /\ y + NativeVsp \in DOMAIN m =>
       y + EmulatedVsp \in DOMAIN stack /\ stack[y + EmulatedVsp] = m[y + NativeVsp]

LEMMA OwnStackIs ==
  ASSUME Traced, TouchesOwnStack, NEW mem, History(mem), NEW i \in 1..Len(blocks)
  PROVE  OwnStack(blocks[i].vip)
<1>1. PICK b : b = blocks[i].vip /\ b \in DOMAIN program
  BY DEF History
<1>2. ASSUME NEW l \in 1..Len(Accesses(b)), Accesses(b)[l].vsp
      PROVE  InStack(EmulatedAddress(Accesses(b)[l]), Accesses(b)[l].size)
  <2>1. l \in DOMAIN Accesses(b)
    BY <1>1, AccessesAre DEF Traced
  <2>2. <<i, l>> \in Touched
    BY <1>1, <2>1, BlocksAre DEF Touched, AllBlocks
  <2>3. Access(<<i, l>>) = Accesses(b)[l]
    BY <1>1 DEF Access
  <2> QED  BY <1>2, <2>2, <2>3 DEF TouchesOwnStack
<1> QED  BY <1>1, <1>2 DEF OwnStack

LEMMA AbsoluteByte ==
  ASSUME Apart, IsProgram, NEW b \in DOMAIN program, OwnStack(b),
         NEW k \in 1..(Len(Accesses(b)) + 1), NEW m, SameBytes(m), NEW x, IsAbsolute(x),
         x \in DOMAIN Stored(m, NativeStores(b, k))
  PROVE  /\ x \in DOMAIN MemoryBefore(b, k).virtual
         /\ MemoryBefore(b, k).virtual[x] = Stored(m, NativeStores(b, k))[x]
<1>1. x \in Int
  <2>0. PICK c \in DOMAIN program :
          \E l \in 1..Len(Accesses(c)) : ~Accesses(c)[l].vsp /\ x \in PlacesOf(Accesses(c)[l])
    BY DEF IsAbsolute
  <2>1. PICK l \in 1..Len(Accesses(c)) : x \in PlacesOf(Accesses(c)[l])
    BY <2>0
  <2> QED  BY <2>1, AccessesAre, AddressesAre
<1>2. PICK f, g : f = NativeStores(b, k) /\ g = VirtualStores(b, k)
  OBVIOUS
<1>3. /\ Covering(f, x) = WritesAt(b, k, FALSE, x)
      /\ WritesAt(b, k, FALSE, x) # {} => ByteOf(f, x) = ByteWritten(b, k, FALSE, x)
  BY <1>2, NativeAbsolute
<1>4. /\ Covering(g, x) = WritesAt(b, k, FALSE, x)
      /\ WritesAt(b, k, FALSE, x) # {} => ByteOf(g, x) = ByteWritten(b, k, FALSE, x)
  BY <1>1, <1>2, VirtualAbsolute
<1>5. x \in DOMAIN m => x \in DOMAIN virtualMemory /\ virtualMemory[x] = m[x]
  BY DEF SameBytes
<1>6. MemoryBefore(b, k).virtual = Stored(virtualMemory, g)
  BY <1>2, MemoryIs
<1>7. x \in DOMAIN Stored(virtualMemory, g) /\ Stored(virtualMemory, g)[x] = Stored(m, f)[x]
  <2>1. (Covering(f, x) = {}) <=> (Covering(g, x) = {})
    BY <1>3, <1>4
  <2>2. Covering(f, x) # {} => ByteOf(f, x) = ByteOf(g, x)
    BY <1>3, <1>4
  <2>3. x \in DOMAIN Stored(m, f)
    BY <1>2
  <2>4. CASE Covering(f, x) = {}
    <3>1. x \in DOMAIN m /\ Stored(m, f)[x] = m[x]
      BY <2>3, <2>4, StoredIs
    <3>2. x \in DOMAIN Stored(virtualMemory, g) /\ Stored(virtualMemory, g)[x] = virtualMemory[x]
      BY <1>5, <2>1, <2>4, <3>1, StoredIs
    <3> QED  BY <1>5, <3>1, <3>2
  <2>5. CASE Covering(f, x) # {}
    <3>1. Stored(m, f)[x] = ByteOf(f, x)
      BY <2>5, StoredIs
    <3>2. x \in DOMAIN Stored(virtualMemory, g) /\ Stored(virtualMemory, g)[x] = ByteOf(g, x)
      BY <2>1, <2>5, StoredIs
    <3> QED  BY <2>2, <2>5, <3>1, <3>2
  <2> QED  BY <2>4, <2>5
<1> QED  BY <1>2, <1>6, <1>7

LEMMA RelativeByte ==
  ASSUME Apart, IsProgram, NEW b \in DOMAIN program, OwnStack(b),
         NEW k \in 1..(Len(Accesses(b)) + 1), NEW m, SameBytes(m), NEW y, IsRelative(y),
         y + NativeVsp \in DOMAIN Stored(m, NativeStores(b, k))
  PROVE  /\ y + EmulatedVsp \in DOMAIN MemoryBefore(b, k).stack
         /\ MemoryBefore(b, k).stack[y + EmulatedVsp] = Stored(m, NativeStores(b, k))[y + NativeVsp]
<1>1. y \in Int
  <2>0. PICK c \in DOMAIN program :
          \E l \in 1..Len(Accesses(c)) : Accesses(c)[l].vsp /\ y \in PlacesOf(Accesses(c)[l])
    BY DEF IsRelative
  <2>1. PICK l \in 1..Len(Accesses(c)) : y \in PlacesOf(Accesses(c)[l])
    BY <2>0
  <2> QED  BY <2>1, AccessesAre, AddressesAre
<1>2. PICK f, g : f = NativeStores(b, k) /\ g = VectorStores(b, k)
  OBVIOUS
<1>3. PICK x, z : x = y + NativeVsp /\ z = y + EmulatedVsp
  OBVIOUS
<1>4. /\ Covering(f, x) = WritesAt(b, k, TRUE, y)
      /\ WritesAt(b, k, TRUE, y) # {} => ByteOf(f, x) = ByteWritten(b, k, TRUE, y)
  BY <1>2, <1>3, NativeRelative
<1>5. /\ Covering(g, z) = WritesAt(b, k, TRUE, y)
      /\ WritesAt(b, k, TRUE, y) # {} => ByteOf(g, z) = ByteWritten(b, k, TRUE, y)
  BY <1>1, <1>2, <1>3, VectorRelative
<1>6. x \in DOMAIN m => z \in DOMAIN stack /\ stack[z] = m[x]
  BY <1>3 DEF SameBytes
<1>7. MemoryBefore(b, k).stack = Stored(stack, g)
  BY <1>2, MemoryIs
<1>8. x \in DOMAIN Stored(m, f)
  BY <1>2, <1>3
<1>9. z \in DOMAIN Stored(stack, g) /\ Stored(stack, g)[z] = Stored(m, f)[x]
  <2>1. (Covering(f, x) = {}) <=> (Covering(g, z) = {})
    BY <1>4, <1>5
  <2>2. Covering(f, x) # {} => ByteOf(f, x) = ByteOf(g, z)
    BY <1>4, <1>5
  <2>3. CASE Covering(f, x) = {}
    <3>1. x \in DOMAIN m /\ Stored(m, f)[x] = m[x]
      BY <1>8, <2>3, StoredIs
    <3>2. z \in DOMAIN Stored(stack, g) /\ Stored(stack, g)[z] = stack[z]
      BY <1>6, <2>1, <2>3, <3>1, StoredIs
    <3> QED  BY <1>6, <3>1, <3>2
  <2>4. CASE Covering(f, x) # {}
    <3>1. Stored(m, f)[x] = ByteOf(f, x)
      BY <2>4, StoredIs
    <3>2. z \in DOMAIN Stored(stack, g) /\ Stored(stack, g)[z] = ByteOf(g, z)
      BY <2>1, <2>4, StoredIs
    <3> QED  BY <2>2, <2>4, <3>1, <3>2
  <2> QED  BY <2>3, <2>4
<1> QED  BY <1>2, <1>3, <1>7, <1>9

(* An absolute read finds the byte written or the one put there.           *)
LEMMA AbsoluteObserved ==
  ASSUME Apart, Traced, TouchesOwnStack, NEW mem, History(mem), Seeded(mem),
         NEW i \in 1..Len(blocks), i \in (Len(ran) + 1)..prepared, SameBytes(mem[i - 1]),
         NEW k \in ReadsOf(blocks[i].vip), ~AccessOf(i, k).vsp
  PROVE  EmulatedRead(blocks[i].vip, k) = blocks[i].reads[k].value
<1>1. PICK b, m, a : b = blocks[i].vip /\ m = mem[i - 1] /\ a = Accesses(b)[k]
  OBVIOUS
<1>2. IsProgram /\ b \in DOMAIN program /\ OwnStack(b) /\ k \in 1..Len(Accesses(b)) /\ a \in AnyAccess
      /\ blocks[i].reads[k] = NativeRead(m, b, k)
      /\ blocks[i].reads[k].address = NativeAddress(a) /\ blocks[i].reads[k].size = a.size
  BY <1>1, ReadsAre, OwnStackIs DEF Traced
<1>3. Len(Accesses(b)) \in Nat /\ k \in 1..(Len(Accesses(b)) + 1)
  BY <1>2, AccessesAre
<1>4. PICK o, n : o = a.off /\ n = a.size /\ o \in Int /\ n \in Nat
                  /\ NativeAddress(a) = o /\ EmulatedAddress(a) = o /\ ~a.vsp
  BY <1>1, <1>2, AddressesAre DEF AccessOf, AccessesIn
<1>5. PICK f, v : f = Stored(m, NativeStores(b, k)) /\ v = MemoryBefore(b, k).virtual
  OBVIOUS
<1>6. ~InStack(o, n)
  BY <1>1, <1>2, <1>4, ApartIs
<1>7. EmulatedRead(b, k) = Loaded(v, o, Zeros(n))
  BY <1>1, <1>4, <1>5, <1>6 DEF EmulatedRead, GetVirtualMemoryValue
<1>8. blocks[i].reads[k].value = Loaded(f, o, Initials(o, n))
  BY <1>1, <1>2, <1>4, <1>5 DEF NativeRead
<1>9. ASSUME NEW j \in 1..n
      PROVE  Loaded(v, o, Zeros(n))[j] = Loaded(f, o, Initials(o, n))[j]
  <2>1. PICK x : x = o + j - 1 /\ x \in PlacesOf(a)
    BY <1>4, SMTT(30) DEF PlacesOf, Places
  <2>2. IsAbsolute(x)
    BY <1>1, <1>2, <1>4, <2>1 DEF IsAbsolute
  <2>3. CASE x \in DOMAIN f
    <3>1. x \in DOMAIN v /\ v[x] = f[x]
      BY <1>1, <1>2, <1>3, <1>5, <2>2, <2>3, AbsoluteByte
    <3> QED  BY <1>4, <2>1, <2>3, <3>1, LoadedIs
  <2>4. CASE x \notin DOMAIN f
    <3>1. x \notin DOMAIN m /\ Covering(NativeStores(b, k), x) = {}
      BY <1>5, <2>4, StoredIs
    <3>2. ~Held(mem, i, k, x)
      BY <1>1, <3>1 DEF Held
    <3>3. x \in DOMAIN virtualMemory /\ virtualMemory[x] = Initial(x)
      BY <1>1, <2>1, <3>2 DEF Seeded, AccessOf, AccessesIn
    <3>4. Covering(VirtualStores(b, k), x) = {}
      <4>1. x \in Int
        BY <1>4, <2>1
      <4>2. Covering(NativeStores(b, k), x) = WritesAt(b, k, FALSE, x)
        BY <1>2, <1>3, <2>2, NativeAbsolute
      <4>3. Covering(VirtualStores(b, k), x) = WritesAt(b, k, FALSE, x)
        BY <1>2, <1>3, <4>1, VirtualAbsolute
      <4> QED  BY <3>1, <4>2, <4>3
    <3>5. v = Stored(virtualMemory, VirtualStores(b, k))
      BY <1>2, <1>3, <1>5, MemoryIs
    <3>6. x \in DOMAIN v /\ v[x] = Initial(x)
      BY <3>3, <3>4, <3>5, StoredIs
    <3> QED  BY <1>4, <2>1, <2>4, <3>6, LoadedIs
  <2> QED  BY <2>3, <2>4
<1>10. Loaded(v, o, Zeros(n)) = Loaded(f, o, Initials(o, n))
  <2>1. /\ DOMAIN Loaded(v, o, Zeros(n)) = 1..n
        /\ DOMAIN Loaded(f, o, Initials(o, n)) = 1..n
    BY <1>4, LoadedIs
  <2> QED  BY <1>9, <2>1 DEF Loaded
<1> QED  BY <1>1, <1>7, <1>8, <1>10

(* A read relative to VSP finds what the code itself has written.          *)
LEMMA OwnBytesHeld ==
  ASSUME Apart, Traced, ReadsWhatItWrote, NEW mem, History(mem), NEW i \in 1..Len(blocks),
         NEW k \in ReadsOf(blocks[i].vip), AccessOf(i, k).vsp, NEW y \in PlacesOf(AccessOf(i, k))
  PROVE  Held(mem, i, k, y + NativeVsp)
<1>1. blocks[i].vip \in DOMAIN program /\ k \in 1..Len(AccessesIn(i)) /\ ~AccessOf(i, k).write
  BY ReadsAre DEF Traced, AccessesIn, AccessOf, ReadsOf
<1>2. <<i, k>> \in Touched /\ Access(<<i, k>>) = AccessOf(i, k)
  <2>1. k \in DOMAIN AccessesIn(i)
    BY <1>1, AccessesAre DEF Traced, AccessesIn
  <2> QED  BY <2>1, BlocksAre DEF Touched, AllBlocks, AccessesIn, Access, AccessOf
<1>3. PICK s \in Touched :
        /\ Access(s).write /\ Access(s).vsp
        /\ s[1] < i \/ (s[1] = i /\ s[2] < k)
        /\ y \in PlacesOf(Access(s))
  BY <1>1, <1>2 DEF ReadsWhatItWrote, PlacesOf, Places
<1>4. PICK j, l : j = s[1] /\ l = s[2] /\ j \in 1..Len(blocks) /\ l \in 1..Len(AccessesIn(j))
                  /\ Access(s) = AccessOf(j, l)
  <2>0. PICK j \in DOMAIN blocks : s \in {<<j, l>> : l \in DOMAIN Accesses(blocks[j].vip)}
    BY DEF Touched, AllBlocks
  <2>1. PICK l \in DOMAIN AccessesIn(j) : s = <<j, l>>
    BY <2>0 DEF AccessesIn
  <2>2. j \in 1..Len(blocks)
    BY BlocksAre
  <2>3. blocks[j].vip \in DOMAIN program
    BY <2>2 DEF History
  <2>4. l \in 1..Len(AccessesIn(j))
    BY <2>1, <2>3, AccessesAre DEF Traced, AccessesIn
  <2>5. Access(s) = AccessOf(j, l)
    BY <2>1 DEF Access, AccessOf, AccessesIn
  <2> QED  BY <2>1, <2>2, <2>4, <2>5
<1>5. PICK b : b = blocks[j].vip /\ b \in DOMAIN program /\ IsProgram
  BY <1>4 DEF History, Traced
<1>6. Len(Accesses(b)) \in Nat /\ Accesses(b) = AccessesIn(j)
  BY <1>5, AccessesAre DEF AccessesIn
<1>7. PICK q : q = l + 1 /\ q \in 1..(Len(Accesses(b)) + 1) /\ l \in 1..(q - 1)
  <2>1. PICK n \in Nat : n = Len(Accesses(b))
    BY <1>6
  <2>2. l \in 1..n
    BY <1>4, <1>6, <2>1
  <2>3. l + 1 \in 1..(n + 1) /\ l \in 1..(l + 1 - 1)
    BY <2>2
  <2> QED  BY <2>1, <2>3
<1>8. AccessOf(j, l) = Accesses(b)[l] /\ Accesses(b)[l].vsp \in BOOLEAN
  <2>1. Accesses(b)[l] \in AnyAccess
    BY <1>4, <1>5, <1>6, AccessesAre
  <2> QED  BY <1>6, <2>1, AddressesAre DEF AccessOf
<1>9. l \in WritesAt(b, q, TRUE, y)
  BY <1>3, <1>4, <1>7, <1>8 DEF WritesAt, WritesBefore
<1>10. IsRelative(y)
  BY <1>3, <1>4, <1>5, <1>6, <1>8 DEF IsRelative
<1>11. Covering(NativeStores(b, q), y + NativeVsp) # {}
  BY <1>5, <1>7, <1>9, <1>10, NativeRelative
<1>12. PICK x : x = y + NativeVsp
  OBVIOUS
<1>13. Held(mem, j, q, x)
  BY <1>5, <1>11, <1>12 DEF Held
<1>14. j < i \/ (j = i /\ q <= k)
  BY <1>1, <1>3, <1>4, <1>7
<1>15. k \in 1..(Len(AccessesIn(i)) + 1)
  <2>1. Len(AccessesIn(i)) \in Nat
    BY <1>1, AccessesAre DEF AccessesIn, Traced
  <2> QED  BY <1>1, <2>1
<1>16. q \in 1..(Len(AccessesIn(j)) + 1)
  BY <1>6, <1>7
<1>17. Held(mem, i, k, x)
  BY <1>4, <1>13, <1>14, <1>15, <1>16, HeldGrows
<1> QED  BY <1>12, <1>17

LEMMA RelativeObserved ==
  ASSUME Apart, Traced, TouchesOwnStack, ReadsWhatItWrote, NEW mem, History(mem),
         NEW i \in 1..Len(blocks), SameBytes(mem[i - 1]),
         NEW k \in ReadsOf(blocks[i].vip), AccessOf(i, k).vsp
  PROVE  EmulatedRead(blocks[i].vip, k) = blocks[i].reads[k].value
<1>1. PICK b, m, a : b = blocks[i].vip /\ m = mem[i - 1] /\ a = Accesses(b)[k]
  OBVIOUS
<1>2. IsProgram /\ b \in DOMAIN program /\ OwnStack(b) /\ k \in 1..Len(Accesses(b)) /\ a \in AnyAccess
      /\ blocks[i].reads[k] = NativeRead(m, b, k)
      /\ blocks[i].reads[k].address = NativeAddress(a) /\ blocks[i].reads[k].size = a.size
  BY <1>1, ReadsAre, OwnStackIs DEF Traced
<1>3. Len(Accesses(b)) \in Nat /\ k \in 1..(Len(Accesses(b)) + 1)
  BY <1>2, AccessesAre
<1>4. /\ a.off \in Int /\ a.size \in Nat /\ a.vsp /\ NativeVsp \in Int /\ EmulatedVsp \in Int
      /\ NativeAddress(a) = a.off + NativeVsp /\ EmulatedAddress(a) = a.off + EmulatedVsp
  BY <1>1, <1>2, AddressesAre DEF AccessOf, AccessesIn
<1>5. PICK f, v : f = Stored(m, NativeStores(b, k)) /\ v = MemoryBefore(b, k).stack
  OBVIOUS
<1>6. PICK s, e, n : s = NativeAddress(a) /\ e = EmulatedAddress(a) /\ n = a.size
  OBVIOUS
<1>7. n \in Nat /\ s \in Int /\ e \in Int
  BY <1>4, <1>6
<1>8. InStack(e, n)
  BY <1>1, <1>2, <1>4, <1>6 DEF OwnStack
<1>9. EmulatedRead(b, k) = Loaded(v, e, Zeros(n))
  BY <1>1, <1>5, <1>6, <1>8 DEF EmulatedRead, GetVirtualMemoryValue
<1>10. blocks[i].reads[k].value = Loaded(f, s, Initials(s, n))
  BY <1>1, <1>2, <1>5, <1>6 DEF NativeRead
<1>11. ASSUME NEW j \in 1..n
       PROVE  Loaded(v, e, Zeros(n))[j] = Loaded(f, s, Initials(s, n))[j]
  <2>1. PICK y : y = a.off + j - 1 /\ y \in PlacesOf(a) /\ y \in Int
    BY <1>4, <1>6, SMTT(30) DEF PlacesOf, Places
  <2>2. s + j - 1 = y + NativeVsp /\ e + j - 1 = y + EmulatedVsp
    BY <1>4, <1>6, <2>1
  <2>3. IsRelative(y)
    BY <1>1, <1>2, <1>4, <2>1 DEF IsRelative
  <2>4. Held(mem, i, k, y + NativeVsp)
    BY <1>1, <2>1, OwnBytesHeld DEF AccessOf, AccessesIn
  <2>5. y + NativeVsp \in DOMAIN f
    BY <1>1, <1>5, <2>4, StoredIs DEF Held
  <2>6. y + EmulatedVsp \in DOMAIN v /\ v[y + EmulatedVsp] = f[y + NativeVsp]
    BY <1>1, <1>2, <1>3, <1>5, <2>3, <2>5, RelativeByte
  <2>7. PICK t, u : t = s + j - 1 /\ u = e + j - 1
    OBVIOUS
  <2>8. t \in DOMAIN f /\ u \in DOMAIN v /\ v[u] = f[t]
    BY <2>2, <2>5, <2>6, <2>7
  <2>9. Loaded(v, e, Zeros(n))[j] = v[u]
    BY <1>7, <2>7, <2>8, LoadedIs
  <2>10. Loaded(f, s, Initials(s, n))[j] = f[t]
    BY <1>7, <2>7, <2>8, LoadedIs
  <2> QED  BY <2>8, <2>9, <2>10
<1>12. Loaded(v, e, Zeros(n)) = Loaded(f, s, Initials(s, n))
  <2>1. /\ DOMAIN Loaded(v, e, Zeros(n)) = 1..n
        /\ DOMAIN Loaded(f, s, Initials(s, n)) = 1..n
    BY <1>7, LoadedIs
  <2> QED  BY <1>11, <2>1 DEF Loaded
<1> QED  BY <1>1, <1>9, <1>10, <1>12

(* After a function its block's stores are in both memories.               *)
LEMMA BytesFollow ==
  ASSUME Apart, Traced, TouchesOwnStack, NEW mem, History(mem), NEW i \in 1..Len(blocks),
         SameBytes(mem[i - 1]), CallFunction, currentFunction = i
  PROVE  SameBytes(mem[i])'
<1>1. PICK b, m, q : b = blocks[i].vip /\ m = mem[i - 1] /\ q = Len(Accesses(b)) + 1
  OBVIOUS
<1>2. IsProgram /\ b \in DOMAIN program /\ OwnStack(b) /\ mem[i] = Stored(m, NativeStores(b, q))
  BY <1>1, OwnStackIs DEF Traced, History, After
<1>3. q \in 1..(Len(Accesses(b)) + 1)
  BY <1>1, <1>2, AccessesAre
<1>4. program' = program /\ virtualMemory' = MemoryBefore(b, q).virtual
      /\ stack' = MemoryBefore(b, q).stack
  BY <1>1 DEF CallFunction, traceVars
<1>5. \A x : (IsAbsolute(x)' <=> IsAbsolute(x)) /\ (IsRelative(x)' <=> IsRelative(x))
  BY <1>4 DEF IsAbsolute, IsRelative, Accesses, PlacesOf, Places
<1>6. PICK f : f = Stored(m, NativeStores(b, q)) /\ mem[i] = f
  BY <1>2
<1>7. ASSUME NEW x, IsAbsolute(x), x \in DOMAIN f
      PROVE  x \in DOMAIN virtualMemory' /\ virtualMemory'[x] = f[x]
  BY <1>1, <1>2, <1>3, <1>4, <1>6, <1>7, AbsoluteByte
<1>8. ASSUME NEW y, IsRelative(y), y + NativeVsp \in DOMAIN f
      PROVE  y + EmulatedVsp \in DOMAIN stack' /\ stack'[y + EmulatedVsp] = f[y + NativeVsp]
  BY <1>1, <1>2, <1>3, <1>4, <1>6, <1>8, RelativeByte
<1>9. SameBytes(f)'
  BY <1>5, <1>7, <1>8 DEF SameBytes, EmulatedVsp
<1> QED  BY <1>6, <1>9

LEMMA RunningFollows ==
  ASSUME AllInv, Replayable, NEW mem, History(mem), Seeded(mem), SameBytes(mem[Len(ran)]),
         CallFunction
  PROVE  /\ Seeded(mem)' /\ SameBytes(mem[Len(ran)])'
         /\ observed' = Recorded(Last(ran'))
<1>1. Traced /\ Apart /\ TouchesOwnStack /\ ReadsWhatItWrote /\ Clean
  BY DEF AllInv, IInv, TypeInv, HistInv, Traced, Replayable
<1>2. PICK k \in Nat : ran = UpTo(k) /\ currentFunction = k + 1
  BY <1>1 DEF AllInv, OrderInv, RanInOrder, CallFunction
<1>3. PICK i : i = k + 1 /\ i \in 1..Len(blocks) /\ k = i - 1 /\ currentFunction = i
  <2>1. currentFunction \in 1..Len(blocks)
    BY <1>1, BlocksAre DEF CallFunction, Exists
  <2> QED  BY <1>2, <2>1
<1>4. Len(ran) = k
  BY <1>2, UpToFacts
<1>5. ran' = UpTo(i) /\ Len(ran') = i /\ Last(ran') = i
  <2>1. ran' = UpTo(i)
    BY <1>2, <1>3, UpToNext DEF CallFunction
  <2>2. Len(UpTo(i)) = i /\ UpTo(i)[i] = i
    BY <1>2, <1>3, UpToFacts
  <2> QED  BY <2>1, <2>2 DEF Last
<1>6. prepared = Len(blocks) /\ Len(blocks) \in Nat
  BY <1>1, BlocksAre DEF AllInv, IInv, Phases, CallFunction
<1>7. SameBytes(mem[i - 1])
  BY <1>3, <1>4
<1>8. SameBytes(mem[Len(ran)])'
  <2>1. SameBytes(mem[i])'
    BY <1>1, <1>3, <1>7, BytesFollow
  <2> QED  BY <1>5, <2>1 DEF SameBytes
<1>9. PICK b : b = blocks[i].vip /\ b \in DOMAIN program /\ DOMAIN blocks[i].reads = ReadsOf(b)
               /\ IsProgram
  BY <1>1, <1>3, ReadsAre DEF Traced
<1>10. observed' = Recorded(i)
  <2>1. observed' = [l \in ReadsOf(b) |-> EmulatedRead(b, l)]
    BY <1>3, <1>9 DEF CallFunction
  <2>2. ASSUME NEW l \in ReadsOf(b)
        PROVE  EmulatedRead(b, l) = blocks[i].reads[l].value
    <3>1. CASE AccessOf(i, l).vsp
      BY <1>1, <1>3, <1>7, <1>9, <3>1, RelativeObserved
    <3>2. CASE ~AccessOf(i, l).vsp
      <4>1. i \in (Len(ran) + 1)..prepared
        BY <1>3, <1>4, <1>6
      <4> QED  BY <1>1, <1>3, <1>7, <1>9, <3>2, <4>1, AbsoluteObserved
    <3> QED  BY <3>1, <3>2
  <2> QED  BY <1>9, <2>1, <2>2 DEF Recorded
<1>11. PICK q : q = Len(Accesses(b)) + 1 /\ q \in 1..(Len(Accesses(b)) + 1) /\ Accesses(b) = AccessesIn(i)
                /\ OwnStack(b)
  BY <1>1, <1>3, <1>9, AccessesAre, OwnStackIs DEF AccessesIn
<1>12. virtualMemory' = Stored(virtualMemory, VirtualStores(b, q))
  <2>1. virtualMemory' = MemoryBefore(b, q).virtual
    BY <1>3, <1>9, <1>11 DEF CallFunction
  <2> QED  BY <1>9, <1>11, <2>1, MemoryIs
<1>13. ASSUME NEW j \in (i + 1)..prepared, NEW l \in ReadsOf(blocks[j].vip), ~AccessOf(j, l).vsp,
              NEW x \in PlacesOf(AccessOf(j, l)), ~Held(mem, j, l, x)
       PROVE  x \in DOMAIN virtualMemory' /\ virtualMemory'[x] = Initial(x)
  <2>1. j \in 1..Len(blocks) /\ i < j /\ j \in (Len(ran) + 1)..prepared
    BY <1>3, <1>4, <1>6
  <2>2. x \in DOMAIN virtualMemory /\ virtualMemory[x] = Initial(x)
    BY <1>13, <2>1 DEF Seeded
  <2>3. PICK c : c = blocks[j].vip /\ c \in DOMAIN program /\ l \in 1..Len(Accesses(c))
                 /\ Accesses(c) = AccessesIn(j)
    BY <1>1, <2>1, ReadsAre DEF Traced, AccessesIn
  <2>4. x \in Int /\ IsAbsolute(x) /\ l \in 1..(Len(AccessesIn(j)) + 1)
    <3>1. Accesses(c)[l] \in AnyAccess /\ Len(Accesses(c)) \in Nat
      BY <1>9, <2>3, AccessesAre
    <3>2. AccessOf(j, l) = Accesses(c)[l]
      BY <2>3 DEF AccessOf
    <3>3. x \in Int
      BY <3>1, <3>2, AddressesAre
    <3>4. IsAbsolute(x)
      BY <1>13, <2>3, <3>2 DEF IsAbsolute
    <3> QED  BY <2>3, <3>1, <3>3, <3>4
  <2>5. ~Held(mem, i, q, x)
    BY <1>1, <1>3, <1>11, <1>13, <2>1, <2>4, HeldGrows
  <2>6. Covering(NativeStores(b, q), x) = {}
    BY <1>9, <2>5 DEF Held
  <2>7. Covering(NativeStores(b, q), x) = WritesAt(b, q, FALSE, x)
    BY <1>1, <1>9, <1>11, <2>4, NativeAbsolute
  <2>8. Covering(VirtualStores(b, q), x) = WritesAt(b, q, FALSE, x)
    BY <1>1, <1>9, <1>11, <2>4, VirtualAbsolute
  <2>9. Covering(VirtualStores(b, q), x) = {}
    BY <2>6, <2>7, <2>8
  <2> QED  BY <1>12, <2>2, <2>9, StoredIs
<1>14. UNCHANGED traceVars /\ prepared' = prepared /\ blocks' = blocks
  BY DEF CallFunction, prepareVars, traceVars
<1>15. /\ \A c : ReadsOf(c)' = ReadsOf(c)
       /\ \A j, l : AccessOf(j, l)' = AccessOf(j, l)
       /\ \A j, l, x : Held(mem, j, l, x)' <=> Held(mem, j, l, x)
  BY <1>14, TraceStays
<1>16. Seeded(mem)'
  <2> SUFFICES ASSUME NEW j \in (i + 1)..prepared, NEW l \in ReadsOf(blocks[j].vip)',
                      ~(AccessOf(j, l).vsp)', NEW x \in PlacesOf(AccessOf(j, l))',
                      ~Held(mem, j, l, x)'
               PROVE  x \in DOMAIN virtualMemory' /\ virtualMemory'[x] = Initial(x)
    BY <1>5, <1>14 DEF Seeded
  <2>1. ReadsOf(blocks[j].vip)' = ReadsOf(blocks[j].vip)
    BY <1>14, <1>15
  <2>2. AccessOf(j, l)' = AccessOf(j, l)
    BY <1>15
  <2>3. PlacesOf(AccessOf(j, l))' = PlacesOf(AccessOf(j, l))
    BY <2>2 DEF PlacesOf, Places
  <2> QED  BY <1>13, <1>15, <2>1, <2>2, <2>3
<1> QED  BY <1>5, <1>8, <1>10, <1>16

-----------------------------------------------------------------------------
(* Together: the memories follow the trace wherever it can be replayed.    *)
FollowInv ==
  /\ Defined
  /\ \E mem : History(mem) /\ (Replayable => Seeded(mem) /\ SameBytes(mem[Len(ran)]))
  /\ ran # <<>> /\ Replayable => observed = Recorded(Last(ran))

LEMMA FollowInductive ==
  ASSUME AllInv, AllInv', FollowInv, [Next]_vars
  PROVE  FollowInv'
<1>1. Defined'
  BY DefinedInductive DEF FollowInv, AllInv
<1>2. PICK mem : History(mem) /\ (Replayable => Seeded(mem) /\ SameBytes(mem[Len(ran)]))
  BY DEF FollowInv
<1>3. CASE TraceBlock
  <2>1. phase' = "trace" /\ ran' = <<>>
    BY <1>3 DEF TraceBlock, AllInv, IInv, Phases, runVars
  <2>2. PICK m2 : History(m2)'
    BY DEF AllInv, TypeInv, HistInv
  <2>3. Seeded(m2)' /\ SameBytes(m2[Len(ran)])'
    <3>1. prepared' = 0 /\ Len(ran') = 0
      BY <2>1, <1>3 DEF TraceBlock, AllInv, IInv, Phases, prepareVars
    <3>2. Seeded(m2)'
      BY <3>1 DEF Seeded
    <3>3. DOMAIN m2[Len(ran')] = {}
      BY <2>2, <3>1 DEF History, NoBytes
    <3> QED  BY <3>2, <3>3 DEF SameBytes
  <2> QED  BY <1>1, <2>1, <2>2, <2>3 DEF FollowInv
<1>4. CASE ~TraceBlock
  <2>1. UNCHANGED traceVars
    BY <1>4 DEF Next, EmulateVmCode, PrepareBlock, RunEmulation, CallFunction, CallNothing, vars
  <2>2. History(mem)' /\ (Replayable' <=> Replayable)
    BY <1>2, <2>1, HistoryStays, TraceStays
  <2>3. ASSUME Replayable PROVE Seeded(mem)' /\ SameBytes(mem[Len(ran)])'
    <3>1. CASE PrepareBlock
      <4>1. ran' = ran /\ ran = <<>> /\ Len(ran') = 0
        BY <3>1 DEF PrepareBlock, AllInv, IInv, Phases, runVars
      <4>2. mem[Len(ran')] = NoBytes
        BY <1>2, <4>1 DEF History
      <4>3. SameBytes(mem[Len(ran)])'
        <5>1. DOMAIN mem[Len(ran')] = {}
          BY <4>2 DEF NoBytes
        <5> QED  BY <5>1 DEF SameBytes
      <4>4. Seeded(mem)'
        BY <1>2, <2>3, <3>1, SeedingStep DEF FollowInv
      <4> QED  BY <4>3, <4>4
    <3>2. CASE CallFunction
      BY <1>2, <2>3, <3>2, RunningFollows
    <3>3. CASE ~PrepareBlock /\ ~CallFunction
      <4>1. /\ prepared' = prepared /\ ran' = ran /\ virtualMemory' = virtualMemory /\ stack' = stack
            /\ blocks' = blocks /\ program' = program
        BY <1>4, <2>1, <3>3 DEF Next, EmulateVmCode, RunEmulation, CallNothing, vars, prepareVars, runVars, traceVars
      <4>2. Seeded(mem) /\ SameBytes(mem[Len(ran)])
        BY <1>2, <2>3
      <4>3. Seeded(mem)'
        <5>1. /\ \A c : ReadsOf(c)' = ReadsOf(c)
              /\ \A j, l : AccessOf(j, l)' = AccessOf(j, l)
              /\ \A j, l, x : Held(mem, j, l, x)' <=> Held(mem, j, l, x)
          BY <2>1, TraceStays
        <5> QED  BY <4>1, <4>2, <5>1 DEF Seeded, PlacesOf, Places
      <4>4. SameBytes(mem[Len(ran)])'
        <5>1. \A x : (IsAbsolute(x)' <=> IsAbsolute(x)) /\ (IsRelative(x)' <=> IsRelative(x))
          BY <4>1 DEF IsAbsolute, IsRelative, Accesses, PlacesOf, Places
        <5> QED  BY <4>1, <4>2, <5>1 DEF SameBytes, EmulatedVsp
      <4> QED  BY <4>3, <4>4
    <3> QED  BY <3>1, <3>2, <3>3
  <2>4. ASSUME ran' # <<>>, Replayable PROVE observed' = Recorded(Last(ran))'
    <3>1. blocks' = blocks
      BY <2>1 DEF traceVars
    <3>2. Recorded(Last(ran))' = Recorded(Last(ran'))
      BY <3>1 DEF Recorded, Last
    <3>3. CASE CallFunction
      BY <1>2, <2>4, <3>2, <3>3, RunningFollows
    <3>4. CASE ~CallFunction
      <4>1. ran' = ran /\ observed' = observed
        BY <1>4, <3>4 DEF Next, EmulateVmCode, PrepareBlock, RunEmulation, CallNothing, vars, runVars
      <4> QED  BY <2>4, <3>2, <4>1 DEF FollowInv
    <3> QED  BY <3>3, <3>4
  <2> QED  BY <1>1, <2>2, <2>3, <2>4 DEF FollowInv
<1> QED  BY <1>3, <1>4

(* Where no jump repeats and no target is computed, absolute accesses that *)
(* overlap are to the same bytes and lie in neither stack, and the stack   *)
(* is read where the code pushed, every function reads from the emulated   *)
(* memory what its block read in the traced program.                       *)
THEOREM AlwaysReplaysReads == Spec => []ReplayReads
<1>1. Init => FollowInv
  <2> SUFFICES ASSUME Init PROVE FollowInv
    OBVIOUS
  <2>1. AllInv
    <3>1. FunctionFollows /\ PhaseIs
      BY DEF Init, FunctionFollows, PhaseIs
    <3> QED  BY <3>1, Starting, OrderStarts, HistoryStarts DEF AllInv, TypeInv
  <2>2. phase = "trace" /\ ran = <<>> /\ prepared = 0 /\ definedAddresses = {}
    BY DEF Init
  <2>3. Defined
    BY <2>2 DEF Defined
  <2>4. PICK mem : History(mem)
    BY <2>1 DEF AllInv, TypeInv, HistInv
  <2>5. Seeded(mem) /\ SameBytes(mem[Len(ran)])
    <3>1. Seeded(mem)
      BY <2>2 DEF Seeded
    <3>2. DOMAIN mem[Len(ran)] = {}
      BY <2>2, <2>4 DEF History, NoBytes
    <3> QED  BY <3>1, <3>2 DEF SameBytes
  <2> QED  BY <2>2, <2>3, <2>4, <2>5 DEF FollowInv
<1>2. AllInv /\ AllInv' /\ FollowInv /\ [Next]_vars => FollowInv'
  BY FollowInductive
<1>3. FollowInv => ReplayReads
  <2>1. (ran # <<>> /\ Replayable => observed = Recorded(Last(ran))) => ReplayReads
    BY DEF ReplayReads, Replayable, Clean
  <2> QED  BY <2>1 DEF FollowInv
<1> QED  BY <1>1, <1>2, <1>3, AllInductive, PTL DEF Spec
=============================================================================
