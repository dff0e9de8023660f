-------------------------- MODULE TraceLifterProofs --------------------------
(***************************************************************************)
(* What SplitToVirtualBlocks makes of the trace of any program, whatever   *)
(* its length and however many of its handlers were not recognised; where  *)
(* each handler stands that is kept; and that the function lifted from the *)
(* blocks goes where the traced program went.                              *)
(***************************************************************************)
EXTENDS TraceLifter, Induction, TLAPS, SequenceTheorems


-----------------------------------------------------------------------------
(* Type correctness.                                                       *)
LEMMA ProgramFacts ==
  ASSUME TypeOK
  PROVE  /\ Here \in DOMAIN program /\ Here \in Nat
         /\ LastHandler \in Nat
         /\ \A i \in 1..LastHandler : program[Here].deltas[i] \in Int
         /\ program[Here].succ \subseteq DOMAIN program
         /\ \A b \in DOMAIN program : b \in Nat /\ program[b].shift \in {-4, 4}
<1>1. program \in Programs /\ path \in Seq(DOMAIN program) /\ Len(path) \in Nat \ {0}
  BY LenProperties DEF TypeOK
<1>2. Here \in DOMAIN program
  BY <1>1, ElementOfSeq DEF Here
<1>3. program[Here].deltas \in Seq(Int)
  BY <1>1, <1>2, ProgramsAssumption
<1>4. LastHandler \in Nat /\ \A i \in 1..LastHandler : program[Here].deltas[i] \in Int
  BY <1>3, LenProperties, ElementOfSeq DEF LastHandler
<1> QED  BY <1>1, <1>2, <1>4, ProgramsAssumption

LEMMA KeepType ==
  ASSUME TypeOK, next \in 1..LastHandler,
         NEW type \in {"Entry", "Other", "Jmp", "Exit"}, NEW target \in Nat,
         type = "Jmp" => target \in DOMAIN program,
         Keep(type, target)
  PROVE  /\ vsp' \in Int
         /\ vmHandlers' \in Seq(Match)
         /\ Len(vmHandlers') >= Len(vmHandlers)
         /\ missed' \in BOOLEAN
<1> DEFINE after == vsp + program[Here].deltas[next]
           vip == StartVip(Here) + (next - 1) * program[Here].shift
           shift == IF type = "Jmp" THEN program[target].shift ELSE 0
           match == [type |-> type, vipBefore |-> vip, vspBefore |-> vsp,
                     vspAfter |-> after, newVip |-> target, newVipShift |-> shift,
                     at |-> Len(path), number |-> next]
<1>1. after \in Int /\ vsp \in Int
  BY ProgramFacts DEF TypeOK
<1>2. vip \in Int
  <2>1. Here \in Int /\ program[Here].shift \in Int /\ next \in Int
    BY ProgramFacts
  <2>2. StartVip(Here) \in Int
    BY <2>1 DEF StartVip
  <2> QED  BY <2>1, <2>2
<1>3. shift \in {-4, 0, 4}
  BY ProgramFacts
<1>4. match \in Match
  <2>1. Len(path) \in Nat /\ next \in Nat
    BY ProgramFacts DEF TypeOK
  <2> HIDE DEF after, vip, shift
  <2> QED  BY <1>1, <1>2, <1>3, <2>1 DEF Match
<1>5. vsp' = after /\ (\/ vmHandlers' = Append(vmHandlers, match) /\ UNCHANGED missed
                       \/ missed' = TRUE /\ UNCHANGED vmHandlers)
  BY DEF Keep
<1>6. vmHandlers \in Seq(Match) /\ missed \in BOOLEAN
  BY DEF TypeOK
<1> HIDE DEF match, after
<1>7. Append(vmHandlers, match) \in Seq(Match)
  BY <1>4, <1>6
<1>8. Len(Append(vmHandlers, match)) = Len(vmHandlers) + 1 /\ Len(vmHandlers) \in Nat
  BY <1>6
<1>9. vmHandlers' \in Seq(Match) /\ Len(vmHandlers') >= Len(vmHandlers)
  BY <1>5, <1>6, <1>7, <1>8
<1>10. missed' \in BOOLEAN /\ vsp' \in Int
  BY <1>1, <1>5, <1>6
<1> QED  BY <1>9, <1>10

(* The splitter builds blocks, from blocks and the handlers it passes.     *)
LEMMA SplitType ==
  ASSUME TypeOK, NEW h \in Match
  PROVE  LET pushed == [currentBlock EXCEPT !.instructions = Append(@, h)]
             block == Shifted(Started(pushed, h), h)
         IN /\ block \in VirtualBasicBlock
            /\ MovedBlock(block) \in VirtualBasicBlock
            /\ block.instructions = Append(currentBlock.instructions, h)
<1> DEFINE pushed == [currentBlock EXCEPT !.instructions = Append(@, h)]
           started == Started(pushed, h)
           block == Shifted(started, h)
<1>1. currentBlock \in VirtualBasicBlock /\ currentStackOffset \in Int
  BY DEF TypeOK
<1>2. /\ pushed \in VirtualBasicBlock
      /\ pushed.instructions = Append(currentBlock.instructions, h)
  <2>1. Append(currentBlock.instructions, h) \in Seq(Match)
    BY <1>1 DEF VirtualBasicBlock
  <2> QED  BY <1>1, <2>1 DEF VirtualBasicBlock
<1>3. started \in VirtualBasicBlock /\ started.instructions = pushed.instructions
  <2> HIDE DEF pushed
  <2> QED  BY <1>1, <1>2 DEF Started, VirtualBasicBlock, Match
<1>4. /\ block \in VirtualBasicBlock
      /\ block.instructions = started.instructions
  <2> HIDE DEF started
  <2> QED  BY <1>3 DEF Shifted, VirtualBasicBlock, Match
<1>5. MovedBlock(block) \in VirtualBasicBlock
  <2>1. <<>> \in Seq(Match)
    BY EmptySeq
  <2> HIDE DEF block
  <2> QED  BY <1>4, <2>1 DEF MovedBlock, VirtualBasicBlock
<1> HIDE DEF pushed, started, block
<1>6. block.instructions = Append(currentBlock.instructions, h)
  BY <1>2, <1>3, <1>4
<1> QED  BY <1>4, <1>5, <1>6 DEF pushed, started, block

LEMMA InitType == Init => TypeOK
<1> SUFFICES ASSUME Init PROVE TypeOK
  OBVIOUS
<1>1. program \in Programs /\ Entry \in DOMAIN program /\ MaxPath \in Nat
  BY ProgramsAssumption, BoundsAssumption DEF Init
<1>2. path \in Seq(DOMAIN program) /\ Len(path) = 1 /\ Here = Entry
  BY <1>1 DEF Init, Here
<1>3. program[Entry].deltas \in Seq(Int) /\ LastHandler \in Nat
  BY <1>1, <1>2, ProgramsAssumption DEF LastHandler
<1>4. NewBlock \in VirtualBasicBlock
  <2>1. <<>> \in Seq(Match)
    BY EmptySeq
  <2> QED  BY <2>1 DEF NewBlock, VirtualBasicBlock
<1>5. vmHandlers \in Seq(Match) /\ blocks \in Seq(VirtualBasicBlock) /\ cuts \in Seq(Nat)
      /\ cursor \in 0..Len(vmHandlers)
  BY EmptySeq DEF Init
<1>6. next = 1 /\ next \in 1..(LastHandler + 1) /\ Len(path) \in 1..(MaxPath + 1)
  BY <1>1, <1>2, <1>3 DEF Init
<1>7. vsp \in Int /\ currentStackOffset \in Int
  BY DEF Init
<1>9. phase \in {"trace", "split", "lift", "patch", "done"} /\ missed \in BOOLEAN
  BY Zenon DEF Init
<1>8. currentBlock \in VirtualBasicBlock
  BY <1>4 DEF Init
<1> QED  BY <1>1, <1>2, <1>5, <1>6, <1>7, <1>8, <1>9 DEF TypeOK

LEMMA NextType == TypeOK /\ [Next]_blocksVars => TypeOK'
<1> SUFFICES ASSUME TypeOK, [Next]_blocksVars PROVE TypeOK'
  OBVIOUS
<1> USE DEF traceVars, splitVars, blocksVars
<1>0. /\ program \in Programs /\ path \in Seq(DOMAIN program) /\ Len(path) \in 1..(MaxPath + 1)
      /\ next \in 1..(LastHandler + 1) /\ LastHandler \in Nat
      /\ vmHandlers \in Seq(Match) /\ Len(vmHandlers) \in Nat /\ MaxPath \in Nat
  BY ProgramFacts, BoundsAssumption DEF TypeOK
<1>1. CASE MatchInside
  <2>1. /\ next \in 1..LastHandler /\ next' = next + 1
        /\ UNCHANGED <<program, path, phase, splitVars>>
    BY <1>0, <1>1 DEF MatchInside, Keep
  <2>2. PICK type \in {"Entry", "Other"} : Keep(type, 0)
    BY <1>1 DEF MatchInside
  <2>3. /\ vsp' \in Int /\ vmHandlers' \in Seq(Match) /\ missed' \in BOOLEAN
        /\ Len(vmHandlers') >= Len(vmHandlers)
    BY <2>1, <2>2, KeepType
  <2>4. LastHandler' = LastHandler
    BY <2>1 DEF LastHandler, Here
  <2>5. next' \in 1..(LastHandler + 1)
    BY <1>0, <2>1
  <2>6. cursor' \in 0..Len(vmHandlers')
    BY <1>0, <2>1, <2>3 DEF TypeOK
  <2> QED  BY <2>1, <2>3, <2>4, <2>5, <2>6 DEF TypeOK
<1>2. CASE MatchJump
  <2>1. /\ next \in 1..LastHandler /\ next' = 1 /\ Len(path) < MaxPath
        /\ UNCHANGED <<program, phase, splitVars>>
    BY <1>0, <1>2 DEF MatchJump, Keep
  <2>2. PICK target \in program[Here].succ : Keep("Jmp", target) /\ path' = Append(path, target)
    BY <1>2 DEF MatchJump
  <2>3. target \in DOMAIN program /\ target \in Nat
    BY ProgramFacts
  <2>4. /\ vsp' \in Int /\ vmHandlers' \in Seq(Match) /\ missed' \in BOOLEAN
        /\ Len(vmHandlers') >= Len(vmHandlers)
    BY <2>1, <2>2, <2>3, KeepType
  <2>5. /\ path' \in Seq(DOMAIN program) /\ Len(path') \in 1..(MaxPath + 1)
        /\ path'[Len(path')] = target
    BY <1>0, <2>1, <2>2, <2>3
  <2>6. LastHandler' \in Nat
    <3>1. LastHandler' = Len(program[target].deltas)
      BY <2>1, <2>5 DEF LastHandler, Here
    <3>2. program[target].deltas \in Seq(Int)
      BY <1>0, <2>3, ProgramsAssumption
    <3> QED  BY <3>1, <3>2
  <2>7. next' \in 1..(LastHandler' + 1)
    <3>1. \A n \in Nat : 1 \in 1..(n + 1)
      OBVIOUS
    <3> QED  BY <2>1, <2>6, <3>1
  <2>8. cursor' \in 0..Len(vmHandlers')
    BY <1>0, <2>1, <2>4 DEF TypeOK
  <2> QED  BY <2>1, <2>4, <2>5, <2>7, <2>8 DEF TypeOK
<1>3. CASE MatchExit
  <2>1. /\ next \in 1..LastHandler /\ next' = next + 1
        /\ UNCHANGED <<program, path, phase, splitVars>>
    BY <1>0, <1>3 DEF MatchExit, Keep
  <2>2. Keep("Exit", 0)
    BY <1>3 DEF MatchExit
  <2>3. /\ vsp' \in Int /\ vmHandlers' \in Seq(Match) /\ missed' \in BOOLEAN
        /\ Len(vmHandlers') >= Len(vmHandlers)
    BY <2>1, <2>2, KeepType
  <2>4. LastHandler' = LastHandler
    BY <2>1 DEF LastHandler, Here
  <2>5. next' \in 1..(LastHandler + 1)
    BY <1>0, <2>1
  <2>6. cursor' \in 0..Len(vmHandlers')
    BY <1>0, <2>1, <2>3 DEF TypeOK
  <2> QED  BY <2>1, <2>3, <2>4, <2>5, <2>6 DEF TypeOK
<1>4. CASE EndTrace
  BY <1>4 DEF EndTrace, TypeOK, LastHandler, Here
<1>5. CASE SplitHandler
  <2> DEFINE h == vmHandlers[cursor + 1]
             pushed == [currentBlock EXCEPT !.instructions = Append(@, h)]
             block == Shifted(Started(pushed, h), h)
  <2>1. h \in Match /\ cursor + 1 \in 1..Len(vmHandlers)
    <3>1. cursor \in 0..Len(vmHandlers) /\ cursor < Len(vmHandlers)
      BY <1>5 DEF SplitHandler, TypeOK
    <3>2. cursor + 1 \in 1..Len(vmHandlers)
      BY <1>0, <3>1
    <3> QED  BY <1>0, <3>2, ElementOfSeq
  <2>2. block \in VirtualBasicBlock /\ MovedBlock(block) \in VirtualBasicBlock
    BY <2>1, SplitType
  <2>3. h.vspAfter \in Int /\ h.vspBefore \in Int
    BY <2>1 DEF Match
  <2>4. /\ currentStackOffset' = currentStackOffset + (h.vspAfter - h.vspBefore)
        /\ blocks' = IF EndsBlock(h) THEN Append(blocks, block) ELSE blocks
        /\ cuts' = IF EndsBlock(h) THEN Append(cuts, cursor + 1) ELSE cuts
        /\ currentBlock' = IF EndsBlock(h) THEN MovedBlock(block) ELSE block
        /\ cursor' = cursor + 1 /\ UNCHANGED <<traceVars, phase>>
    BY <1>5 DEF SplitHandler
  <2> HIDE DEF h, block
  <2>5. blocks' \in Seq(VirtualBasicBlock) /\ currentBlock' \in VirtualBasicBlock
    BY <2>2, <2>4 DEF TypeOK
  <2>6. cuts' \in Seq(Nat) /\ currentStackOffset' \in Int /\ cursor' \in 0..Len(vmHandlers)
    BY <1>0, <2>1, <2>3, <2>4 DEF TypeOK
  <2> QED  BY <2>4, <2>5, <2>6 DEF TypeOK, LastHandler, Here
<1>6. CASE EndSplit
  BY <1>6 DEF EndSplit, TypeOK, LastHandler, Here
<1>7. CASE UNCHANGED blocksVars
  BY <1>7 DEF TypeOK, LastHandler, Here
<1> QED  BY <1>1, <1>2, <1>3, <1>4, <1>5, <1>6, <1>7 DEF Next

(* The variables keep their types, for every program and every trace.      *)
THEOREM TypeCorrect == Spec => []TypeOK
  BY InitType, NextType, PTL DEF Spec
-----------------------------------------------------------------------------
(* The splitter has not begun while the trace is still matched.            *)
SplitLater ==
  phase = "trace" => /\ cursor = 0 /\ blocks = <<>> /\ cuts = <<>>
                     /\ currentBlock = NewBlock

(* A block in the making has the address of its first handler.             *)
CurrentNumbers ==
  currentBlock.instructions # <<>> =>
    currentBlock.startAddr = currentBlock.instructions[1].vipBefore

CutsPassed == \A j \in 1..Len(cuts) : cuts[j] \in 1..cursor

SplitInv == /\ SplitLater /\ CutsPassed /\ CurrentNumbers
            /\ BlocksTile /\ BlocksStraightLine /\ BlockNumbersOwn

LEMMA NewBlockInv ==
  ASSUME cursor = 0, blocks = <<>>, cuts = <<>>, currentBlock = NewBlock
  PROVE  SplitInv
<1>1. Len(blocks) = 0 /\ Len(cuts) = 0 /\ DOMAIN blocks = {} /\ DOMAIN cuts = {}
  OBVIOUS
<1>2. currentBlock.instructions = <<>>
  BY DEF NewBlock
<1>3. BlocksTile
  <2>1. CutBefore(cuts, Len(cuts) + 1) = 0
    BY <1>1 DEF CutBefore
  <2>2. SubSeq(vmHandlers, 1, 0) = <<>>
    BY SubSeqEmpty
  <2> QED  BY <1>1, <1>2, <2>1, <2>2 DEF BlocksTile
<1>4. BlocksStraightLine /\ BlockNumbersOwn /\ CutsPassed /\ CurrentNumbers
  BY <1>1, <1>2 DEF BlocksStraightLine, StraightLine, BlockNumbersOwn, CutsPassed, CurrentNumbers
<1> QED  BY <1>3, <1>4 DEF SplitInv, SplitLater

(* One more handler: the block in the making is still the piece of the     *)
(* trace since the last cut.                                               *)
LEMMA AppendSubSeq ==
  ASSUME NEW S, NEW s \in Seq(S), NEW c \in Nat, NEW k \in Nat, c <= k, k < Len(s)
  PROVE  Append(SubSeq(s, c + 1, k), s[k + 1]) = SubSeq(s, c + 1, k + 1)
<1> DEFINE a == SubSeq(s, c + 1, k)
           b == SubSeq(s, c + 1, k + 1)
<1>1. Len(s) \in Nat /\ \A i \in 1..Len(s) : s[i] \in S
  BY LenProperties, ElementOfSeq
<1>2. a \in Seq(S) /\ Len(a) = k - c /\ \A i \in 1..(k - c) : a[i] = s[c + i]
  <2>1. \A i \in (c + 1)..k : s[i] \in S
    BY <1>1
  <2>2. c + 1 \in Int /\ k \in Int
    OBVIOUS
  <2> QED  BY <2>1, <2>2, SubSeqProperties
<1>3. b \in Seq(S) /\ Len(b) = k - c + 1 /\ \A i \in 1..(k - c + 1) : b[i] = s[c + i]
  <2>1. \A i \in (c + 1)..(k + 1) : s[i] \in S
    BY <1>1
  <2>2. c + 1 \in Int /\ k + 1 \in Int
    OBVIOUS
  <2> QED  BY <2>1, <2>2, SubSeqProperties
<1>4. s[k + 1] \in S
  BY <1>1
<1> HIDE DEF a, b
<1>5. /\ Append(a, s[k + 1]) \in Seq(S) /\ Len(Append(a, s[k + 1])) = k - c + 1
      /\ \A i \in 1..(k - c + 1) : Append(a, s[k + 1])[i] = s[c + i]
  BY <1>2, <1>4
<1>6. Append(a, s[k + 1]) = b
  BY <1>3, <1>5, SeqEqual
<1> QED  BY <1>6 DEF a, b

LEMMA SplitHandlerInv == ASSUME TypeOK, SplitInv, SplitHandler PROVE SplitInv'
<1> DEFINE n == Len(blocks)
           h == vmHandlers[cursor + 1]
           c == CutBefore(cuts, Len(cuts) + 1)
           body == currentBlock.instructions
           pushed == [currentBlock EXCEPT !.instructions = Append(@, h)]
           block == Shifted(Started(pushed, h), h)
<1>1. /\ vmHandlers \in Seq(Match) /\ Len(vmHandlers) \in Nat
      /\ cursor \in Nat /\ cursor < Len(vmHandlers)
      /\ blocks \in Seq(VirtualBasicBlock) /\ n \in Nat /\ cuts \in Seq(Nat) /\ Len(cuts) = n
      /\ body \in Seq(Match)
  <2>1. /\ vmHandlers \in Seq(Match) /\ blocks \in Seq(VirtualBasicBlock)
        /\ cuts \in Seq(Nat) /\ cursor \in 0..Len(vmHandlers)
        /\ currentBlock \in VirtualBasicBlock
    BY DEF TypeOK
  <2>2. Len(cuts) = n /\ cursor < Len(vmHandlers)
    BY DEF SplitHandler, SplitInv, BlocksTile
  <2>3. body \in Seq(Match)
    BY <2>1 DEF VirtualBasicBlock
  <2> QED  BY <2>1, <2>2, <2>3, LenProperties
<1>2. h \in Match
  BY <1>1, ElementOfSeq
<1>3. /\ blocks' = IF EndsBlock(h) THEN Append(blocks, block) ELSE blocks
      /\ cuts' = IF EndsBlock(h) THEN Append(cuts, cursor + 1) ELSE cuts
      /\ currentBlock' = IF EndsBlock(h) THEN MovedBlock(block) ELSE block
      /\ cursor' = cursor + 1 /\ vmHandlers' = vmHandlers /\ phase' = "split"
  BY DEF SplitHandler, traceVars
<1>4. /\ block \in VirtualBasicBlock /\ block.instructions = Append(body, h)
      /\ MovedBlock(block).instructions = <<>>
  BY <1>2, SplitType DEF MovedBlock, VirtualBasicBlock
<1>5. /\ block.startAddr = Append(body, h)[1].vipBefore
      /\ h.type = "Jmp" => block.nextVipShift = h.newVipShift
  <2>1. pushed \in VirtualBasicBlock /\ pushed.instructions = Append(body, h)
        /\ pushed.startAddr = currentBlock.startAddr
    <3>1. currentBlock \in VirtualBasicBlock
      BY DEF TypeOK
    <3> QED  BY <1>2, <3>1 DEF VirtualBasicBlock
  <2>2. /\ Started(pushed, h) \in VirtualBasicBlock
        /\ Started(pushed, h).startAddr = IF Len(Append(body, h)) = 1 THEN h.vipBefore
                                          ELSE currentBlock.startAddr
    <3> HIDE DEF pushed
    <3>1. currentStackOffset \in Int /\ h.vipBefore \in Int
      BY <1>2 DEF TypeOK, Match
    <3> QED  BY <2>1, <3>1 DEF Started, VirtualBasicBlock
  <2>3. /\ block.startAddr = Started(pushed, h).startAddr
        /\ h.type = "Jmp" => block.nextVipShift = h.newVipShift
    <3> HIDE DEF pushed
    <3> QED  BY <2>2 DEF Shifted, VirtualBasicBlock
  <2>4. CASE body = <<>>
    <3>1. Len(Append(body, h)) = 1 /\ Append(body, h)[1] = h
      BY <1>1, <2>4
    <3> QED  BY <2>2, <2>3, <3>1
  <2>5. CASE body # <<>>
    <3>1. Len(Append(body, h)) # 1 /\ Append(body, h)[1] = body[1]
      BY <1>1, <1>2, <2>5
    <3>2. currentBlock.startAddr = body[1].vipBefore
      BY <2>5 DEF SplitInv, CurrentNumbers
    <3> QED  BY <2>2, <2>3, <3>1, <3>2
  <2> QED  BY <2>4, <2>5
<1>6. c \in 0..cursor /\ body = SubSeq(vmHandlers, c + 1, cursor)
  BY <1>1 DEF SplitInv, BlocksTile, CutBefore, CutsPassed
<1>7. Append(body, h) = SubSeq(vmHandlers, c + 1, cursor + 1)
  <2>1. c \in Nat /\ c <= cursor
    BY <1>1, <1>6
  <2>2. Append(SubSeq(vmHandlers, c + 1, cursor), vmHandlers[cursor + 1])
          = SubSeq(vmHandlers, c + 1, cursor + 1)
    <3> HIDE DEF c
    <3> QED  BY <1>1, <2>1, AppendSubSeq
  <2> QED  BY <1>6, <2>2
<1> HIDE DEF n, h, c, body, block
<1>8. CASE EndsBlock(h)
  <2>1. /\ blocks' = Append(blocks, block) /\ cuts' = Append(cuts, cursor + 1)
        /\ Len(blocks') = n + 1 /\ Len(cuts') = n + 1
        /\ blocks'[n + 1] = block /\ cuts'[n + 1] = cursor + 1
        /\ \A j \in 1..n : blocks'[j] = blocks[j] /\ cuts'[j] = cuts[j]
        /\ DOMAIN blocks' = 1..(n + 1) /\ DOMAIN blocks = 1..n
    BY <1>1, <1>3, <1>4, <1>8 DEF n
  <2>2. currentBlock'.instructions = <<>>
    BY <1>3, <1>4, <1>8
  <2>3. CutsPassed'
    BY <1>1, <1>3, <2>1 DEF SplitInv, CutsPassed
  <2>4. BlocksTile'
    <3>1. \A j \in 1..n : blocks[j].instructions = SubSeq(vmHandlers, CutBefore(cuts, j) + 1, cuts[j])
      BY DEF SplitInv, BlocksTile, n
    <3>2. \A j \in 1..(n + 1) : CutBefore(cuts', j) = CutBefore(cuts, j)
      BY <1>1, <2>1 DEF CutBefore
    <3>3. c = CutBefore(cuts, n + 1)
      BY <1>1 DEF c
    <3>4. \A j \in 1..(n + 1) :
            blocks'[j].instructions = SubSeq(vmHandlers', CutBefore(cuts', j) + 1, cuts'[j])
      <4>1. blocks'[n + 1].instructions = SubSeq(vmHandlers', CutBefore(cuts', n + 1) + 1, cuts'[n + 1])
        <5>1. n + 1 \in 1..(n + 1)
          BY <1>1
        <5> QED  BY <1>3, <1>4, <1>7, <2>1, <3>2, <3>3, <5>1
      <4>2. \A j \in 1..n :
              blocks'[j].instructions = SubSeq(vmHandlers', CutBefore(cuts', j) + 1, cuts'[j])
        <5>1. \A j \in 1..n : j \in 1..(n + 1)
          BY <1>1
        <5> QED  BY <1>3, <2>1, <3>1, <3>2, <5>1
      <4>3. \A j \in 1..(n + 1) : j \in 1..n \/ j = n + 1
        BY <1>1
      <4> QED  BY <4>1, <4>2, <4>3
    <3>5. CutBefore(cuts', n + 2) = cursor + 1
      BY <1>1, <2>1 DEF CutBefore
    <3>6. SubSeq(vmHandlers', CutBefore(cuts', Len(cuts') + 1) + 1, cursor') = <<>>
      <4>1. Len(cuts') + 1 = n + 2
        BY <1>1, <2>1
      <4> QED  BY <1>1, <1>3, <3>5, <4>1, SubSeqEmpty
    <3> QED  BY <2>1, <2>2, <3>4, <3>6 DEF BlocksTile
  <2>5. BlocksStraightLine'
    <3> DEFINE whole == Append(body, h)
    <3>1. StraightLine(body)
      BY DEF SplitInv, BlocksStraightLine, body
    <3>2. /\ whole # <<>> /\ Transfers(h)
          /\ \A i \in DOMAIN whole : Transfers(whole[i]) <=> i = Len(whole)
      <4>1. Len(body) \in Nat /\ DOMAIN body = 1..Len(body) /\ Len(whole) = Len(body) + 1
            /\ DOMAIN whole = 1..(Len(body) + 1) /\ whole[Len(body) + 1] = h
            /\ \A i \in 1..Len(body) : whole[i] = body[i]
        BY <1>1, <1>2
      <4>2. Transfers(h)
        BY <1>8 DEF EndsBlock, Transfers
      <4>3. whole # <<>>
        BY <4>1
      <4> HIDE DEF whole
      <4> QED  BY <3>1, <4>1, <4>2, <4>3 DEF StraightLine
    <3>3. \A j \in 1..n : /\ blocks[j].instructions # <<>>
                         /\ \A i \in DOMAIN blocks[j].instructions :
                              Transfers(blocks[j].instructions[i]) <=> i = Len(blocks[j].instructions)
      BY <2>1 DEF SplitInv, BlocksStraightLine
    <3>4. blocks'[n + 1].instructions = whole
      BY <1>4, <2>1
    <3>5. StraightLine(currentBlock'.instructions)
      BY <2>2 DEF StraightLine
    <3> HIDE DEF whole
    <3>6. \A j \in 1..(n + 1) :
            /\ blocks'[j].instructions # <<>>
            /\ \A i \in DOMAIN blocks'[j].instructions :
                 Transfers(blocks'[j].instructions[i]) <=> i = Len(blocks'[j].instructions)
      BY <1>1, <2>1, <3>2, <3>3, <3>4
    <3> QED  BY <2>1, <3>5, <3>6 DEF BlocksStraightLine, StraightLine, Transfers
  <2>6. BlockNumbersOwn'
    <3>1. \A j \in 1..n : LET own == blocks[j].instructions
                         IN /\ blocks[j].startAddr = own[1].vipBefore
                            /\ own[Len(own)].type = "Jmp" =>
                                 blocks[j].nextVipShift = own[Len(own)].newVipShift
      BY <2>1 DEF SplitInv, BlockNumbersOwn
    <3>2. Append(body, h)[Len(Append(body, h))] = h
      BY <1>1, <1>2
    <3>3. LET own == blocks'[n + 1].instructions
          IN /\ blocks'[n + 1].startAddr = own[1].vipBefore
             /\ own[Len(own)].type = "Jmp" =>
                  blocks'[n + 1].nextVipShift = own[Len(own)].newVipShift
      BY <1>4, <1>5, <2>1, <3>2
    <3>4. \A j \in 1..(n + 1) : j \in 1..n \/ j = n + 1
      BY <1>1
    <3> QED  BY <2>1, <3>1, <3>3, <3>4 DEF BlockNumbersOwn
  <2>7. CurrentNumbers' /\ SplitLater'
    BY <1>3, <2>2 DEF CurrentNumbers, SplitLater
  <2> QED  BY <2>3, <2>4, <2>5, <2>6, <2>7 DEF SplitInv
<1>9. CASE ~EndsBlock(h)
  <2>1. blocks' = blocks /\ cuts' = cuts /\ currentBlock' = block
    BY <1>3, <1>9
  <2>2. currentBlock'.instructions = Append(body, h)
    BY <1>4, <2>1
  <2>3. CutsPassed'
    BY <1>1, <1>3, <2>1 DEF SplitInv, CutsPassed
  <2>4. BlocksTile'
    BY <1>3, <1>7, <2>1, <2>2 DEF SplitInv, BlocksTile, CutBefore, c
  <2>5. StraightLine(currentBlock'.instructions)
    <3>1. StraightLine(body)
      BY DEF SplitInv, BlocksStraightLine, body
    <3>2. ~Transfers(h)
      BY <1>9 DEF EndsBlock, Transfers
    <3> QED  BY <1>1, <1>2, <2>2, <3>1, <3>2 DEF StraightLine
  <2>6. BlocksStraightLine' /\ BlockNumbersOwn'
    BY <2>1, <2>5 DEF SplitInv, BlocksStraightLine, BlockNumbersOwn, StraightLine, Transfers
  <2>7. CurrentNumbers' /\ SplitLater'
    BY <1>3, <1>5, <2>1, <2>2 DEF CurrentNumbers, SplitLater
  <2> QED  BY <2>3, <2>4, <2>6, <2>7 DEF SplitInv
<1> QED  BY <1>8, <1>9

LEMMA InitSplitInv == Init => SplitInv
  BY NewBlockInv DEF Init

LEMMA NextSplitInv == TypeOK /\ SplitInv /\ [Next]_blocksVars => SplitInv'
<1> SUFFICES ASSUME TypeOK, SplitInv, [Next]_blocksVars PROVE SplitInv'
  OBVIOUS
<1>1. CASE MatchInside \/ MatchJump \/ MatchExit
  <2>1. phase = "trace" /\ UNCHANGED splitVars
    BY <1>1 DEF MatchInside, MatchJump, MatchExit, Keep
  <2>2. cursor' = 0 /\ blocks' = <<>> /\ cuts' = <<>> /\ currentBlock' = NewBlock
    BY <2>1 DEF SplitInv, SplitLater, splitVars
  <2>3. currentBlock'.instructions = <<>> /\ Len(blocks') = 0 /\ Len(cuts') = 0
        /\ DOMAIN blocks' = {}
    BY <2>2 DEF NewBlock
  <2>4. BlocksTile'
    <3>1. CutBefore(cuts', Len(cuts') + 1) = 0
      BY <2>3 DEF CutBefore
    <3>2. SubSeq(vmHandlers', 1, 0) = <<>>
      BY SubSeqEmpty
    <3> QED  BY <2>2, <2>3, <3>1, <3>2 DEF BlocksTile
  <2>5. BlocksStraightLine' /\ BlockNumbersOwn' /\ CutsPassed' /\ CurrentNumbers'
    BY <2>3 DEF BlocksStraightLine, StraightLine, BlockNumbersOwn, CutsPassed, CurrentNumbers
  <2>6. SplitLater'
    BY <2>2 DEF SplitLater, NewBlock
  <2> QED  BY <2>4, <2>5, <2>6 DEF SplitInv
<1>2. CASE SplitHandler
  BY <1>2, SplitHandlerInv
<1>3. CASE EndTrace \/ EndSplit \/ UNCHANGED blocksVars
  <2>1. UNCHANGED <<vmHandlers, splitVars>> /\ (phase' = "trace" => phase = "trace")
    BY <1>3 DEF EndTrace, EndSplit, blocksVars, traceVars
  <2> QED  BY <2>1, ZenonT(60) DEF splitVars, SplitInv, SplitLater, CutsPassed, CurrentNumbers, BlocksTile,
              CutBefore, BlocksStraightLine, StraightLine, Transfers, BlockNumbersOwn
<1> QED  BY <1>1, <1>2, <1>3 DEF Next

LEMMA SpecSplitInv == Spec => []SplitInv
  BY InitSplitInv, NextSplitInv, TypeCorrect, PTL DEF Spec

(* Nothing of the trace is lost, duplicated or reordered between the       *)
(* handlers kept by main and the virtual blocks.                           *)
THEOREM BlocksAlwaysTile == Spec => []BlocksTile
  BY SpecSplitInv, PTL DEF SplitInv

(* Every virtual block can be lifted as straight-line code: the lifters    *)
(* may take its first handler and find its only transfer at its end.       *)
THEOREM BlocksAlwaysStraightLine == Spec => []BlocksStraightLine
  BY SpecSplitInv, PTL DEF SplitInv

(* Reusing the moved-from currentBlock never gives a block the address or  *)
(* the shift of another.                                                   *)
THEOREM BlockNumbersAlwaysOwn == Spec => []BlockNumbersOwn
  BY SpecSplitInv, PTL DEF SplitInv
-----------------------------------------------------------------------------
(* As long as nothing was missed, VSP is handed on from handler to         *)
(* handler, and the running offset is the VSP after the last one passed.   *)
VspAfter(handlers, k) == IF k = 0 THEN 0 ELSE handlers[k].vspAfter
Linked ==
  /\ \A k \in 1..Len(vmHandlers) : vmHandlers[k].vspBefore = VspAfter(vmHandlers, k - 1)
  /\ vsp = VspAfter(vmHandlers, Len(vmHandlers))
OffsetKnown == currentStackOffset = VspAfter(vmHandlers, cursor)
CurrentOffset ==
  currentBlock.instructions # <<>> =>
    currentBlock.stackOffset = currentBlock.instructions[1].vspBefore
BlockOffsets ==
  \A j \in DOMAIN blocks : blocks[j].stackOffset = blocks[j].instructions[1].vspBefore
OffsetInv == Linked /\ OffsetKnown /\ CurrentOffset /\ BlockOffsets

LEMMA KeepOffsets ==
  ASSUME TypeOK, SplitInv, OffsetInv, phase = "trace", UNCHANGED splitVars,
         NEW type, NEW target, Keep(type, target), missed' = FALSE
  PROVE  OffsetInv'
<1> DEFINE after == vsp + program[Here].deltas[next]
           match == [type |-> type,
                     vipBefore |-> StartVip(Here) + (next - 1) * program[Here].shift,
                     vspBefore |-> vsp, vspAfter |-> after, newVip |-> target,
                     newVipShift |-> IF type = "Jmp" THEN program[target].shift ELSE 0,
                     at |-> Len(path), number |-> next]
<1>1. vsp' = after /\ vmHandlers' = Append(vmHandlers, match)
  BY DEF Keep
<1>2. match.vspBefore = vsp /\ match.vspAfter = after
  OBVIOUS
<1> HIDE DEF match, after
<1>3. PICK n \in Nat : n = Len(vmHandlers)
  BY LenProperties DEF TypeOK
<1>4. /\ Len(vmHandlers') = n + 1 /\ vmHandlers'[n + 1] = match
      /\ \A k \in 1..n : vmHandlers'[k] = vmHandlers[k]
  BY <1>1, <1>3, AppendProperties DEF TypeOK
<1>5. /\ cursor = 0 /\ blocks = <<>> /\ currentBlock = NewBlock
      /\ cursor' = cursor /\ blocks' = blocks /\ currentBlock' = currentBlock
      /\ currentStackOffset' = currentStackOffset
  BY DEF SplitInv, SplitLater, splitVars
<1>6. \A k \in 0..n : VspAfter(vmHandlers', k) = VspAfter(vmHandlers, k)
  <2>1. \A k \in 0..n : k = 0 \/ k \in 1..n
    BY <1>3
  <2> QED  BY <1>4, <2>1, Zenon DEF VspAfter
<1>7. ASSUME NEW k \in 1..(n + 1)
      PROVE  vmHandlers'[k].vspBefore = VspAfter(vmHandlers', k - 1)
  <2>1. PICK h : h = k - 1
    OBVIOUS
  <2>2. h \in 0..n /\ VspAfter(vmHandlers', h) = VspAfter(vmHandlers, h)
    BY <1>3, <1>6, <2>1
  <2>3. CASE k \in 1..n
    <3>1. vmHandlers[k].vspBefore = VspAfter(vmHandlers, h)
      BY <1>3, <2>1, <2>3, Zenon DEF OffsetInv, Linked
    <3> QED  BY <1>4, <2>1, <2>2, <2>3, <3>1, Zenon
  <2>4. CASE k = n + 1
    <3>1. h = n
      BY <1>3, <2>1, <2>4
    <3>2. vsp = VspAfter(vmHandlers, h)
      BY <1>3, <3>1, Zenon DEF OffsetInv, Linked
    <3> QED  BY <1>2, <1>4, <2>1, <2>2, <2>4, <3>2, Zenon
  <2> QED  BY <1>3, <2>3, <2>4
<1>8. vsp' = VspAfter(vmHandlers', n + 1)
  <2>1. n + 1 # 0
    BY <1>3
  <2> QED  BY <1>1, <1>2, <1>4, <2>1, Zenon DEF VspAfter
<1>9. Linked'
  BY <1>4, <1>7, <1>8, Zenon DEF Linked
<1>10. OffsetKnown'
  <2>1. currentStackOffset = 0
    BY <1>5 DEF OffsetInv, OffsetKnown, VspAfter
  <2> QED  BY <1>5, <2>1 DEF OffsetKnown, VspAfter
<1>11. CurrentOffset' /\ BlockOffsets'
  <2>1. currentBlock'.instructions = <<>> /\ DOMAIN blocks' = {}
    BY <1>5 DEF NewBlock
  <2> QED  BY <2>1 DEF CurrentOffset, BlockOffsets
<1> QED  BY <1>9, <1>10, <1>11 DEF OffsetInv

LEMMA SplitOffsets ==
  ASSUME TypeOK, SplitInv, OffsetInv, SplitHandler
  PROVE  OffsetInv'
<1> DEFINE h == vmHandlers[cursor + 1]
           body == currentBlock.instructions
           pushed == [currentBlock EXCEPT !.instructions = Append(@, h)]
           block == Shifted(Started(pushed, h), h)
<1>1. /\ vmHandlers \in Seq(Match) /\ cursor \in Nat /\ cursor + 1 \in 1..Len(vmHandlers)
      /\ Len(vmHandlers) \in Nat
      /\ currentBlock \in VirtualBasicBlock /\ blocks \in Seq(VirtualBasicBlock)
      /\ currentStackOffset \in Int /\ body \in Seq(Match)
  <2>1. /\ vmHandlers \in Seq(Match) /\ cursor \in 0..Len(vmHandlers)
        /\ currentBlock \in VirtualBasicBlock /\ blocks \in Seq(VirtualBasicBlock)
        /\ currentStackOffset \in Int
    BY DEF TypeOK
  <2>2. cursor < Len(vmHandlers)
    BY DEF SplitHandler
  <2>3. Len(vmHandlers) \in Nat
    BY <2>1, LenProperties
  <2>4. body \in Seq(Match)
    BY <2>1 DEF VirtualBasicBlock
  <2> QED  BY <2>1, <2>2, <2>3, <2>4
<1>2. h \in Match
  BY <1>1, ElementOfSeq
<1>3. h.vspBefore \in Int /\ h.vspAfter \in Int
  BY <1>2 DEF Match
<1>4. /\ currentStackOffset' = currentStackOffset + (h.vspAfter - h.vspBefore)
      /\ blocks' = IF EndsBlock(h) THEN Append(blocks, block) ELSE blocks
      /\ currentBlock' = IF EndsBlock(h) THEN MovedBlock(block) ELSE block
      /\ cursor' = cursor + 1 /\ vmHandlers' = vmHandlers /\ vsp' = vsp
  BY DEF SplitHandler, traceVars
<1>5. /\ block \in VirtualBasicBlock /\ block.instructions = Append(body, h)
      /\ MovedBlock(block).instructions = <<>>
  BY <1>2, SplitType DEF MovedBlock, VirtualBasicBlock
<1>6. currentStackOffset = h.vspBefore
  <2>1. cursor + 1 - 1 = cursor
    BY <1>1
  <2>2. h.vspBefore = VspAfter(vmHandlers, cursor)
    BY <1>1, <2>1 DEF OffsetInv, Linked
  <2> QED  BY <2>2 DEF OffsetInv, OffsetKnown
<1>7. block.stackOffset = Append(body, h)[1].vspBefore
  <2>1. pushed \in VirtualBasicBlock /\ pushed.instructions = Append(body, h)
        /\ pushed.stackOffset = currentBlock.stackOffset
    <3>1. currentBlock \in VirtualBasicBlock
      BY <1>1
    <3> QED  BY <1>2, <3>1 DEF VirtualBasicBlock
  <2>2. /\ Started(pushed, h) \in VirtualBasicBlock
        /\ Started(pushed, h).stackOffset = IF Len(Append(body, h)) = 1 THEN currentStackOffset
                                            ELSE currentBlock.stackOffset
    <3> HIDE DEF pushed
    <3>1. h.vipBefore \in Int
      BY <1>2 DEF Match
    <3> QED  BY <1>1, <2>1, <3>1 DEF Started, VirtualBasicBlock
  <2>3. block.stackOffset = Started(pushed, h).stackOffset
    <3> HIDE DEF pushed
    <3> QED  BY <2>2 DEF Shifted, VirtualBasicBlock
  <2>4. CASE body = <<>>
    <3>1. Len(Append(body, h)) = 1 /\ Append(body, h)[1] = h
      BY <1>1, <2>4
    <3> QED  BY <1>6, <2>2, <2>3, <3>1
  <2>5. CASE body # <<>>
    <3>1. Len(Append(body, h)) # 1 /\ Append(body, h)[1] = body[1]
      BY <1>1, <1>2, <2>5
    <3>2. currentBlock.stackOffset = body[1].vspBefore
      BY <2>5 DEF OffsetInv, CurrentOffset
    <3> QED  BY <2>2, <2>3, <3>1, <3>2
  <2> QED  BY <2>4, <2>5
<1> HIDE DEF body, block
<1>8. Linked'
  BY <1>4 DEF OffsetInv, Linked
<1>9. OffsetKnown'
  <2>1. VspAfter(vmHandlers, cursor + 1) = h.vspAfter
    BY <1>1 DEF VspAfter
  <2> HIDE DEF h
  <2>2. currentStackOffset' = h.vspAfter
    BY <1>1, <1>3, <1>4, <1>6
  <2> QED  BY <1>4, <2>1, <2>2 DEF OffsetKnown
<1> HIDE DEF h
<1>10. CurrentOffset'
  BY <1>4, <1>5, <1>7 DEF CurrentOffset
<1>11. BlockOffsets'
  <2>1. \A j \in DOMAIN blocks : blocks[j].stackOffset = blocks[j].instructions[1].vspBefore
    BY DEF OffsetInv, BlockOffsets
  <2>2. CASE ~EndsBlock(h)
    BY <1>4, <2>1, <2>2 DEF BlockOffsets
  <2>3. CASE EndsBlock(h)
    <3>1. PICK n \in Nat : n = Len(blocks) /\ DOMAIN blocks = 1..n
      BY <1>1, LenProperties
    <3>2. /\ DOMAIN blocks' = 1..(n + 1) /\ blocks'[n + 1] = block
          /\ \A j \in 1..n : blocks'[j] = blocks[j]
      BY <1>1, <1>4, <1>5, <2>3, <3>1
    <3>3. block.stackOffset = block.instructions[1].vspBefore
      BY <1>5, <1>7
    <3>4. \A j \in 1..(n + 1) : j \in 1..n \/ j = n + 1
      BY <3>1
    <3> QED  BY <2>1, <3>1, <3>2, <3>3, <3>4 DEF BlockOffsets
  <2> QED  BY <2>2, <2>3
<1> QED  BY <1>8, <1>9, <1>10, <1>11 DEF OffsetInv

LEMMA InitOffsets == Init => OffsetInv
<1> SUFFICES ASSUME Init PROVE OffsetInv
  OBVIOUS
<1>1. /\ vmHandlers = <<>> /\ vsp = 0 /\ cursor = 0 /\ currentStackOffset = 0
      /\ blocks = <<>> /\ currentBlock = NewBlock
  BY DEF Init
<1>2. Len(vmHandlers) = 0 /\ DOMAIN blocks = {} /\ currentBlock.instructions = <<>>
  BY <1>1 DEF NewBlock
<1> QED  BY <1>1, <1>2 DEF OffsetInv, Linked, OffsetKnown, CurrentOffset, BlockOffsets, VspAfter

LEMMA NextOffsets ==
  TypeOK /\ SplitInv /\ (missed = FALSE => OffsetInv) /\ [Next]_blocksVars
    => (missed' = FALSE => OffsetInv')
<1> SUFFICES ASSUME TypeOK, SplitInv, missed = FALSE => OffsetInv, [Next]_blocksVars,
                    missed' = FALSE
             PROVE  OffsetInv'
  OBVIOUS
<1>1. CASE MatchInside \/ MatchJump \/ MatchExit
  <2>1. PICK type, target : Keep(type, target)
    BY <1>1 DEF MatchInside, MatchJump, MatchExit
  <2>2. phase = "trace" /\ UNCHANGED splitVars
    BY <1>1 DEF MatchInside, MatchJump, MatchExit, Keep
  <2>3. missed = FALSE
    BY <2>1, Zenon DEF Keep
  <2> QED  BY <2>1, <2>2, <2>3, KeepOffsets
<1>2. CASE SplitHandler
  <2>1. missed = FALSE
    BY <1>2 DEF SplitHandler, traceVars
  <2> QED  BY <1>2, <2>1, SplitOffsets
<1>3. CASE EndTrace \/ EndSplit \/ UNCHANGED blocksVars
  <2>1. UNCHANGED <<traceVars, splitVars>>
    BY <1>3 DEF EndTrace, EndSplit, blocksVars
  <2> QED  BY <2>1 DEF traceVars, splitVars, OffsetInv, Linked, OffsetKnown, CurrentOffset,
              BlockOffsets, VspAfter
<1> QED  BY <1>1, <1>2, <1>3 DEF Next

(* When every handler was recognised, the sum of the recorded changes of   *)
(* VSP that SplitToVirtualBlocks gives a block is the VSP at its start,    *)
(* for every program, every path and every change.                         *)
THEOREM OffsetsAlwaysRecorded == Spec => []OffsetsRecorded
<1>1. Init => (missed = FALSE => OffsetInv)
  BY InitOffsets
<1>2. TypeOK /\ (missed = FALSE => OffsetInv) => OffsetsRecorded
  <2>1. missed \in BOOLEAN /\ ~missed => missed = FALSE
    BY Zenon
  <2> QED  BY <2>1, Zenon DEF TypeOK, OffsetInv, BlockOffsets, OffsetsRecorded
<1>3. TypeOK /\ SplitInv /\ (missed = FALSE => OffsetInv) /\ [Next]_blocksVars
        => (missed = FALSE => OffsetInv)'
  BY NextOffsets
<1> QED  BY <1>1, <1>2, <1>3, SpecSplitInv, TypeCorrect, PTL DEF Spec

-----------------------------------------------------------------------------
(***************************************************************************)
(* The handlers that main's loop keeps and the splitter hands on are the   *)
(* program's, each at its place of the path that the program took.         *)
(***************************************************************************)
(* Each handler kept is one of the program's: it has the VIP, the change   *)
(* of VSP and the target of its place; and the path is one that the        *)
(* program can take.                                                       *)
StartIn(p, b) == IF b = Entry THEN b ELSE b + p[b].shift
PlacedAs(h, p, way, at, number, b) ==
  /\ at \in 1..Len(way)
  /\ number \in 1..Len(p[b].deltas)
  /\ h.vipBefore = StartIn(p, b) + (number - 1) * p[b].shift
  /\ h.vspAfter = h.vspBefore + p[b].deltas[number]
  /\ Transfers(h) <=> number = Len(p[b].deltas)
  /\ h.type = "Entry" <=> (b = Entry /\ number = 1)
  /\ h.type = "Jmp" => at < Len(way) /\ h.newVipShift = p[way[at + 1]].shift
  /\ h.type = "Exit" => p[b].succ = {}
Placed(h, p, way) == PlacedAs(h, p, way, h.at, h.number, way[h.at])
AllPlaced(handlers, p, way) == \A k \in DOMAIN handlers : Placed(handlers[k], p, way)
PathTaken ==
  /\ path[1] = Entry
  /\ \A i \in 1..(Len(path) - 1) : path[i + 1] \in program[path[i]].succ
PlacedInv ==
  /\ PathTaken
  /\ AllPlaced(vmHandlers, program, path)
  /\ AllPlaced(currentBlock.instructions, program, path)
  /\ \A j \in DOMAIN blocks : AllPlaced(blocks[j].instructions, program, path)

LEMMA PlacedGrows ==
  ASSUME NEW S, NEW way \in Seq(S), NEW t \in S, NEW p, NEW h, Placed(h, p, way)
  PROVE  Placed(h, p, Append(way, t))
<1> DEFINE longer == Append(way, t)
<1>1. PICK n \in Nat : n = Len(way)
  BY LenProperties
<1>2. Len(longer) = n + 1 /\ \A i \in 1..n : longer[i] = way[i]
  BY <1>1, AppendProperties
<1>3. PICK k : k = h.at
  OBVIOUS
<1>4. k \in 1..n /\ k \in 1..(n + 1) /\ (k < n => k < n + 1 /\ k + 1 \in 1..n)
  BY <1>1, <1>3 DEF Placed, PlacedAs
<1>5. longer[k] = way[k] /\ (k < n => longer[k + 1] = way[k + 1])
  BY <1>2, <1>4
<1> HIDE DEF longer
<1>6. h.type = "Jmp" => k < n /\ h.newVipShift = p[way[k + 1]].shift
  BY <1>1, <1>3, Zenon DEF Placed, PlacedAs
<1>7. h.type = "Jmp" => k < n + 1 /\ h.newVipShift = p[longer[k + 1]].shift
  BY <1>4, <1>5, <1>6
<1>8. Placed(h, p, longer)
  BY <1>1, <1>2, <1>3, <1>4, <1>5, <1>7, Zenon DEF Placed, PlacedAs
<1> QED  BY <1>8 DEF longer

LEMMA AllPlacedGrows ==
  ASSUME NEW S, NEW way \in Seq(S), NEW t \in S, NEW p, NEW handlers,
         AllPlaced(handlers, p, way)
  PROVE  AllPlaced(handlers, p, Append(way, t))
BY PlacedGrows DEF AllPlaced

LEMMA AllPlacedAppend ==
  ASSUME NEW S, NEW s \in Seq(S), NEW h \in S, NEW p, NEW way,
         AllPlaced(s, p, way), Placed(h, p, way)
  PROVE  AllPlaced(Append(s, h), p, way)
<1>1. PICK n \in Nat : n = Len(s) /\ DOMAIN s = 1..n
  BY LenProperties
<1>2. /\ DOMAIN Append(s, h) = 1..(n + 1) /\ Append(s, h)[n + 1] = h
      /\ \A k \in 1..n : Append(s, h)[k] = s[k]
  BY <1>1, AppendProperties
<1>3. \A k \in 1..(n + 1) : k \in 1..n \/ k = n + 1
  BY <1>1
<1> QED  BY <1>1, <1>2, <1>3, Zenon DEF AllPlaced

(* Of a block that holds what its program's block says.                    *)
LEMMA BlockFacts ==
  ASSUME TypeOK
  PROVE  /\ program \in Programs /\ Entry \in DOMAIN program /\ Entry # 0
         /\ path \in Seq(DOMAIN program) /\ Len(path) \in Nat \ {0}
         /\ \A i \in 1..Len(path) : path[i] \in DOMAIN program
         /\ \A b \in DOMAIN program :
              /\ b \in Nat \ {0} /\ program[b].shift \in Int
              /\ program[b].deltas \in Seq(Int) /\ Len(program[b].deltas) \in Nat \ {0}
              /\ program[b].succ \subseteq DOMAIN program \ {Entry}
         /\ Len(program[Entry].deltas) > 1
<1>1. program \in Programs /\ path \in Seq(DOMAIN program) /\ Len(path) \in Nat \ {0}
  BY LenProperties DEF TypeOK
<1>2. \A i \in 1..Len(path) : path[i] \in DOMAIN program
  BY <1>1, ElementOfSeq
<1>3. /\ Entry \in DOMAIN program /\ DOMAIN program \subseteq Nat \ {0}
      /\ Len(program[Entry].deltas) > 1
  BY <1>1, ProgramsAssumption
<1>4. ASSUME NEW b \in DOMAIN program
      PROVE  /\ program[b].shift \in Int
             /\ program[b].deltas \in Seq(Int) /\ Len(program[b].deltas) \in Nat \ {0}
             /\ program[b].succ \subseteq DOMAIN program \ {Entry}
  <2>1. program[b].deltas \in Seq(Int) /\ program[b].deltas # <<>>
    BY <1>1, ProgramsAssumption
  <2>2. Len(program[b].deltas) \in Nat /\ Len(program[b].deltas) # 0
    BY <2>1, EmptySeq, LenProperties
  <2> QED  BY <1>1, <2>1, <2>2, ProgramsAssumption
<1> QED  BY <1>1, <1>2, <1>3, <1>4

KeptMatch(type, target) ==
  [type |-> type, vipBefore |-> StartVip(Here) + (next - 1) * program[Here].shift,
   vspBefore |-> vsp, vspAfter |-> vsp + program[Here].deltas[next],
   newVip |-> target, newVipShift |-> IF type = "Jmp" THEN program[target].shift ELSE 0,
   at |-> Len(path), number |-> next]

LEMMA KeepKeeps ==
  ASSUME NEW type, NEW target, Keep(type, target)
  PROVE  /\ \/ vmHandlers' = Append(vmHandlers, KeptMatch(type, target)) /\ missed' = missed
            \/ missed' = TRUE /\ vmHandlers' = vmHandlers
         /\ program' = program /\ phase' = phase /\ splitVars' = splitVars
BY DEF Keep, KeptMatch

LEMMA KeptMatchType ==
  ASSUME TypeOK, next \in 1..LastHandler, NEW type \in {"Entry", "Other", "Jmp", "Exit"},
         NEW target \in Nat, type = "Jmp" => target \in DOMAIN program
  PROVE  KeptMatch(type, target) \in Match
<1> DEFINE vip == StartVip(Here) + (next - 1) * program[Here].shift
           after == vsp + program[Here].deltas[next]
           shift == IF type = "Jmp" THEN program[target].shift ELSE 0
<1>1. Here \in Int /\ program[Here].shift \in Int /\ next \in Nat
  BY ProgramFacts
<1>2. vip \in Int
  <2>1. StartVip(Here) \in Int
    BY <1>1 DEF StartVip
  <2> QED  BY <1>1, <2>1
<1>3. after \in Int /\ vsp \in Int
  BY ProgramFacts DEF TypeOK
<1>4. shift \in {-4, 0, 4}
  BY ProgramFacts
<1>5. Len(path) \in Nat
  BY DEF TypeOK
<1> HIDE DEF vip, after, shift
<1>6. [type |-> type, vipBefore |-> vip, vspBefore |-> vsp, vspAfter |-> after,
       newVip |-> target, newVipShift |-> shift, at |-> Len(path), number |-> next] \in Match
  BY <1>1, <1>2, <1>3, <1>4, <1>5 DEF Match
<1> QED  BY <1>6 DEF KeptMatch, vip, after, shift

(* A handler inside its block, a jump and an exit are what their places    *)
(* say.                                                                    *)
LEMMA KeptPlaced ==
  ASSUME TypeOK, next \in 1..LastHandler, NEW type, NEW target, NEW way,
         \/ /\ next < LastHandler /\ way = path
            /\ type = IF next = 1 /\ Here = Entry THEN "Entry" ELSE "Other"
         \/ /\ next = LastHandler /\ target \in program[Here].succ
            /\ way = Append(path, target) /\ type = "Jmp"
         \/ /\ next = LastHandler /\ program[Here].succ = {} /\ way = path /\ type = "Exit"
  PROVE  Placed(KeptMatch(type, target), program, way)
<1> DEFINE h == KeptMatch(type, target)
<1>1. PICK n \in Nat : n = Len(path) /\ n # 0 /\ n \in 1..n
  BY BlockFacts
<1>2. PICK b \in DOMAIN program : b = path[n] /\ b = Here
  BY <1>1, BlockFacts DEF Here
<1>3. PICK l \in Nat : l = LastHandler /\ l = Len(program[b].deltas) /\ next \in 1..l
  BY <1>2, ProgramFacts DEF LastHandler
<1>4. /\ h.at = n /\ h.number = next /\ h.type = type
      /\ h.vipBefore = StartIn(program, b) + (next - 1) * program[b].shift
      /\ h.vspAfter = h.vspBefore + program[b].deltas[next]
      /\ h.newVipShift = IF type = "Jmp" THEN program[target].shift ELSE 0
  BY <1>1, <1>2 DEF KeptMatch, StartVip, StartIn
<1> SUFFICES Placed(h, program, way)
  OBVIOUS
<1> HIDE DEF h
<1>0. /\ h.at = n /\ h.number = next
      /\ h.vipBefore = StartIn(program, b) + (next - 1) * program[b].shift
      /\ h.vspAfter = h.vspBefore + program[b].deltas[next]
  BY <1>4
<1>5. CASE next < l /\ way = path /\ type = IF next = 1 /\ b = Entry THEN "Entry" ELSE "Other"
  <2>1. ~Transfers(h) /\ next # l
    BY <1>3, <1>4, <1>5 DEF Transfers
  <2>2. h.type = "Entry" <=> (b = Entry /\ next = 1)
    BY <1>4, <1>5
  <2>3. h.type # "Jmp" /\ h.type # "Exit"
    BY <1>4, <1>5
  <2>4. n \in 1..Len(way) /\ b = way[n] /\ next \in 1..Len(program[b].deltas)
        /\ (Transfers(h) <=> next = Len(program[b].deltas))
    BY <1>1, <1>2, <1>3, <1>5, <2>1
  <2>5. /\ h.type = "Jmp" => n < Len(way) /\ h.newVipShift = program[way[n + 1]].shift
        /\ h.type = "Exit" => program[b].succ = {}
    BY <2>3
  <2>6. PlacedAs(h, program, way, n, next, b)
    BY <1>0, <2>2, <2>4, <2>5, Zenon DEF PlacedAs
  <2> QED  BY <1>0, <2>4, <2>6 DEF Placed
<1>6. CASE next = l /\ target \in program[b].succ /\ way = Append(path, target) /\ type = "Jmp"
  <2>1. target \in DOMAIN program /\ path \in Seq(DOMAIN program)
    <3>1. program[b].succ \subseteq DOMAIN program \ {Entry}
      BY <1>2, BlockFacts
    <3> QED  BY <1>6, <3>1, BlockFacts
  <2>2. /\ Len(way) = n + 1 /\ way[n + 1] = target /\ way[n] = b
        /\ n \in 1..Len(way) /\ n < Len(way)
    <3>1. Len(way) = Len(path) + 1 /\ way[Len(path) + 1] = target
          /\ \A i \in 1..Len(path) : way[i] = path[i]
      BY <1>6, <2>1, AppendProperties
    <3>2. n \in 1..n /\ n \in 1..(n + 1) /\ n < n + 1 /\ Len(path) = n
      BY <1>1
    <3> QED  BY <1>2, <3>1, <3>2, Zenon
  <2>3. Transfers(h) /\ ~(b = Entry /\ next = 1)
    <3>1. b = Entry => l > 1
      BY <1>2, <1>3, BlockFacts
    <3> QED  BY <1>3, <1>4, <1>6, <3>1 DEF Transfers
  <2>4. h.type # "Entry" /\ h.type # "Exit"
    BY <1>4, <1>6
  <2>5. h.newVipShift = program[way[n + 1]].shift
    BY <1>4, <1>6, <2>2
  <2>6. n \in 1..Len(way) /\ b = way[n] /\ next \in 1..Len(program[b].deltas)
        /\ (Transfers(h) <=> next = Len(program[b].deltas))
    BY <1>2, <1>3, <1>6, <2>2, <2>3
  <2>7. /\ h.type = "Jmp" => n < Len(way) /\ h.newVipShift = program[way[n + 1]].shift
        /\ h.type = "Exit" => program[b].succ = {}
        /\ h.type = "Entry" <=> (b = Entry /\ next = 1)
    BY <2>2, <2>3, <2>4, <2>5
  <2>8. PlacedAs(h, program, way, n, next, b)
    BY <1>0, <2>6, <2>7, Zenon DEF PlacedAs
  <2> QED  BY <1>0, <2>6, <2>8 DEF Placed
<1>7. CASE next = l /\ program[b].succ = {} /\ way = path /\ type = "Exit"
  <2>1. Transfers(h) /\ ~(b = Entry /\ next = 1)
    <3>1. b = Entry => l > 1
      BY <1>2, <1>3, BlockFacts
    <3> QED  BY <1>3, <1>4, <1>7, <3>1 DEF Transfers
  <2>2. h.type # "Entry" /\ h.type # "Jmp"
    BY <1>4, <1>7
  <2>3. n \in 1..Len(way) /\ b = way[n] /\ next \in 1..Len(program[b].deltas)
        /\ (Transfers(h) <=> next = Len(program[b].deltas))
    BY <1>1, <1>2, <1>3, <1>7, <2>1
  <2>4. /\ h.type = "Jmp" => n < Len(way) /\ h.newVipShift = program[way[n + 1]].shift
        /\ h.type = "Exit" => program[b].succ = {}
        /\ h.type = "Entry" <=> (b = Entry /\ next = 1)
    <3>1. h.type # "Entry"
      BY <1>4, <1>7
    <3> QED  BY <1>7, <2>1, <2>2, <3>1
  <2>5. PlacedAs(h, program, way, n, next, b)
    BY <1>0, <2>3, <2>4, Zenon DEF PlacedAs
  <2> QED  BY <1>0, <2>3, <2>5 DEF Placed
<1> QED
  <2>1. Here = b /\ LastHandler = l
    BY <1>2, <1>3
  <2>2. \/ next < l /\ way = path /\ type = IF next = 1 /\ b = Entry THEN "Entry" ELSE "Other"
        \/ next = l /\ target \in program[b].succ /\ way = Append(path, target) /\ type = "Jmp"
        \/ next = l /\ program[b].succ = {} /\ way = path /\ type = "Exit"
    BY <2>1, Zenon
  <2> QED  BY <2>2, <1>5, <1>6, <1>7

LEMMA PathGrows ==
  ASSUME TypeOK, PathTaken, NEW target \in program[Here].succ,
         path' = Append(path, target), program' = program
  PROVE  PathTaken'
<1>1. PICK n \in Nat : n = Len(path) /\ n # 0
  BY BlockFacts
<1>2. target \in DOMAIN program /\ path \in Seq(DOMAIN program)
  BY BlockFacts, ProgramFacts
<1>3. Len(path') = n + 1 /\ path'[n + 1] = target /\ \A i \in 1..n : path'[i] = path[i]
  BY <1>1, <1>2, AppendProperties
<1>4. path'[1] = Entry
  <2>1. 1 \in 1..n
    BY <1>1
  <2> QED  BY <1>3, <2>1 DEF PathTaken
<1>5. ASSUME NEW i \in 1..(Len(path') - 1) PROVE path'[i + 1] \in program[path'[i]].succ
  <2>1. CASE i = n
    <3>1. path'[n] = Here
      BY <1>1, <1>3 DEF Here
    <3> QED  BY <1>3, <2>1, <3>1
  <2>2. CASE i # n
    <3>1. i \in 1..n /\ i + 1 \in 1..n /\ i \in 1..(n - 1)
      BY <1>1, <1>3, <2>2
    <3> QED  BY <1>1, <1>3, <3>1 DEF PathTaken
  <2> QED  BY <2>1, <2>2
<1> QED  BY <1>4, <1>5 DEF PathTaken

(* What the steps of main's loop and of the splitter do, in these terms.   *)
MatchesAs(type, target) ==
  /\ Keep(type, target)
  /\ next \in 1..LastHandler
  /\ next' = IF type = "Jmp" THEN 1 ELSE next + 1
  /\ \/ /\ next < LastHandler /\ path' = path
        /\ type = IF next = 1 /\ Here = Entry THEN "Entry" ELSE "Other"
     \/ /\ next = LastHandler /\ target \in program[Here].succ
        /\ path' = Append(path, target) /\ type = "Jmp"
     \/ /\ next = LastHandler /\ program[Here].succ = {} /\ path' = path /\ type = "Exit"

LEMMA MatchStep ==
  ASSUME TypeOK, MatchInside \/ MatchJump \/ MatchExit
  PROVE  /\ phase = "trace"
         /\ \E type \in {"Entry", "Other", "Jmp", "Exit"}, target \in Nat :
              MatchesAs(type, target) /\ (type = "Jmp" => target \in DOMAIN program)
<1>1. /\ next \in 1..(LastHandler + 1) /\ LastHandler \in Nat /\ 0 \in Nat
      /\ (next = LastHandler => next \in 1..LastHandler)
      /\ (next < LastHandler => next \in 1..LastHandler)
  BY ProgramFacts DEF TypeOK
<1>2. phase = "trace"
  BY DEF MatchInside, MatchJump, MatchExit
<1>3. CASE MatchInside
  <2>1. PICK type \in {"Entry", "Other"} :
          type = (IF next = 1 /\ Here = Entry THEN "Entry" ELSE "Other") /\ Keep(type, 0)
    BY <1>3 DEF MatchInside
  <2>2. MatchesAs(type, 0)
    BY <1>1, <1>3, <2>1 DEF MatchInside, MatchesAs
  <2> QED  BY <1>1, <1>2, <2>1, <2>2
<1>4. CASE MatchJump
  <2>1. PICK target \in program[Here].succ : Keep("Jmp", target) /\ path' = Append(path, target)
    BY <1>4 DEF MatchJump
  <2>2. MatchesAs("Jmp", target)
    BY <1>1, <1>4, <2>1 DEF MatchJump, MatchesAs
  <2>3. target \in DOMAIN program /\ target \in Nat
    BY ProgramFacts
  <2> QED  BY <1>2, <2>2, <2>3
<1>5. CASE MatchExit
  <2>1. MatchesAs("Exit", 0)
    BY <1>1, <1>5 DEF MatchExit, MatchesAs
  <2> QED  BY <1>1, <1>2, <2>1
<1> QED  BY <1>3, <1>4, <1>5

LEMMA SplitStep ==
  ASSUME TypeOK, SplitHandler
  PROVE  \E h \in Match, body \in Seq(Match), block \in VirtualBasicBlock :
           /\ cursor \in Nat /\ cursor + 1 \in 1..Len(vmHandlers)
           /\ h = vmHandlers[cursor + 1] /\ body = currentBlock.instructions
           /\ cursor' = cursor + 1 /\ UNCHANGED <<program, path, next, vmHandlers, missed>>
           /\ phase = "split" /\ phase' = "split"
           /\ block.instructions = Append(body, h)
           /\ IF Transfers(h)
              THEN blocks' = Append(blocks, block) /\ currentBlock'.instructions = <<>>
              ELSE blocks' = blocks /\ currentBlock'.instructions = Append(body, h)
<1> DEFINE h == vmHandlers[cursor + 1]
           body == currentBlock.instructions
           pushed == [currentBlock EXCEPT !.instructions = Append(@, h)]
           block == Shifted(Started(pushed, h), h)
<1>1. /\ vmHandlers \in Seq(Match) /\ cursor \in Nat /\ cursor + 1 \in 1..Len(vmHandlers)
      /\ body \in Seq(Match)
  <2>1. vmHandlers \in Seq(Match) /\ cursor \in 0..Len(vmHandlers) /\ Len(vmHandlers) \in Nat
    BY LenProperties DEF TypeOK
  <2>2. cursor < Len(vmHandlers)
    BY DEF SplitHandler
  <2>3. currentBlock \in VirtualBasicBlock
    BY DEF TypeOK
  <2>4. body \in Seq(Match)
    BY <2>3 DEF VirtualBasicBlock
  <2> QED  BY <2>1, <2>2, <2>4
<1>2. h \in Match
  BY <1>1, ElementOfSeq
<1>3. /\ block \in VirtualBasicBlock /\ block.instructions = Append(body, h)
      /\ MovedBlock(block).instructions = <<>>
  BY <1>2, SplitType DEF MovedBlock, VirtualBasicBlock
<1>4. /\ blocks' = IF EndsBlock(h) THEN Append(blocks, block) ELSE blocks
      /\ currentBlock' = IF EndsBlock(h) THEN MovedBlock(block) ELSE block
      /\ cursor' = cursor + 1 /\ UNCHANGED <<program, path, next, vmHandlers, missed>>
      /\ phase = "split" /\ phase' = "split"
  BY DEF SplitHandler, traceVars
<1>5. EndsBlock(h) <=> Transfers(h)
  BY DEF EndsBlock, Transfers
<1> HIDE DEF block, body
<1> QED
  <2>1. IF Transfers(h)
        THEN blocks' = Append(blocks, block) /\ currentBlock'.instructions = <<>>
        ELSE blocks' = blocks /\ currentBlock'.instructions = Append(body, h)
    BY <1>3, <1>4, <1>5
  <2> HIDE DEF h
  <2>2. h = vmHandlers[cursor + 1] /\ body = currentBlock.instructions
    BY DEF h, body
  <2> QED  BY <1>1, <1>2, <1>3, <1>4, <2>1, <2>2

LEMMA PlacedInit == Init => PlacedInv
<1> SUFFICES ASSUME Init PROVE PlacedInv
  OBVIOUS
<1>1. path = <<Entry>> /\ vmHandlers = <<>> /\ blocks = <<>> /\ currentBlock.instructions = <<>>
  BY DEF Init, NewBlock
<1>2. PathTaken
  BY <1>1 DEF PathTaken
<1>3. \A p, way : AllPlaced(<<>>, p, way)
  BY DEF AllPlaced
<1>4. DOMAIN blocks = {}
  BY <1>1
<1> QED  BY <1>1, <1>2, <1>3, <1>4 DEF PlacedInv

LEMMA PlacedTrace ==
  ASSUME TypeOK, SplitInv, PlacedInv, MatchInside \/ MatchJump \/ MatchExit
  PROVE  PlacedInv'
<1>1. phase = "trace"
  BY MatchStep
<1>2. PICK type \in {"Entry", "Other", "Jmp", "Exit"}, target \in Nat :
        MatchesAs(type, target) /\ (type = "Jmp" => target \in DOMAIN program)
  BY MatchStep, Zenon
<1> DEFINE h == KeptMatch(type, target)
<1>3. /\ vmHandlers' = Append(vmHandlers, h) \/ vmHandlers' = vmHandlers
      /\ program' = program /\ splitVars' = splitVars /\ next \in 1..LastHandler
  BY <1>2, KeepKeeps DEF MatchesAs
<1>4. /\ path' = path \/ (target \in program[Here].succ /\ path' = Append(path, target))
      /\ Placed(h, program, path')
  <2>1. PICK way : way = path'
    OBVIOUS
  <2>2. \/ /\ next < LastHandler /\ way = path
           /\ type = IF next = 1 /\ Here = Entry THEN "Entry" ELSE "Other"
        \/ /\ next = LastHandler /\ target \in program[Here].succ
           /\ way = Append(path, target) /\ type = "Jmp"
        \/ /\ next = LastHandler /\ program[Here].succ = {} /\ way = path /\ type = "Exit"
    BY <1>2, <2>1, Zenon DEF MatchesAs
  <2>3. Placed(h, program, way)
    BY <1>3, <2>2, KeptPlaced
  <2> HIDE DEF h
  <2>4. path' = path \/ (target \in program[Here].succ /\ path' = Append(path, target))
    BY <1>2, Zenon DEF MatchesAs
  <2>5. Placed(h, program, path')
    BY <2>1, <2>3, Zenon
  <2> QED  BY <2>4, <2>5
<1>5. h \in Match /\ vmHandlers \in Seq(Match)
  BY <1>2, <1>3, KeptMatchType DEF TypeOK
<1>6. blocks' = <<>> /\ currentBlock'.instructions = <<>>
  BY <1>1, <1>3 DEF SplitInv, SplitLater, splitVars, NewBlock
<1> HIDE DEF h
<1>7. AllPlaced(vmHandlers, program, path') /\ PathTaken'
  <2>1. CASE path' = path
    BY <1>3, <2>1 DEF PlacedInv, PathTaken
  <2>2. CASE target \in program[Here].succ /\ path' = Append(path, target)
    <3>1. target \in DOMAIN program /\ path \in Seq(DOMAIN program)
      BY <2>2, ProgramFacts, BlockFacts
    <3>2. AllPlaced(vmHandlers, program, Append(path, target))
      BY <3>1, AllPlacedGrows DEF PlacedInv
    <3>3. PathTaken'
      BY <1>3, <2>2, PathGrows DEF PlacedInv
    <3> QED  BY <2>2, <3>2, <3>3
  <2> QED  BY <1>4, <2>1, <2>2
<1>8. AllPlaced(vmHandlers', program, path')
  <2>1. AllPlaced(Append(vmHandlers, h), program, path')
    BY <1>4, <1>5, <1>7, AllPlacedAppend
  <2> QED  BY <1>3, <1>7, <2>1
<1>9. AllPlaced(<<>>, program', path') /\ DOMAIN blocks' = {}
  BY <1>6 DEF AllPlaced
<1> QED  BY <1>3, <1>6, <1>7, <1>8, <1>9 DEF PlacedInv

LEMMA PlacedSplit ==
  ASSUME TypeOK, PlacedInv, SplitHandler
  PROVE  PlacedInv'
<1>1. PICK h \in Match, body \in Seq(Match), block \in VirtualBasicBlock :
        /\ cursor + 1 \in 1..Len(vmHandlers)
        /\ h = vmHandlers[cursor + 1] /\ body = currentBlock.instructions
        /\ UNCHANGED <<program, path, vmHandlers>>
        /\ block.instructions = Append(body, h)
        /\ IF Transfers(h)
           THEN blocks' = Append(blocks, block) /\ currentBlock'.instructions = <<>>
           ELSE blocks' = blocks /\ currentBlock'.instructions = Append(body, h)
  BY SplitStep
<1>2. DOMAIN vmHandlers = 1..Len(vmHandlers)
  BY LenProperties DEF TypeOK
<1>3. Placed(h, program, path)
  BY <1>1, <1>2 DEF PlacedInv, AllPlaced
<1>4. AllPlaced(Append(body, h), program, path)
  BY <1>1, <1>3, AllPlacedAppend DEF PlacedInv
<1>5. AllPlaced(currentBlock'.instructions, program, path)
  <2>1. AllPlaced(<<>>, program, path)
    BY DEF AllPlaced
  <2> QED  BY <1>1, <1>4, <2>1
<1>6. ASSUME NEW j \in DOMAIN blocks' PROVE AllPlaced(blocks'[j].instructions, program, path)
  <2>1. CASE ~Transfers(h)
    BY <1>1, <1>6, <2>1 DEF PlacedInv
  <2>2. CASE Transfers(h)
    <3>1. PICK n \in Nat : n = Len(blocks) /\ DOMAIN blocks = 1..n
      BY LenProperties DEF TypeOK
    <3>2. /\ DOMAIN blocks' = 1..(n + 1) /\ blocks'[n + 1] = block
          /\ \A i \in 1..n : blocks'[i] = blocks[i]
      <4>1. blocks \in Seq(VirtualBasicBlock)
        BY DEF TypeOK
      <4>2. blocks' = Append(blocks, block)
        BY <1>1, <2>2
      <4> QED  BY <3>1, <4>1, <4>2, AppendProperties
    <3>3. j \in 1..n \/ j = n + 1
      BY <1>6, <3>1, <3>2
    <3> QED  BY <1>1, <1>4, <3>1, <3>2, <3>3 DEF PlacedInv
  <2> QED  BY <2>1, <2>2
<1> QED  BY <1>1, <1>5, <1>6 DEF PlacedInv, PathTaken

LEMMA PlacedNext == TypeOK /\ SplitInv /\ PlacedInv /\ [Next]_blocksVars => PlacedInv'
<1> SUFFICES ASSUME TypeOK, SplitInv, PlacedInv, [Next]_blocksVars PROVE PlacedInv'
  OBVIOUS
<1>1. CASE EndTrace \/ EndSplit \/ UNCHANGED blocksVars
  <2>1. UNCHANGED <<program, path, vmHandlers, currentBlock, blocks>>
    BY <1>1 DEF EndTrace, EndSplit, blocksVars, traceVars, splitVars
  <2> QED  BY <2>1 DEF PlacedInv, PathTaken
<1> QED  BY <1>1, PlacedTrace, PlacedSplit DEF Next
-----------------------------------------------------------------------------
(* As long as nothing was missed the handlers kept are those of the path,  *)
(* one after the other, and the j-th block is the j-th block of the path.  *)
NextAt(handlers, k) ==
  IF k = 0 THEN 1
  ELSE IF Transfers(handlers[k]) THEN handlers[k].at + 1 ELSE handlers[k].at
NextNumber(handlers, k) ==
  IF k = 0 \/ Transfers(handlers[k]) THEN 1 ELSE handlers[k].number + 1

TraceWhole ==
  /\ \A k \in 1..Len(vmHandlers) :
       /\ vmHandlers[k].at = NextAt(vmHandlers, k - 1)
       /\ vmHandlers[k].number = NextNumber(vmHandlers, k - 1)
  /\ \/ next = LastHandler + 1       \* the machine was left
     \/ /\ Len(path) = NextAt(vmHandlers, Len(vmHandlers))
        /\ next = NextNumber(vmHandlers, Len(vmHandlers))

NumberedIn(body, j) == \A k \in DOMAIN body : body[k].at = j /\ body[k].number = k
SplitWhole ==
  /\ Len(blocks) + 1 = NextAt(vmHandlers, cursor)
  /\ Len(currentBlock.instructions) + 1 = NextNumber(vmHandlers, cursor)
  /\ NumberedIn(currentBlock.instructions, Len(blocks) + 1)
  /\ \A j \in DOMAIN blocks : NumberedIn(blocks[j].instructions, j)

WholeInv == TraceWhole /\ SplitWhole

LEMMA WholeInit == Init => WholeInv
<1> SUFFICES ASSUME Init PROVE WholeInv
  OBVIOUS
<1>1. /\ Len(vmHandlers) = 0 /\ Len(path) = 1 /\ next = 1 /\ cursor = 0
      /\ Len(blocks) = 0 /\ DOMAIN blocks = {}
      /\ Len(currentBlock.instructions) = 0 /\ DOMAIN currentBlock.instructions = {}
  BY DEF Init, NewBlock
<1>2. \A hs : NextAt(hs, 0) = 1 /\ NextNumber(hs, 0) = 1
  BY DEF NextAt, NextNumber
<1>3. TraceWhole
  BY <1>1, <1>2 DEF TraceWhole
<1>4. SplitWhole
  BY <1>1, <1>2 DEF SplitWhole, NumberedIn
<1> QED  BY <1>3, <1>4 DEF WholeInv

LEMMA WholeTrace ==
  ASSUME TypeOK, SplitInv, WholeInv, MatchInside \/ MatchJump \/ MatchExit, missed' = FALSE
  PROVE  WholeInv'
<1>1. phase = "trace"
  BY MatchStep
<1>2. PICK type \in {"Entry", "Other", "Jmp", "Exit"}, target \in Nat : MatchesAs(type, target)
  BY MatchStep, Zenon
<1> DEFINE h == KeptMatch(type, target)
<1>3. /\ vmHandlers' = Append(vmHandlers, h) /\ program' = program /\ splitVars' = splitVars
      /\ next \in 1..LastHandler
  <2> HIDE DEF h
  <2>1. Keep(type, target) /\ next \in 1..LastHandler
    BY <1>2 DEF MatchesAs
  <2> QED  BY <2>1, KeepKeeps DEF h
<1>4. h.at = Len(path) /\ h.number = next /\ h.type = type
  BY DEF KeptMatch
<1> HIDE DEF h
<1>5. PICK n \in Nat : n = Len(vmHandlers)
  BY LenProperties DEF TypeOK
<1>6. /\ Len(vmHandlers') = n + 1 /\ vmHandlers'[n + 1] = h
      /\ \A k \in 1..n : vmHandlers'[k] = vmHandlers[k]
  <2>1. vmHandlers \in Seq(Match)
    BY DEF TypeOK
  <2>2. PICK S : S = Match \cup {h}
    OBVIOUS
  <2>3. vmHandlers \in Seq(S) /\ h \in S
    BY <2>1, <2>2
  <2> QED  BY <1>3, <1>5, <2>3, AppendProperties
<1>7. \A k \in 0..n : /\ NextAt(vmHandlers', k) = NextAt(vmHandlers, k)
                      /\ NextNumber(vmHandlers', k) = NextNumber(vmHandlers, k)
  <2>1. \A k \in 0..n : k = 0 \/ k \in 1..n
    BY <1>5
  <2> QED  BY <1>6, <2>1, Zenon DEF NextAt, NextNumber
<1>8. LastHandler \in Nat /\ Len(path) \in Nat
  BY ProgramFacts, LenProperties DEF TypeOK
<1>9. Len(path) = NextAt(vmHandlers, n) /\ next = NextNumber(vmHandlers, n)
  <2>1. next # LastHandler + 1
    BY <1>3, <1>8
  <2> QED  BY <1>5, <2>1 DEF WholeInv, TraceWhole
<1>10. ASSUME NEW k \in 1..(n + 1)
       PROVE  /\ vmHandlers'[k].at = NextAt(vmHandlers', k - 1)
              /\ vmHandlers'[k].number = NextNumber(vmHandlers', k - 1)
  <2>1. PICK l : l = k - 1
    OBVIOUS
  <2>2. l \in 0..n /\ (k = n + 1 => l = n) /\ (k \in 1..n \/ k = n + 1)
    BY <1>5, <2>1
  <2>3. /\ NextAt(vmHandlers', l) = NextAt(vmHandlers, l)
        /\ NextNumber(vmHandlers', l) = NextNumber(vmHandlers, l)
    BY <1>7, <2>2
  <2>4. CASE k \in 1..n
    <3>1. /\ vmHandlers[k].at = NextAt(vmHandlers, l)
          /\ vmHandlers[k].number = NextNumber(vmHandlers, l)
      BY <1>5, <2>1, <2>4, Zenon DEF WholeInv, TraceWhole
    <3> QED  BY <1>6, <2>1, <2>3, <2>4, <3>1
  <2>5. CASE k = n + 1
    BY <1>4, <1>6, <1>9, <2>1, <2>2, <2>3, <2>5
  <2> QED  BY <2>2, <2>4, <2>5
<1>11. next' = LastHandler' + 1 \/ /\ Len(path') = NextAt(vmHandlers', n + 1)
                                   /\ next' = NextNumber(vmHandlers', n + 1)
  <2>1. n + 1 # 0
    BY <1>5
  <2>2. /\ NextAt(vmHandlers', n + 1) = IF Transfers(h) THEN h.at + 1 ELSE h.at
        /\ NextNumber(vmHandlers', n + 1) = IF Transfers(h) THEN 1 ELSE h.number + 1
    BY <1>6, <2>1 DEF NextAt, NextNumber
  <2>3. next' = IF type = "Jmp" THEN 1 ELSE next + 1
    BY <1>2 DEF MatchesAs
  <2>4. CASE type = "Jmp"
    <3>1. path' = Append(path, target) /\ target \in program[Here].succ
      BY <1>2, <2>4 DEF MatchesAs
    <3>2. target \in DOMAIN program /\ path \in Seq(DOMAIN program)
      BY <3>1, ProgramFacts, BlockFacts
    <3>3. Len(path') = Len(path) + 1
      BY <3>1, <3>2, AppendProperties
    <3>4. Transfers(h)
      BY <1>4, <2>4 DEF Transfers
    <3> QED  BY <1>4, <2>2, <2>3, <2>4, <3>3, <3>4
  <2>5. CASE type = "Exit"
    <3>1. next = LastHandler /\ path' = path
      BY <1>2, <2>5, Zenon DEF MatchesAs
    <3>2. LastHandler' = LastHandler
      BY <1>3, <3>1 DEF LastHandler, Here
    <3> QED  BY <2>3, <2>5, <3>1, <3>2
  <2>6. CASE type # "Jmp" /\ type # "Exit"
    <3>1. path' = path
      BY <1>2, <2>6, Zenon DEF MatchesAs
    <3>2. ~Transfers(h)
      BY <1>4, <2>6 DEF Transfers
    <3> QED  BY <1>4, <2>2, <2>3, <2>6, <3>1, <3>2
  <2> QED  BY <2>4, <2>5, <2>6
<1>12. TraceWhole'
  BY <1>6, <1>10, <1>11, Zenon DEF TraceWhole
<1>13. /\ cursor' = 0 /\ blocks' = <<>> /\ currentBlock'.instructions = <<>>
  BY <1>1, <1>3 DEF SplitInv, SplitLater, splitVars, NewBlock
<1>14. SplitWhole'
  BY <1>13 DEF SplitWhole, NumberedIn, NextAt, NextNumber
<1> QED  BY <1>12, <1>14 DEF WholeInv

LEMMA NumberedAppend ==
  ASSUME NEW S, NEW body \in Seq(S), NEW h \in S, NEW j, NumberedIn(body, j),
         h.at = j, h.number = Len(body) + 1
  PROVE  NumberedIn(Append(body, h), j)
<1>1. PICK n \in Nat : n = Len(body) /\ DOMAIN body = 1..n
  BY LenProperties
<1>2. /\ DOMAIN Append(body, h) = 1..(n + 1) /\ Append(body, h)[n + 1] = h
      /\ \A k \in 1..n : Append(body, h)[k] = body[k]
  BY <1>1, AppendProperties
<1>3. \A k \in 1..(n + 1) : k \in 1..n \/ k = n + 1
  BY <1>1
<1> QED  BY <1>1, <1>2, <1>3 DEF NumberedIn

LEMMA WholeSplit ==
  ASSUME TypeOK, WholeInv, SplitHandler
  PROVE  WholeInv'
<1>1. PICK h \in Match, body \in Seq(Match), block \in VirtualBasicBlock :
        /\ cursor \in Nat /\ cursor + 1 \in 1..Len(vmHandlers)
        /\ h = vmHandlers[cursor + 1] /\ body = currentBlock.instructions
        /\ cursor' = cursor + 1 /\ UNCHANGED <<program, path, next, vmHandlers>>
        /\ block.instructions = Append(body, h)
        /\ IF Transfers(h)
           THEN blocks' = Append(blocks, block) /\ currentBlock'.instructions = <<>>
           ELSE blocks' = blocks /\ currentBlock'.instructions = Append(body, h)
  BY SplitStep
<1>2. TraceWhole'
  <2>1. LastHandler' = LastHandler
    BY <1>1 DEF LastHandler, Here
  <2> QED  BY <1>1, <2>1 DEF WholeInv, TraceWhole
<1>3. PICK n \in Nat : n = Len(blocks) /\ DOMAIN blocks = 1..n
  BY LenProperties DEF TypeOK
<1>4. PICK m \in Nat : m = Len(body)
  BY LenProperties
<1>5. h.at = n + 1 /\ h.number = m + 1
  <2>1. (cursor + 1) - 1 = cursor
    BY <1>1
  <2>2. h.at = NextAt(vmHandlers, cursor) /\ h.number = NextNumber(vmHandlers, cursor)
    BY <1>1, <2>1 DEF WholeInv, TraceWhole
  <2> QED  BY <1>1, <1>3, <1>4, <2>2 DEF WholeInv, SplitWhole
<1>6. /\ NextAt(vmHandlers, cursor + 1) = IF Transfers(h) THEN n + 2 ELSE n + 1
      /\ NextNumber(vmHandlers, cursor + 1) = IF Transfers(h) THEN 1 ELSE m + 2
  <2>1. cursor + 1 # 0
    BY <1>1
  <2>2. /\ NextAt(vmHandlers, cursor + 1) = IF Transfers(h) THEN h.at + 1 ELSE h.at
        /\ NextNumber(vmHandlers, cursor + 1) = IF Transfers(h) THEN 1 ELSE h.number + 1
    BY <1>1, <2>1 DEF NextAt, NextNumber
  <2> QED  BY <1>3, <1>4, <1>5, <2>2
<1>7. NumberedIn(Append(body, h), n + 1)
  <2>1. NumberedIn(body, n + 1)
    BY <1>1, <1>3 DEF WholeInv, SplitWhole
  <2> QED  BY <1>4, <1>5, <2>1, NumberedAppend
<1>8. Len(Append(body, h)) = m + 1 /\ Len(<<>>) = 0 /\ NumberedIn(<<>>, n + 2)
  BY <1>1, <1>4, AppendProperties DEF NumberedIn
<1>9. \A j \in 1..n : NumberedIn(blocks[j].instructions, j)
  BY <1>3 DEF WholeInv, SplitWhole
<1>10. CASE ~Transfers(h)
  <2>1. blocks' = blocks /\ currentBlock'.instructions = Append(body, h)
    BY <1>1, <1>10
  <2>2. /\ NextAt(vmHandlers', cursor') = n + 1 /\ NextNumber(vmHandlers', cursor') = m + 2
        /\ (m + 1) + 1 = m + 2
    BY <1>1, <1>4, <1>6, <1>10
  <2>3. SplitWhole'
    BY <1>3, <1>7, <1>8, <1>9, <2>1, <2>2 DEF SplitWhole
  <2> QED  BY <1>2, <2>3 DEF WholeInv
<1>11. CASE Transfers(h)
  <2>1. blocks' = Append(blocks, block) /\ currentBlock'.instructions = <<>>
    BY <1>1, <1>11
  <2>2. /\ Len(blocks') = n + 1 /\ DOMAIN blocks' = 1..(n + 1) /\ blocks'[n + 1] = block
        /\ \A i \in 1..n : blocks'[i] = blocks[i]
    <3>1. blocks \in Seq(VirtualBasicBlock)
      BY DEF TypeOK
    <3> QED  BY <1>3, <2>1, <3>1, AppendProperties
  <2>3. ASSUME NEW j \in DOMAIN blocks' PROVE NumberedIn(blocks'[j].instructions, j)
    <3>1. j \in 1..n \/ j = n + 1
      BY <1>3, <2>2
    <3> QED  BY <1>1, <1>7, <1>9, <2>2, <3>1
  <2>4. (n + 1) + 1 = n + 2
    BY <1>3
  <2>5. SplitWhole'
    BY <1>1, <1>6, <1>8, <1>11, <2>1, <2>2, <2>3, <2>4 DEF SplitWhole
  <2> QED  BY <1>2, <2>5 DEF WholeInv
<1> QED  BY <1>10, <1>11

LEMMA WholeNext ==
  TypeOK /\ SplitInv /\ (missed = FALSE => WholeInv) /\ [Next]_blocksVars
    => (missed' = FALSE => WholeInv')
<1> SUFFICES ASSUME TypeOK, SplitInv, missed = FALSE => WholeInv, [Next]_blocksVars,
                    missed' = FALSE
             PROVE  WholeInv'
  OBVIOUS
<1>1. CASE MatchInside \/ MatchJump \/ MatchExit
  <2>1. PICK type, target : Keep(type, target)
    BY <1>1 DEF MatchInside, MatchJump, MatchExit
  <2>2. missed = FALSE
    BY <2>1, Zenon DEF Keep
  <2> QED  BY <1>1, <2>2, WholeTrace
<1>2. CASE SplitHandler
  <2>1. missed = FALSE
    BY <1>2 DEF SplitHandler, traceVars
  <2> QED  BY <1>2, <2>1, WholeSplit
<1>3. CASE EndTrace \/ EndSplit \/ UNCHANGED blocksVars
  <2>1. UNCHANGED <<traceVars, splitVars>>
    BY <1>3 DEF EndTrace, EndSplit, blocksVars
  <2> QED  BY <2>1 DEF traceVars, splitVars, WholeInv, TraceWhole, SplitWhole, NextAt,
              NextNumber, LastHandler, Here
<1> QED  BY <1>1, <1>2, <1>3 DEF Next


-----------------------------------------------------------------------------
(* The blocks.  Whatever was missed, a block has a handler and its last    *)
(* one transfers; when nothing was, it is the path's block of its index.   *)
LEMMA BodyFacts ==
  ASSUME TypeOK, SplitInv, PlacedInv, NEW i \in DOMAIN blocks
  PROVE  LET body == blocks[i].instructions
         IN /\ body \in Seq(Match) /\ Len(body) \in Nat \ {0} /\ DOMAIN body = 1..Len(body)
            /\ \A k \in 1..Len(body) : body[k] \in Match /\ Placed(body[k], program, path)
            /\ Transfers(LastMatch(i)) /\ LastMatch(i) \in Match
            /\ Placed(LastMatch(i), program, path)
            /\ blocks[i].startAddr = body[1].vipBefore
            /\ LastMatch(i).type = "Jmp" => blocks[i].nextVipShift = LastMatch(i).newVipShift
<1> DEFINE body == blocks[i].instructions
<1>1. body \in Seq(Match)
  <2>1. blocks[i] \in VirtualBasicBlock
    BY ElementOfSeq, LenProperties DEF TypeOK
  <2> QED  BY <2>1 DEF VirtualBasicBlock
<1>2. body # <<>> /\ \A k \in DOMAIN body : Transfers(body[k]) <=> k = Len(body)
  BY DEF SplitInv, BlocksStraightLine
<1>3. Len(body) \in Nat \ {0} /\ DOMAIN body = 1..Len(body)
  BY <1>1, <1>2, EmptySeq, LenProperties
<1>4. \A k \in 1..Len(body) : body[k] \in Match /\ Placed(body[k], program, path)
  <2>1. AllPlaced(body, program, path)
    BY DEF PlacedInv
  <2> QED  BY <1>1, <1>3, <2>1, ElementOfSeq DEF AllPlaced
<1>5. LastMatch(i) = body[Len(body)] /\ Len(body) \in 1..Len(body)
  BY <1>3 DEF LastMatch
<1>6. /\ blocks[i].startAddr = body[1].vipBefore
      /\ body[Len(body)].type = "Jmp" => blocks[i].nextVipShift = body[Len(body)].newVipShift
  BY DEF SplitInv, BlockNumbersOwn
<1>7. Transfers(LastMatch(i)) /\ LastMatch(i) \in Match /\ Placed(LastMatch(i), program, path)
  BY <1>2, <1>3, <1>4, <1>5
<1> QED  BY <1>1, <1>3, <1>4, <1>5, <1>6, <1>7

LEMMA BlockVipType ==
  ASSUME TypeOK, NEW i \in DOMAIN blocks
  PROVE  BlockVip(i) \in Int
<1>1. PICK n \in Nat : n = Len(blocks) /\ DOMAIN blocks = 1..n
  BY LenProperties DEF TypeOK
<1>2. \A j \in 1..n : blocks[j].startAddr \in Int /\ blocks[j].nextVipShift \in Int
  <2> TAKE j \in 1..n
  <2>1. blocks \in Seq(VirtualBasicBlock)
    BY DEF TypeOK
  <2>2. blocks[j] \in VirtualBasicBlock
    BY <1>1, <2>1, ElementOfSeq
  <2> QED  BY <2>2 DEF VirtualBasicBlock
<1>3. CASE i = 1
  BY <1>1, <1>2, <1>3 DEF BlockVip
<1>4. CASE i # 1
  <2>1. PICK j \in 1..n : j = i - 1
    BY <1>1, <1>4
  <2>2. BlockVip(i) = blocks[i].startAddr - blocks[j].nextVipShift
    BY <1>4, <2>1 DEF BlockVip
  <2> QED  BY <1>1, <1>2, <2>2
<1> QED  BY <1>3, <1>4

LEMMA BlockIs ==
  ASSUME TypeOK, SplitInv, PlacedInv, WholeInv, NEW i \in DOMAIN blocks
  PROVE  /\ i \in 1..Len(path) /\ BlockVip(i) = path[i] /\ LastMatch(i).at = i
         /\ blocks[i].instructions[1].type = "Entry" <=> i = 1
<1>1. PICK n \in Nat : n = Len(blocks) /\ DOMAIN blocks = 1..n
  BY LenProperties DEF TypeOK
<1>2. \A j \in 1..n : NumberedIn(blocks[j].instructions, j)
  BY <1>1 DEF WholeInv, SplitWhole
<1>3. ASSUME NEW j \in 1..n
      PROVE  /\ LastMatch(j).at = j /\ j \in 1..Len(path)
             /\ blocks[j].startAddr = StartIn(program, path[j])
             /\ blocks[j].instructions[1].type = "Entry" <=> path[j] = Entry
  <2> DEFINE body == blocks[j].instructions
  <2>1. /\ Len(body) \in Nat \ {0} /\ DOMAIN body = 1..Len(body)
        /\ Placed(body[1], program, path)
        /\ blocks[j].startAddr = body[1].vipBefore
    BY <1>1, BodyFacts
  <2>2. /\ 1 \in DOMAIN body /\ Len(body) \in DOMAIN body
        /\ LastMatch(j) = body[Len(body)]
    BY <2>1 DEF LastMatch
  <2>3. body[1].at = j /\ body[1].number = 1 /\ LastMatch(j).at = j
    BY <1>2, <2>2 DEF NumberedIn
  <2> HIDE DEF body
  <2>4. j \in 1..Len(path)
    BY <2>1, <2>3 DEF Placed, PlacedAs
  <2>5. PICK b : b = path[j]
    OBVIOUS
  <2>6. /\ body[1].vipBefore = StartIn(program, b) + (1 - 1) * program[b].shift
        /\ body[1].type = "Entry" <=> b = Entry
    BY <2>1, <2>3, <2>5, Zenon DEF Placed, PlacedAs
  <2>7. b \in DOMAIN program /\ b \in Int /\ program[b].shift \in Int
    BY <2>4, <2>5, BlockFacts
  <2>8. body[1].vipBefore = StartIn(program, b)
    <3>1. StartIn(program, b) \in Int
      BY <2>7 DEF StartIn
    <3> QED  BY <2>6, <2>7, <3>1
  <2> QED  BY <2>1, <2>3, <2>4, <2>5, <2>6, <2>8 DEF body
<1>4. path[1] = Entry /\ \A j \in 1..(Len(path) - 1) : path[j + 1] \in program[path[j]].succ
  BY DEF PlacedInv, PathTaken
<1>5. i \in 1..n /\ i \in 1..Len(path) /\ Len(path) \in Nat
  BY <1>1, <1>3, BlockFacts
<1>6. CASE i = 1
  <2>1. BlockVip(i) = StartIn(program, path[1])
    BY <1>3, <1>5, <1>6 DEF BlockVip
  <2>2. BlockVip(i) = path[i]
    BY <1>4, <1>6, <2>1 DEF StartIn
  <2> QED  BY <1>3, <1>4, <1>5, <1>6, <2>2
<1>7. CASE i # 1
  <2>1. PICK j \in 1..n : i = j + 1 /\ j = i - 1 /\ j \in 1..(Len(path) - 1)
    BY <1>5, <1>7
  <2>2. path[i] \in program[path[j]].succ /\ path[j] \in DOMAIN program
    <3>1. j \in 1..Len(path)
      BY <1>5, <2>1
    <3> QED  BY <1>4, <2>1, <3>1, BlockFacts
  <2>3. path[i] \in DOMAIN program /\ path[i] # Entry /\ path[i] \in Int
        /\ program[path[i]].shift \in Int
    BY <2>2, BlockFacts
  <2>4. /\ Transfers(LastMatch(j)) /\ Placed(LastMatch(j), program, path)
        /\ LastMatch(j).type = "Jmp" => blocks[j].nextVipShift = LastMatch(j).newVipShift
    BY <1>1, BodyFacts
  <2>5. LastMatch(j).at = j
    BY <1>3
  <2>6. LastMatch(j).type = "Jmp"
    <3>1. LastMatch(j).type = "Exit" => program[path[j]].succ = {}
      BY <2>4, <2>5 DEF Placed, PlacedAs
    <3> QED  BY <2>2, <2>4, <3>1 DEF Transfers
  <2>7. LastMatch(j).newVipShift = program[path[i]].shift
    BY <2>1, <2>4, <2>5, <2>6 DEF Placed, PlacedAs
  <2>8. BlockVip(i) = blocks[i].startAddr - blocks[j].nextVipShift
    BY <1>7, <2>1 DEF BlockVip
  <2>9. blocks[i].startAddr = path[i] + program[path[i]].shift
    BY <1>3, <1>5, <2>3 DEF StartIn
  <2>10. BlockVip(i) = path[i]
    BY <2>3, <2>4, <2>6, <2>7, <2>8, <2>9
  <2> QED  BY <1>3, <1>5, <1>7, <2>3, <2>10
<1> QED  BY <1>6, <1>7
-----------------------------------------------------------------------------
(* The invariants of the blocks go on to hold when they are lifted: the    *)
(* lifter and the repatcher change nothing of them but the phase.          *)
BlocksInv ==
  /\ TypeOK /\ SplitInv /\ PlacedInv
  /\ missed = FALSE => WholeInv
  /\ missed = FALSE => OffsetInv

LEMMA BlocksInvInit == Init => BlocksInv
BY InitType, InitSplitInv, PlacedInit, WholeInit, InitOffsets DEF BlocksInv

LEMMA LaterSteps ==
  LiftBlock \/ ConnectEntry \/ Patch \/ EndPatch \/ UNCHANGED vars
    => /\ UNCHANGED <<traceVars, splitVars>>
       /\ phase' = phase \/ phase' \in {"patch", "done"}
BY DEF LiftBlock, ConnectEntry, Patch, EndPatch, vars, blocksVars

LEMMA BlocksInvNext == BlocksInv /\ [LifterNext]_vars => BlocksInv'
<1> SUFFICES ASSUME BlocksInv, [LifterNext]_vars PROVE BlocksInv'
  OBVIOUS
<1>1. CASE TraceAndSplit
  <2>1. [Next]_blocksVars
    BY <1>1 DEF TraceAndSplit
  <2> QED  BY <2>1, NextType, NextSplitInv, PlacedNext, WholeNext, NextOffsets DEF BlocksInv
<1>2. CASE LiftBlock \/ ConnectEntry \/ Patch \/ EndPatch \/ UNCHANGED vars
  <2>1. /\ UNCHANGED <<traceVars, splitVars>>
        /\ phase' = phase \/ phase' \in {"patch", "done"}
    BY <1>2, LaterSteps
  <2>2. TypeOK'
    BY <2>1 DEF BlocksInv, TypeOK, traceVars, splitVars, LastHandler, Here
  <2>3. SplitInv'
    BY <2>1 DEF BlocksInv, SplitInv, SplitLater, CutsPassed, CurrentNumbers, BlocksTile,
                BlocksStraightLine, StraightLine, BlockNumbersOwn, traceVars, splitVars
  <2>4. PlacedInv'
    BY <2>1 DEF BlocksInv, PlacedInv, PathTaken, traceVars, splitVars
  <2>5. missed' = FALSE => WholeInv'
    BY <2>1 DEF BlocksInv, WholeInv, TraceWhole, SplitWhole, NextAt, NextNumber, LastHandler,
                Here, traceVars, splitVars
  <2>6. missed' = FALSE => OffsetInv'
    BY <2>1 DEF BlocksInv, OffsetInv, Linked, OffsetKnown, CurrentOffset, BlockOffsets,
                VspAfter, traceVars, splitVars
  <2> QED  BY <2>2, <2>3, <2>4, <2>5, <2>6 DEF BlocksInv
<1> QED  BY <1>1, <1>2 DEF LifterNext

(* Of the blocks with one vip there is a first and a last one.             *)
LEMMA LastBlockIs ==
  ASSUME TypeOK, NEW n \in DOMAIN blocks, NEW vip, vip = BlockVip(n)
  PROVE  /\ LastBlock(vip) \in DOMAIN blocks /\ BlockVip(LastBlock(vip)) = vip
         /\ \A j \in DOMAIN blocks : BlockVip(j) = vip => j <= LastBlock(vip)
<1>1. PICK l \in Nat : l = Len(blocks) /\ DOMAIN blocks = 1..l
  BY LenProperties DEF TypeOK
<1> DEFINE Has(j) == BlockVip(j) = vip
           T == {k \in Nat : \E j \in 1..l : Has(j) /\ k = l - j}
<1> HIDE DEF Has
<1>2. l - n \in T
  <2>1. Has(n) /\ n \in 1..l
    BY <1>1 DEF Has
  <2> QED  BY <1>1, <2>1
<1>3. PICK m \in T : \A k \in T : m <= k
  <2>1. T \subseteq Nat /\ T # {}
    BY <1>2
  <2> HIDE DEF T
  <2> QED  BY <2>1, LeastNumber
<1>4. PICK i \in 1..l : Has(i) /\ m = l - i
  OBVIOUS
<1>5. ASSUME NEW j \in 1..l, Has(j) PROVE j <= i
  <2>1. l - j \in T
    BY <1>5
  <2> QED  BY <1>3, <1>4, <2>1
<1>6. \E k \in DOMAIN blocks :
        BlockVip(k) = vip /\ \A j \in DOMAIN blocks : BlockVip(j) = vip => j <= k
  BY <1>1, <1>4, <1>5 DEF Has
<1> QED  BY <1>6 DEF LastBlock

LEMMA FirstBlockIs ==
  ASSUME TypeOK, NEW n \in DOMAIN blocks, NEW vip, vip = BlockVip(n)
  PROVE  /\ FirstBlock(vip) \in DOMAIN blocks /\ BlockVip(FirstBlock(vip)) = vip
         /\ \A j \in DOMAIN blocks : BlockVip(j) = vip => FirstBlock(vip) <= j
<1>1. PICK l \in Nat : l = Len(blocks) /\ DOMAIN blocks = 1..l
  BY LenProperties DEF TypeOK
<1> DEFINE T == {j \in 1..l : BlockVip(j) = vip}
<1>2. T \subseteq Nat /\ T # {}
  BY <1>1
<1>3. PICK m \in T : \A k \in T : m <= k
  <2> HIDE DEF T
  <2> QED  BY <1>2, LeastNumber
<1>4. \E k \in DOMAIN blocks :
        BlockVip(k) = vip /\ \A j \in DOMAIN blocks : BlockVip(j) = vip => k <= j
  BY <1>1, <1>3
<1> QED  BY <1>4 DEF FirstBlock
-----------------------------------------------------------------------------
(* The vips lifted so far are those of the first blocks, each with the     *)
(* last block that has it.                                                 *)
LiftedVips == {BlockVip(n) : n \in 1..(liftAt - 1)}
Lifting ==
  /\ liftAt \in 1..(Len(blocks) + 1)
  /\ phase \in {"trace", "split"} => liftAt = 1
  /\ phase \in {"patch", "done"} => liftAt = Len(blocks) + 1
  /\ DOMAIN virtualBasicBlockMap = LiftedVips
  /\ \A vip \in LiftedVips : virtualBasicBlockMap[vip] = LastBlock(vip)
  /\ DOMAIN offsets = LiftedVips
  /\ DOMAIN jumps = LiftedVips

LEMMA LiftingInit == LifterInit => Lifting
<1> SUFFICES ASSUME LifterInit PROVE Lifting
  OBVIOUS
<1>1. /\ liftAt = 1 /\ phase = "trace" /\ Len(blocks) = 0
      /\ DOMAIN virtualBasicBlockMap = {} /\ DOMAIN offsets = {} /\ DOMAIN jumps = {}
  BY DEF LifterInit, Init
<1>2. LiftedVips = {}
  BY <1>1 DEF LiftedVips
<1> QED  BY <1>1, <1>2 DEF Lifting

LEMMA NothingLifted ==
  ASSUME liftAt = 1, Lifting
  PROVE  LiftedVips = {}
BY DEF LiftedVips

(* What the blocks alone determine stays when they stay.                   *)
LEMMA SameBlocks ==
  ASSUME blocks' = blocks
  PROVE  /\ \A i : BlockVip(i)' = BlockVip(i)
         /\ \A vip : LastBlock(vip)' = LastBlock(vip)
         /\ \A i : LastMatch(i)' = LastMatch(i)
         /\ \A vip : FirstBlock(vip)' = FirstBlock(vip)
         /\ \A i : Delta(i)' = Delta(i)
         /\ Vips' = Vips
<1>1. /\ \A i : BlockVip(i)' = BlockVip(i)
      /\ \A i : LastMatch(i)' = LastMatch(i)
      /\ \A i : Changes(i)' = Changes(i)
  BY DEF BlockVip, LastMatch, Changes
<1>2. \A vip : LastBlock(vip)' = LastBlock(vip)
  BY <1>1 DEF LastBlock
<1>3. \A vip : FirstBlock(vip)' = FirstBlock(vip)
  BY <1>1 DEF FirstBlock
<1>4. \A i : Delta(i)' = Delta(i)
  BY <1>1 DEF Delta
<1>5. Vips' = Vips
  BY <1>1 DEF Vips
<1> QED  BY <1>1, <1>2, <1>3, <1>4, <1>5

(* A round of the lifting loop, once it is known which vip it turns to.    *)
LiftsAs(n, vip, i) ==
  /\ n = liftAt /\ vip = BlockVip(n) /\ i = LastBlock(vip)
  /\ phase = "lift" /\ phase' = "lift" /\ liftAt' = n + 1
  /\ UNCHANGED <<traceVars, splitVars, entry, patched>>
  /\ LiftedVips' = LiftedVips \cup {vip}
  /\ \/ /\ vip \in LiftedVips
        /\ UNCHANGED <<stackOffset, virtualBasicBlockMap, offsets,
                       protectedCodeEntryBlock, dispatchSwitch, jumps>>
     \/ /\ vip \notin LiftedVips
        /\ virtualBasicBlockMap' = With(virtualBasicBlockMap, vip, i)
        /\ offsets' = With(offsets, vip, stackOffset)
        /\ stackOffset' = stackOffset + Delta(i)
        /\ protectedCodeEntryBlock' =
             IF blocks[i].instructions[1].type = "Entry"
             THEN vip ELSE protectedCodeEntryBlock
        /\ dispatchSwitch' = dispatchSwitch \cup {vip}
        /\ jumps' = With(jumps, vip, Dispatch)

LEMMA LiftStep ==
  ASSUME BlocksInv, Lifting, LiftBlock
  PROVE  \E n \in DOMAIN blocks, i \in DOMAIN blocks : LiftsAs(n, BlockVip(n), i)
<1>1. PICK n \in DOMAIN blocks : n = liftAt
  BY DEF LiftBlock
<1>2. PICK vip : vip = BlockVip(n) /\ vip = VipInOrder(liftAt)
  BY <1>1 DEF VipInOrder
<1>3. PICK i \in DOMAIN blocks : i = LastBlock(vip)
  BY <1>1, <1>2, LastBlockIs DEF BlocksInv
<1>4. AlreadyLifted(vip) <=> vip \in LiftedVips
  BY DEF AlreadyLifted, Lifting
<1>5. /\ phase = "lift" /\ phase' = "lift" /\ liftAt' = n + 1
      /\ UNCHANGED <<traceVars, splitVars, entry, patched>>
  BY <1>1 DEF LiftBlock, blocksVars
<1>6. LiftedVips' = LiftedVips \cup {vip}
  <2>1. n \in Nat \ {0}
    <3>1. blocks \in Seq(VirtualBasicBlock)
      BY DEF BlocksInv, TypeOK
    <3> QED  BY <3>1, <1>1, LenProperties
  <2>2. 1..(liftAt' - 1) = (1..(liftAt - 1)) \cup {n}
    BY <1>1, <1>5, <2>1
  <2>3. blocks' = blocks
    BY <1>5 DEF splitVars
  <2>4. \A j : BlockVip(j)' = BlockVip(j)
    BY <2>3, SameBlocks
  <2>5. LiftedVips' = {BlockVip(j) : j \in 1..(liftAt' - 1)}
    BY <2>4 DEF LiftedVips
  <2> QED  BY <1>2, <2>2, <2>5 DEF LiftedVips
<1>7. \/ /\ AlreadyLifted(vip)
         /\ UNCHANGED <<stackOffset, virtualBasicBlockMap, offsets,
                        protectedCodeEntryBlock, dispatchSwitch, jumps>>
      \/ /\ ~AlreadyLifted(vip)
         /\ virtualBasicBlockMap' = With(virtualBasicBlockMap, vip, i)
         /\ offsets' = With(offsets, vip, stackOffset)
         /\ stackOffset' = stackOffset + Delta(i)
         /\ protectedCodeEntryBlock' =
              IF blocks[i].instructions[1].type = "Entry"
              THEN vip ELSE protectedCodeEntryBlock
         /\ dispatchSwitch' = dispatchSwitch \cup {vip}
         /\ jumps' = With(jumps, vip, Dispatch)
  BY <1>2, <1>3, Zenon DEF LiftBlock
<1>8. LiftsAs(n, vip, i)
  BY <1>1, <1>2, <1>3, <1>4, <1>5, <1>6, <1>7 DEF LiftsAs
<1> QED  BY <1>2, <1>8

LEMMA WithIs ==
  ASSUME NEW f, NEW x, NEW y
  PROVE  /\ DOMAIN With(f, x, y) = DOMAIN f \cup {x}
         /\ With(f, x, y)[x] = y
         /\ \A z \in DOMAIN f : z # x => With(f, x, y)[z] = f[z]
BY DEF With

LEMMA PatchStep ==
  ASSUME Patch
  PROVE  \E vip, h :
           /\ vip \in DOMAIN jumps \ patched
           /\ h = LastMatch(virtualBasicBlockMap[vip])
           /\ phase = "patch" /\ patched' = patched \cup {vip}
           /\ UNCHANGED <<blocksVars, liftAt, stackOffset, virtualBasicBlockMap, offsets,
                          protectedCodeEntryBlock, entry>>
           /\ \/ /\ h.type = "Exit"
                 /\ jumps' = [jumps EXCEPT ![vip] = ExitBlock]
                 /\ UNCHANGED dispatchSwitch
              \/ /\ h.type = "Jmp" /\ StoredConst(h) \in DOMAIN jumps
                 /\ jumps' = [jumps EXCEPT ![vip] = StoredConst(h)]
                 /\ dispatchSwitch' = dispatchSwitch \ {StoredConst(h)}
              \/ /\ h.type = "Jmp" /\ StoredConst(h) \notin DOMAIN jumps
                 /\ UNCHANGED <<jumps, dispatchSwitch>>
<1>1. PICK vip \in DOMAIN jumps \ patched :
        TryPatchBlock(vip) /\ patched' = patched \cup {vip}
  BY DEF Patch
<1>2. PICK h : h = LastMatch(virtualBasicBlockMap[vip])
  OBVIOUS
<1>3. /\ phase = "patch"
      /\ UNCHANGED <<blocksVars, liftAt, stackOffset, virtualBasicBlockMap, offsets,
                     protectedCodeEntryBlock, entry>>
  BY DEF Patch
<1>4. \/ /\ h.type = "Exit"
         /\ jumps' = [jumps EXCEPT ![vip] = ExitBlock]
         /\ UNCHANGED dispatchSwitch
      \/ /\ h.type = "Jmp" /\ StoredConst(h) \in DOMAIN jumps
         /\ jumps' = [jumps EXCEPT ![vip] = StoredConst(h)]
         /\ dispatchSwitch' = dispatchSwitch \ {StoredConst(h)}
      \/ /\ h.type = "Jmp" /\ StoredConst(h) \notin DOMAIN jumps
         /\ UNCHANGED <<jumps, dispatchSwitch>>
  BY <1>1, <1>2 DEF TryPatchBlock, TargetVip, CaseRemoved
<1> QED  BY <1>1, <1>2, <1>3, <1>4, Zenon

LEMMA LiftingNext == BlocksInv /\ Lifting /\ [LifterNext]_vars => Lifting'
<1> SUFFICES ASSUME BlocksInv, Lifting, [LifterNext]_vars PROVE Lifting'
  OBVIOUS
<1>1. CASE TraceAndSplit
  <2>1. UNCHANGED lifterVars /\ Next
    BY <1>1 DEF TraceAndSplit
  <2>2. phase \in {"trace", "split"} /\ phase' \in {"trace", "split", "lift"}
    BY <2>1 DEF Next, MatchInside, MatchJump, MatchExit, Keep, EndTrace, SplitHandler, EndSplit
  <2>3. /\ liftAt = 1 /\ liftAt' = 1 /\ LiftedVips = {}
        /\ DOMAIN virtualBasicBlockMap' = {} /\ DOMAIN offsets' = {} /\ DOMAIN jumps' = {}
    BY <2>1, <2>2, NothingLifted DEF Lifting, lifterVars
  <2>4. LiftedVips' = {}
    BY <2>3 DEF LiftedVips
  <2>5. Len(blocks') \in Nat
    <3>1. TypeOK'
      BY BlocksInvNext DEF BlocksInv
    <3> QED  BY <3>1, LenProperties DEF TypeOK
  <2> QED  BY <2>2, <2>3, <2>4, <2>5 DEF Lifting
<1>2. CASE LiftBlock
  <2>0. PICK n \in DOMAIN blocks, i \in DOMAIN blocks : LiftsAs(n, BlockVip(n), i)
    BY <1>2, LiftStep
  <2>1. PICK vip : LiftsAs(n, vip, i)
    BY <2>0
  <2>2. blocks' = blocks /\ \A v : LastBlock(v)' = LastBlock(v)
    BY <2>1, SameBlocks DEF LiftsAs, splitVars
  <2>3. liftAt' \in 1..(Len(blocks') + 1) /\ phase' = "lift"
    <3>1. Len(blocks) \in Nat /\ DOMAIN blocks = 1..Len(blocks)
      BY LenProperties DEF BlocksInv, TypeOK
    <3> QED  BY <2>1, <2>2, <3>1 DEF LiftsAs
  <2>4. CASE vip \in LiftedVips
    <3>1. /\ LiftedVips' = LiftedVips
          /\ UNCHANGED <<virtualBasicBlockMap, offsets, jumps>>
      BY <2>1, <2>4 DEF LiftsAs
    <3> QED  BY <2>2, <2>3, <3>1 DEF Lifting
  <2>5. CASE vip \notin LiftedVips
    <3>1. /\ virtualBasicBlockMap' = With(virtualBasicBlockMap, vip, i)
          /\ offsets' = With(offsets, vip, stackOffset)
          /\ jumps' = With(jumps, vip, Dispatch)
          /\ LiftedVips' = LiftedVips \cup {vip} /\ i = LastBlock(vip)
      BY <2>1, <2>5 DEF LiftsAs
    <3>2. /\ DOMAIN virtualBasicBlockMap = LiftedVips
          /\ DOMAIN offsets = LiftedVips /\ DOMAIN jumps = LiftedVips
          /\ \A v \in LiftedVips : virtualBasicBlockMap[v] = LastBlock(v)
      BY DEF Lifting
    <3>3. /\ DOMAIN virtualBasicBlockMap' = LiftedVips'
          /\ DOMAIN offsets' = LiftedVips' /\ DOMAIN jumps' = LiftedVips'
      BY <3>1, <3>2, WithIs, ZenonT(60)
    <3>4. ASSUME NEW v \in LiftedVips' PROVE virtualBasicBlockMap'[v] = LastBlock(v)
      <4>1. CASE v = vip
        <5>1. With(virtualBasicBlockMap, vip, i)[vip] = i
          BY DEF With
        <5> QED  BY <3>1, <4>1, <5>1, Zenon
      <4>2. CASE v # vip
        <5>1. v \in LiftedVips
          BY <3>1, <3>4, <4>2
        <5>2. With(virtualBasicBlockMap, vip, i)[v] = virtualBasicBlockMap[v]
          BY <3>2, <4>2, <5>1 DEF With
        <5> QED  BY <3>1, <3>2, <5>1, <5>2, Zenon
      <4> QED  BY <4>1, <4>2
    <3> QED  BY <2>2, <2>3, <3>3, <3>4 DEF Lifting
  <2> QED  BY <2>4, <2>5
<1>3. CASE ConnectEntry \/ EndPatch \/ UNCHANGED vars
  <2>1. /\ UNCHANGED <<blocks, liftAt, virtualBasicBlockMap, offsets>> /\ jumps' = jumps
        /\ phase' = phase \/ (phase' \in {"patch", "done"} /\ liftAt = Len(blocks) + 1)
    BY <1>3 DEF ConnectEntry, EndPatch, vars, blocksVars, lifterVars, splitVars, Lifting
  <2> QED  BY <2>1, SameBlocks DEF Lifting, LiftedVips
<1>4. CASE Patch
  <2>1. /\ UNCHANGED <<blocks, liftAt, virtualBasicBlockMap, offsets, phase>>
        /\ DOMAIN jumps' = DOMAIN jumps
    BY <1>4, PatchStep DEF blocksVars, splitVars
  <2> QED  BY <2>1, SameBlocks DEF Lifting, LiftedVips
<1> QED  BY <1>1, <1>2, <1>3, <1>4 DEF LifterNext
(* What is known of a lifted vip and of the last handler of its code.      *)
LEMMA LiftedIs ==
  ASSUME BlocksInv, Lifting, NEW vip \in LiftedVips
  PROVE  /\ \E n \in DOMAIN blocks : vip = BlockVip(n) /\ n < liftAt
         /\ virtualBasicBlockMap[vip] = LastBlock(vip)
         /\ LastBlock(vip) \in DOMAIN blocks /\ BlockVip(LastBlock(vip)) = vip
         /\ \A j \in DOMAIN blocks : BlockVip(j) = vip => j <= LastBlock(vip)
<1>1. PICK n \in 1..(liftAt - 1) : vip = BlockVip(n)
  BY DEF LiftedVips
<1>2. n \in DOMAIN blocks /\ n < liftAt
  <2>1. Len(blocks) \in Nat /\ DOMAIN blocks = 1..Len(blocks)
    BY LenProperties DEF BlocksInv, TypeOK
  <2> QED  BY <2>1 DEF Lifting
<1>3. TypeOK
  BY DEF BlocksInv
<1>4. virtualBasicBlockMap[vip] = LastBlock(vip)
  BY DEF Lifting
<1> QED  BY <1>1, <1>2, <1>3, <1>4, LastBlockIs

LEMMA LastHandlerIs ==
  ASSUME BlocksInv, NEW i \in DOMAIN blocks
  PROVE  /\ LastMatch(i).type \in {"Jmp", "Exit"}
         /\ StoredConst(LastMatch(i)) \in Nat
         /\ missed = FALSE =>
              /\ i \in 1..Len(path) /\ BlockVip(i) = path[i] /\ path[i] \in DOMAIN program
              /\ StoredConst(LastMatch(i)) = program[path[i]].const
              /\ LastMatch(i).type = "Exit" => program[path[i]].succ = {}
              /\ blocks[i].instructions[1].type = "Entry" <=> i = 1
<1>1. TypeOK /\ SplitInv /\ PlacedInv
  BY DEF BlocksInv
<1>2. Transfers(LastMatch(i)) /\ Placed(LastMatch(i), program, path)
  BY <1>1, BodyFacts
<1>3. PICK at : at = LastMatch(i).at
  OBVIOUS
<1>4. at \in 1..Len(path) /\ path[at] \in DOMAIN program
  <2>1. at \in 1..Len(path)
    BY <1>2, <1>3 DEF Placed, PlacedAs
  <2> QED  BY <1>1, <2>1, BlockFacts
<1>5. program[path[at]].const \in Nat
  BY <1>1, <1>4, BlockFacts, ConstAssumption
<1>6. LastMatch(i).type = "Exit" => program[path[at]].succ = {}
  BY <1>2, <1>3 DEF Placed, PlacedAs
<1>7. StoredConst(LastMatch(i)) = program[path[at]].const
  BY <1>3 DEF StoredConst
<1>8. missed = FALSE => /\ i \in 1..Len(path) /\ BlockVip(i) = path[i] /\ at = i
                        /\ blocks[i].instructions[1].type = "Entry" <=> i = 1
  BY <1>1, <1>3, BlockIs DEF BlocksInv
<1>9. LastMatch(i).type \in {"Jmp", "Exit"}
  BY <1>2 DEF Transfers
<1> QED  BY <1>4, <1>5, <1>6, <1>7, <1>8, <1>9

(* Only the first block of the path is the entry.                          *)
LEMMA EntryOnlyFirst ==
  ASSUME BlocksInv, NEW i \in 1..Len(path), path[i] = Entry
  PROVE  i = 1
<1>1. SUFFICES ASSUME i # 1 PROVE FALSE
  OBVIOUS
<1>2. TypeOK /\ \A k \in 1..(Len(path) - 1) : path[k + 1] \in program[path[k]].succ
  BY DEF BlocksInv, PlacedInv, PathTaken
<1>3. PICK j \in 1..Len(path) : i = j + 1 /\ j \in 1..(Len(path) - 1)
  <2>1. Len(path) \in Nat
    BY <1>2, BlockFacts
  <2> QED  BY <1>1, <2>1
<1>4. path[i] \in program[path[j]].succ /\ path[j] \in DOMAIN program
  BY <1>2, <1>3, BlockFacts
<1> QED  BY <1>2, <1>4, BlockFacts
-----------------------------------------------------------------------------
(* The entry is the block of the VM entry as soon as a block was lifted,   *)
(* when nothing was missed; it is what the function begins with.           *)
EntryIs == IF protectedCodeEntryBlock # 0 THEN entry = protectedCodeEntryBlock
           ELSE entry \in {Dispatch, Wild}
EntryKept ==
  /\ protectedCodeEntryBlock \in LiftedVips \cup {0}
  /\ phase \in {"trace", "split", "lift"} => entry = Wild
  /\ phase \in {"patch", "done"} => EntryIs
  /\ missed = FALSE /\ liftAt # 1 => protectedCodeEntryBlock = Entry

LEMMA EntryInit == LifterInit => EntryKept
BY DEF LifterInit, Init, EntryKept

LEMMA EntryLifted ==
  ASSUME BlocksInv, Lifting, EntryKept, NEW n \in DOMAIN blocks, NEW vip, NEW i \in DOMAIN blocks,
         LiftsAs(n, vip, i), missed = FALSE
  PROVE  protectedCodeEntryBlock' = Entry
<1>1. n = liftAt /\ vip = BlockVip(n) /\ i = LastBlock(vip)
  BY DEF LiftsAs
<1>2. /\ n \in 1..Len(path) /\ vip = path[n] /\ i \in 1..Len(path) /\ vip = path[i]
      /\ blocks[i].instructions[1].type = "Entry" <=> i = 1
  <2>1. BlockVip(i) = vip /\ TypeOK
    BY <1>1, LastBlockIs DEF BlocksInv
  <2> QED  BY <1>1, <2>1, LastHandlerIs
<1>3. path[1] = Entry
  BY DEF BlocksInv, PlacedInv, PathTaken
<1>4. CASE vip \in LiftedVips
  <2>1. liftAt # 1
    BY <1>4, NothingLifted
  <2> QED  BY <1>4, <2>1 DEF EntryKept, LiftsAs
<1>5. CASE vip \notin LiftedVips
  <2>1. protectedCodeEntryBlock' = IF i = 1 THEN vip ELSE protectedCodeEntryBlock
    BY <1>2, <1>5 DEF LiftsAs
  <2>2. CASE i = 1
    BY <1>2, <1>3, <2>1, <2>2
  <2>3. CASE i # 1
    <3>1. n # 1
      BY <1>2, <1>3, <2>3, EntryOnlyFirst
    <3> QED  BY <1>1, <2>1, <2>3, <3>1 DEF EntryKept
  <2> QED  BY <2>2, <2>3
<1> QED  BY <1>4, <1>5

LEMMA EntryNext == BlocksInv /\ Lifting /\ EntryKept /\ [LifterNext]_vars => EntryKept'
<1> SUFFICES ASSUME BlocksInv, Lifting, EntryKept, [LifterNext]_vars PROVE EntryKept'
  OBVIOUS
<1>1. CASE TraceAndSplit
  <2>1. UNCHANGED lifterVars /\ Next
    BY <1>1 DEF TraceAndSplit
  <2>2. phase \in {"trace", "split"} /\ phase' \in {"trace", "split", "lift"}
    BY <2>1 DEF Next, MatchInside, MatchJump, MatchExit, Keep, EndTrace, SplitHandler, EndSplit
  <2>3. /\ liftAt = 1 /\ LiftedVips = {}
        /\ liftAt' = 1 /\ protectedCodeEntryBlock' = protectedCodeEntryBlock /\ entry' = entry
    BY <2>1, <2>2, NothingLifted DEF Lifting, lifterVars
  <2> QED  BY <2>2, <2>3 DEF EntryKept
<1>2. CASE LiftBlock
  <2>0. PICK n \in DOMAIN blocks, i \in DOMAIN blocks : LiftsAs(n, BlockVip(n), i)
    BY <1>2, LiftStep
  <2>1. PICK vip : LiftsAs(n, vip, i)
    BY <2>0
  <2>2. phase = "lift" /\ phase' = "lift" /\ entry' = entry /\ missed' = missed
    BY <2>1 DEF LiftsAs, traceVars
  <2>3. LiftedVips' = LiftedVips \cup {vip}
        /\ protectedCodeEntryBlock' \in {protectedCodeEntryBlock, vip}
    BY <2>1 DEF LiftsAs
  <2>4. missed = FALSE => protectedCodeEntryBlock' = Entry
    BY <2>1, EntryLifted
  <2> QED  BY <2>2, <2>3, <2>4 DEF EntryKept
<1>3. CASE ConnectEntry
  <2>1. /\ UNCHANGED <<blocks, liftAt, protectedCodeEntryBlock, missed>>
        /\ phase' = "patch" /\ EntryIs'
    BY <1>3 DEF ConnectEntry, traceVars, splitVars, EntryIs
  <2> QED  BY <2>1, SameBlocks DEF EntryKept, LiftedVips
<1>4. CASE Patch \/ EndPatch \/ UNCHANGED vars
  <2>1. /\ UNCHANGED <<blocks, liftAt, protectedCodeEntryBlock, missed, entry>>
        /\ phase' = phase \/ (phase = "patch" /\ phase' = "done")
    BY <1>4 DEF Patch, EndPatch, vars, blocksVars, lifterVars, traceVars, splitVars
  <2> QED  BY <2>1, SameBlocks DEF EntryKept, EntryIs, LiftedVips
<1> QED  BY <1>1, <1>2, <1>3, <1>4 DEF LifterNext
-----------------------------------------------------------------------------
(* A vip that was visited goes where its last handler says, and only the   *)
(* target of a direct jump has lost its case in the dispatcher.            *)
LastOf(vip) == LastMatch(virtualBasicBlockMap[vip])
StoredAt(vip) == StoredConst(LastOf(vip))
Direct(vip) == LastOf(vip).type = "Jmp" /\ StoredAt(vip) \in DOMAIN jumps
VisitedGoes(vip) ==
  jumps[vip] = IF LastOf(vip).type = "Exit" THEN ExitBlock
               ELSE IF StoredAt(vip) \in DOMAIN jumps THEN StoredAt(vip) ELSE Dispatch
Patching ==
  /\ phase \in {"trace", "split", "lift"} => patched = {}
  /\ phase = "done" => patched = DOMAIN jumps
  /\ patched \subseteq DOMAIN jumps
  /\ \A vip \in DOMAIN jumps \ patched : jumps[vip] = Dispatch
  /\ \A vip \in patched : VisitedGoes(vip)
  /\ dispatchSwitch \subseteq DOMAIN jumps
  /\ \A target \in DOMAIN jumps \ dispatchSwitch :
       \E vip \in patched : Direct(vip) /\ StoredAt(vip) = target

LEMMA PatchingInit == LifterInit => Patching
<1> SUFFICES ASSUME LifterInit PROVE Patching
  OBVIOUS
<1>1. /\ phase = "trace" /\ patched = {} /\ dispatchSwitch = {} /\ DOMAIN jumps = {}
  BY DEF LifterInit, Init
<1> QED  BY <1>1 DEF Patching

LEMMA PatchingLift ==
  ASSUME BlocksInv, Lifting, Patching, LiftBlock
  PROVE  Patching'
<1>0. PICK n \in DOMAIN blocks, i \in DOMAIN blocks : LiftsAs(n, BlockVip(n), i)
  BY LiftStep
<1>1. PICK vip : LiftsAs(n, vip, i)
  BY <1>0
<1>2. /\ patched = {} /\ patched' = {} /\ phase' = "lift"
      /\ DOMAIN jumps = LiftedVips /\ dispatchSwitch = DOMAIN jumps
      /\ \A v \in DOMAIN jumps : jumps[v] = Dispatch
  BY <1>1 DEF LiftsAs, Patching, Lifting
<1>3. DOMAIN jumps' = dispatchSwitch' /\ \A v \in DOMAIN jumps' : jumps'[v] = Dispatch
  <2>1. CASE vip \in LiftedVips
    BY <1>1, <1>2, <2>1 DEF LiftsAs
  <2>2. CASE vip \notin LiftedVips
    <3>1. jumps' = With(jumps, vip, Dispatch) /\ dispatchSwitch' = dispatchSwitch \cup {vip}
      BY <1>1, <2>2 DEF LiftsAs
    <3> QED  BY <1>2, <3>1 DEF With
  <2> QED  BY <2>1, <2>2
<1> QED  BY <1>2, <1>3 DEF Patching

LEMMA PatchingPatch ==
  ASSUME BlocksInv, Lifting, Patching, Patch
  PROVE  Patching'
<1>1. PICK vip, h :
        /\ vip \in DOMAIN jumps \ patched
        /\ h = LastOf(vip)
        /\ phase' = "patch" /\ patched' = patched \cup {vip}
        /\ UNCHANGED <<traceVars, blocks, virtualBasicBlockMap>>
        /\ \/ /\ h.type = "Exit"
              /\ jumps' = [jumps EXCEPT ![vip] = ExitBlock]
              /\ UNCHANGED dispatchSwitch
           \/ /\ h.type = "Jmp" /\ StoredConst(h) \in DOMAIN jumps
              /\ jumps' = [jumps EXCEPT ![vip] = StoredConst(h)]
              /\ dispatchSwitch' = dispatchSwitch \ {StoredConst(h)}
           \/ /\ h.type = "Jmp" /\ StoredConst(h) \notin DOMAIN jumps
              /\ UNCHANGED <<jumps, dispatchSwitch>>
  BY PatchStep DEF LastOf, blocksVars, splitVars
<1>2. DOMAIN jumps' = DOMAIN jumps /\ \A v \in DOMAIN jumps : v # vip => jumps'[v] = jumps[v]
  BY <1>1
<1>3. /\ \A v : LastOf(v)' = LastOf(v) /\ StoredAt(v)' = StoredAt(v)
      /\ \A v : Direct(v)' <=> Direct(v)
  <2>1. \A v : LastOf(v)' = LastOf(v)
    BY <1>1, SameBlocks DEF LastOf
  <2>2. \A v : StoredAt(v)' = StoredAt(v)
    BY <1>1, <2>1 DEF StoredAt, StoredConst, traceVars
  <2> QED  BY <1>2, <2>1, <2>2 DEF Direct
<1>4. VisitedGoes(vip)'
  <2>1. jumps[vip] = Dispatch /\ StoredAt(vip) = StoredConst(h)
    BY <1>1 DEF Patching, StoredAt
  <2>2. jumps'[vip] = IF h.type = "Exit" THEN ExitBlock
                      ELSE IF StoredConst(h) \in DOMAIN jumps THEN StoredConst(h) ELSE Dispatch
    BY <1>1, <2>1
  <2> QED  BY <1>1, <1>2, <1>3, <2>1, <2>2 DEF VisitedGoes
<1>5. \A v \in patched : VisitedGoes(v)'
  <2> TAKE v \in patched
  <2>1. VisitedGoes(v) /\ v \in DOMAIN jumps /\ v # vip
    BY <1>1 DEF Patching
  <2> QED  BY <1>2, <1>3, <2>1 DEF VisitedGoes
<1>6. /\ dispatchSwitch' \subseteq DOMAIN jumps'
      /\ \A target \in DOMAIN jumps' \ dispatchSwitch' :
           \E v \in patched' : Direct(v) /\ StoredAt(v) = target
  <2>1. /\ dispatchSwitch \subseteq DOMAIN jumps
        /\ \A target \in DOMAIN jumps \ dispatchSwitch :
             \E v \in patched : Direct(v) /\ StoredAt(v) = target
    BY DEF Patching
  <2>2. CASE dispatchSwitch' = dispatchSwitch
    BY <1>1, <1>2, <2>1, <2>2
  <2>3. CASE /\ h.type = "Jmp" /\ StoredConst(h) \in DOMAIN jumps
             /\ dispatchSwitch' = dispatchSwitch \ {StoredConst(h)}
    <3>1. Direct(vip) /\ StoredAt(vip) = StoredConst(h) /\ vip \in patched'
      BY <1>1, <2>3 DEF Direct, StoredAt
    <3> QED  BY <1>1, <1>2, <2>1, <2>3, <3>1
  <2> QED  BY <1>1, <2>2, <2>3
<1>7. \A v \in DOMAIN jumps' \ patched' : jumps'[v] = Dispatch
  BY <1>1, <1>2 DEF Patching
<1>8. patched' \subseteq DOMAIN jumps' /\ phase' = "patch"
  BY <1>1, <1>2 DEF Patching
<1>9. \A v \in patched' : VisitedGoes(v)'
  BY <1>1, <1>4, <1>5
<1>10. \A target \in DOMAIN jumps' \ dispatchSwitch' :
         \E v \in patched' : Direct(v)' /\ StoredAt(v)' = target
  BY <1>3, <1>6
<1> QED  BY <1>6, <1>7, <1>8, <1>9, <1>10 DEF Patching

LEMMA PatchingNext == BlocksInv /\ Lifting /\ Patching /\ [LifterNext]_vars => Patching'
<1> SUFFICES ASSUME BlocksInv, Lifting, Patching, [LifterNext]_vars PROVE Patching'
  OBVIOUS
<1>1. CASE TraceAndSplit
  <2>1. UNCHANGED lifterVars /\ Next
    BY <1>1 DEF TraceAndSplit
  <2>2. phase \in {"trace", "split"} /\ phase' \in {"trace", "split", "lift"}
    BY <2>1 DEF Next, MatchInside, MatchJump, MatchExit, Keep, EndTrace, SplitHandler, EndSplit
  <2>3. /\ DOMAIN jumps = {} /\ patched = {} /\ dispatchSwitch = {}
        /\ jumps' = jumps /\ patched' = patched /\ dispatchSwitch' = dispatchSwitch
    BY <2>1, <2>2, NothingLifted DEF Lifting, Patching, lifterVars
  <2>4. DOMAIN jumps' = {} /\ patched' = {} /\ dispatchSwitch' = {}
    BY <2>3
  <2> QED  BY <2>2, <2>4 DEF Patching
<1>2. CASE ConnectEntry \/ EndPatch \/ UNCHANGED vars
  <2>1. UNCHANGED <<traceVars, blocks, virtualBasicBlockMap, jumps, patched, dispatchSwitch>>
    BY <1>2 DEF ConnectEntry, EndPatch, vars, blocksVars, lifterVars, splitVars
  <2>2. /\ phase' \in {"trace", "split", "lift"} => phase \in {"trace", "split", "lift"}
        /\ phase' = "done" => (phase = "done" \/ patched = DOMAIN jumps)
    BY <1>2 DEF ConnectEntry, EndPatch, vars, blocksVars
  <2>3. /\ \A v : LastOf(v)' = LastOf(v) /\ StoredAt(v)' = StoredAt(v)
        /\ \A v : Direct(v)' <=> Direct(v)
        /\ \A v : VisitedGoes(v)' <=> VisitedGoes(v)
    <3>1. \A v : LastOf(v)' = LastOf(v)
      BY <2>1, SameBlocks DEF LastOf
    <3>2. \A v : StoredAt(v)' = StoredAt(v)
      BY <2>1, <3>1 DEF StoredAt, StoredConst, traceVars
    <3> QED  BY <2>1, <3>1, <3>2 DEF Direct, VisitedGoes
  <2> QED  BY <2>1, <2>2, <2>3 DEF Patching
<1> QED  BY <1>1, <1>2, PatchingLift, PatchingPatch DEF LifterNext
-----------------------------------------------------------------------------
(* What the handlers of a block add to VSP, summed.                        *)
LEMMA Sums ==
  ASSUME NEW changes \in Seq(Int)
  PROVE  /\ PartialSums(changes)[0] = 0
         /\ \A n \in 1..Len(changes) :
              PartialSums(changes)[n] = PartialSums(changes)[n - 1] + changes[n]
<1>1. PICK m \in Nat : m = Len(changes)
  BY LenProperties
<1> DEFINE IsSum(f) == f = [n \in 0..m |-> IF n = 0 THEN 0 ELSE f[n - 1] + changes[n]]
<1>2. \E f : IsSum(f)
  BY <1>1, SumsExist
<1>3. PartialSums(changes) = CHOOSE f : IsSum(f)
  BY <1>1 DEF PartialSums
<1>4. IsSum(PartialSums(changes))
  <2> HIDE DEF IsSum
  <2> QED  BY <1>2, <1>3
<1>5. PICK f : f = PartialSums(changes)
  OBVIOUS
<1>6. f = [n \in 0..m |-> IF n = 0 THEN 0 ELSE f[n - 1] + changes[n]]
  BY <1>4, <1>5
<1>7. f[0] = 0 /\ \A n \in 1..m : f[n] = f[n - 1] + changes[n]
  BY <1>6
<1> QED  BY <1>1, <1>5, <1>7

LEMMA SumsAreInt ==
  ASSUME NEW changes \in Seq(Int)
  PROVE  \A n \in 0..Len(changes) : PartialSums(changes)[n] \in Int
<1> DEFINE sum == PartialSums(changes)
           T == {n \in 0..Len(changes) : sum[n] \notin Int}
<1>1. SUFFICES ASSUME T # {} PROVE FALSE
  OBVIOUS
<1>2. Len(changes) \in Nat
  BY LenProperties
<1>3. PICK n \in T : \A k \in T : n <= k
  <2> HIDE DEF T
  <2>1. T \subseteq Nat
    BY <1>2 DEF T
  <2> QED  BY <1>1, <2>1, LeastNumber
<1>4. n # 0 /\ n \in 1..Len(changes) /\ n - 1 \in 0..Len(changes)
  BY <1>2, Sums
<1>5. sum[n] = sum[n - 1] + changes[n] /\ changes[n] \in Int
  BY <1>4, Sums, ElementOfSeq
<1>6. sum[n - 1] \in Int
  BY <1>2, <1>3, <1>4
<1> QED  BY <1>5, <1>6

(* A quantity that goes by the same steps is the sum: there is no first n  *)
(* at which it is another.                                                 *)
LEMMA SumIs ==
  ASSUME NEW changes \in Seq(Int), NEW g, g[0] = 0,
         \A n \in 1..Len(changes) : g[n] = g[n - 1] + changes[n]
  PROVE  \A n \in 0..Len(changes) : PartialSums(changes)[n] = g[n]
<1> DEFINE sum == PartialSums(changes)
           T == {n \in 0..Len(changes) : sum[n] # g[n]}
<1>1. SUFFICES ASSUME T # {} PROVE FALSE
  OBVIOUS
<1>2. Len(changes) \in Nat
  BY LenProperties
<1>3. PICK n \in T : \A k \in T : n <= k
  <2> HIDE DEF T
  <2>1. T \subseteq Nat
    BY <1>2 DEF T
  <2> QED  BY <1>1, <2>1, LeastNumber
<1>4. n # 0 /\ n \in 1..Len(changes) /\ n - 1 \in 0..Len(changes) /\ n - 1 < n
  BY <1>2, Sums
<1>5. sum[n] = sum[n - 1] + changes[n] /\ g[n] = g[n - 1] + changes[n]
  BY <1>4, Sums
<1>6. sum[n - 1] = g[n - 1]
  BY <1>2, <1>3, <1>4
<1> QED  BY <1>5, <1>6

(* What the changes of VSP in a block sum up to.                           *)
LEMMA ChangesType ==
  ASSUME BlocksInv, NEW i \in DOMAIN blocks
  PROVE  /\ Changes(i) \in Seq(Int) /\ Len(Changes(i)) = Len(blocks[i].instructions)
         /\ \A k \in 1..Len(blocks[i].instructions) :
              Changes(i)[k] = blocks[i].instructions[k].vspAfter
                              - blocks[i].instructions[k].vspBefore
<1> DEFINE body == blocks[i].instructions
<1>1. /\ Len(body) \in Nat /\ DOMAIN body = 1..Len(body)
      /\ \A k \in 1..Len(body) : body[k] \in Match
  BY BodyFacts DEF BlocksInv
<1>2. \A k \in 1..Len(body) : body[k].vspAfter - body[k].vspBefore \in Int
  BY <1>1 DEF Match
<1>3. Changes(i) = [k \in 1..Len(body) |-> body[k].vspAfter - body[k].vspBefore]
  BY <1>1 DEF Changes
<1> HIDE DEF body
<1>4. Changes(i) \in Seq(Int) /\ Len(Changes(i)) = Len(body)
  BY <1>1, <1>2, <1>3
<1> QED  BY <1>3, <1>4 DEF body

LEMMA DeltaType ==
  ASSUME BlocksInv, NEW i \in DOMAIN blocks
  PROVE  Delta(i) \in Int
<1>1. Changes(i) \in Seq(Int) /\ Len(Changes(i)) \in 0..Len(Changes(i))
  BY ChangesType, LenProperties
<1> QED  BY <1>1, SumsAreInt DEF Delta

LEMMA OffsetType ==
  BlocksInv /\ Lifting /\ stackOffset \in Int /\ [LifterNext]_vars => stackOffset' \in Int
<1> SUFFICES ASSUME BlocksInv, Lifting, stackOffset \in Int, [LifterNext]_vars
             PROVE  stackOffset' \in Int
  OBVIOUS
<1>1. CASE LiftBlock
  <2>0. PICK n \in DOMAIN blocks, i \in DOMAIN blocks : LiftsAs(n, BlockVip(n), i)
    BY <1>1, LiftStep
  <2>1. stackOffset' = stackOffset \/ stackOffset' = stackOffset + Delta(i)
    BY <2>0 DEF LiftsAs
  <2> QED  BY <2>1, DeltaType
<1>2. CASE TraceAndSplit \/ ConnectEntry \/ Patch \/ EndPatch \/ UNCHANGED vars
  BY <1>2 DEF TraceAndSplit, ConnectEntry, Patch, EndPatch, vars, lifterVars
<1> QED  BY <1>1, <1>2 DEF LifterNext
-----------------------------------------------------------------------------
LifterInv == BlocksInv /\ Lifting /\ EntryKept /\ Patching /\ stackOffset \in Int

LEMMA LifterInvInit == LifterInit => LifterInv
<1>1. LifterInit => Init /\ stackOffset \in Int
  BY DEF LifterInit
<1> QED  BY <1>1, BlocksInvInit, LiftingInit, EntryInit, PatchingInit DEF LifterInv

LEMMA LifterInvNext == LifterInv /\ [LifterNext]_vars => LifterInv'
BY BlocksInvNext, LiftingNext, EntryNext, PatchingNext, OffsetType DEF LifterInv

LEMMA SpecLifterInv == LifterSpec => []LifterInv
BY LifterInvInit, LifterInvNext, PTL DEF LifterSpec

(* The lifter and the repatcher keep their maps over the same vips, those  *)
(* of blocks, and leave the dispatcher only for lifted code.               *)
THEOREM LifterTypeCorrect == LifterSpec => []LifterTypeOK
<1>1. ASSUME LifterInv PROVE LifterTypeOK
  <2>1. TypeOK /\ BlocksInv /\ Lifting /\ EntryKept /\ Patching /\ stackOffset \in Int
    BY <1>1 DEF LifterInv, BlocksInv
  <2>2. LiftedVips \subseteq Vips
    <3>1. Len(blocks) \in Nat /\ DOMAIN blocks = 1..Len(blocks)
      BY <2>1, LenProperties DEF TypeOK
    <3> QED  BY <2>1, <3>1 DEF LiftedVips, Vips, Lifting
  <2>3. \A vip \in LiftedVips : virtualBasicBlockMap[vip] \in DOMAIN blocks
    BY <2>1, LiftedIs
  <2>4. protectedCodeEntryBlock \in Vips \cup {0} /\ entry \in Vips \cup {Dispatch, Wild}
    <3>1. phase \in {"trace", "split", "lift"} \/ phase \in {"patch", "done"}
      BY <2>1 DEF TypeOK
    <3> QED  BY <2>1, <2>2, <3>1 DEF EntryKept, EntryIs
  <2>5. \A vip \in DOMAIN jumps : jumps[vip] \in DOMAIN jumps \cup {Dispatch, ExitBlock}
    BY <2>1 DEF Patching, VisitedGoes
  <2>6. /\ liftAt \in 1..(Len(blocks) + 1) /\ DOMAIN offsets = LiftedVips
        /\ DOMAIN virtualBasicBlockMap = LiftedVips /\ DOMAIN jumps = LiftedVips
    BY <2>1 DEF Lifting
  <2>7. dispatchSwitch \subseteq DOMAIN jumps /\ patched \subseteq DOMAIN jumps
    BY <2>1 DEF Patching
  <2> QED  BY <2>1, <2>2, <2>3, <2>4, <2>5, <2>6, <2>7 DEF LifterTypeOK
<1> QED  BY <1>1, SpecLifterInv, PTL

(* When every handler was recognised, the case of the dispatcher that      *)
(* stands for a block is the address that the jump to it pops, however the *)
(* bytecode of the two blocks is read.                                     *)
THEOREM VipsAlwaysPopped == LifterSpec => []VipsArePopped
<1>1. ASSUME LifterInv PROVE VipsArePopped
  <2>1. BlocksInv /\ missed \in BOOLEAN
    BY <1>1 DEF LifterInv, BlocksInv, TypeOK
  <2>2. ASSUME ~missed, NEW i \in DOMAIN blocks PROVE BlockVip(i) = path[i]
    <3>1. missed = FALSE
      BY <2>1, <2>2
    <3> QED  BY <2>1, <3>1, LastHandlerIs
  <2> QED  BY <2>2 DEF VipsArePopped
<1> QED  BY <1>1, SpecLifterInv, PTL
-----------------------------------------------------------------------------
(* When nothing was missed, lifted code stores what the program's block of *)
(* that name stores, and a constant that is a lifted vip is its only       *)
(* successor.                                                              *)
LEMMA LiftedCode ==
  ASSUME LifterInv, missed = FALSE, NEW vip \in DOMAIN jumps
  PROVE  /\ vip \in DOMAIN program /\ StoredAt(vip) = program[vip].const
         /\ LastOf(vip).type \in {"Jmp", "Exit"}
         /\ LastOf(vip).type = "Exit" => program[vip].succ = {}
         /\ StoredAt(vip) \in DOMAIN jumps => program[vip].succ = {StoredAt(vip)}
         /\ program[vip].const \in Nat
<1>1. BlocksInv /\ Lifting /\ TypeOK
  BY DEF LifterInv, BlocksInv
<1>2. \A v \in DOMAIN jumps :
        /\ v \in DOMAIN program /\ StoredAt(v) = program[v].const
        /\ LastOf(v).type \in {"Jmp", "Exit"}
        /\ LastOf(v).type = "Exit" => program[v].succ = {}
  <2> TAKE v \in DOMAIN jumps
  <2>1. PICK i \in DOMAIN blocks : virtualBasicBlockMap[v] = i /\ BlockVip(i) = v
    BY <1>1, LiftedIs DEF Lifting
  <2>2. /\ path[i] = BlockVip(i) /\ path[i] \in DOMAIN program
        /\ StoredConst(LastMatch(i)) = program[path[i]].const
        /\ LastMatch(i).type \in {"Jmp", "Exit"}
        /\ LastMatch(i).type = "Exit" => program[path[i]].succ = {}
    BY <1>1, LastHandlerIs
  <2> QED  BY <2>1, <2>2 DEF StoredAt, LastOf
<1>3. program \in Programs
  BY <1>1 DEF TypeOK
<1>4. \A b \in DOMAIN program :
        /\ program[b].const \in Nat
        /\ program[b].const \in DOMAIN program => program[b].succ = {program[b].const}
  BY <1>3, ConstAssumption
<1> QED  BY <1>2, <1>4

(* Whatever successor the program may take from a lifted block, traced or  *)
(* not, the finished function goes to the code of that address or returns. *)
THEOREM NeverGoesWrong == LifterSpec => []NeverWrongBlock
<1>1. ASSUME LifterInv PROVE NeverWrongBlock
  <2> SUFFICES ASSUME phase = "done", ~missed, NEW b \in DOMAIN jumps,
                      NEW target \in program[b].succ
               PROVE  GoesTo(b, target) \in {target, ExitBlock}
    BY DEF NeverWrongBlock
  <2>1. missed = FALSE
    BY <1>1 DEF LifterInv, BlocksInv, TypeOK
  <2>2. VisitedGoes(b)
    BY <1>1 DEF LifterInv, Patching
  <2>3. /\ LastOf(b).type # "Exit"
        /\ StoredAt(b) \in DOMAIN jumps => program[b].succ = {StoredAt(b)}
    BY <1>1, <2>1, LiftedCode
  <2> QED  BY <2>2, <2>3 DEF VisitedGoes, GoesTo
<1> QED  BY <1>1, SpecLifterInv, PTL

(* The finished function begins with the block of the VM entry and takes   *)
(* every step that the traced program took, but for targets that one block *)
(* reaches by a direct jump and another by a computed one.                 *)
THEOREM RunAlwaysFollows == LifterSpec => []RunFollowsTrace
<1>1. ASSUME LifterInv PROVE RunFollowsTrace
  <2> SUFFICES ASSUME phase = "done", ~missed, blocks # <<>>
               PROVE  /\ entry = path[1]
                      /\ \A i \in 1..(Len(blocks) - 1) :
                           GoesTo(path[i], path[i + 1]) = path[i + 1] \/ Mixed(path[i + 1])
                      /\ LastMatch(Len(blocks)).type = "Exit" =>
                           GoesTo(path[Len(blocks)], 0) = ExitBlock
    BY DEF RunFollowsTrace
  <2>1. /\ BlocksInv /\ Lifting /\ EntryKept /\ Patching /\ TypeOK /\ missed = FALSE
        /\ PathTaken
    BY <1>1 DEF LifterInv, BlocksInv, TypeOK, PlacedInv
  <2>2. PICK n \in Nat \ {0} : n = Len(blocks) /\ DOMAIN blocks = 1..n /\ liftAt = n + 1
    BY <2>1, LenProperties, EmptySeq DEF TypeOK, Lifting
  <2>3. \A i \in 1..n : /\ path[i] \in DOMAIN jumps /\ path[i] = BlockVip(i)
                        /\ i \in 1..Len(path)
    <3> TAKE i \in 1..n
    <3>1. path[i] = BlockVip(i) /\ i \in 1..Len(path)
      BY <2>1, <2>2, LastHandlerIs
    <3>2. i \in 1..(liftAt - 1)
      BY <2>2
    <3> QED  BY <2>1, <3>1, <3>2 DEF Lifting, LiftedVips
  <2>4. entry = path[1]
    <3>1. protectedCodeEntryBlock = Entry /\ path[1] = Entry /\ Entry # 0
      BY <2>1, <2>2, BlockFacts DEF EntryKept, PathTaken
    <3> QED  BY <2>1, <3>1 DEF EntryKept, EntryIs
  <2>5. \A b \in DOMAIN jumps : VisitedGoes(b)
    BY <2>1 DEF Patching
  <2>6. ASSUME NEW i \in 1..(n - 1)
        PROVE  GoesTo(path[i], path[i + 1]) = path[i + 1] \/ Mixed(path[i + 1])
    <3>1. PICK b \in DOMAIN jumps, target \in DOMAIN jumps : b = path[i] /\ target = path[i + 1]
      <4>1. i \in 1..n /\ i + 1 \in 1..n
        OBVIOUS
      <4> QED  BY <2>3, <4>1
    <3>2. target \in program[b].succ
      <4>1. Len(path) \in Nat /\ n \in 1..Len(path)
        BY <2>1, <2>3, BlockFacts
      <4>2. i \in 1..(Len(path) - 1)
        BY <4>1
      <4> QED  BY <2>1, <3>1, <4>2 DEF PathTaken
    <3>3. /\ LastOf(b).type # "Exit" /\ b \in DOMAIN program
          /\ StoredAt(b) = program[b].const
          /\ StoredAt(b) \in DOMAIN jumps => program[b].succ = {StoredAt(b)}
      BY <1>1, <2>1, <3>2, LiftedCode
    <3>4. CASE StoredAt(b) \in DOMAIN jumps
      <4>1. jumps[b] = target
        BY <2>5, <3>2, <3>3, <3>4 DEF VisitedGoes
      <4>2. target # Dispatch
        <5>1. target \in DOMAIN program /\ DOMAIN program \subseteq Nat
          BY <1>1, <2>1, LiftedCode, BlockFacts
        <5> QED  BY <5>1 DEF Dispatch
      <4> QED  BY <3>1, <4>1, <4>2 DEF GoesTo
    <3>5. CASE StoredAt(b) \notin DOMAIN jumps
      <4>1. jumps[b] = Dispatch
        BY <2>5, <3>3, <3>5 DEF VisitedGoes
      <4>2. CASE target \in dispatchSwitch
        BY <3>1, <4>1, <4>2 DEF GoesTo
      <4>3. CASE target \notin dispatchSwitch
        <5>1. PICK c \in DOMAIN jumps : StoredAt(c) = target
          BY <2>1, <4>3 DEF Patching
        <5>2. program[c].const = target /\ program[c].succ = {target}
          BY <1>1, <2>1, <5>1, LiftedCode
        <5>3. Mixed(target)
          BY <3>2, <3>3, <3>5, <5>2 DEF Mixed
        <5> QED  BY <3>1, <5>3
      <4> QED  BY <4>2, <4>3
    <3> QED  BY <3>4, <3>5
  <2>7. ASSUME LastMatch(n).type = "Exit" PROVE GoesTo(path[n], 0) = ExitBlock
    <3>1. PICK b \in DOMAIN jumps : b = path[n] /\ b = BlockVip(n) /\ b \in LiftedVips
      BY <2>1, <2>2, <2>3 DEF Lifting
    <3>2. LastBlock(b) = n
      <4>1. LastBlock(b) \in 1..n /\ n <= LastBlock(b)
        BY <2>1, <2>2, <3>1, LiftedIs
      <4> QED  BY <2>2, <4>1
    <3>3. LastOf(b).type = "Exit"
      BY <2>1, <2>7, <3>1, <3>2 DEF LastOf, Lifting
    <3>4. jumps[b] = ExitBlock
      BY <2>5, <3>3 DEF VisitedGoes
    <3> QED  BY <3>1, <3>4 DEF GoesTo, ExitBlock, Dispatch
  <2> QED  BY <2>2, <2>4, <2>6, <2>7
<1> QED  BY <1>1, SpecLifterInv, PTL
-----------------------------------------------------------------------------
(* The handlers of a block stand one after the other in the trace, those   *)
(* of the next block behind them.                                          *)
LEMMA BlockInTrace ==
  ASSUME BlocksInv, NEW i \in DOMAIN blocks
  PROVE  \E lo \in Nat, n \in Nat \ {0} :
           /\ lo = CutBefore(cuts, i) /\ n = Len(blocks[i].instructions) /\ lo + n = cuts[i]
           /\ lo + n \in 1..Len(vmHandlers)
           /\ \A k \in 1..n : blocks[i].instructions[k] = vmHandlers[lo + k]
<1> DEFINE body == blocks[i].instructions
<1>1. PICK m \in Nat : m = Len(blocks) /\ DOMAIN blocks = 1..m /\ Len(cuts) = m
  BY LenProperties DEF BlocksInv, TypeOK, SplitInv, BlocksTile
<1>2. \A j \in 1..m : cuts[j] \in 1..Len(vmHandlers)
  <2>1. cursor \in 0..Len(vmHandlers) /\ Len(vmHandlers) \in Nat
    BY LenProperties DEF BlocksInv, TypeOK
  <2> QED  BY <1>1, <2>1 DEF BlocksInv, SplitInv, CutsPassed
<1>3. PICK lo : lo = CutBefore(cuts, i)
  OBVIOUS
<1>4. lo \in 0..Len(vmHandlers) /\ Len(vmHandlers) \in Nat
  <2>1. Len(vmHandlers) \in Nat
    BY LenProperties DEF BlocksInv, TypeOK
  <2>2. CASE i = 1
    BY <1>3, <2>1, <2>2 DEF CutBefore
  <2>3. CASE i # 1
    <3>1. i - 1 \in 1..m /\ lo = cuts[i - 1]
      BY <1>1, <1>3, <2>3 DEF CutBefore
    <3> QED  BY <1>2, <2>1, <3>1
  <2> QED  BY <2>2, <2>3
<1>5. /\ body = SubSeq(vmHandlers, lo + 1, cuts[i])
      /\ body # <<>> /\ vmHandlers \in Seq(Match)
  BY <1>1, <1>3 DEF BlocksInv, TypeOK, SplitInv, BlocksTile, BlocksStraightLine
<1>6. PICK hi \in 1..Len(vmHandlers) : hi = cuts[i]
  BY <1>1, <1>2
<1> HIDE DEF body
<1>7. lo + 1 <= hi
  <2>1. ~(hi < lo + 1)
    BY <1>4, <1>5, <1>6, SubSeqEmpty
  <2> QED  BY <1>4, <1>6, <2>1
<1>8. Len(body) = hi - lo /\ \A k \in 1..(hi - lo) : body[k] = vmHandlers[lo + k]
  <2>1. lo + 1 \in 1..(Len(vmHandlers) + 1) /\ hi \in ((lo + 1) - 1)..Len(vmHandlers)
    BY <1>4, <1>6, <1>7
  <2>2. /\ Len(body) = hi - (lo + 1) + 1
        /\ \A k \in 1..(hi - (lo + 1) + 1) : body[k] = vmHandlers[(lo + 1) + k - 1]
    BY <1>5, <1>6, <2>1, SubSeqProperties
  <2>3. hi - (lo + 1) + 1 = hi - lo
    BY <1>4, <1>6
  <2>4. ASSUME NEW k \in 1..(hi - lo) PROVE body[k] = vmHandlers[lo + k]
    <3>1. (lo + 1) + k - 1 = lo + k
      BY <1>4
    <3> QED  BY <2>2, <2>3, <3>1
  <2> QED  BY <2>2, <2>3, <2>4
<1>9. lo \in Nat /\ hi - lo \in Nat \ {0} /\ lo + (hi - lo) = hi
  BY <1>4, <1>6, <1>7
<1> QED  BY <1>3, <1>6, <1>8, <1>9 DEF body

LEMMA DeltaIs ==
  ASSUME BlocksInv, missed = FALSE, NEW i \in DOMAIN blocks
  PROVE  LastMatch(i).vspAfter = blocks[i].instructions[1].vspBefore + Delta(i)
<1> DEFINE body == blocks[i].instructions
<1>1. PICK lo \in Nat, n \in Nat \ {0} :
        /\ n = Len(body) /\ lo + n \in 1..Len(vmHandlers)
        /\ \A k \in 1..n : body[k] = vmHandlers[lo + k]
  BY BlockInTrace
<1>2. \A k \in 1..n : body[k] \in Match
  BY <1>1, BodyFacts DEF BlocksInv
<1>3. LastMatch(i) = body[n]
  BY <1>1 DEF LastMatch
<1>4. /\ Changes(i) \in Seq(Int) /\ Len(Changes(i)) = n
      /\ \A k \in 1..n : Changes(i)[k] = body[k].vspAfter - body[k].vspBefore
  BY <1>1, ChangesType
<1>5. \A k \in 2..n : body[k].vspBefore = body[k - 1].vspAfter
  <2> TAKE k \in 2..n
  <2>1. PICK m : m = lo + k
    OBVIOUS
  <2>2. /\ m \in 1..Len(vmHandlers) /\ m - 1 # 0 /\ m - 1 = lo + (k - 1)
        /\ k \in 1..n /\ k - 1 \in 1..n
    <3>1. Len(vmHandlers) \in Nat
      BY LenProperties DEF BlocksInv, TypeOK
    <3> QED  BY <1>1, <2>1, <3>1
  <2>3. vmHandlers[m].vspBefore = VspAfter(vmHandlers, m - 1)
    BY <2>2 DEF BlocksInv, OffsetInv, Linked
  <2>4. vmHandlers[m].vspBefore = vmHandlers[m - 1].vspAfter
    BY <2>2, <2>3 DEF VspAfter
  <2> QED  BY <1>1, <2>1, <2>2, <2>4
<1> HIDE DEF body
<1> DEFINE g == [k \in 0..n |-> IF k = 0 THEN 0 ELSE body[k].vspAfter - body[1].vspBefore]
<1>6. \A k \in 1..n : body[k].vspAfter \in Int /\ body[k].vspBefore \in Int
  BY <1>2 DEF Match
<1>7. g[0] = 0 /\ \A k \in 1..n : g[k] = g[k - 1] + Changes(i)[k]
  <2>1. g[0] = 0
    BY <1>1
  <2>2. ASSUME NEW k \in 1..n PROVE g[k] = g[k - 1] + Changes(i)[k]
    <3>1. g[k] = body[k].vspAfter - body[1].vspBefore
      BY <1>1
    <3>2. CASE k = 1
      <4>1. g[k - 1] = 0
        BY <1>1, <3>2
      <4> QED  BY <1>4, <1>6, <3>1, <3>2, <4>1
    <3>3. CASE k # 1
      <4>1. k \in 2..n /\ k - 1 \in 1..n /\ 1 \in 1..n
        BY <1>1, <3>3
      <4>2. g[k - 1] = body[k - 1].vspAfter - body[1].vspBefore
        BY <4>1
      <4> HIDE DEF g
      <4> QED  BY <1>4, <1>5, <1>6, <3>1, <4>1, <4>2
    <3> QED  BY <3>2, <3>3
  <2> QED  BY <2>1, <2>2
<1>8. g[n] = body[n].vspAfter - body[1].vspBefore /\ n \in 0..n /\ n \in 1..n /\ 1 \in 1..n
  BY <1>1
<1> HIDE DEF g
<1>9. PartialSums(Changes(i))[n] = g[n]
  BY <1>4, <1>7, <1>8, SumIs
<1>10. Delta(i) = body[n].vspAfter - body[1].vspBefore
  BY <1>4, <1>8, <1>9 DEF Delta
<1> QED  BY <1>3, <1>6, <1>8, <1>10 DEF body

(* The offset that a block was recorded with goes on from the one before.  *)
LEMMA OffsetGoesOn ==
  ASSUME BlocksInv, missed = FALSE, NEW i \in DOMAIN blocks
  PROVE  /\ blocks[i].stackOffset \in Int
         /\ i = 1 => blocks[i].stackOffset = 0
         /\ i # 1 => /\ i - 1 \in DOMAIN blocks
                     /\ blocks[i].stackOffset = blocks[i - 1].stackOffset + Delta(i - 1)
<1>1. PICK m \in Nat : m = Len(blocks) /\ DOMAIN blocks = 1..m
  BY LenProperties DEF BlocksInv, TypeOK
<1>2. PICK lo \in Nat, n \in Nat \ {0} :
        /\ lo = CutBefore(cuts, i) /\ n = Len(blocks[i].instructions) /\ lo + n = cuts[i]
        /\ lo + n \in 1..Len(vmHandlers)
        /\ \A k \in 1..n : blocks[i].instructions[k] = vmHandlers[lo + k]
  BY BlockInTrace
<1>3. lo + 1 \in 1..Len(vmHandlers) /\ 1 \in 1..n /\ (lo + 1) - 1 = lo
  <2>1. Len(vmHandlers) \in Nat
    BY LenProperties DEF BlocksInv, TypeOK
  <2> QED  BY <1>2, <2>1
<1>4. vmHandlers[lo + 1].vspBefore = VspAfter(vmHandlers, lo)
  BY <1>3 DEF BlocksInv, OffsetInv, Linked
<1>5. \A j \in DOMAIN blocks : blocks[j].stackOffset = blocks[j].instructions[1].vspBefore
  BY DEF BlocksInv, OffsetInv, BlockOffsets
<1>6. blocks[i].stackOffset = VspAfter(vmHandlers, lo)
  BY <1>2, <1>3, <1>4, <1>5
<1>7. blocks[i].stackOffset \in Int
  <2>1. blocks[i].instructions[1] \in Match
    BY <1>2, <1>3, BodyFacts DEF BlocksInv
  <2> QED  BY <1>5, <2>1 DEF Match
<1>8. CASE i = 1
  <2>1. lo = 0
    BY <1>2, <1>8 DEF CutBefore
  <2>2. blocks[i].stackOffset = 0
    BY <1>6, <2>1 DEF VspAfter
  <2> QED  BY <1>7, <1>8, <2>2
<1>9. CASE i # 1
  <2>1. PICK j \in DOMAIN blocks : j = i - 1
    BY <1>1, <1>9
  <2>2. PICK start \in Nat, k \in Nat \ {0} :
          /\ k = Len(blocks[j].instructions) /\ start + k = cuts[j]
          /\ \A l \in 1..k : blocks[j].instructions[l] = vmHandlers[start + l]
    BY BlockInTrace
  <2>3. lo = start + k /\ lo # 0
    BY <1>2, <1>9, <2>1, <2>2 DEF CutBefore
  <2>4. LastMatch(j) = vmHandlers[lo]
    BY <2>2, <2>3 DEF LastMatch
  <2>5. blocks[i].stackOffset = LastMatch(j).vspAfter
    BY <1>6, <2>3, <2>4 DEF VspAfter
  <2>6. LastMatch(j).vspAfter = blocks[j].stackOffset + Delta(j)
    BY <1>5, DeltaIs
  <2> QED  BY <1>7, <1>9, <2>1, <2>5, <2>6
<1> QED  BY <1>8, <1>9

(* Two runs of the same block of the program change VSP by the same.       *)
LEMMA SameDelta ==
  ASSUME BlocksInv, missed = FALSE, NEW i \in DOMAIN blocks, NEW j \in DOMAIN blocks,
         BlockVip(i) = BlockVip(j)
  PROVE  Delta(i) = Delta(j)
<1>1. PICK b : b = path[i] /\ b = path[j]
  <2>1. BlockVip(i) = path[i] /\ BlockVip(j) = path[j]
    BY LastHandlerIs
  <2> QED  BY <2>1
<1>2. ASSUME NEW l \in DOMAIN blocks, path[l] = b
      PROVE  Changes(l) = [k \in 1..Len(program[b].deltas) |-> program[b].deltas[k]]
  <2> DEFINE body == blocks[l].instructions
  <2>1. PICK n \in Nat \ {0} : n = Len(body) /\ DOMAIN body = 1..n
    BY BodyFacts DEF BlocksInv
  <2>2. \A k \in 1..n : /\ body[k] \in Match /\ Placed(body[k], program, path)
                        /\ body[k].at = l /\ body[k].number = k
    <3>1. NumberedIn(body, l)
      BY DEF BlocksInv, WholeInv, SplitWhole
    <3> QED  BY <2>1, <3>1, BodyFacts DEF BlocksInv, NumberedIn
  <2>3. \A k \in 1..n : /\ k \in 1..Len(program[b].deltas)
                        /\ body[k].vspAfter = body[k].vspBefore + program[b].deltas[k]
                        /\ Transfers(body[k]) <=> k = Len(program[b].deltas)
    <3> TAKE k \in 1..n
    <3>1. PlacedAs(body[k], program, path, l, k, b)
      <4>1. PICK h : h = body[k]
        OBVIOUS
      <4>2. Placed(h, program, path) /\ h.at = l /\ h.number = k
        BY <2>2, <4>1
      <4> HIDE DEF body
      <4> QED  BY <1>2, <4>1, <4>2 DEF Placed
    <3> QED  BY <3>1, Zenon DEF PlacedAs
  <2>4. n = Len(program[b].deltas)
    <3>1. Transfers(body[n])
      BY <2>1, BodyFacts DEF BlocksInv, LastMatch
    <3> QED  BY <2>1, <2>3, <3>1
  <2>5. TypeOK /\ b \in DOMAIN program
    BY <1>2, LastHandlerIs DEF BlocksInv
  <2>6. \A k \in 1..n : program[b].deltas[k] \in Int
    BY <2>4, <2>5, BlockFacts, ElementOfSeq
  <2>7. \A k \in 1..n : body[k].vspAfter - body[k].vspBefore = program[b].deltas[k]
    <3>1. \A k \in 1..n : body[k].vspAfter \in Int /\ body[k].vspBefore \in Int
      BY <2>2 DEF Match
    <3> QED  BY <2>3, <2>6, <3>1
  <2>8. Changes(l) = [k \in 1..n |-> body[k].vspAfter - body[k].vspBefore]
    BY <2>1 DEF Changes
  <2> QED  BY <2>4, <2>7, <2>8
<1>3. Changes(i) = Changes(j)
  BY <1>1, <1>2
<1> QED  BY <1>3 DEF Delta
-----------------------------------------------------------------------------
(* The lifter comes to a block with the offset at the end of the one       *)
(* before, or it has passed over a repeated block that changed VSP.        *)
EndOffset(n) == IF n = 1 THEN 0 ELSE blocks[n - 1].stackOffset + Delta(n - 1)
PassedOver(n) == \E i \in 1..(n - 1) : Repeats(i) /\ Delta(i) # 0
LiftedOffsets ==
  /\ liftAt = 1 => stackOffset = 0
  /\ missed = FALSE =>
       /\ stackOffset = EndOffset(liftAt) \/ PassedOver(liftAt)
       /\ \A vip \in DOMAIN offsets : \/ offsets[vip] = blocks[FirstBlock(vip)].stackOffset
                                      \/ PassedOver(FirstBlock(vip))

LEMMA LiftedOffsetsInit == LifterInit => LiftedOffsets
<1> SUFFICES ASSUME LifterInit PROVE LiftedOffsets
  OBVIOUS
<1>1. liftAt = 1 /\ stackOffset = 0 /\ DOMAIN offsets = {}
  BY DEF LifterInit
<1> QED  BY <1>1 DEF LiftedOffsets, EndOffset

LEMMA OffsetsLift ==
  ASSUME LifterInv, LiftedOffsets, LiftBlock
  PROVE  LiftedOffsets'
<1>0. PICK n \in DOMAIN blocks, i \in DOMAIN blocks : LiftsAs(n, BlockVip(n), i)
  BY LiftStep DEF LifterInv
<1>1. PICK vip : vip = BlockVip(n) /\ LiftsAs(n, vip, i)
  BY <1>0
<1>2. /\ BlocksInv /\ Lifting /\ TypeOK /\ stackOffset \in Int
      /\ n = liftAt /\ i = LastBlock(vip) /\ liftAt' = n + 1
      /\ blocks' = blocks /\ missed' = missed
  BY <1>1 DEF LiftsAs, LifterInv, BlocksInv, traceVars, splitVars
<1>3. n \in Nat \ {0} /\ DOMAIN blocks = 1..Len(blocks) /\ Len(blocks) \in Nat
  BY <1>2, LenProperties DEF TypeOK
<1>4. liftAt' # 1
  BY <1>2, <1>3
<1> SUFFICES ASSUME missed = FALSE
             PROVE  /\ stackOffset' = EndOffset(n + 1) \/ PassedOver(n + 1)
                    /\ \A v \in DOMAIN offsets' :
                         \/ offsets'[v] = blocks[FirstBlock(v)].stackOffset
                         \/ PassedOver(FirstBlock(v))
  <2>1. EndOffset(liftAt)' = EndOffset(n + 1) /\ (PassedOver(liftAt)' <=> PassedOver(n + 1))
    BY <1>2, SameBlocks DEF EndOffset, PassedOver, Repeats
  <2>2. ASSUME NEW v
        PROVE  /\ PassedOver(FirstBlock(v))' <=> PassedOver(FirstBlock(v))
               /\ blocks'[FirstBlock(v)'].stackOffset = blocks[FirstBlock(v)].stackOffset
    BY <1>2, SameBlocks DEF PassedOver, Repeats
  <2>3. missed' = FALSE => stackOffset' = EndOffset(liftAt)' \/ PassedOver(liftAt)'
    BY <1>2, <2>1
  <2>4. missed' = FALSE =>
          \A v \in DOMAIN offsets' : \/ offsets'[v] = blocks'[FirstBlock(v)'].stackOffset
                                     \/ PassedOver(FirstBlock(v))'
    BY <1>2, <2>2
  <2> QED  BY <1>4, <2>3, <2>4 DEF LiftedOffsets
<1>5. blocks[n].stackOffset = EndOffset(n) /\ Delta(n) \in Int /\ Delta(i) = Delta(n)
  <2>1. BlockVip(i) = vip
    BY <1>1, <1>2, LastBlockIs
  <2>2. blocks[n].stackOffset = EndOffset(n)
    BY <1>2, OffsetGoesOn DEF EndOffset
  <2> QED  BY <1>1, <1>2, <2>1, <2>2, DeltaType, SameDelta
<1>6. EndOffset(n + 1) = EndOffset(n) + Delta(n)
  <2>1. n + 1 # 1 /\ (n + 1) - 1 = n
    BY <1>3
  <2>2. EndOffset(n + 1) = blocks[n].stackOffset + Delta(n)
    BY <2>1 DEF EndOffset
  <2> QED  BY <1>5, <2>2
<1>7. EndOffset(n) \in Int
  BY <1>2, <1>5, OffsetGoesOn
<1>8. stackOffset = EndOffset(n) \/ PassedOver(n)
  BY <1>2 DEF LiftedOffsets
<1>9. PassedOver(n) => PassedOver(n + 1)
  <2>1. 1..(n - 1) \subseteq 1..((n + 1) - 1)
    BY <1>3
  <2> QED  BY <2>1 DEF PassedOver
<1>10. CASE vip \in LiftedVips
  <2>1. stackOffset' = stackOffset /\ offsets' = offsets
    BY <1>1, <1>10 DEF LiftsAs
  <2>2. Repeats(n)
    <3>1. PICK j \in DOMAIN blocks : BlockVip(j) = vip /\ j < n
      BY <1>2, <1>10, LiftedIs
    <3>2. FirstBlock(vip) <= j /\ FirstBlock(vip) \in DOMAIN blocks
      BY <1>1, <1>2, <3>1, FirstBlockIs
    <3>3. FirstBlock(vip) # n
      BY <1>3, <3>1, <3>2
    <3> QED  BY <1>1, <3>3 DEF Repeats
  <2>3. stackOffset = EndOffset(n + 1) \/ PassedOver(n + 1)
    <3>1. CASE Delta(n) # 0
      <4>1. n \in 1..((n + 1) - 1)
        BY <1>3
      <4> QED  BY <2>2, <3>1, <4>1 DEF PassedOver
    <3>2. CASE Delta(n) = 0
      <4>1. EndOffset(n + 1) = EndOffset(n)
        BY <1>6, <1>7, <3>2
      <4> QED  BY <1>8, <1>9, <4>1
    <3> QED  BY <3>1, <3>2
  <2> QED  BY <2>1, <2>3 DEF LiftedOffsets
<1>11. CASE vip \notin LiftedVips
  <2>1. stackOffset' = stackOffset + Delta(n) /\ offsets' = With(offsets, vip, stackOffset)
    BY <1>1, <1>5, <1>11 DEF LiftsAs
  <2>2. stackOffset' = EndOffset(n + 1) \/ PassedOver(n + 1)
    BY <1>6, <1>8, <1>9, <2>1
  <2>3. FirstBlock(vip) = n
    <3>1. PICK f \in DOMAIN blocks : f = FirstBlock(vip) /\ BlockVip(f) = vip /\ f <= n
      BY <1>1, <1>2, FirstBlockIs
    <3>2. f \notin 1..(n - 1)
      BY <1>2, <1>11, <3>1 DEF LiftedVips
    <3> QED  BY <1>3, <3>1, <3>2
  <2>4. ASSUME NEW v \in DOMAIN offsets'
        PROVE  \/ offsets'[v] = blocks[FirstBlock(v)].stackOffset
               \/ PassedOver(FirstBlock(v))
    <3>1. CASE v = vip
      <4>1. offsets'[v] = stackOffset
        BY <2>1, <3>1 DEF With
      <4> QED  BY <1>5, <1>8, <2>3, <3>1, <4>1
    <3>2. CASE v # vip
      <4>1. v \in DOMAIN offsets /\ offsets'[v] = offsets[v]
        BY <2>1, <2>4, <3>2 DEF With
      <4> QED  BY <4>1 DEF LiftedOffsets
    <3> QED  BY <3>1, <3>2
  <2> QED  BY <2>2, <2>4
<1> QED  BY <1>10, <1>11

LEMMA LiftedOffsetsNext ==
  LifterInv /\ LiftedOffsets /\ [LifterNext]_vars => LiftedOffsets'
<1> SUFFICES ASSUME LifterInv, LiftedOffsets, [LifterNext]_vars PROVE LiftedOffsets'
  OBVIOUS
<1>1. CASE TraceAndSplit
  <2>1. UNCHANGED lifterVars /\ Next
    BY <1>1 DEF TraceAndSplit
  <2>2. phase \in {"trace", "split"}
    BY <2>1 DEF Next, MatchInside, MatchJump, MatchExit, EndTrace, SplitHandler, EndSplit
  <2>3. /\ liftAt = 1 /\ DOMAIN offsets = {} /\ stackOffset = 0
        /\ UNCHANGED <<liftAt, offsets, stackOffset>>
    BY <2>1, <2>2, NothingLifted DEF LifterInv, Lifting, LiftedOffsets, lifterVars
  <2>4. liftAt' = 1 /\ DOMAIN offsets' = {} /\ stackOffset' = 0
    BY <2>3
  <2> QED  BY <2>4 DEF LiftedOffsets, EndOffset
<1>2. CASE ConnectEntry \/ Patch \/ EndPatch \/ UNCHANGED vars
  <2>1. UNCHANGED <<missed, blocks, liftAt, stackOffset, offsets>>
    BY <1>2 DEF ConnectEntry, Patch, EndPatch, vars, blocksVars, traceVars, splitVars, lifterVars
  <2> QED  BY <2>1, SameBlocks DEF LiftedOffsets, EndOffset, PassedOver, Repeats
<1> QED  BY <1>1, <1>2, OffsetsLift DEF LifterNext

(* The stack offset that a block is lifted with is the one of the program  *)
(* when it first came there, unless the lifter passed over a block run     *)
(* again that had moved VSP in between.                                    *)
THEOREM OffsetsAlwaysAgree == LifterSpec => []OffsetsAgree
<1>1. LifterInv /\ LiftedOffsets => OffsetsAgree
  <2>1. TypeOK => missed \in BOOLEAN
    BY DEF TypeOK
  <2> QED  BY <2>1 DEF LifterInv, BlocksInv, LiftedOffsets, PassedOver, OffsetsAgree
<1> QED  BY <1>1, LiftedOffsetsInit, LiftedOffsetsNext, SpecLifterInv, PTL DEF LifterSpec
=============================================================================
