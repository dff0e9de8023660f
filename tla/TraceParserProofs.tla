-------------------------- MODULE TraceParserProofs --------------------------
(***************************************************************************)
(* What ParseVmBasicBlocks keeps true on every log, of any length and with *)
(* any texts in it.                                                        *)
(***************************************************************************)
EXTENDS TraceParser, TLAPS, SequenceTheorems

(* Only a logged instruction changes the blocks.                           *)
LEMMA NextCases ==
  ASSUME NEW line, ReadMemoryLine(line) \/ ReadRegistersLine(line) \/ ReadOtherLine(line)
  PROVE  /\ log' = Append(log, line) /\ line.tag # "i:"
         /\ UNCHANGED <<currentBlock, basicBlocks>>
  BY DEF ReadMemoryLine, ReadRegistersLine, ReadOtherLine, Read

LEMMA LineTags ==
  ASSUME NEW line \in Lines
  PROVE  /\ line.tag \in {"mr:", "r:"} => line.text \in Texts
         /\ line.tag = "i:" => line.instruction \in Instruction
  BY DEF Lines

LEMMA AppendDomain ==
  ASSUME NEW S, NEW s \in Seq(S), NEW e \in S
  PROVE  /\ Append(s, e) \in Seq(S)
         /\ Len(s) \in Nat /\ DOMAIN s = 1..Len(s)
         /\ Len(Append(s, e)) = Len(s) + 1
         /\ DOMAIN Append(s, e) = 1..(Len(s) + 1)
         /\ Append(s, e)[Len(s) + 1] = e
         /\ \A i \in 1..Len(s) : Append(s, e)[i] = s[i]
<1>1. Len(s) \in Nat /\ DOMAIN s = 1..Len(s)
  BY LenProperties
<1> DEFINE more == Append(s, e)
<1>2. /\ more \in Seq(S) /\ Len(more) = Len(s) + 1 /\ more[Len(s) + 1] = e
      /\ \A i \in 1..Len(s) : more[i] = s[i]
  BY AppendProperties
<1> HIDE DEF more
<1>3. DOMAIN more = 1..Len(more)
  BY <1>2, LenProperties
<1> QED  BY <1>1, <1>2, <1>3 DEF more

LEMMA InContext ==
  ASSUME TypeOK, NEW inst \in Instruction
  PROVE  [instruction |-> inst, registerValues |-> registersState,
          memoryReads |-> memoryRead, at |-> Len(log) + 1] \in Context
<1>1. log \in Seq(Lines)
  BY DEF TypeOK
<1>2. Len(log) + 1 \in Nat
  BY <1>1, LenProperties
<1>3. registersState \in Texts \cup {""} /\ memoryRead \in Texts \cup {""}
  BY DEF TypeOK
<1> DEFINE place == Len(log) + 1
<1> HIDE DEF place
<1> QED  BY <1>2, <1>3 DEF Context, place

-----------------------------------------------------------------------------
LEMMA InitType == Init => TypeOK
<1> SUFFICES ASSUME Init PROVE TypeOK
  OBVIOUS
<1>1. log = <<>> /\ currentBlock = <<>> /\ basicBlocks = <<>>
  BY DEF Init
<1>2. log \in Seq(Lines) /\ Len(log) = 0
  BY <1>1, EmptySeq
<1>3. currentBlock \in Seq(Context) /\ basicBlocks \in Seq(Seq(Context))
  BY <1>1, EmptySeq
<1>4. memoryRead \in Texts \cup {""} /\ registersState \in Texts \cup {""}
  BY DEF Init
<1>5. Len(log) <= MaxLines
  <2>1. MaxLines \in Nat
    BY LinesAssumption
  <2> QED  BY <1>2, <2>1
<1> QED  BY <1>2, <1>3, <1>4, <1>5 DEF TypeOK

LEMMA NextType == TypeOK /\ [Next]_vars => TypeOK'
<1> SUFFICES ASSUME TypeOK, [Next]_vars PROVE TypeOK'
  OBVIOUS
<1>1. ASSUME NEW line \in Lines, Read(line)
      PROVE  (log \in Seq(Lines) /\ Len(log) <= MaxLines)'
  <2>1. log' = Append(log, line) /\ Len(log) < MaxLines /\ log \in Seq(Lines)
    BY <1>1 DEF Read, TypeOK
  <2>2. log' \in Seq(Lines) /\ Len(log') = Len(log) + 1
    BY <2>1, AppendProperties
  <2>3. Len(log) \in Nat
    BY <2>1, LenProperties
  <2>4. MaxLines \in Nat
    BY LinesAssumption
  <2>5. Len(log') <= MaxLines
    <3> DEFINE a == Len(log)
               b == Len(log')
    <3>1. a \in Nat /\ b = a + 1 /\ a < MaxLines
      BY <2>1, <2>2, <2>3
    <3> HIDE DEF a, b
    <3>2. b <= MaxLines
      BY <2>4, <3>1
    <3> QED  BY <3>2 DEF b
  <2> QED  BY <2>2, <2>5
<1>2. ASSUME NEW line \in Lines, ReadMemoryLine(line) PROVE TypeOK'
  BY <1>1, <1>2, LineTags DEF ReadMemoryLine, TypeOK
<1>3. ASSUME NEW line \in Lines, ReadRegistersLine(line) PROVE TypeOK'
  BY <1>1, <1>3, LineTags DEF ReadRegistersLine, TypeOK
<1>4. ASSUME NEW line \in Lines, ReadOtherLine(line) PROVE TypeOK'
  BY <1>1, <1>4 DEF ReadOtherLine, TypeOK
<1>5. ASSUME NEW line \in Lines, ReadInstructionLine(line) PROVE TypeOK'
  <2> DEFINE inst == [instruction |-> line.instruction, registerValues |-> registersState,
                      memoryReads |-> memoryRead, at |-> Len(log) + 1]
  <2>1. Read(line) /\ memoryRead' = "" /\ registersState' = "" /\ line.tag = "i:"
        /\ PushInstruction(currentBlock, inst)
    BY <1>5 DEF ReadInstructionLine, Moved
  <2>2. inst \in Context
    BY <2>1, LineTags, InContext
  <2> HIDE DEF inst
  <2>3. Append(currentBlock, inst) \in Seq(Context) /\ <<>> \in Seq(Context)
    BY <2>2, AppendProperties, EmptySeq DEF TypeOK
  <2>4. \A block \in Seq(Context) : Append(basicBlocks, block) \in Seq(Seq(Context))
    BY AppendProperties DEF TypeOK
  <2>5. (currentBlock \in Seq(Context) /\ basicBlocks \in Seq(Seq(Context)))'
    BY <2>1, <2>3, <2>4 DEF PushInstruction, TypeOK
  <2> QED  BY <1>1, <2>1, <2>5 DEF TypeOK
<1>6. CASE UNCHANGED vars
  BY <1>6 DEF vars, TypeOK
<1> QED  BY <1>2, <1>3, <1>4, <1>5, <1>6 DEF Next

LEMMA TypeCorrect == Spec => []TypeOK
  BY InitType, NextType, PTL DEF Spec

-----------------------------------------------------------------------------
LEMMA BlocksInit == Init => BlocksAreHandlers
<1> SUFFICES ASSUME Init PROVE BlocksAreHandlers
  OBVIOUS
<1>1. currentBlock = <<>> /\ basicBlocks = <<>>
  BY DEF Init
<1>2. DOMAIN currentBlock = {} /\ DOMAIN basicBlocks = {}
  BY <1>1
<1> QED  BY <1>2 DEF BlocksAreHandlers

(* A transfer closes the block, which had none before; any other           *)
(* instruction leaves the block without one.                               *)
LEMMA BlocksPush ==
  ASSUME TypeOK, BlocksAreHandlers, NEW inst \in Context, PushInstruction(currentBlock, inst)
  PROVE  BlocksAreHandlers'
<1> DEFINE n == Len(currentBlock)
           more == Append(currentBlock, inst)
           Leaves(i) == IsNewHandlerTransfer(i.instruction)
           Closed(block) == /\ block # <<>>
                            /\ \A i \in DOMAIN block : Leaves(block[i]) <=> i = Len(block)
<1>0. currentBlock \in Seq(Context)
  BY DEF TypeOK
<1>1. n \in Nat /\ DOMAIN currentBlock = 1..n
  BY <1>0, LenProperties
<1>2. /\ Len(more) = n + 1 /\ DOMAIN more = 1..(n + 1) /\ more[n + 1] = inst
      /\ \A i \in 1..n : more[i] = currentBlock[i]
  BY <1>0, AppendDomain
<1>3. \A i \in 1..n : ~Leaves(more[i])
  BY <1>1, <1>2, Zenon DEF BlocksAreHandlers
<1>6. \A j \in DOMAIN basicBlocks : Closed(basicBlocks[j])
  BY Zenon DEF BlocksAreHandlers
<1>4. CASE Leaves(inst)
  <2>1. currentBlock' = <<>> /\ basicBlocks' = Append(basicBlocks, more)
    BY <1>4 DEF PushInstruction
  <2>2. Closed(more)
    <3>1. more # <<>>
      BY <1>1, <1>2
    <3>2. \A i \in 1..(n + 1) : i \in 1..n \/ i = n + 1
      BY <1>1
    <3>3. \A i \in 1..n : i # n + 1
      BY <1>1
    <3> HIDE DEF more, Leaves, n
    <3> QED  BY <1>2, <1>3, <1>4, <3>1, <3>2, <3>3, Zenon
  <2>3. Len(basicBlocks) \in Nat /\ DOMAIN basicBlocks = 1..Len(basicBlocks)
    BY LenProperties DEF TypeOK
  <2>4. /\ DOMAIN basicBlocks' = 1..(Len(basicBlocks) + 1)
        /\ basicBlocks'[Len(basicBlocks) + 1] = more
        /\ \A j \in 1..Len(basicBlocks) : basicBlocks'[j] = basicBlocks[j]
    <3>1. basicBlocks \in Seq(Seq(Context)) /\ more \in Seq(Context)
      BY AppendProperties DEF TypeOK
    <3> HIDE DEF more
    <3> QED  BY <2>1, <2>3, <3>1, AppendProperties
  <2>5. ASSUME NEW j \in DOMAIN basicBlocks'
        PROVE  Closed(basicBlocks'[j])
    <3> HIDE DEF Closed, more
    <3>1. CASE j \in 1..Len(basicBlocks)
      <4>1. basicBlocks'[j] = basicBlocks[j] /\ j \in DOMAIN basicBlocks
        BY <2>3, <2>4, <3>1
      <4>2. Closed(basicBlocks[j])
        BY <1>6, <4>1, Zenon
      <4> QED  BY <4>1, <4>2, Zenon
    <3>2. CASE j = Len(basicBlocks) + 1
      BY <2>2, <2>4, <3>2, Zenon
    <3>3. j \in 1..Len(basicBlocks) \/ j = Len(basicBlocks) + 1
      BY <2>3, <2>4, <2>5
    <3> QED  BY <3>1, <3>2, <3>3
  <2>6. \A i \in DOMAIN currentBlock' : ~Leaves(currentBlock'[i])
    BY <2>1
  <2> QED  BY <2>5, <2>6, Zenon DEF BlocksAreHandlers
<1>5. CASE ~Leaves(inst)
  <2>1. currentBlock' = more /\ basicBlocks' = basicBlocks
    BY <1>5 DEF PushInstruction
  <2>2. \A i \in DOMAIN more : ~Leaves(more[i])
    <3>1. \A i \in 1..(n + 1) : i \in 1..n \/ i = n + 1
      BY <1>1
    <3> HIDE DEF more, Leaves, n
    <3> QED  BY <1>2, <1>3, <1>5, <3>1, Zenon
  <2> HIDE DEF more
  <2> QED  BY <2>1, <2>2, Zenon DEF BlocksAreHandlers
<1> QED  BY <1>4, <1>5

LEMMA BlocksNext == TypeOK /\ BlocksAreHandlers /\ [Next]_vars => BlocksAreHandlers'
<1> SUFFICES ASSUME TypeOK, BlocksAreHandlers, [Next]_vars PROVE BlocksAreHandlers'
  OBVIOUS
<1>1. CASE UNCHANGED <<currentBlock, basicBlocks>>
  BY <1>1 DEF BlocksAreHandlers
<1>2. ASSUME NEW line \in Lines, ReadInstructionLine(line) PROVE BlocksAreHandlers'
  <2> DEFINE inst == [instruction |-> line.instruction, registerValues |-> registersState,
                      memoryReads |-> memoryRead, at |-> Len(log) + 1]
  <2>1. line.tag = "i:" /\ PushInstruction(currentBlock, inst)
    BY <1>2 DEF ReadInstructionLine
  <2>2. inst \in Context
    BY <2>1, LineTags, InContext
  <2> HIDE DEF inst
  <2> QED  BY <2>1, <2>2, BlocksPush
<1> QED  BY <1>1, <1>2, NextCases DEF Next, vars

(* On every log each native block holds an instruction, its last one goes  *)
(* to another handler and no other does: main and the emulator may read    *)
(* the first instruction of a block, and take the block for one handler.   *)
THEOREM BlocksAlwaysHandlers == Spec => []BlocksAreHandlers
  BY TypeCorrect, BlocksInit, BlocksNext, PTL DEF Spec

-----------------------------------------------------------------------------
(* What waits is what was announced for the next instruction.              *)
Waiting ==
  /\ Announced(memoryRead, "mr:", Len(log) + 1)
  /\ Announced(registersState, "r:", Len(log) + 1)
Logged(inst) == inst.at \in 1..Len(log) /\ Attached(inst)
AllLogged(block) == \A i \in DOMAIN block : Logged(block[i])
AttachedInv ==
  /\ Waiting
  /\ AllLogged(currentBlock)
  /\ \A j \in DOMAIN basicBlocks : AllLogged(basicBlocks[j])

LEMMA LogGrows ==
  ASSUME TypeOK, NEW line \in Lines, log' = Append(log, line)
  PROVE  /\ Len(log) \in Nat /\ Len(log') = Len(log) + 1
         /\ log'[Len(log) + 1] = line
         /\ \A k \in 1..Len(log) : log'[k] = log[k]
<1>1. log \in Seq(Lines)
  BY DEF TypeOK
<1> QED  BY <1>1, AppendDomain

(* A line that comes later does not change what was announced.             *)
LEMMA AnnouncesStays ==
  ASSUME TypeOK, NEW line \in Lines, log' = Append(log, line), NEW tag,
         NEW p \in 1..(Len(log) + 1), NEW k \in 1..(p - 1)
  PROVE  Announces(k, tag, p)' <=> Announces(k, tag, p)
<1> DEFINE n == Len(log)
<1>1. n \in Nat /\ \A m \in 1..n : log'[m] = log[m]
  BY LogGrows
<1> HIDE DEF n
<1>2. k \in 1..n /\ \A m \in (k + 1)..(p - 1) : m \in 1..n
  BY <1>1 DEF n
<1>3. log'[k] = log[k] /\ \A m \in (k + 1)..(p - 1) : log'[m] = log[m]
  BY <1>1, <1>2
<1> QED  BY <1>3, Zenon DEF Announces

LEMMA AnnouncedStays ==
  ASSUME TypeOK, NEW line \in Lines, log' = Append(log, line), NEW text, NEW tag,
         NEW p \in 1..(Len(log) + 1), Announced(text, tag, p)
  PROVE  Announced(text, tag, p)'
<1>1. \A k \in 1..(p - 1) : Announces(k, tag, p)' <=> Announces(k, tag, p)
  BY AnnouncesStays
<1>2. \A k \in 1..(p - 1) : log'[k] = log[k]
  BY LogGrows
<1> QED  BY <1>1, <1>2, Zenon DEF Announced

LEMMA LoggedStays ==
  ASSUME TypeOK, NEW line \in Lines, log' = Append(log, line), NEW inst, Logged(inst)
  PROVE  Logged(inst)'
<1>1. inst.at \in 1..Len(log) /\ Attached(inst)
  BY DEF Logged
<1>2. Len(log) \in Nat /\ Len(log') = Len(log) + 1
  BY LogGrows
<1>3. inst.at \in 1..(Len(log) + 1) /\ inst.at \in 1..Len(log')
  BY <1>1, <1>2
<1>4. Attached(inst)'
  BY <1>1, <1>3, AnnouncedStays DEF Attached
<1> QED  BY <1>3, <1>4 DEF Logged

(* The three kinds of lines, for the announcement of one tag: the line     *)
(* makes it, leaves it, or forgets it.                                     *)
LEMMA MakesAnnouncement ==
  ASSUME TypeOK, NEW line \in Lines, log' = Append(log, line), NEW p, p = Len(log) + 2
  PROVE  Announced(line.text, line.tag, p)'
<1>0. PICK n \in Nat : n = Len(log)
  BY LogGrows
<1>1. n \in Nat /\ log'[n + 1] = line
  BY <1>0, LogGrows
<1>2. p = n + 2
  BY <1>0
<1>3. n + 1 \in 1..(p - 1) /\ (n + 1 + 1)..(p - 1) = {}
  BY <1>1, <1>2
<1>k. PICK k : k = n + 1
  OBVIOUS
<1>4. log'[k] = line /\ k \in 1..(p - 1) /\ (k + 1)..(p - 1) = {}
  BY <1>1, <1>3, <1>k
<1>5. Announces(k, line.tag, p)'
  BY <1>4 DEF Announces
<1> QED  BY <1>4, <1>5, Zenon DEF Announced

LEMMA LeavesAnnouncement ==
  ASSUME TypeOK, NEW line \in Lines, log' = Append(log, line), NEW q, q = Len(log) + 1,
         NEW tag, NEW text, line.tag \in {"mr:", "r:"}, line.tag # tag,
         Announced(text, tag, q)
  PROVE  Announced(text, tag, q + 1)'
<1>0. PICK n \in Nat : n = Len(log)
  BY LogGrows
<1>1. q = n + 1 /\ log'[q] = line /\ \A k \in 1..n : log'[k] = log[k]
  BY <1>0, LogGrows
<1>p. PICK p : p = q + 1
  OBVIOUS
<1>2. 1..(p - 1) = 1..q /\ 1..(q - 1) = 1..n /\ q \in 1..q
  BY <1>0, <1>1, <1>p
<1>3. \A k \in 1..q : k \in 1..n \/ k = q
  BY <1>0, <1>1
<1>4. \A k \in 1..n : k \in 1..q
  BY <1>0, <1>1
<1>5. ASSUME NEW k \in 1..n
      PROVE  Announces(k, tag, p)' <=> Announces(k, tag, q)
  <2>1. \A m \in (k + 1)..(p - 1) : m = q \/ m \in (k + 1)..(q - 1)
    BY <1>0, <1>1, <1>p
  <2>2. \A m \in (k + 1)..(q - 1) : m \in (k + 1)..(p - 1) /\ m \in 1..n
    BY <1>0, <1>1, <1>p
  <2>3. log'[k] = log[k] /\ \A m \in (k + 1)..(q - 1) : log'[m] = log[m]
    BY <1>1, <2>2, Zenon
  <2>4. log'[q].tag \in {"mr:", "r:"} /\ log'[q].tag # tag
    BY <1>1, Zenon
  <2>5. ASSUME Announces(k, tag, p)' PROVE Announces(k, tag, q)
    BY <2>2, <2>3, <2>5, Zenon DEF Announces
  <2>6. ASSUME Announces(k, tag, q) PROVE Announces(k, tag, p)'
    <3>1. ASSUME NEW m \in (k + 1)..(p - 1)
          PROVE  log'[m].tag \in {"mr:", "r:"} /\ log'[m].tag # tag
      <4>1. CASE m = q
        BY <2>4, <4>1, Zenon
      <4>2. CASE m \in (k + 1)..(q - 1)
        BY <2>3, <2>6, <4>2, Zenon DEF Announces
      <4> QED  BY <2>1, <4>1, <4>2
    <3>2. log'[k].tag = tag
      BY <2>3, <2>6, Zenon DEF Announces
    <3> QED  BY <3>1, <3>2, Zenon DEF Announces
  <2> QED  BY <2>5, <2>6
<1>6. ~Announces(q, tag, p)'
  BY <1>1, Zenon DEF Announces
<1>9. CASE \E k \in 1..n : Announces(k, tag, q)
  <2>1. PICK k \in 1..n : Announces(k, tag, q) /\ text = log[k].text
    BY <1>2, <1>9, Zenon DEF Announced
  <2>2. k \in 1..(p - 1) /\ Announces(k, tag, p)' /\ text = log'[k].text
    BY <1>1, <1>2, <1>4, <1>5, <2>1, Zenon
  <2>3. Announced(text, tag, p)'
    BY <2>2, Zenon DEF Announced
  <2> QED  BY <1>p, <2>3, Zenon
<1>10. CASE ~\E k \in 1..n : Announces(k, tag, q)
  <2>1. text = ""
    BY <1>2, <1>10, Zenon DEF Announced
  <2>2. ~\E k \in 1..(p - 1) : Announces(k, tag, p)'
    BY <1>2, <1>3, <1>5, <1>6, <1>10, Zenon
  <2>3. Announced(text, tag, p)'
    BY <2>1, <2>2, Zenon DEF Announced
  <2> QED  BY <1>p, <2>3, Zenon
<1> QED  BY <1>9, <1>10

LEMMA ForgetsAnnouncement ==
  ASSUME TypeOK, NEW line \in Lines, log' = Append(log, line), NEW p, p = Len(log) + 2,
         NEW tag \in {"mr:", "r:"}, line.tag \notin {"mr:", "r:"}
  PROVE  Announced("", tag, p)'
<1>0. PICK n \in Nat : n = Len(log)
  BY LogGrows
<1>1. n \in Nat /\ log'[n + 1] = line
  BY <1>0, LogGrows
<1>2. p = n + 2
  BY <1>0
<1>3. \A k \in 1..(p - 1) : k = n + 1 \/ n + 1 \in (k + 1)..(p - 1)
  BY <1>1, <1>2
<1>4. log'[n + 1].tag \notin {"mr:", "r:"}
  BY <1>1
<1>5. \A k \in 1..(p - 1) : ~Announces(k, tag, p)'
  BY <1>3, <1>4, Zenon DEF Announces
<1> QED  BY <1>5, Zenon DEF Announced

LEMMA NextPlace ==
  ASSUME TypeOK, NEW line \in Lines, log' = Append(log, line)
  PROVE  Len(log') + 1 = Len(log) + 2
<1>1. PICK n \in Nat : n = Len(log)
  BY LogGrows
<1>2. Len(log') = n + 1
  BY <1>1, LogGrows
<1> QED  BY <1>1, <1>2

LEMMA PlaceAfter == TypeOK => (Len(log) + 1) + 1 = Len(log) + 2
<1>1. TypeOK => Len(log) \in Nat
  BY LenProperties DEF TypeOK
<1>2. \A n \in Nat : (n + 1) + 1 = n + 2
  OBVIOUS
<1> QED  BY <1>1, <1>2

LEMMA WaitingNext ==
  ASSUME TypeOK, Waiting, NEW line \in Lines, log' = Append(log, line),
         \/ /\ line.tag = "mr:" /\ memoryRead' = line.text
            /\ UNCHANGED registersState
         \/ /\ line.tag = "r:" /\ registersState' = line.text
            /\ UNCHANGED memoryRead
         \/ /\ line.tag \notin {"mr:", "r:"}
            /\ memoryRead' = "" /\ registersState' = ""
  PROVE  Waiting'
<1>q. PICK q : q = Len(log) + 1
  OBVIOUS
<1>0. PICK p : p = q + 1 /\ p = Len(log) + 2
  BY <1>q, PlaceAfter
<1>1. Len(log') + 1 = p
  BY <1>0, NextPlace, Zenon
<1>2. PICK mr : mr = memoryRead
  OBVIOUS
<1>3. PICK r : r = registersState
  OBVIOUS
<1>4. Announced(mr, "mr:", q) /\ Announced(r, "r:", q)
  BY <1>2, <1>3, <1>q, Zenon DEF Waiting
<1>5. CASE line.tag = "mr:" /\ memoryRead' = line.text /\ UNCHANGED registersState
  <2>1. Announced(line.text, "mr:", p)'
    BY <1>0, <1>5, MakesAnnouncement
  <2>2. Announced(r, "r:", p)'
    BY <1>0, <1>4, <1>5, <1>q, LeavesAnnouncement
  <2>3. line.text = memoryRead' /\ r = registersState' /\ p = Len(log') + 1
    BY <1>1, <1>3, <1>5
  <2> QED  BY <2>1, <2>2, <2>3, Zenon DEF Waiting
<1>6. CASE line.tag = "r:" /\ registersState' = line.text /\ UNCHANGED memoryRead
  <2>1. Announced(mr, "mr:", p)'
    BY <1>0, <1>4, <1>6, <1>q, LeavesAnnouncement
  <2>2. Announced(line.text, "r:", p)'
    BY <1>0, <1>6, MakesAnnouncement
  <2>3. mr = memoryRead' /\ line.text = registersState' /\ p = Len(log') + 1
    BY <1>1, <1>2, <1>6
  <2> QED  BY <2>1, <2>2, <2>3, Zenon DEF Waiting
<1>7. CASE line.tag \notin {"mr:", "r:"} /\ memoryRead' = "" /\ registersState' = ""
  <2>1. Announced("", "mr:", p)' /\ Announced("", "r:", p)'
    BY <1>0, <1>7, ForgetsAnnouncement
  <2>2. "" = memoryRead' /\ "" = registersState' /\ p = Len(log') + 1
    BY <1>1, <1>7
  <2> QED  BY <2>1, <2>2, Zenon DEF Waiting
<1> QED  BY <1>5, <1>6, <1>7

LEMMA WaitingInit == Init => AttachedInv
<1> SUFFICES ASSUME Init PROVE AttachedInv
  OBVIOUS
<1>1. log = <<>> /\ memoryRead = "" /\ registersState = "" /\ currentBlock = <<>> /\ basicBlocks = <<>>
  BY DEF Init
<1>2. DOMAIN currentBlock = {} /\ DOMAIN basicBlocks = {}
  <2>1. currentBlock = <<>> /\ basicBlocks = <<>>
    BY DEF Init
  <2> QED  BY <2>1
<1>3. PICK p : p = Len(log) + 1
  OBVIOUS
<1>4. 1..(p - 1) = {}
  <2>1. Len(log) = 0
    BY <1>1, EmptySeq
  <2> QED  BY <1>3, <2>1
<1>5. Announced(memoryRead, "mr:", p) /\ Announced(registersState, "r:", p)
  BY <1>1, <1>4, Zenon DEF Announced
<1>6. Waiting
  BY <1>3, <1>5, Zenon DEF Waiting
<1> QED  BY <1>2, <1>6, Zenon DEF AttachedInv, AllLogged

(* The instruction logged now takes what waits.                            *)
LEMMA NewLogged ==
  ASSUME TypeOK, Waiting, NEW line \in Lines, log' = Append(log, line),
         NEW inst, inst.memoryReads = memoryRead, inst.registerValues = registersState,
         inst.at = Len(log) + 1
  PROVE  Logged(inst)'
<1>1. PICK n \in Nat : n = Len(log) /\ Len(log') = n + 1
  BY LogGrows
<1>2. inst.at = n + 1 /\ n + 1 \in 1..(n + 1) /\ n + 1 \in 1..(Len(log) + 1) /\ n + 1 \in 1..Len(log')
  BY <1>1
<1>3. Announced(inst.memoryReads, "mr:", n + 1) /\ Announced(inst.registerValues, "r:", n + 1)
  BY <1>1, Zenon DEF Waiting
<1>4. Announced(inst.memoryReads, "mr:", n + 1)' /\ Announced(inst.registerValues, "r:", n + 1)'
  BY <1>2, <1>3, AnnouncedStays
<1>5. Attached(inst)'
  BY <1>2, <1>4, Zenon DEF Attached
<1> QED  BY <1>2, <1>5, Zenon DEF Logged

(* Blocks of logged instructions stay so.                                  *)
LEMMA AllLoggedStays ==
  ASSUME TypeOK, NEW line \in Lines, log' = Append(log, line), NEW block, AllLogged(block)
  PROVE  AllLogged(block)'
<1>1. ASSUME NEW i \in DOMAIN block PROVE Logged(block[i])'
  <2>1. PICK x : x = block[i]
    OBVIOUS
  <2>2. Logged(x)
    BY <2>1, Zenon DEF AllLogged
  <2>3. Logged(x)'
    BY <2>2, LoggedStays
  <2> QED  BY <2>1, <2>3, Zenon
<1> QED  BY <1>1, Zenon DEF AllLogged

LEMMA AllBlocksStay ==
  ASSUME TypeOK, AttachedInv, NEW line \in Lines, log' = Append(log, line),
         NEW j \in DOMAIN basicBlocks
  PROVE  \A block : block = basicBlocks[j] => AllLogged(block)'
<1> SUFFICES ASSUME NEW block, block = basicBlocks[j] PROVE AllLogged(block)'
  OBVIOUS
<1>1. AllLogged(block)
  BY Zenon DEF AttachedInv
<1> QED  BY <1>1, AllLoggedStays

(* No instruction came: the blocks are as they were.                       *)
LEMMA AttachedKept ==
  ASSUME TypeOK, AttachedInv, NEW line \in Lines, log' = Append(log, line), Waiting',
         UNCHANGED <<currentBlock, basicBlocks>>
  PROVE  AttachedInv'
<1>1. currentBlock' = currentBlock /\ basicBlocks' = basicBlocks
  OBVIOUS
<1>2. AllLogged(currentBlock)'
  <2>1. PICK block : block = currentBlock
    OBVIOUS
  <2>2. AllLogged(block)
    BY <2>1, Zenon DEF AttachedInv
  <2>3. AllLogged(block)'
    BY <2>2, AllLoggedStays
  <2>4. block = currentBlock'
    BY <1>1, <2>1, Zenon
  <2> QED  BY <2>3, <2>4, Zenon
<1>3. ASSUME NEW j \in DOMAIN basicBlocks' PROVE AllLogged(basicBlocks[j])'
  <2>1. j \in DOMAIN basicBlocks
    BY <1>1, <1>3, Zenon
  <2>2. PICK block : block = basicBlocks[j] /\ block = basicBlocks'[j]
    BY <1>1, Zenon
  <2>3. AllLogged(block)'
    BY <2>1, <2>2, AllBlocksStay
  <2> QED  BY <2>2, <2>3, Zenon
<1> QED  BY <1>2, <1>3, Zenon DEF AttachedInv

(* An instruction came: the block that takes it stays attached.            *)
LEMMA TakesInstruction ==
  ASSUME TypeOK, AttachedInv, NEW line \in Lines, log' = Append(log, line),
         NEW inst \in Context, Logged(inst)'
  PROVE  \A block : block = Append(currentBlock, inst) => AllLogged(block)'
<1>0. PICK n \in Nat : n = Len(currentBlock)
  BY LenProperties DEF TypeOK
<1>1. currentBlock \in Seq(Context)
  BY DEF TypeOK
<1> SUFFICES ASSUME NEW block, block = Append(currentBlock, inst) PROVE AllLogged(block)'
  OBVIOUS
<1>2. /\ DOMAIN block = 1..(n + 1) /\ block[n + 1] = inst
      /\ \A i \in 1..n : block[i] = currentBlock[i]
  BY <1>0, <1>1, AppendDomain
<1>3. DOMAIN currentBlock = 1..n
  BY <1>0, <1>1, LenProperties
<1>4. PICK before : before = currentBlock
  OBVIOUS
<1>5. AllLogged(before)'
  <2>1. AllLogged(before)
    BY <1>4, Zenon DEF AttachedInv
  <2> QED  BY <2>1, AllLoggedStays
<1>6. ASSUME NEW i \in 1..(n + 1) PROVE Logged(block[i])'
  <2>1. i \in 1..n \/ i = n + 1
    BY <1>0
  <2>2. CASE i \in 1..n
    <3>1. i \in DOMAIN before /\ block[i] = before[i]
      BY <1>2, <1>3, <1>4, <2>2, Zenon
    <3>2. Logged(before[i])'
      BY <1>5, <3>1, Zenon DEF AllLogged
    <3> QED  BY <3>1, <3>2, Zenon
  <2>3. CASE i = n + 1
    <3>1. block[i] = inst
      BY <1>2, <2>3, Zenon
    <3> QED  BY <3>1, Zenon
  <2> QED  BY <2>1, <2>2, <2>3
<1> QED  BY <1>2, <1>6, Zenon DEF AllLogged

LEMMA AttachedPush ==
  ASSUME TypeOK, AttachedInv, NEW line \in Lines, log' = Append(log, line), Waiting',
         NEW inst \in Context, Logged(inst)', PushInstruction(currentBlock, inst)
  PROVE  AttachedInv'
<1>0. PICK more : more = Append(currentBlock, inst)
  OBVIOUS
<1>1. AllLogged(more)'
  BY <1>0, TakesInstruction
<1>2. CASE IsNewHandlerTransfer(inst.instruction)
  <2>1. currentBlock' = <<>> /\ basicBlocks' = Append(basicBlocks, more)
    BY <1>0, <1>2 DEF PushInstruction
  <2>2. PICK n \in Nat : n = Len(basicBlocks)
    BY LenProperties DEF TypeOK
  <2>3. /\ DOMAIN basicBlocks = 1..n /\ DOMAIN basicBlocks' = 1..(n + 1)
        /\ basicBlocks'[n + 1] = more
        /\ \A j \in 1..n : basicBlocks'[j] = basicBlocks[j]
    <3>1. basicBlocks \in Seq(Seq(Context)) /\ more \in Seq(Context)
      BY <1>0, AppendProperties DEF TypeOK
    <3> QED  BY <2>1, <2>2, <3>1, AppendDomain, LenProperties
  <2>4. ASSUME NEW j \in DOMAIN basicBlocks' PROVE AllLogged(basicBlocks[j])'
    <3>1. j \in 1..n \/ j = n + 1
      BY <2>2, <2>3
    <3>2. CASE j \in 1..n
      <4>1. PICK block : block = basicBlocks[j] /\ block = basicBlocks'[j]
        BY <2>3, <3>2, Zenon
      <4>2. j \in DOMAIN basicBlocks
        BY <2>3, <3>2, Zenon
      <4>3. AllLogged(block)'
        BY <4>1, <4>2, AllBlocksStay
      <4> QED  BY <4>1, <4>3, Zenon
    <3>3. CASE j = n + 1
      <4>1. more = basicBlocks'[j]
        BY <2>3, <3>3, Zenon
      <4> QED  BY <1>1, <4>1, Zenon
    <3> QED  BY <3>1, <3>2, <3>3
  <2>5. AllLogged(currentBlock)'
    <3>1. DOMAIN currentBlock' = {}
      BY <2>1
    <3> QED  BY <3>1, Zenon DEF AllLogged
  <2> QED  BY <2>4, <2>5, Zenon DEF AttachedInv
<1>3. CASE ~IsNewHandlerTransfer(inst.instruction)
  <2>1. currentBlock' = more /\ basicBlocks' = basicBlocks
    BY <1>0, <1>3 DEF PushInstruction
  <2>2. ASSUME NEW j \in DOMAIN basicBlocks' PROVE AllLogged(basicBlocks[j])'
    <3>1. j \in DOMAIN basicBlocks
      BY <2>1, <2>2, Zenon
    <3>2. PICK block : block = basicBlocks[j] /\ block = basicBlocks'[j]
      BY <2>1, Zenon
    <3>3. AllLogged(block)'
      BY <3>1, <3>2, AllBlocksStay
    <3> QED  BY <3>2, <3>3, Zenon
  <2>3. AllLogged(currentBlock)'
    BY <1>1, <2>1, Zenon
  <2> QED  BY <2>2, <2>3, Zenon DEF AttachedInv
<1> QED  BY <1>2, <1>3

LEMMA AttachedNext == TypeOK /\ AttachedInv /\ [Next]_vars => AttachedInv'
<1> SUFFICES ASSUME TypeOK, AttachedInv, [Next]_vars PROVE AttachedInv'
  OBVIOUS
<1>0. Waiting
  BY DEF AttachedInv
<1>1. ASSUME NEW line \in Lines, ReadMemoryLine(line) PROVE AttachedInv'
  <2>1. Waiting'
    BY <1>0, <1>1, WaitingNext DEF ReadMemoryLine, Read
  <2> QED  BY <1>1, <2>1, AttachedKept DEF ReadMemoryLine, Read
<1>2. ASSUME NEW line \in Lines, ReadRegistersLine(line) PROVE AttachedInv'
  <2>1. Waiting'
    BY <1>0, <1>2, WaitingNext DEF ReadRegistersLine, Read
  <2> QED  BY <1>2, <2>1, AttachedKept DEF ReadRegistersLine, Read
<1>3. ASSUME NEW line \in Lines, ReadOtherLine(line) PROVE AttachedInv'
  <2>1. Waiting'
    BY <1>0, <1>3, WaitingNext DEF ReadOtherLine, Read
  <2> QED  BY <1>3, <2>1, AttachedKept DEF ReadOtherLine, Read
<1>4. ASSUME NEW line \in Lines, ReadInstructionLine(line) PROVE AttachedInv'
  <2>1. PICK inst : inst = [instruction |-> line.instruction, registerValues |-> registersState,
                            memoryReads |-> memoryRead, at |-> Len(log) + 1]
    OBVIOUS
  <2>2. /\ log' = Append(log, line) /\ memoryRead' = "" /\ registersState' = ""
        /\ line.tag = "i:" /\ PushInstruction(currentBlock, inst)
    BY <1>4, <2>1 DEF ReadInstructionLine, Moved, Read
  <2>3. inst \in Context
    BY <2>1, <2>2, LineTags, InContext
  <2>4. Waiting'
    BY <1>0, <2>2, WaitingNext
  <2>5. Logged(inst)'
    BY <1>0, <2>1, <2>2, NewLogged
  <2> QED  BY <2>2, <2>3, <2>4, <2>5, AttachedPush
<1>5. CASE UNCHANGED vars
  <2>1. /\ log' = log /\ memoryRead' = memoryRead /\ registersState' = registersState
        /\ currentBlock' = currentBlock /\ basicBlocks' = basicBlocks
    BY <1>5 DEF vars
  <2>2. \A text, tag, p : Announced(text, tag, p)' <=> Announced(text, tag, p)
    <3> TAKE text, tag, p
    <3>1. \A k : Announces(k, tag, p)' <=> Announces(k, tag, p)
      BY <2>1 DEF Announces
    <3>2. log' = log
      BY <2>1
    <3> QED  BY <3>1, <3>2, ZenonT(40) DEF Announced
  <2>3. \A inst : Logged(inst)' <=> Logged(inst)
    BY <2>1, <2>2, Zenon DEF Logged, Attached
  <2>4. \A block : AllLogged(block)' <=> AllLogged(block)
    BY <2>3, Zenon DEF AllLogged
  <2>5. Waiting'
    BY <1>0, <2>1, <2>2, Zenon DEF Waiting
  <2> QED  BY <2>1, <2>4, <2>5, Zenon DEF AttachedInv
<1> QED  BY <1>1, <1>2, <1>3, <1>4, <1>5 DEF Next

(* On every log an instruction carries exactly what the last lines before  *)
(* it announced: nothing of another instruction, and nothing lost.         *)
THEOREM AnnouncementsAlwaysAttached == Spec => []AnnouncementsAttached
<1>1. TypeOK /\ AttachedInv => AnnouncementsAttached
  BY Zenon DEF AttachedInv, AllLogged, Logged, AnnouncementsAttached
<1> QED  BY <1>1, TypeCorrect, WaitingInit, AttachedNext, PTL DEF Spec
-----------------------------------------------------------------------------
(* InstructionsKept, of given blocks: they change in their place only.     *)
BorderOf(blocks, j) == IF j = 1 THEN 0 ELSE LastOf(blocks[j - 1])
Frontier(block, blocks) ==
  IF block = <<>> THEN BorderOf(blocks, Len(blocks) + 1) ELSE LastOf(block)
Kept(block, blocks) ==
  /\ \A j \in DOMAIN blocks : Ordered(blocks[j], BorderOf(blocks, j))
  /\ Ordered(block, BorderOf(blocks, Len(blocks) + 1))
  /\ NoneBetween(Frontier(block, blocks), Len(log) + 1)
Places(block) == \A i \in DOMAIN block : block[i].at \in 1..Len(log)
AllPlaced(block, blocks) ==
  /\ block \in Seq(Context) /\ blocks \in Seq(Seq(Context))
  /\ Places(block)
  /\ \A j \in DOMAIN blocks : blocks[j] # <<>> /\ Places(blocks[j])

LEMMA LastPlace ==
  ASSUME NEW block \in Seq(Context), block # <<>>, Places(block)
  PROVE  LastOf(block) \in 1..Len(log)
<1>1. PICK n \in Nat : n = Len(block) /\ DOMAIN block = 1..n
  BY LenProperties
<1>2. n # 0
  BY <1>1, EmptySeq
<1>3. n \in DOMAIN block
  BY <1>1, <1>2
<1> QED  BY <1>1, <1>3, Zenon DEF LastOf, Places

LEMMA BorderPlace ==
  ASSUME TypeOK, NEW block, NEW blocks, AllPlaced(block, blocks), NEW j \in 1..(Len(blocks) + 1)
  PROVE  BorderOf(blocks, j) \in 0..Len(log)
<1>0. PICK n \in Nat : n = Len(log)
  BY LenProperties DEF TypeOK
<1>1. blocks \in Seq(Seq(Context))
  BY DEF AllPlaced
<1>2. PICK len \in Nat : len = Len(blocks) /\ DOMAIN blocks = 1..len
  BY <1>1, LenProperties
<1>3. CASE j = 1
  <2>1. BorderOf(blocks, j) = 0
    BY <1>3 DEF BorderOf
  <2> QED  BY <1>0, <2>1
<1>4. CASE j # 1
  <2>1. PICK i : i = j - 1
    OBVIOUS
  <2>2. i \in DOMAIN blocks
    BY <1>2, <1>4, <2>1
  <2>3. PICK last : last = blocks[i]
    OBVIOUS
  <2>4. last # <<>> /\ Places(last)
    BY <2>2, <2>3, Zenon DEF AllPlaced
  <2>5. last \in Seq(Context)
    BY <1>1, <2>2, <2>3, ElementOfSeq, <1>2
  <2>6. LastOf(last) \in 1..n
    BY <1>0, <2>4, <2>5, LastPlace
  <2>7. BorderOf(blocks, j) = LastOf(last)
    BY <1>4, <2>1, <2>3, Zenon DEF BorderOf
  <2> QED  BY <1>0, <2>6, <2>7
<1> QED  BY <1>3, <1>4

LEMMA FrontierPlace ==
  ASSUME TypeOK, NEW block, NEW blocks, AllPlaced(block, blocks)
  PROVE  Frontier(block, blocks) \in 0..Len(log)
<1>1. PICK len \in Nat : len = Len(blocks)
  BY LenProperties DEF AllPlaced
<1>2. BorderOf(blocks, Len(blocks) + 1) \in 0..Len(log)
  <2>1. Len(blocks) + 1 \in 1..(Len(blocks) + 1)
    BY <1>1
  <2> QED  BY <2>1, BorderPlace
<1>3. ASSUME block # <<>> PROVE LastOf(block) \in 0..Len(log)
  <2>0. PICK n \in Nat : n = Len(log)
    BY LenProperties DEF TypeOK
  <2>1. LastOf(block) \in 1..n
    BY <1>3, <2>0, LastPlace DEF AllPlaced
  <2> QED  BY <2>0, <2>1
<1> QED  BY <1>2, <1>3, Zenon DEF Frontier

(* What the log said up to a place it goes on to say.                      *)
LEMMA NoneBetweenStays ==
  ASSUME TypeOK, NEW line \in Lines, log' = Append(log, line),
         NEW a \in Nat, NEW b \in 1..(Len(log) + 1), NoneBetween(a, b)
  PROVE  NoneBetween(a, b)'
<1>1. PICK n \in Nat : n = Len(log)
  BY LogGrows
<1>2. \A m \in 1..n : log'[m] = log[m]
  BY <1>1, LogGrows
<1>3. \A m \in (a + 1)..(b - 1) : m \in 1..n
  BY <1>1
<1>4. \A m \in (a + 1)..(b - 1) : log'[m] = log[m]
  BY <1>2, <1>3, Zenon
<1> QED  BY <1>4, Zenon DEF NoneBetween, IsInstruction

LEMMA FollowsStays ==
  ASSUME TypeOK, NEW line \in Lines, log' = Append(log, line),
         NEW a \in Nat, NEW b \in 1..Len(log), Follows(a, b)
  PROVE  Follows(a, b)'
<1>1. PICK n \in Nat : n = Len(log)
  BY LogGrows
<1>2. b \in 1..(Len(log) + 1) /\ log'[b] = log[b]
  BY <1>1, LogGrows
<1>3. a < b /\ IsInstruction(b) /\ NoneBetween(a, b)
  BY Zenon DEF Follows
<1>4. NoneBetween(a, b)'
  BY <1>2, <1>3, NoneBetweenStays
<1>5. IsInstruction(b)'
  BY <1>2, <1>3 DEF IsInstruction
<1> QED  BY <1>3, <1>4, <1>5, Zenon DEF Follows

LEMMA OrderedStays ==
  ASSUME TypeOK, NEW line \in Lines, log' = Append(log, line),
         NEW block \in Seq(Context), NEW start \in Nat, Places(block), Ordered(block, start)
  PROVE  Ordered(block, start)'
<1>0. PICK n \in Nat : n = Len(block) /\ DOMAIN block = 1..n
  BY LenProperties
<1>n. PICK l \in Nat : l = Len(log)
  BY LogGrows
<1>1. ASSUME NEW i \in DOMAIN block
      PROVE  Follows(IF i = 1 THEN start ELSE block[i - 1].at, block[i].at)'
  <2>1. PICK a : a = IF i = 1 THEN start ELSE block[i - 1].at
    OBVIOUS
  <2>2. PICK b : b = block[i].at
    OBVIOUS
  <2>3. b \in 1..Len(log)
    BY <2>2, Zenon DEF Places
  <2>4. a \in Nat
    <3>1. CASE i = 1
      BY <2>1, <3>1
    <3>2. CASE i # 1
      <4>1. PICK h : h = i - 1
        OBVIOUS
      <4>2. h \in DOMAIN block
        BY <1>0, <3>2, <4>1
      <4>3. block[h].at \in 1..l
        BY <1>n, <4>2, Zenon DEF Places
      <4>4. a = block[h].at
        BY <2>1, <3>2, <4>1, Zenon
      <4> QED  BY <4>3, <4>4
    <3> QED  BY <3>1, <3>2
  <2>5. Follows(a, b)
    BY <2>1, <2>2, Zenon DEF Ordered
  <2>6. Follows(a, b)'
    BY <2>3, <2>4, <2>5, FollowsStays
  <2> QED  BY <2>1, <2>2, <2>6, Zenon
<1> QED  BY <1>1, Zenon DEF Ordered

(* Whatever the line, the blocks read before it stay in order.             *)
LEMMA KeptStays ==
  ASSUME TypeOK, NEW line \in Lines, log' = Append(log, line),
         NEW block, NEW blocks, AllPlaced(block, blocks), Kept(block, blocks)
  PROVE  /\ \A j \in DOMAIN blocks : Ordered(blocks[j], BorderOf(blocks, j))'
         /\ Ordered(block, BorderOf(blocks, Len(blocks) + 1))'
         /\ NoneBetween(Frontier(block, blocks), Len(log) + 1)
<1>0. /\ block \in Seq(Context) /\ blocks \in Seq(Seq(Context)) /\ Places(block)
      /\ \A j \in DOMAIN blocks : Places(blocks[j])
  BY Zenon DEF AllPlaced
<1>1. PICK len \in Nat : len = Len(blocks) /\ DOMAIN blocks = 1..len
  BY <1>0, LenProperties
<1>n. PICK n \in Nat : n = Len(log)
  BY LogGrows
<1>2. ASSUME NEW j \in 1..(Len(blocks) + 1) PROVE BorderOf(blocks, j) \in Nat
  <2>1. BorderOf(blocks, j) \in 0..n
    BY <1>n, BorderPlace
  <2> QED  BY <2>1
<1>3. ASSUME NEW j \in DOMAIN blocks PROVE Ordered(blocks[j], BorderOf(blocks, j))'
  <2>1. PICK b, start : b = blocks[j] /\ start = BorderOf(blocks, j)
    OBVIOUS
  <2>2. j \in 1..(Len(blocks) + 1)
    BY <1>1
  <2>3. start \in Nat
    BY <1>2, <2>1, <2>2
  <2>4. b \in Seq(Context)
    BY <1>0, <1>1, <2>1, ElementOfSeq
  <2>5. Places(b) /\ Ordered(b, start)
    BY <1>0, <2>1, Zenon DEF Kept
  <2>6. Ordered(b, start)'
    BY <2>3, <2>4, <2>5, OrderedStays
  <2> QED  BY <2>1, <2>6, Zenon
<1>4. Ordered(block, BorderOf(blocks, Len(blocks) + 1))'
  <2>1. PICK start : start = BorderOf(blocks, Len(blocks) + 1)
    OBVIOUS
  <2>2. Len(blocks) + 1 \in 1..(Len(blocks) + 1)
    BY <1>1
  <2>3. start \in Nat
    BY <1>2, <2>1, <2>2
  <2>4. Ordered(block, start)
    BY <2>1, Zenon DEF Kept
  <2>5. Ordered(block, start)'
    BY <1>0, <2>3, <2>4, OrderedStays
  <2> QED  BY <2>1, <2>5, Zenon
<1>5. NoneBetween(Frontier(block, blocks), Len(log) + 1)
  BY Zenon DEF Kept
<1> QED  BY <1>3, <1>4, <1>5, Zenon
(* A line that is no instruction, or none at all: the next instruction is  *)
(* still to come.                                                          *)
LEMMA KeptWithoutInstruction ==
  ASSUME TypeOK, NEW line \in Lines, log' = Append(log, line), line.tag # "i:",
         NEW block, NEW blocks, AllPlaced(block, blocks), Kept(block, blocks)
  PROVE  Kept(block, blocks)'
<1>0. PICK n \in Nat : n = Len(log) /\ Len(log') = n + 1
  BY LogGrows
<1>1. PICK f : f = Frontier(block, blocks)
  OBVIOUS
<1>2. f \in 0..n /\ NoneBetween(f, n + 1)
  BY <1>0, <1>1, FrontierPlace, KeptStays
<1>3. n + 1 \in 1..(Len(log) + 1) /\ f \in Nat
  BY <1>0, <1>2
<1>4. NoneBetween(f, n + 1)'
  BY <1>2, <1>3, NoneBetweenStays
<1>5. log'[n + 1] = line
  BY <1>0, LogGrows
<1>p. PICK p, q : p = n + 2 /\ q = n + 1
  OBVIOUS
<1>q. NoneBetween(f, q)'
  BY <1>4, <1>p, Zenon
<1>6. ASSUME NEW m \in (f + 1)..(p - 1) PROVE ~IsInstruction(m)'
  <2>1. m \in (f + 1)..(q - 1) \/ m = q
    BY <1>0, <1>3, <1>p
  <2>2. CASE m \in (f + 1)..(q - 1)
    BY <1>q, <2>2, Zenon DEF NoneBetween
  <2>3. CASE m = q
    BY <1>5, <1>p, <2>3 DEF IsInstruction
  <2> QED  BY <2>1, <2>2, <2>3
<1>7. NoneBetween(f, p)'
  BY <1>6, Zenon DEF NoneBetween
<1>8. Len(log') + 1 = p
  BY <1>0, <1>p
<1>9. NoneBetween(Frontier(block, blocks), Len(log) + 1)'
  BY <1>1, <1>7, <1>8, Zenon
<1> QED  BY <1>9, KeptStays, Zenon DEF Kept

(* The instruction logged now follows the last one before it.              *)
LEMMA InstructionFollows ==
  ASSUME TypeOK, NEW line \in Lines, log' = Append(log, line), line.tag = "i:",
         NEW block, NEW blocks, AllPlaced(block, blocks), Kept(block, blocks)
  PROVE  \A q : q = Len(log) + 1 => Follows(Frontier(block, blocks), q)'
<1>0. PICK n \in Nat : n = Len(log) /\ Len(log') = n + 1
  BY LogGrows
<1>1. PICK f : f = Frontier(block, blocks)
  OBVIOUS
<1>2. f \in 0..n /\ NoneBetween(f, n + 1)
  BY <1>0, <1>1, FrontierPlace, KeptStays
<1>3. n + 1 \in 1..(Len(log) + 1) /\ f \in Nat /\ f < n + 1
  BY <1>0, <1>2
<1>4. NoneBetween(f, n + 1)'
  BY <1>2, <1>3, NoneBetweenStays
<1>5. IsInstruction(n + 1)'
  BY <1>0, LogGrows DEF IsInstruction
<1>6. Follows(f, n + 1)'
  BY <1>3, <1>4, <1>5, Zenon DEF Follows
<1> QED  BY <1>0, <1>1, <1>6, Zenon

(* The block that takes the instruction is in order.                       *)
LEMMA TakesInOrder ==
  ASSUME TypeOK, NEW line \in Lines, log' = Append(log, line), line.tag = "i:",
         NEW block, NEW blocks, AllPlaced(block, blocks), Kept(block, blocks),
         NEW inst \in Context, inst.at = Len(log) + 1,
         NEW more, more = Append(block, inst)
  PROVE  /\ Ordered(more, BorderOf(blocks, Len(blocks) + 1))'
         /\ more # <<>> /\ LastOf(more) = Len(log) + 1
<1>0. block \in Seq(Context)
  BY DEF AllPlaced
<1>1. PICK k \in Nat : k = Len(block) /\ DOMAIN block = 1..k
  BY <1>0, LenProperties
<1>2. /\ DOMAIN more = 1..(k + 1) /\ Len(more) = k + 1 /\ more[k + 1] = inst
      /\ \A i \in 1..k : more[i] = block[i]
  BY <1>0, <1>1, AppendDomain
<1>3. PICK start : start = BorderOf(blocks, Len(blocks) + 1)
  OBVIOUS
<1>4. Ordered(block, start)'
  BY <1>3, KeptStays, Zenon
<1>5. PICK f : f = Frontier(block, blocks)
  OBVIOUS
<1>6. PICK q : q = Len(log) + 1
  OBVIOUS
<1>7. Follows(f, q)'
  BY <1>5, <1>6, InstructionFollows, Zenon
<1>8. ASSUME NEW i \in 1..(k + 1)
      PROVE  Follows(IF i = 1 THEN start ELSE more[i - 1].at, more[i].at)'
  <2>1. PICK h : h = i - 1
    OBVIOUS
  <2>2. CASE i \in 1..k
    <3>1. i # 1 => h \in 1..k
      BY <1>1, <2>1, <2>2
    <3>2. more[i] = block[i] /\ (i # 1 => more[h] = block[h])
      BY <1>2, <2>2, <3>1, Zenon
    <3>3. Follows(IF i = 1 THEN start ELSE block[i - 1].at, block[i].at)'
      BY <1>1, <1>4, <2>2, Zenon DEF Ordered
    <3> QED  BY <2>1, <3>2, <3>3, Zenon
  <2>3. CASE i = k + 1
    <3>1. more[i].at = q
      BY <1>2, <1>6, <2>3, Zenon
    <3>2. CASE k = 0
      <4>1. block = <<>> /\ i = 1
        BY <1>0, <1>1, <2>3, <3>2, EmptySeq
      <4>2. f = start
        BY <1>3, <1>5, <4>1, Zenon DEF Frontier
      <4> QED  BY <1>7, <3>1, <4>1, <4>2, Zenon
    <3>3. CASE k # 0
      <4>1. block # <<>> /\ i # 1 /\ h = k /\ h \in 1..k
        BY <1>1, <2>1, <2>3, <3>3, EmptySeq
      <4>2. f = block[k].at
        BY <1>1, <1>5, <4>1, Zenon DEF Frontier, LastOf
      <4>3. more[h] = block[k]
        BY <1>2, <4>1, Zenon
      <4> QED  BY <1>7, <2>1, <3>1, <4>1, <4>2, <4>3, Zenon
    <3> QED  BY <3>2, <3>3
  <2>4. i \in 1..k \/ i = k + 1
    BY <1>1
  <2> QED  BY <2>2, <2>3, <2>4
<1>9. Ordered(more, start)'
  BY <1>2, <1>8, Zenon DEF Ordered
<1>10. more # <<>>
  BY <1>1, <1>2, EmptySeq
<1>11. LastOf(more) = Len(log) + 1
  BY <1>2, Zenon DEF LastOf
<1> QED  BY <1>3, <1>9, <1>10, <1>11, Zenon

LEMMA NoneYet ==
  ASSUME TypeOK, NEW line \in Lines, log' = Append(log, line), NEW f, f = Len(log) + 1
  PROVE  NoneBetween(f, Len(log) + 1)'
<1>0. PICK n \in Nat : n = Len(log) /\ Len(log') = n + 1
  BY LogGrows
<1>1. PICK p : p = n + 2 /\ p = Len(log') + 1
  BY <1>0
<1>2. (f + 1)..(p - 1) = {}
  BY <1>0, <1>1
<1>3. NoneBetween(f, p)'
  BY <1>2, Zenon DEF NoneBetween
<1> QED  BY <1>1, <1>3, Zenon

LEMMA KeptWithInstruction ==
  ASSUME TypeOK, NEW line \in Lines, log' = Append(log, line), line.tag = "i:",
         NEW block, NEW blocks, AllPlaced(block, blocks), Kept(block, blocks),
         NEW inst \in Context, inst.at = Len(log) + 1,
         NEW more, more = Append(block, inst)
  PROVE  Kept(more, blocks)' /\ Kept(<<>>, Append(blocks, more))'
<1>1. /\ Ordered(more, BorderOf(blocks, Len(blocks) + 1))'
      /\ more # <<>> /\ LastOf(more) = Len(log) + 1
  BY TakesInOrder
<1>2. PICK q : q = Len(log) + 1
  OBVIOUS
<1>3. NoneBetween(q, Len(log) + 1)'
  BY <1>2, NoneYet
<1>4. \A j \in DOMAIN blocks : Ordered(blocks[j], BorderOf(blocks, j))'
  BY KeptStays
<1>5. Kept(more, blocks)'
  <2>1. Frontier(more, blocks) = q
    BY <1>1, <1>2, Zenon DEF Frontier
  <2> QED  BY <1>1, <1>3, <1>4, <2>1, Zenon DEF Kept
<1>6. Kept(<<>>, Append(blocks, more))'
  <2>1. block \in Seq(Context) /\ blocks \in Seq(Seq(Context))
    BY DEF AllPlaced
  <2>2. more \in Seq(Context)
    BY <2>1, AppendProperties
  <2>3. PICK k \in Nat : k = Len(blocks) /\ DOMAIN blocks = 1..k
    BY <2>1, LenProperties
  <2>4. PICK all : all = Append(blocks, more)
    OBVIOUS
  <2>5. /\ DOMAIN all = 1..(k + 1) /\ Len(all) = k + 1 /\ all[k + 1] = more
        /\ \A j \in 1..k : all[j] = blocks[j]
    BY <2>1, <2>2, <2>3, <2>4, AppendDomain
  <2>6. ASSUME NEW j \in 1..(k + 1) PROVE BorderOf(all, j) = BorderOf(blocks, j)
    <3>1. PICK h : h = j - 1
      OBVIOUS
    <3>2. j # 1 => h \in 1..k
      BY <2>3, <3>1
    <3>3. j # 1 => all[h] = blocks[h]
      BY <2>5, <3>2, Zenon
    <3> QED  BY <3>1, <3>3, Zenon DEF BorderOf
  <2>7. ASSUME NEW j \in 1..(k + 1) PROVE Ordered(all[j], BorderOf(all, j))'
    <3>1. j \in 1..k \/ j = k + 1
      BY <2>3
    <3>2. BorderOf(all, j) = BorderOf(blocks, j)
      BY <2>6
    <3>3. CASE j \in 1..k
      <4>1. Ordered(blocks[j], BorderOf(blocks, j))'
        BY <1>4, <2>3, <3>3, Zenon
      <4>2. all[j] = blocks[j]
        BY <2>5, <3>3, Zenon
      <4> QED  BY <3>2, <4>1, <4>2, Zenon
    <3>4. CASE j = k + 1
      <4>1. j = Len(blocks) + 1 /\ all[j] = more
        BY <2>3, <2>5, <3>4, Zenon
      <4> QED  BY <1>1, <3>2, <4>1, Zenon
    <3> QED  BY <3>1, <3>3, <3>4
  <2>8. PICK start : start = BorderOf(all, Len(all) + 1)
    OBVIOUS
  <2>9. start = q
    <3>1. PICK z : z = k + 2 /\ z # 1 /\ z - 1 = k + 1
      BY <2>3
    <3>2. start = LastOf(all[k + 1])
      <4>1. Len(all) + 1 = z
        BY <2>3, <2>5, <3>1
      <4>2. BorderOf(all, z) = LastOf(all[k + 1])
        BY <3>1, Zenon DEF BorderOf
      <4> QED  BY <2>8, <4>1, <4>2, Zenon
    <3> QED  BY <1>1, <1>2, <2>5, <3>2, Zenon
  <2>10. PICK none : none = <<>>
    OBVIOUS
  <2>11. Ordered(none, start)'
    <3>1. DOMAIN none = {}
      BY <2>10
    <3> QED  BY <3>1, Zenon DEF Ordered
  <2>12. Frontier(none, all) = start
    BY <2>8, <2>10, Zenon DEF Frontier
  <2>13. Kept(none, all)'
    BY <1>3, <2>5, <2>7, <2>8, <2>9, <2>11, <2>12, Zenon DEF Kept
  <2> QED  BY <2>4, <2>10, <2>13, Zenon
<1> QED  BY <1>5, <1>6

LEMMA PlacedAll ==
  ASSUME TypeOK, AttachedInv, BlocksAreHandlers
  PROVE  AllPlaced(currentBlock, basicBlocks)
<1>1. currentBlock \in Seq(Context) /\ basicBlocks \in Seq(Seq(Context))
  BY DEF TypeOK
<1>2. Places(currentBlock)
  BY Zenon DEF AttachedInv, AllLogged, Logged, Places
<1>3. ASSUME NEW j \in DOMAIN basicBlocks
      PROVE  basicBlocks[j] # <<>> /\ Places(basicBlocks[j])
  <2>1. basicBlocks[j] # <<>>
    BY Zenon DEF BlocksAreHandlers
  <2>2. Places(basicBlocks[j])
    BY Zenon DEF AttachedInv, AllLogged, Logged, Places
  <2> QED  BY <2>1, <2>2
<1> QED  BY <1>1, <1>2, <1>3, Zenon DEF AllPlaced

LEMMA KeptMeans == InstructionsKept <=> Kept(currentBlock, basicBlocks)
<1>1. \A j : Border(j) = BorderOf(basicBlocks, j)
  BY Zenon DEF Border, BorderOf
<1> QED  BY <1>1, Zenon DEF InstructionsKept, Kept, Frontier

LEMMA KeptInit == Init => InstructionsKept
<1> SUFFICES ASSUME Init PROVE InstructionsKept
  OBVIOUS
<1>1. log = <<>> /\ currentBlock = <<>> /\ basicBlocks = <<>>
  BY DEF Init
<1>2. DOMAIN currentBlock = {} /\ DOMAIN basicBlocks = {} /\ Len(basicBlocks) = 0 /\ Len(log) = 0
  BY <1>1, EmptySeq
<1>3. Border(Len(basicBlocks) + 1) = 0
  BY <1>2 DEF Border
<1>4. NoneBetween(0, Len(log) + 1)
  <2>0. PICK a, b : a = 0 /\ b = Len(log) + 1
    OBVIOUS
  <2>1. (a + 1)..(b - 1) = {}
    BY <1>2, <2>0
  <2>2. NoneBetween(a, b)
    BY <2>1, Zenon DEF NoneBetween
  <2> QED  BY <2>0, <2>2, Zenon
<1> QED  BY <1>1, <1>2, <1>3, <1>4, Zenon DEF InstructionsKept, Ordered

LEMMA KeptNext ==
  TypeOK /\ AttachedInv /\ BlocksAreHandlers /\ InstructionsKept /\ [Next]_vars
    => InstructionsKept'
<1> SUFFICES ASSUME TypeOK, AttachedInv, BlocksAreHandlers, InstructionsKept, [Next]_vars
             PROVE  InstructionsKept'
  OBVIOUS
<1>1. PICK block, blocks : block = currentBlock /\ blocks = basicBlocks
  OBVIOUS
<1>2. AllPlaced(block, blocks) /\ Kept(block, blocks)
  BY <1>1, PlacedAll, KeptMeans, Zenon
<1>k. InstructionsKept' <=> Kept(currentBlock, basicBlocks)'
  BY KeptMeans, PTL
<1>3. ASSUME NEW line \in Lines,
             ReadMemoryLine(line) \/ ReadRegistersLine(line) \/ ReadOtherLine(line)
      PROVE  InstructionsKept'
  <2>1. log' = Append(log, line) /\ line.tag # "i:" /\ block = currentBlock' /\ blocks = basicBlocks'
    BY <1>1, <1>3, NextCases
  <2>2. Kept(block, blocks)'
    BY <1>2, <2>1, KeptWithoutInstruction
  <2>3. Kept(currentBlock, basicBlocks)'
    BY <2>1, <2>2, Zenon
  <2> QED  BY <2>3, <1>k, Zenon
<1>4. ASSUME NEW line \in Lines, ReadInstructionLine(line) PROVE InstructionsKept'
  <2>1. PICK inst : inst = [instruction |-> line.instruction, registerValues |-> registersState,
                            memoryReads |-> memoryRead, at |-> Len(log) + 1]
    OBVIOUS
  <2>2. log' = Append(log, line) /\ line.tag = "i:" /\ PushInstruction(currentBlock, inst)
    BY <1>4, <2>1 DEF ReadInstructionLine, Read
  <2>3. inst \in Context /\ inst.at = Len(log) + 1
    BY <2>1, <2>2, LineTags, InContext
  <2>4. PICK more, all, none : /\ more = Append(block, inst) /\ all = Append(blocks, more)
                               /\ none = <<>>
    OBVIOUS
  <2>5. Kept(more, blocks)' /\ Kept(<<>>, Append(blocks, more))'
    BY <1>2, <2>2, <2>3, <2>4, KeptWithInstruction
  <2>6. Kept(none, all)'
    BY <2>4, <2>5, Zenon
  <2>7. \/ none = currentBlock' /\ all = basicBlocks'
        \/ more = currentBlock' /\ blocks = basicBlocks'
    BY <1>1, <2>2, <2>4 DEF PushInstruction
  <2>8. Kept(currentBlock, basicBlocks)'
    BY <2>5, <2>6, <2>7, Zenon
  <2> QED  BY <2>8, <1>k, Zenon
<1>5. CASE UNCHANGED vars
  <2>1. log' = log /\ currentBlock' = currentBlock /\ basicBlocks' = basicBlocks
    BY <1>5 DEF vars
  <2>2. \A a, b : Follows(a, b)' <=> Follows(a, b)
    BY <2>1, Zenon DEF Follows, NoneBetween, IsInstruction
  <2>3. \A b, start : Ordered(b, start)' <=> Ordered(b, start)
    BY <2>2, Zenon DEF Ordered
  <2>4. Kept(block, blocks)'
    BY <1>2, <2>1, <2>3, Zenon DEF Kept, NoneBetween, IsInstruction
  <2>5. Kept(currentBlock, basicBlocks)'
    BY <1>1, <2>1, <2>4, Zenon
  <2> QED  BY <2>5, <1>k, Zenon
<1> QED  BY <1>3, <1>4, <1>5 DEF Next

(* On every log the blocks and the one under construction hold each logged *)
(* instruction once and in order: none is lost or doubled at the border of *)
(* two blocks, and only the block in the making is dropped at the end.     *)
THEOREM InstructionsAlwaysKept == Spec => []InstructionsKept
  BY TypeCorrect, WaitingInit, AttachedNext, BlocksInit, BlocksNext, KeptInit, KeptNext,
     PTL DEF Spec
=============================================================================
