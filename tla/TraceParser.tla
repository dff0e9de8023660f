----------------------------- MODULE TraceParser -----------------------------
(***************************************************************************)
(* ParseVmBasicBlocks: reads the tracer's log line by line and cuts the    *)
(* instructions into the native blocks that main takes for one handler of  *)
(* the virtual machine each.  A line "mr:" or "r:" tells what memory or    *)
(* which registers the instruction logged next has read.                   *)
(***************************************************************************)
EXTENDS Integers, Sequences

CONSTANTS
  Texts,       \* what may stand behind "mr:" and "r:"
  MaxLines     \* bound: lines in the log

ASSUME LinesAssumption == MaxLines \in Nat /\ "" \notin Texts

Instruction == [type: {"CALL", "JMP", "RET", "OTHER"}, operand: {"IMM", "REG", "MEM"}]

Lines == [tag: {"mr:", "r:"}, text: Texts] \cup [tag: {"i:"}, instruction: Instruction]
           \cup {[tag |-> "?"]}

VARIABLES
  log,              \* history: the lines read
  memoryRead, registersState,
  currentBlock, basicBlocks

vars == <<log, memoryRead, registersState, currentBlock, basicBlocks>>

(* A NativeInstructionContext; at is the line it was logged on.            *)
Context == [instruction: Instruction, registerValues: Texts \cup {""},
            memoryReads: Texts \cup {""}, at: Nat]

(* Where control goes to another handler.                                  *)
IsNewHandlerTransfer(inst) ==
  \/ inst.type = "CALL" /\ inst.operand # "IMM"
  \/ inst.type = "JMP" /\ inst.operand = "REG"
  \/ inst.type = "RET"

-----------------------------------------------------------------------------
Init ==
  /\ log = <<>>
  /\ memoryRead = "" /\ registersState = ""
  /\ currentBlock = <<>> /\ basicBlocks = <<>>

Read(line) ==
  /\ Len(log) < MaxLines
  /\ log' = Append(log, line)

ReadMemoryLine(line) ==
  /\ line.tag = "mr:"
  /\ Read(line)
  /\ memoryRead' = line.text
  /\ UNCHANGED <<registersState, currentBlock, basicBlocks>>

ReadRegistersLine(line) ==
  /\ line.tag = "r:"
  /\ Read(line)
  /\ registersState' = line.text
  /\ UNCHANGED <<memoryRead, currentBlock, basicBlocks>>

(* Any other line: what was announced is forgotten.                        *)
ReadOtherLine(line) ==
  /\ line.tag = "?"
  /\ Read(line)
  /\ memoryRead' = "" /\ registersState' = ""
  /\ UNCHANGED <<currentBlock, basicBlocks>>

(* Moving the announcements into the instruction leaves them empty (in the *)
(* build's library; leaving them is a plausible slip).                     *)
Left(text) == text
Moved(text) == ""

(* A transfer ends its block.  Plausible slips: it opens the next one, or  *)
(* the block is kept without being emptied.                                *)
CutBefore(block, inst) ==
  /\ currentBlock' = IF IsNewHandlerTransfer(inst.instruction) THEN <<inst>> ELSE Append(block, inst)
  /\ basicBlocks' = IF IsNewHandlerTransfer(inst.instruction) THEN Append(basicBlocks, block)
                    ELSE basicBlocks
Copied(block, inst) ==
  /\ currentBlock' = Append(block, inst)
  /\ basicBlocks' = IF IsNewHandlerTransfer(inst.instruction)
                    THEN Append(basicBlocks, Append(block, inst)) ELSE basicBlocks
PushInstruction(block, inst) ==
  IF IsNewHandlerTransfer(inst.instruction)
  THEN currentBlock' = <<>> /\ basicBlocks' = Append(basicBlocks, Append(block, inst))
  ELSE currentBlock' = Append(block, inst) /\ UNCHANGED basicBlocks

ReadInstructionLine(line) ==
  /\ line.tag = "i:"
  /\ Read(line)
  /\ memoryRead' = Moved(memoryRead) /\ registersState' = Moved(registersState)
  /\ PushInstruction(currentBlock,
       [instruction |-> line.instruction, registerValues |-> registersState,
        memoryReads |-> memoryRead, at |-> Len(log) + 1])

(* The function may return after any line; what is in currentBlock is then *)
(* dropped.                                                                *)
Next ==
  \E line \in Lines :
    \/ ReadMemoryLine(line) \/ ReadRegistersLine(line)
    \/ ReadOtherLine(line) \/ ReadInstructionLine(line)

Spec == Init /\ [][Next]_vars

-----------------------------------------------------------------------------
(* The state is made of what its declarations say.                         *)
TypeOK ==
  /\ log \in Seq(Lines) /\ Len(log) <= MaxLines
  /\ memoryRead \in Texts \cup {""} /\ registersState \in Texts \cup {""}
  /\ currentBlock \in Seq(Context)
  /\ basicBlocks \in Seq(Seq(Context))

IsInstruction(k) == log[k].tag = "i:"
NoneBetween(k, l) == \A m \in (k + 1)..(l - 1) : ~IsInstruction(m)

(* Two instructions that follow each other in a block, or over the border  *)
(* of two blocks, follow each other in the log: the blocks hold every      *)
(* instruction logged, once and in order.                                  *)
Follows(a, b) == a < b /\ IsInstruction(b) /\ NoneBetween(a, b)
LastOf(block) == block[Len(block)].at
Ordered(block, start) ==
  \A i \in DOMAIN block : Follows(IF i = 1 THEN start ELSE block[i - 1].at, block[i].at)
Border(j) == IF j = 1 THEN 0 ELSE LastOf(basicBlocks[j - 1])
InstructionsKept ==
  /\ \A j \in DOMAIN basicBlocks : Ordered(basicBlocks[j], Border(j))
  /\ Ordered(currentBlock, Border(Len(basicBlocks) + 1))
  /\ NoneBetween(IF currentBlock = <<>> THEN Border(Len(basicBlocks) + 1)
                 ELSE LastOf(currentBlock), Len(log) + 1)

(* main and EmulateVmHandler read the first instruction of a block without *)
(* looking; only the last one leaves the handler.                          *)
BlocksAreHandlers ==
  /\ \A i \in DOMAIN currentBlock : ~IsNewHandlerTransfer(currentBlock[i].instruction)
  /\ \A j \in DOMAIN basicBlocks :
       LET block == basicBlocks[j]
       IN /\ block # <<>>
          /\ \A i \in DOMAIN block : IsNewHandlerTransfer(block[i].instruction) <=> i = Len(block)

(* An instruction is given the last announcement made for it, and nothing  *)
(* that was announced before another instruction or before a foreign line. *)
Announces(k, tag, p) ==
  /\ log[k].tag = tag
  /\ \A m \in (k + 1)..(p - 1) : log[m].tag \in {"mr:", "r:"} /\ log[m].tag # tag
Announced(text, tag, p) ==
  IF \E k \in 1..(p - 1) : Announces(k, tag, p)
  THEN \E k \in 1..(p - 1) : Announces(k, tag, p) /\ text = log[k].text
  ELSE text = ""
Attached(inst) ==
  /\ Announced(inst.memoryReads, "mr:", inst.at)
  /\ Announced(inst.registerValues, "r:", inst.at)
AnnouncementsAttached ==
  /\ \A i \in DOMAIN currentBlock : Attached(currentBlock[i])
  /\ \A j \in DOMAIN basicBlocks : \A i \in DOMAIN basicBlocks[j] : Attached(basicBlocks[j][i])
=============================================================================
