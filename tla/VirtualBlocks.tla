---------------------------- MODULE VirtualBlocks ----------------------------
(***************************************************************************)
(* From the traced program to virtual basic blocks: the loop of main that  *)
(* matches one native block after the other and keeps the handlers it      *)
(* recognises, and SplitToVirtualBlocks, which cuts the kept handlers      *)
(* where the virtual program jumps or leaves the machine.                  *)
(*                                                                         *)
(* The traced program is the environment: a graph of virtual blocks, each  *)
(* named by the VIP that a jump to it pops (the entry block, by its native *)
(* address).  The trace follows any path through the graph and may end     *)
(* anywhere.  A handler's matchData is left out but for a jump's.          *)
(***************************************************************************)
EXTENDS Integers, Sequences

CONSTANTS
  Programs,   \* the programs that may have been traced
  Entry,      \* name of the block that starts with the VM entry
  MaxPath,    \* bound: blocks that the traced program runs
  Missable    \* programs of which some handlers are recognised by no TryMatch function

(* A program's block: a jump to it leaves VIP at name + shift, shift being *)
(* -4 or 4 with the direction in which the bytecode is read; deltas are    *)
(* what its handlers add to VSP; it then jumps to a block of succ, or      *)
(* leaves the machine when there is none.                                  *)
ASSUME ProgramsAssumption ==
  \A p \in Programs :
    /\ Entry \in DOMAIN p /\ DOMAIN p \subseteq Nat \ {0}
    /\ \A b \in DOMAIN p :
         /\ p[b].shift \in {-4, 4}
         /\ p[b].deltas \in Seq(Int) /\ p[b].deltas # <<>>
         /\ p[b].succ \subseteq DOMAIN p \ {Entry}
    /\ Len(p[Entry].deltas) > 1
ASSUME BoundsAssumption == MaxPath \in Nat /\ Missable \subseteq Programs

VARIABLES
  program,
  path,          \* blocks run so far; the last one may be unfinished
  next,          \* handler of the last block of path that runs next
  vsp,           \* VSP before it
  phase,         \* "trace" while the trace is matched, then "split", "lift"...
  vmHandlers,    \* the matches kept
  missed,        \* a handler was not recognised
  cursor,        \* vmHandlers that SplitToVirtualBlocks has passed
  currentBlock, currentStackOffset, blocks,
  cuts           \* history: the cursor at which each block was cut off

traceVars == <<program, path, next, vsp, vmHandlers, missed>>
splitVars == <<cursor, currentBlock, currentStackOffset, blocks, cuts>>
blocksVars == <<traceVars, phase, splitVars>>

NewBlock == [instructions |-> <<>>, startAddr |-> 0, nextVipShift |-> 0, stackOffset |-> 0]

Here == path[Len(path)]
LastHandler == Len(program[Here].deltas)
StartVip(b) == IF b = Entry THEN b ELSE b + program[b].shift

-----------------------------------------------------------------------------
Init ==
  /\ program \in Programs
  /\ path = <<Entry>>
  /\ next = 1
  /\ vsp = 0
  /\ phase = "trace"
  /\ vmHandlers = <<>>
  /\ missed = FALSE
  /\ cursor = 0
  /\ currentBlock = NewBlock
  /\ currentStackOffset = 0
  /\ blocks = <<>>
  /\ cuts = <<>>

(* One round of main's loop.  MatchVmHandler recognises the handler, which *)
(* is kept, or does not (Handler_Unknown), and the loop goes on without it.*)
(* A match's at and number are history: the place of its handler in path   *)
(* and in its block.                                                       *)
Keep(type, target) ==
  LET after == vsp + program[Here].deltas[next]
      match == [type |-> type,
                vipBefore |-> StartVip(Here) + (next - 1) * program[Here].shift,
                vspBefore |-> vsp, vspAfter |-> after, newVip |-> target,
                newVipShift |-> IF type = "Jmp" THEN program[target].shift ELSE 0,
                at |-> Len(path), number |-> next]
  IN /\ vsp' = after
     /\ \/ vmHandlers' = Append(vmHandlers, match) /\ UNCHANGED missed
        \/ program \in Missable /\ missed' = TRUE /\ UNCHANGED vmHandlers
     /\ UNCHANGED <<program, phase, splitVars>>

MatchInside ==
  /\ phase = "trace"
  /\ next < LastHandler
  /\ Keep(IF next = 1 /\ Here = Entry THEN "Entry" ELSE "Other", 0)
  /\ next' = next + 1
  /\ UNCHANGED path

MatchJump ==
  /\ phase = "trace"
  /\ next = LastHandler
  /\ Len(path) < MaxPath
  /\ \E target \in program[Here].succ :
       /\ Keep("Jmp", target)
       /\ path' = Append(path, target)
  /\ next' = 1

(* After the exit nothing of the virtual machine is left to trace.         *)
MatchExit ==
  /\ phase = "trace"
  /\ next = LastHandler
  /\ program[Here].succ = {}
  /\ Keep("Exit", 0)
  /\ next' = next + 1
  /\ UNCHANGED path

(* The log ends: at the exit, or where the tracer was stopped.             *)
EndTrace ==
  /\ phase = "trace"
  /\ phase' = "split"
  /\ UNCHANGED <<traceVars, splitVars>>

(* One round of SplitToVirtualBlocks.  Moving currentBlock into the result *)
(* empties its instructions; its numbers stay as they are.                 *)
KeptBlock(block) == block
MovedBlock(block) == [block EXCEPT !.instructions = <<>>]

(* Plausible slips: the numbers taken before the handler is pushed, the    *)
(* offset read after it is advanced, the target for the shift, a jump that *)
(* does not end its block, a block that is copied rather than moved.       *)
StartedEarly(block, h) ==
  IF block.instructions = <<>>
  THEN [block EXCEPT !.startAddr = h.vipBefore, !.stackOffset = currentStackOffset]
  ELSE block
StartedLate(block, h) ==
  IF Len(block.instructions) = 1
  THEN [block EXCEPT !.startAddr = h.vipBefore,
                     !.stackOffset = currentStackOffset + (h.vspAfter - h.vspBefore)]
  ELSE block
Started(block, h) ==
  IF Len(block.instructions) = 1
  THEN [block EXCEPT !.startAddr = h.vipBefore, !.stackOffset = currentStackOffset]
  ELSE block
TargetAsShift(block, h) ==
  IF h.type = "Jmp" THEN [block EXCEPT !.nextVipShift = h.newVip] ELSE block
Shifted(block, h) ==
  IF h.type = "Jmp" THEN [block EXCEPT !.nextVipShift = h.newVipShift] ELSE block
EndsAtExit(h) == h.type = "Exit"
EndsBlock(h) == h.type \in {"Jmp", "Exit"}

SplitHandler ==
  /\ phase = "split"
  /\ cursor < Len(vmHandlers)
  /\ LET h == vmHandlers[cursor + 1]
         pushed == [currentBlock EXCEPT !.instructions = Append(@, h)]
         block == Shifted(Started(pushed, h), h)
     IN /\ currentStackOffset' = currentStackOffset + (h.vspAfter - h.vspBefore)
        /\ blocks' = IF EndsBlock(h) THEN Append(blocks, block) ELSE blocks
        /\ cuts' = IF EndsBlock(h) THEN Append(cuts, cursor + 1) ELSE cuts
        /\ currentBlock' = IF EndsBlock(h) THEN MovedBlock(block) ELSE block
  /\ cursor' = cursor + 1
  /\ UNCHANGED <<traceVars, phase>>

(* What is left in currentBlock is dropped.                                *)
EndSplit ==
  /\ phase = "split"
  /\ cursor = Len(vmHandlers)
  /\ phase' = "lift"
  /\ UNCHANGED <<traceVars, splitVars>>

Next == MatchInside \/ MatchJump \/ MatchExit \/ EndTrace \/ SplitHandler \/ EndSplit

Spec == Init /\ [][Next]_blocksVars

-----------------------------------------------------------------------------
(* The state is made of what its declarations say.                         *)
Match == [type: {"Entry", "Other", "Jmp", "Exit"}, vipBefore: Int, vspBefore: Int,
          vspAfter: Int, newVip: Nat, newVipShift: {-4, 0, 4}, at: Nat, number: Nat]
VirtualBasicBlock == [instructions: Seq(Match), startAddr: Int, nextVipShift: {-4, 0, 4},
                      stackOffset: Int]
TypeOK ==
  /\ program \in Programs
  /\ path \in Seq(DOMAIN program) /\ Len(path) \in 1..(MaxPath + 1)
  /\ next \in 1..(LastHandler + 1)
  /\ vsp \in Int
  /\ phase \in {"trace", "split", "lift", "patch", "done"}
  /\ vmHandlers \in Seq(Match)
  /\ missed \in BOOLEAN
  /\ cursor \in 0..Len(vmHandlers)
  /\ currentBlock \in VirtualBasicBlock
  /\ currentStackOffset \in Int
  /\ blocks \in Seq(VirtualBasicBlock)
  /\ cuts \in Seq(Nat)

(* The blocks tile the trace: put one after the other, with what waits in  *)
(* currentBlock, they are the handlers passed so far, each once and in     *)
(* order.                                                                  *)
CutBefore(positions, j) == IF j = 1 THEN 0 ELSE positions[j - 1]
BlocksTile ==
  /\ Len(cuts) = Len(blocks)
  /\ \A j \in 1..Len(blocks) :
       blocks[j].instructions = SubSeq(vmHandlers, CutBefore(cuts, j) + 1, cuts[j])
  /\ currentBlock.instructions =
       SubSeq(vmHandlers, CutBefore(cuts, Len(cuts) + 1) + 1, cursor)

(* A block is straight-line code: it has a handler (LiftBasicBlock and     *)
(* LiftTraceFunction read the first one without looking), it ends with a   *)
(* jump or an exit, and has no other.                                      *)
Transfers(h) == h.type \in {"Jmp", "Exit"}
StraightLine(instructions) == \A i \in DOMAIN instructions : ~Transfers(instructions[i])
BlocksStraightLine ==
  /\ StraightLine(currentBlock.instructions)
  /\ \A j \in DOMAIN blocks :
       LET body == blocks[j].instructions
       IN /\ body # <<>>
          /\ \A i \in DOMAIN body : Transfers(body[i]) <=> i = Len(body)

(* Although currentBlock is reused after it was moved from, the numbers of *)
(* a block are its own: the address of its first handler, the shift of the *)
(* jump that ends it.                                                      *)
BlockNumbersOwn ==
  \A j \in DOMAIN blocks :
    LET body == blocks[j].instructions
    IN /\ blocks[j].startAddr = body[1].vipBefore
       /\ body[Len(body)].type = "Jmp" =>
            blocks[j].nextVipShift = body[Len(body)].newVipShift

(* As long as every handler was recognised, the sum of the recorded        *)
(* changes is the VSP that the block really starts with.                   *)
OffsetsRecorded ==
  ~missed => \A j \in DOMAIN blocks :
               blocks[j].stackOffset = blocks[j].instructions[1].vspBefore
=============================================================================
