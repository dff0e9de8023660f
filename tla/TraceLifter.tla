----------------------------- MODULE TraceLifter -----------------------------
(***************************************************************************)
(* From virtual basic blocks to one function: LLVMTraceLifter lifts every  *)
(* block once and connects them through a dispatcher that switches on      *)
(* target_vip; CFGRepatcher then replaces the way through the dispatcher   *)
(* by a direct jump where the stored target is a constant.                 *)
(*                                                                         *)
(* Of the code of a block only the last store to target_vip is kept: the   *)
(* constant in the stored value (an integer, or x + an integer), if it has *)
(* one.  Lifting a block moves the lifter's stackOffset by what the trace  *)
(* records for its handlers (module BlockLifter says when it does).        *)
(***************************************************************************)
EXTENDS VirtualBlocks, FiniteSets

(* A program's block also has const: the integer in the address that its   *)
(* jump stores, 0 for none.  One that names a block names the only         *)
(* successor; any other integer may stand in a computed address.           *)
ASSUME ConstAssumption ==
  \A p \in Programs : \A b \in DOMAIN p :
    /\ p[b].const \in Nat
    /\ p[b].const \in DOMAIN p => p[b].succ = {p[b].const}

VARIABLES
  liftAt,               \* position in vipsOrder
  stackOffset,          \* of the basicBlockLifter
  virtualBasicBlockMap, \* vip -> index of the block that was lifted for it
  offsets,              \* history: vip -> stackOffset when it was lifted
  protectedCodeEntryBlock,  \* the entry's vip, 0 while it is uninitialised
  entry,                \* what the function's first block branches to
  dispatchSwitch,       \* the cases of the dispatcher but for case 0
  jumps,                \* vip -> where the block's code goes at its end
  patched               \* vips that the repatcher has visited

lifterVars == <<liftAt, stackOffset, virtualBasicBlockMap, offsets,
                protectedCodeEntryBlock, entry, dispatchSwitch, jumps, patched>>
vars == <<blocksVars, lifterVars>>

Dispatch == -1     \* places that code may go to, next to the vip of a block
ExitBlock == -2
Wild == -3

-----------------------------------------------------------------------------
(* blockVip: the address that the jump before the block has popped; the    *)
(* first block is not jumped to.  Taking the block's own shift is a        *)
(* plausible slip.                                                         *)
OwnShiftVip(i) == blocks[i].startAddr - blocks[i].nextVipShift
BlockVip(i) ==
  IF i = 1 THEN blocks[i].startAddr
  ELSE blocks[i].startAddr - blocks[i - 1].nextVipShift

Vips == {BlockVip(i) : i \in DOMAIN blocks}

(* vipToBlockMap: the last block with the vip.                             *)
LastBlock(vip) ==
  CHOOSE i \in DOMAIN blocks :
    BlockVip(i) = vip /\ \A j \in DOMAIN blocks : BlockVip(j) = vip => j <= i

(* PartialSums(changes)[n]: the sum of the first n.                        *)
PartialSums(changes) ==
  LET sum[n \in 0..Len(changes)] == IF n = 0 THEN 0 ELSE sum[n - 1] + changes[n]
  IN sum
Changes(i) ==
  [k \in DOMAIN blocks[i].instructions |->
     blocks[i].instructions[k].vspAfter - blocks[i].instructions[k].vspBefore]
Delta(i) == PartialSums(Changes(i))[Len(Changes(i))]

With(f, x, y) == [z \in DOMAIN f \cup {x} |-> IF z = x THEN y ELSE f[z]]

LifterInit ==
  /\ Init
  /\ liftAt = 1
  /\ stackOffset = 0
  /\ virtualBasicBlockMap = <<>> /\ offsets = <<>>
  /\ protectedCodeEntryBlock = 0 /\ entry = Wild
  /\ dispatchSwitch = {} /\ jumps = <<>> /\ patched = {}

TraceAndSplit == Next /\ UNCHANGED lifterVars

(* The vip that the lifting loop turns to next; an order by address is a   *)
(* plausible slip.                                                         *)
VipByAddress(n) ==
  CHOOSE vip \in Vips : Cardinality({v \in Vips : v < vip}) = (n - 1) % Cardinality(Vips)
VipInOrder(n) == BlockVip(n)
AlreadyLifted(vip) == vip \in DOMAIN virtualBasicBlockMap

LiftBlock ==
  /\ phase = "lift"
  /\ liftAt \in DOMAIN blocks
  /\ LET vip == VipInOrder(liftAt)
         i == LastBlock(vip)
     IN IF AlreadyLifted(vip)
        THEN UNCHANGED <<stackOffset, virtualBasicBlockMap, offsets,
                         protectedCodeEntryBlock, dispatchSwitch, jumps>>
        ELSE /\ virtualBasicBlockMap' = With(virtualBasicBlockMap, vip, i)
             /\ offsets' = With(offsets, vip, stackOffset)
             /\ stackOffset' = stackOffset + Delta(i)
             /\ protectedCodeEntryBlock' = IF blocks[i].instructions[1].type = "Entry"
                                           THEN vip ELSE protectedCodeEntryBlock
             /\ dispatchSwitch' = dispatchSwitch \cup {vip}
             /\ jumps' = With(jumps, vip, Dispatch)
  /\ liftAt' = liftAt + 1
  /\ UNCHANGED <<blocksVars, entry, patched>>

(* When no entry was lifted an uninitialised pointer is tested: it is null *)
(* or it is not.                                                           *)
ConnectEntry ==
  /\ phase = "lift"
  /\ liftAt = Len(blocks) + 1
  /\ phase' = "patch"
  /\ \/ protectedCodeEntryBlock # 0 /\ entry' = protectedCodeEntryBlock
     \/ protectedCodeEntryBlock = 0 /\ entry' \in {Dispatch, Wild}
  /\ UNCHANGED <<traceVars, splitVars, liftAt, stackOffset, virtualBasicBlockMap, offsets,
                 protectedCodeEntryBlock, dispatchSwitch, jumps, patched>>

-----------------------------------------------------------------------------
(* What the code lifted for vip stores last to target_vip: the last handler*)
(* of the block tells, and for a jump the program's block that it ends.    *)
LastMatch(i) == blocks[i].instructions[Len(blocks[i].instructions)]
StoredConst(h) == program[path[h.at]].const

(* virtualBasicBlockMap.contains and its operator[].  Plausible slips: no  *)
(* look first, a look for the next greater vip, removing the wrong case.   *)
UncheckedVip(const) == {const} \ {0}
NextVip(const) ==
  {v \in DOMAIN jumps : const # 0 /\ v >= const
                        /\ \A w \in DOMAIN jumps : w >= const => v <= w}
TargetVip(const) == {const} \cap DOMAIN jumps
OwnCaseRemoved(vip, target) == dispatchSwitch \ {vip}
CaseRemoved(vip, target) == dispatchSwitch \ {target}

TryPatchBlock(vip) ==
  LET h == LastMatch(virtualBasicBlockMap[vip])
  IN \/ /\ h.type = "Exit"      \* the integer 0
        /\ jumps' = [jumps EXCEPT ![vip] = ExitBlock]
        /\ UNCHANGED dispatchSwitch
     \/ /\ h.type = "Jmp"
        /\ \E target \in TargetVip(StoredConst(h)) :
             /\ jumps' = [jumps EXCEPT ![vip] = target]
             /\ dispatchSwitch' = CaseRemoved(vip, target)
     \/ /\ h.type = "Jmp"
        /\ TargetVip(StoredConst(h)) = {}
        /\ UNCHANGED <<jumps, dispatchSwitch>>

(* Patch goes through the map in the order of the addresses.               *)
Patch ==
  /\ phase = "patch"
  /\ \E vip \in DOMAIN jumps \ patched :
       /\ \A v \in DOMAIN jumps \ patched : vip <= v
       /\ TryPatchBlock(vip)
       /\ patched' = patched \cup {vip}
  /\ UNCHANGED <<blocksVars, liftAt, stackOffset, virtualBasicBlockMap, offsets,
                 protectedCodeEntryBlock, entry>>

EndPatch ==
  /\ phase = "patch"
  /\ patched = DOMAIN jumps
  /\ phase' = "done"
  /\ UNCHANGED <<traceVars, splitVars, lifterVars>>

LifterNext == TraceAndSplit \/ LiftBlock \/ ConnectEntry \/ Patch \/ EndPatch

LifterSpec == LifterInit /\ [][LifterNext]_vars

-----------------------------------------------------------------------------
(* The state is made of what its declarations say.                         *)
LifterTypeOK ==
  /\ liftAt \in 1..(Len(blocks) + 1)
  /\ stackOffset \in Int
  /\ DOMAIN virtualBasicBlockMap \subseteq Vips
  /\ \A vip \in DOMAIN virtualBasicBlockMap : virtualBasicBlockMap[vip] \in DOMAIN blocks
  /\ DOMAIN offsets = DOMAIN virtualBasicBlockMap
  /\ protectedCodeEntryBlock \in Vips \cup {0}
  /\ entry \in Vips \cup {Dispatch, Wild}
  /\ dispatchSwitch \subseteq DOMAIN virtualBasicBlockMap
  /\ DOMAIN jumps = DOMAIN virtualBasicBlockMap
  /\ \A vip \in DOMAIN jumps : jumps[vip] \in DOMAIN jumps \cup {Dispatch, ExitBlock}
  /\ patched \subseteq DOMAIN jumps

(* As long as every handler was recognised, the vip of a block is the      *)
(* address that the jump to it pops, whichever way the bytecode of either  *)
(* block is read: what the dispatcher compares is what the code stores.    *)
VipsArePopped ==
  ~missed => \A i \in DOMAIN blocks : BlockVip(i) = path[i]

(* Where the finished function goes when the code of b pops target.        *)
GoesTo(b, target) ==
  IF jumps[b] # Dispatch THEN jumps[b]
  ELSE IF target \in dispatchSwitch THEN target ELSE ExitBlock

(* Wherever the program may go from a lifted block, on the traced path or  *)
(* off it, the function goes to the block lifted for that address or it    *)
(* returns: it never runs another block.                                   *)
NeverWrongBlock ==
  phase = "done" /\ ~missed =>
    \A b \in DOMAIN jumps : \A target \in program[b].succ :
      GoesTo(b, target) \in {target, ExitBlock}

(* A target that one lifted block reaches by a direct jump has lost its    *)
(* case in the dispatcher, even if another block stores it as a value that *)
(* is not constant.                                                        *)
Mixed(target) ==
  \E b, c \in DOMAIN jumps : /\ target \in program[b].succ /\ program[b].const = target
                             /\ target \in program[c].succ /\ program[c].const # target

(* The function takes every step of the trace: it starts with the block of *)
(* the VM entry, goes from each traced block to the one that came next and *)
(* returns where the trace left the machine; but for the mixed targets.    *)
RunFollowsTrace ==
  phase = "done" /\ ~missed /\ blocks # <<>> =>
    /\ entry = path[1]
    /\ \A i \in 1..(Len(blocks) - 1) :
         GoesTo(path[i], path[i + 1]) = path[i + 1] \/ Mixed(path[i + 1])
    /\ LastMatch(Len(blocks)).type = "Exit" => GoesTo(path[Len(blocks)], 0) = ExitBlock

(* The offset that the lifter starts a block with is the one recorded when *)
(* the trace first came to it, unless a block that was run again before    *)
(* had changed VSP.                                                        *)
FirstBlock(vip) ==
  CHOOSE i \in DOMAIN blocks :
    BlockVip(i) = vip /\ \A j \in DOMAIN blocks : BlockVip(j) = vip => i <= j
Repeats(i) == FirstBlock(BlockVip(i)) # i
OffsetsAgree ==
  ~missed => \A vip \in DOMAIN offsets :
    \/ offsets[vip] = blocks[FirstBlock(vip)].stackOffset
    \/ \E i \in 1..(FirstBlock(vip) - 1) : Repeats(i) /\ Delta(i) # 0
=============================================================================
