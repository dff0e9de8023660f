------------------------------ MODULE VmEmulator ------------------------------
(***************************************************************************)
(* EmulateVmCode: every virtual block of the trace is lifted to a function *)
(* of its own, the values that the trace read from memory are put into a   *)
(* virtual memory, and the functions are run, each one returning the       *)
(* address of the block that comes next, until one returns zero or an      *)
(* address nobody jumped to.                                               *)
(*                                                                         *)
(* The traced program is the environment: blocks, named by the VIP that a  *)
(* jump to them pops, with their memory accesses.  What else a function    *)
(* does is left to module FunctionLifter; here it matters that it has the  *)
(* flags of the trace built in, so that it jumps where the traced block    *)
(* jumped, unless the target is computed from other data.                  *)
(*                                                                         *)
(* A byte is a symbol: the initial one of an address, the one that an      *)
(* access of a block writes, or zero.                                      *)
(***************************************************************************)
EXTENDS Integers, Sequences, SequencesExt, FiniteSets

CONSTANTS
  Programs,     \* the programs that may have been traced
  Entry,        \* name of the block that starts with the VM entry
  MaxPath,      \* bound: blocks that the traced program runs
  MaxRuns,      \* bound: functions that the emulator runs
  NativeVsp,    \* VSP of the traced program
  StackBase, StackBytes, SlotBytes   \* the emulator's stack vector, and its elements

(* An access is relative to VSP or absolute.                               *)
AnyAccess == [write : BOOLEAN, vsp : BOOLEAN, off : Int, size : Nat \ {0}]
ASSUME ProgramsAssumption ==
  \A p \in Programs :
    /\ Entry \in DOMAIN p /\ DOMAIN p \subseteq Nat \ {0}
    /\ \A b \in DOMAIN p :
         /\ p[b].succ \subseteq DOMAIN p \ {Entry}
         /\ p[b].byData \in BOOLEAN
         /\ p[b].accesses \in Seq(AnyAccess)
ASSUME SizesAssumption ==
  /\ MaxPath \in Nat /\ MaxRuns \in Nat
  /\ NativeVsp \in Nat /\ StackBase \in Nat /\ StackBytes \in Nat /\ SlotBytes \in Nat

VARIABLES
  program,
  here,                  \* block that the traced program runs next, 0 after the exit
  native,                \* memory of the traced program where it was written
  blocks,                \* the virtual blocks
  phase,                 \* "trace", "prepare", "run", "done"
  prepared,              \* blocks that EmulateVmCode's loop has passed
  handlerFunctionNames,  \* vip -> function
  definedAddresses,
  virtualMemory, stack,  \* what the memory hooks read and write
  currentFunction, nextVip,
  ran,                   \* history: the functions run
  observed               \* history: what the last one read

traceVars == <<program, here, native, blocks>>
prepareVars == <<prepared, handlerFunctionNames, definedAddresses>>
runVars == <<currentFunction, nextVip, ran, observed>>
vars == <<traceVars, phase, prepareVars, virtualMemory, stack, runVars>>

Initial(x) == <<"init", x, 0, 0>>
Written(b, k, j) == <<"write", b, k, j>>
Zero == <<"zero", 0, 0, 0>>
Initials(addr, size) == [j \in 1..size |-> Initial(addr + j - 1)]
Zeros(size) == [j \in 1..size |-> Zero]

NoBytes == [x \in {} |-> Zero]
With(f, x, y) == [z \in DOMAIN f \cup {x} |-> IF z = x THEN y ELSE f[z]]
(* Stores [address, size, value] are numbered in their order: a byte holds *)
(* what the last one that covers it has put there.                         *)
Places(address, size) == address..(address + size - 1)
Covering(stores, x) == {k \in DOMAIN stores : x \in Places(stores[k].address, stores[k].size)}
LastOf(numbers) == CHOOSE k \in numbers : \A l \in numbers : l <= k
ByteOf(stores, x) ==
  LET store == stores[LastOf(Covering(stores, x))] IN store.value[x - store.address + 1]
Stored(bytes, stores) ==
  [x \in DOMAIN bytes \cup UNION {Places(stores[k].address, stores[k].size) : k \in DOMAIN stores} |->
     IF Covering(stores, x) = {} THEN bytes[x] ELSE ByteOf(stores, x)]
Part(stores, numbers) == [k \in numbers |-> stores[k]]
(* Where nothing was stored the bytes are the given ones.                  *)
Loaded(bytes, addr, unset) ==
  [j \in DOMAIN unset |-> IF addr + j - 1 \in DOMAIN bytes THEN bytes[addr + j - 1] ELSE unset[j]]

-----------------------------------------------------------------------------
(* The traced program.                                                     *)
Accesses(b) == program[b].accesses
WritesBefore(b, k) == {l \in 1..(k - 1) : Accesses(b)[l].write}
ReadsOf(b) == {k \in 1..Len(Accesses(b)) : ~Accesses(b)[k].write}
ValueWritten(b, k) == [j \in 1..Accesses(b)[k].size |-> Written(b, k, j)]

(* What the block stores before its k-th access.                           *)
NativeAddress(a) == a.off + IF a.vsp THEN NativeVsp ELSE 0
NativeStores(b, k) ==
  [l \in WritesBefore(b, k) |->
     [address |-> NativeAddress(Accesses(b)[l]), size |-> Accesses(b)[l].size,
      value |-> ValueWritten(b, l)]]
NativeRead(memory, b, k) ==
  LET a == Accesses(b)[k]
      addr == NativeAddress(a)
  IN [address |-> addr, size |-> a.size,
      value |-> Loaded(Stored(memory, NativeStores(b, k)), addr, Initials(addr, a.size))]

Init ==
  /\ program \in Programs
  /\ here = Entry
  /\ native = NoBytes
  /\ blocks = <<>>
  /\ phase = "trace"
  /\ prepared = 0 /\ handlerFunctionNames = [vip \in {} |-> 0] /\ definedAddresses = {}
  /\ virtualMemory = NoBytes
  /\ stack = [x \in StackBase..(StackBase + StackBytes - 1) |-> Zero]
  /\ currentFunction = 1 /\ nextVip = 0 /\ ran = <<>>
  /\ observed = [k \in {} |-> <<>>]

TraceBlock ==
  /\ phase = "trace"
  /\ here # 0
  /\ Len(blocks) < MaxPath
  /\ here' \in IF program[here].succ = {} THEN {0} ELSE program[here].succ
  /\ native' = Stored(native, NativeStores(here, Len(Accesses(here)) + 1))
  /\ blocks' = Append(blocks, [vip |-> here,
                               reads |-> [k \in ReadsOf(here) |-> NativeRead(native, here, k)],
                               newVip |-> here'])
  /\ UNCHANGED <<program, phase, prepareVars, virtualMemory, stack, runVars>>

(* The trace ends, at the exit or in the middle of a block, which is then  *)
(* dropped.  EmulateVmCode leaves the process when the first handler was   *)
(* not recognised as a VM entry.                                           *)
EmulateVmCode ==
  /\ phase = "trace"
  /\ phase' \in {"prepare", "done"}
  /\ UNCHANGED <<traceVars, prepareVars, virtualMemory, stack, runVars>>

-----------------------------------------------------------------------------
(* The hooks: an access that lies in the stack vector as a whole goes      *)
(* there, any other to the virtual memory, which reads as zero where       *)
(* nothing was stored.                                                     *)
InStack(addr, size) == addr >= StackBase /\ addr + size <= StackBase + StackBytes
GetVirtualMemoryValue(memory, addr, size) ==
  IF InStack(addr, size) THEN Loaded(memory.stack, addr, Zeros(size))
  ELSE Loaded(memory.virtual, addr, Zeros(size))
SetVirtualMemoryValues(memory, stores) ==
  LET inside == {k \in DOMAIN stores : InStack(stores[k].address, stores[k].size)}
  IN [stack |-> Stored(memory.stack, Part(stores, inside)),
      virtual |-> Stored(memory.virtual, Part(stores, DOMAIN stores \ inside))]
Memory == [stack |-> stack, virtual |-> virtualMemory]

(* The block after the one that jumps to the address.  Plausible slips:    *)
(* the block itself, the one after the next, the first jump wins.          *)
ItselfFunction(i) == i
SecondNextFunction(i) == IF i = 1 THEN i + 1 ELSE i + 2
NextFunction(i) == i + 1
FirstJumpNamed(names, vip, f) == IF vip \in DOMAIN names THEN names ELSE With(names, vip, f)
Named(names, vip, f) == With(names, vip, f)

(* The reads whose values are put into the virtual memory: the first one   *)
(* of each address.  That a later one replaces it is a plausible slip.     *)
EveryRead(reads) == DOMAIN reads
FirstReads(reads) ==
  {k \in DOMAIN reads :
     /\ reads[k].address \notin definedAddresses
     /\ \A l \in DOMAIN reads : l < k => reads[l].address # reads[k].address}

(* One round of the loop over the blocks.                                  *)
PrepareBlock ==
  /\ phase = "prepare"
  /\ prepared < Len(blocks)
  /\ prepared' = prepared + 1
  /\ LET block == blocks[prepared + 1]
         reads == block.reads
         memory == SetVirtualMemoryValues(Memory, Part(reads, FirstReads(reads)))
     IN /\ handlerFunctionNames' =
             IF block.newVip = 0 THEN handlerFunctionNames
             ELSE Named(handlerFunctionNames, block.newVip, NextFunction(prepared + 1))
        /\ definedAddresses' = definedAddresses \cup {reads[k].address : k \in DOMAIN reads}
        /\ virtualMemory' = memory.virtual
        /\ stack' = memory.stack
  /\ UNCHANGED <<traceVars, phase, runVars>>

RunEmulation ==
  /\ phase = "prepare"
  /\ prepared = Len(blocks)
  /\ phase' = "run"
  /\ UNCHANGED <<traceVars, prepareVars, virtualMemory, stack, runVars>>

(* VSP starts at the last element of the vector; stack accesses are        *)
(* relative to where it starts.                                            *)
EmulatedAddress(a) == a.off + IF a.vsp THEN StackBase + StackBytes - SlotBytes ELSE 0
EmulatedStores(b, k) ==
  [l \in WritesBefore(b, k) |->
     [address |-> EmulatedAddress(Accesses(b)[l]), size |-> Accesses(b)[l].size,
      value |-> ValueWritten(b, l)]]
MemoryBefore(b, k) == SetVirtualMemoryValues(Memory, EmulatedStores(b, k))
EmulatedRead(b, k) ==
  GetVirtualMemoryValue(MemoryBefore(b, k), EmulatedAddress(Accesses(b)[k]), Accesses(b)[k].size)

Exists(f) == f \in DOMAIN blocks
Returned(f) ==
  IF program[blocks[f].vip].byData THEN program[blocks[f].vip].succ ELSE {blocks[f].newVip}

(* One round of RunEmulation's loop.                                       *)
CallFunction ==
  /\ phase = "run"
  /\ Exists(currentFunction)
  /\ Len(ran) < MaxRuns
  /\ LET b == blocks[currentFunction].vip
         memory == MemoryBefore(b, Len(Accesses(b)) + 1)
     IN /\ virtualMemory' = memory.virtual
        /\ stack' = memory.stack
        /\ observed' = [k \in ReadsOf(b) |-> EmulatedRead(b, k)]
  /\ ran' = Append(ran, currentFunction)
  /\ nextVip' \in Returned(currentFunction)
  /\ \/ /\ nextVip' \in DOMAIN handlerFunctionNames
        /\ currentFunction' = handlerFunctionNames[nextVip']
        /\ UNCHANGED phase
     \/ /\ nextVip' \notin DOMAIN handlerFunctionNames
        /\ phase' = "done"
        /\ UNCHANGED currentFunction
  /\ UNCHANGED <<traceVars, prepareVars>>

(* The function that the last jump would have gone to was never lifted:    *)
(* its name is not found and a null pointer is called.                     *)
CallNothing ==
  /\ phase = "run"
  /\ ~Exists(currentFunction)
  /\ phase' = "done"
  /\ UNCHANGED <<traceVars, prepareVars, virtualMemory, stack, runVars>>

Next == TraceBlock \/ EmulateVmCode \/ PrepareBlock \/ RunEmulation
          \/ CallFunction \/ CallNothing

Spec == Init /\ [][Next]_vars

(* Nothing else runs in the process: it takes its next step.               *)
FairSpec == Spec /\ WF_vars(Next)

-----------------------------------------------------------------------------
TypeOK ==
  /\ program \in Programs
  /\ here \in DOMAIN program \cup {0}
  /\ phase \in {"trace", "prepare", "run", "done"}
  /\ prepared \in 0..Len(blocks)
  /\ \A vip \in DOMAIN handlerFunctionNames : handlerFunctionNames[vip] \in 2..(Len(blocks) + 1)
  /\ DOMAIN stack = StackBase..(StackBase + StackBytes - 1)
  /\ currentFunction \in 1..(Len(blocks) + 1)

AllBlocks == DOMAIN blocks
ByDataSomewhere == \E i \in AllBlocks : program[blocks[i].vip].byData
Repeats == \E i, j \in AllBlocks : i # j /\ blocks[i].newVip = blocks[j].newVip

(* The emulation runs forward through the functions: a block that returns  *)
(* its traced target is followed by a later one, because the name of a     *)
(* target is that of the last jump to it.                                  *)
RunsForward ==
  [][ran' # ran /\ phase' = "run" /\ ~program[blocks[currentFunction].vip].byData =>
       currentFunction' > currentFunction]_vars

(* The function that runs next was lifted from a block at the address that *)
(* was returned, whichever execution of that block it is.                  *)
RunsPopped ==
  phase = "run" /\ ran # <<>> /\ Exists(currentFunction) =>
    blocks[currentFunction].vip = nextVip

(* Without two jumps to one address the emulation runs every traced block, *)
(* once and in order.                                                      *)
RunsTrace ==
  ~Repeats /\ ~ByDataSomewhere =>
    /\ ran = [i \in 1..Len(ran) |-> i]
    /\ phase = "done" /\ ran # <<>> => Len(ran) = Len(blocks)

(* What the emulated functions read is what the trace recorded, when no    *)
(* two jumps go to one address, absolute accesses that overlap are to the  *)
(* same bytes and to neither stack, and stack accesses are to what the     *)
(* code pushed itself.                                                     *)
Touched == UNION {{<<i, k>> : k \in DOMAIN Accesses(blocks[i].vip)} : i \in AllBlocks}
Access(t) == Accesses(blocks[t[1]].vip)[t[2]]
Overlapping(a, b) == a.off < b.off + b.size /\ b.off < a.off + a.size
TouchesWhole ==
  \A s, t \in Touched :
    ~Access(s).vsp /\ ~Access(t).vsp /\ Overlapping(Access(s), Access(t)) =>
      Access(s).off = Access(t).off /\ Access(s).size = Access(t).size
Away(x, n, y, m) == x + n <= y \/ y + m <= x
Apart ==
  \A b, c \in DOMAIN program : \A k \in DOMAIN Accesses(b), l \in DOMAIN Accesses(c) :
    ~Accesses(b)[k].vsp =>
      /\ Away(Accesses(b)[k].off, Accesses(b)[k].size, StackBase, StackBytes)
      /\ Accesses(c)[l].vsp =>
           Away(Accesses(b)[k].off, Accesses(b)[k].size,
                NativeAddress(Accesses(c)[l]), Accesses(c)[l].size)
TouchesOwnStack ==
  \A t \in Touched :
    Access(t).vsp =>
      InStack(EmulatedAddress(Access(t)), Access(t).size)
ReadsWhatItWrote ==
  \A t \in Touched :
    Access(t).vsp /\ ~Access(t).write =>
      \A x \in Access(t).off..(Access(t).off + Access(t).size - 1) :
        \E s \in Touched :
          /\ Access(s).write /\ Access(s).vsp
          /\ s[1] < t[1] \/ (s[1] = t[1] /\ s[2] < t[2])
          /\ x \in Access(s).off..(Access(s).off + Access(s).size - 1)
Recorded(i) == [k \in DOMAIN blocks[i].reads |-> blocks[i].reads[k].value]
ReplayReads ==
  (/\ ran # <<>>
   /\ ~Repeats /\ ~ByDataSomewhere
   /\ Apart /\ TouchesWhole /\ TouchesOwnStack /\ ReadsWhatItWrote) =>
    observed = Recorded(Last(ran))

(* The emulation ends, unless a target is computed from data.              *)
EmulationEnds ==
  <>(phase = "done" \/ \E b \in DOMAIN program : program[b].byData)
=============================================================================
