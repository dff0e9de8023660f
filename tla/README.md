# VMPAnalyzer: models, checks and proofs

VMPAnalyzer devirtualises code protected by VMProtect. It reads the log of a
traced run, cuts it into the virtual machine's handlers, recognises what each
handler does, groups the handlers into virtual basic blocks and lifts the blocks
to LLVM IR. This directory holds TLA+ models of that pipeline, the TLC
configurations that check them on small instances, and theorems about them that
TLAPS has checked for every value of the constants.

## 1. Inventory

The program is sequential and keeps nothing on disk between runs. What makes it
hard is that one component's output is another's input with a lot of tacit
agreement in between (what VSP a block starts with, which address names a block,
which register holds VIP), that values and flags are kept lazily and put together
from pieces much later, and that handlers that are not recognised are left out.

| component | state | operations | talks to |
|---|---|---|---|
| **Trace parser** `VmBasicBlock.cpp`, `NativeInstructionContext.hpp` | what was announced by the last `mr:` and `r:` lines, the current native block, the blocks cut so far | `ParseVmBasicBlocks`, `IsNewHandlerTransfer` | `main` takes each native block for one handler |
| **Handler emulator** `VmHandlerEmulator.cpp` | a Triton context, the recorded reads and writes and their expressions, the registers it is told to take for VIP and VSP | `EmulateVmHandler` with `memReadCallback` and the two getters that feed Triton from the trace | Triton; its data goes to the recognisers |
| **Handler recognisers** `VmHandlerMatcher.cpp` | none of their own; VIP and VSP registers are passed in and given back | `TryMatchVm...` in a fixed order, `MatchVmHandler` | `main`'s loop |
| **Matching loop and splitting** `VMPAnalyze.cpp`, `SplitToVirtualBlocks` | the kept matches, the VIP/VSP registers; the block under construction and the running offset | the loop of `main`, `SplitToVirtualBlocks` | the trace lifter |
| **Basic-block lifter** `LLVMBasicBlockLifter.cpp` | shadow stack, `stackOffset`, `flagCalculators`, the IR builder | `LiftBasicBlock`, one `LiftVm...` per handler, `ShadowPush`, `ShadowPop`, `FlushVsp`, `GenerateMemoryAccess` | the trace lifter; the memory hooks at run time |
| **Trace lifter** `LLVMTraceLifter.cpp` | `vipsOrder`, `vipToBlockMap`, `virtualBasicBlockMap`, dispatcher and its switch, `protectedCodeEntryBlock` | `LiftTraceFunction` | the repatcher, through the map and the function |
| **Control-flow repatcher** `CFGRepatcher.cpp` | none of its own; rewrites branches, cases | `Patch`, `TryPatchBlock`, `FindVipStore`, `MatchImageBaseAdd`, `RemoveCaseFromSwitch` | LLVM |
| **Flag arithmetic** `CalculateFlagsFromPromise`, `PackFlags` | none | one formula per operation and flag | called when a promise is redeemed |
| **Function lifter** (older path) `LLVMFunctionLifter.cpp` | shadow stack, `vsp_local_cursor`, one register file per function | `LiftVirtualCode`, `ShadowPop`, `FlushVspToMemory`, one `LiftVm...` per handler | memory hooks |
| **Emulator** (older path) `VmEmulator.cpp`, `VmJitRunner.cpp` | `virtualMemory`, `stack`, `handlerFunctionNames`, `definedAddresses`, the JIT | `EmulateVmCode`, `RunEmulation`, `GetVirtualMemoryValue`, `SetVirtualMemoryValue`, the JIT's hooks | function lifter, JIT; `main` no longer calls it |

The virtual machine itself (the protected program) is not in the repository. What
it does is read off the recognisers: each `TryMatchVm...` states the effect a
handler has to have to be recognised, and `HandlerMatch` is all that the lifter
learns of it.

What makes each component right, and what is hard about it:

* *Trace parser*: every instruction ends up in exactly one block, in order; a block
  ends at a transfer and has no other; an announcement reaches the instruction it
  was made for and no other. Hard: missing, repeated and foreign lines.
* *Matching and splitting*: the blocks are the kept handlers, each once and in
  order; a block has one jump, at its end; its address, shift and offset are its
  own although the object is moved from and reused. Hard: unrecognised handlers
  anywhere.
* *Basic-block lifter*: the emitted code does to the stack and the registers what
  the traced handlers did. Hard: values wait on a compile-time stack, are cut and
  merged across slots of other widths, flags exist as promises, stack addresses
  have to be told from others, and memory accesses flush in between.
* *Trace lifter and repatcher*: the function runs the block that was lifted for
  the popped address, or returns; it follows the trace it came from. Hard:
  addresses and starting VIPs differ by a shift with the reading direction of the
  bytecode, blocks are lifted once in an order that is not the order they ran in,
  cases are taken out of the dispatcher while others still need them.
* *Recognisers, handler emulator*: a handler is recognised as what it is, whatever the
  order of the recognisers, and with VIP and VSP tracked across missed handlers.
  Hard: many recognisers accept overlapping shapes, some look at values only,
  what is symbolic depends on an address comparison, and an exception leaves half
  of the data.
* *Flag arithmetic*: result and flags are the processor's. Hard: 8-bit handlers
  live in 16-bit slots, counts of zero and of the width or more.
* *Function lifter*: the function does what its block did, and its caller finds the
  stack at the published VSP. Hard: slots that are cut, the moments at which values
  are stored.
* *Emulator*: it runs the blocks the trace ran, on the values the trace read, and
  ends. Hard: one name per target although targets repeat, one value per address
  although memory changes, a function that was never lifted.

The hazards, each at its line with the properties that would catch it, are listed
in `PROJECT.json`.

## 2. Modules

| module | models |
|---|---|
| `VmHandlers` | the shared vocabulary: handlers as `[op, d, arg]`, values as sequences of symbolic bytes |
| `VirtualMachine` | abstract specification: what each matched handler does to the stack and to the register file |
| `BlockLifter` | `LLVMBasicBlockLifter`, one action per `LiftVm...`; refines `VirtualMachine` |
| `BlockLifterProofs` | what holds of `BlockLifter` on every trace, and that it implements `VirtualMachine` |
| `VirtualBlocks` | `main`'s matching loop and `SplitToVirtualBlocks`, over any traced program |
| `Induction` | least numbers, the existence of sums, what `FlattenSeq` returns, for the proofs |
| `TraceLifterProofs` | theorems about `VirtualBlocks`, where each kept handler stands in the program, and theorems about `TraceLifter` |
| `TraceLifter` | `LLVMTraceLifter` and `CFGRepatcher`; extends `VirtualBlocks` |
| `TraceParser` | `ParseVmBasicBlocks` |
| `TraceParserProofs` | theorems about `TraceParser` |
| `HandlerMatcher` | what `EmulateVmHandler` records and what every recogniser makes of it, in the order of `MatchVmHandler`; no state |
| `MatchingLoop` | `main`'s loop over native blocks with `HandlerMatcher`, and the protected program as its environment |
| `MatchingLoopProofs` | theorems about `MatchingLoop`: control, the registers learned, that no handler is mistaken for another and that each is recognised whole |
| `FlagArithmetic` | results and flags of all arithmetic handlers, bit by bit, next to the processor's |
| `FlagArithmeticProofs` | theorems about `FlagArithmetic`: the older path's results, and where there are none |
| `FunctionLifter` | `LLVMFunctionLifter`, one action per `LiftVm...`; refines `VirtualMachine`, too |
| `FunctionLifterProofs` | theorems about `FunctionLifter`: the widths of what waits, and that it implements `VirtualMachine` |
| `VmEmulator` | `EmulateVmCode`, `RunEmulation`, the virtual memory and the hooks |
| `VmEmulatorProofs` | theorems about `VmEmulator` |
| `MCBlockLifter`, `MCTraceLifter`, `MCTraceParser`, `MCMatchingLoop`, `MCFlagArithmetic`, `MCFunctionLifter`, `MCVmEmulator` | instances for TLC |

### VmHandlers, VirtualMachine, BlockLifter

A byte is `<<kind, id, k>>`, the k-th byte of a named value. Cutting, joining,
storing and extending values, which is what the shadow stack is about, is
exact on such bytes. Arithmetic is uninterpreted: a result or a flags word is a
fresh value named by the handler's position, except that a stack address plus a
constant is again a stack address. Two computations that should be the same value
therefore are, and two that should not be cannot agree by accident.

`shadowStack`, `stackOffset` and `flagCalculators` are the C++ members.
`stackArray` and `virtualContext` are what the *emitted* code leaves in the
arrays `vsp_array` and `virtual_ctx` when it runs. The stack array is given to
the lifter with arbitrary contents ("mem" bytes), so a lost or misplaced byte shows.
`vspAfter` is what the trace records, from the real machine; `pos` and `executed`
are history. A slot keeps the value's own width apart from the slot's depth,
because the code takes one or the other in different places.

The refinement mapping (`VM == INSTANCE VirtualMachine`) stores the waiting slots
below the stored stack (`LiveStack`), puts the promised flags in their registers
(`LiveContext`) and compares, after every handler, stack, registers and the
handler with the operands it consumed. `executed` is what makes a wrong value
visible even when the handler throws it away afterwards, and it ties a step to its
handler: one handler's slip cannot pass for another handler's step.

`status` says why the lifter stopped: `"strange"` is the assertion "Strange
behaivour", `"null"` a null `llvm::Value` that is used, `"badIR"` an operand whose type the
instruction does not take, `"address"` the two assertions in
`GenerateMemoryAccess`. `StopInPop` is the stop of the two handlers that only pop;
the other handlers stop in an alternative of their own. Where the lifter stops nothing is compared, so each of
these has its own property.

`Discipline` names what is assumed of the trace; every run says which it takes:

* `FlagsPopped`: the handler after an arithmetic one pops the flags;
* `FlagsWhole`: a register that holds promised flags is read and written as a whole
  (the promise is found by the exact offset only);
* `FlagsDeadAtJump`: no flags are live across a jump (they are dropped there, see
  the findings);
* `MemoryDrained`: nothing but its operands waits when memory is accessed (else
  the flush stores slots it leaves on the shadow stack, see the findings);
* `VspDirect`: a stack address is used for an access while it is still known as
  one, and only such addresses reach the stack array.

Legality of a trace (`Legal`) is not a discipline: the traced program did run, so
the stack held what each handler took.

### VirtualBlocks, TraceLifter

The traced program is a graph of virtual blocks, each named by the address that a
jump to it pops; `shift` is +4 or -4 with the direction in which its bytecode is
read. A trace is any path through it that may end anywhere; any handler may be
missed (`Missable`). `Keep` is one round of `main`'s loop, `SplitHandler` one
round of the split loop with the moved-from `currentBlock`. A match carries two history
fields, `at`, the block of the path it was traced in, and `number`, its place in it.
`LiftBlock` is one round over `vipsOrder`, `ConnectEntry` the branch out of the
first block (an uninitialised pointer decides when no entry was lifted: both outcomes
are allowed), `Patch` one `TryPatchBlock` in the order of the `std::map`, followed by
`EndPatch`. Of a lifted block only its last store to `target_vip` is kept, as the
integer the repatcher would find in it.

A block's effect on `stackOffset` is taken from the trace here. That the lifter
does have this effect is part of `ImplementsMachine` on disciplined traces;
`VspDrifts` says when, and by how much, it does not.

### TraceParser

One action per kind of line. `at`, the line of an instruction, and `log` are
history. The texts are opaque; a moved-from string is empty, as the build's
library leaves it.

### HandlerMatcher, MatchingLoop

A native handler is external: the accesses of its instructions in their order, and
where its registers get their final values from. A value is described by its sources,
so that the tree Triton would derive depends, as in the code, on which registers and
which addresses `EmulateVmHandler` has made symbolic (`SymbolOf` is
`memReadCallback`). Of a tree the recognisers look at its root conversion, the
operation below, the variables from left to right and one added integer; that is all
`Tree` keeps. Each `TryMatchVm...` yields its match as a set of at most one
element, which keeps the early returns apart without nesting.

`MatchingLoop` chooses, before every handler, what it is, its operands (among them
those a recogniser may stumble over) and what the registers without a use hold. Jumps and
entries move VIP and VSP to any registers; `main` learns them from what was
recognised. `MatchBlock` with `complete` false is an emulation that an exception has
ended after some access. `last` is history: the handler that ran and what it was
taken for.

`Operands` are any `Values` and, of eight bytes, what the recognisers may stumble over because a handler reads
it or reads at it: the flags it is about to push, VSP, the slot above it, `Rsp - 8`, the slot of the native stack
through which `pushfq` and `pop` pass the flags, and the next opcode.

### FlagArithmetic

A value is the set of its set bits; an outcome is a set of values, empty where LLVM
leaves it undefined. `Lift` follows the lifter's formulas with the widths they are
computed in, `Processor` shifts bit by bit. One step runs one handler on the result of
the one before, so that what stays in the upper byte of a slot meets the next
handler. Sizes are scaled: a byte has `ByteBits` bits.

### FunctionLifter

As `BlockLifter`, with the older path's differences: a cut leaves the full width
(`Remainder`), values are stored only where VSP is pushed or the function returns,
`vspPtr` is what the caller sees. `cut` is history. `Disciplined` is the assumption
on the block: no pop takes the last six bytes of a value from memory (an `i48` moves VSP by
eight), nothing waits above an address that becomes VSP or under a byte of the stack
that is accessed, counts are one byte, and stack accesses are to live bytes. The two
recursive calls of `ShadowPop` for a value that lies in several slots are written as what they come to:
the whole slots that fit (`WholeSlots`), and the rest cut from the next one or loaded (`PopParts`).

### VmEmulator

The traced program is a graph of blocks with memory accesses; its run is recorded,
prepared (`PrepareBlock`, one round of the first loop) and emulated (`CallFunction`,
one round of `RunEmulation`'s loop). Bytes are symbols: the initial one of an address,
what an access writes, or zero; of several stores a byte holds what the last one that covers it
has put there (`Stored`). `reads` of a block and `observed` are history of the trace and of the run. `CallNothing` is the call of a function whose name
was given out but which was never lifted. A target that is `byData` is computed from
other data and may come out as any successor.

## 3. Runs

The program is sequential. A trace, a list of blocks or a log ends and the program goes on
to the next phase or stops; there is nothing to wait for, and every configuration
says `CHECK_DEADLOCK FALSE` because all these behaviours end. The one loop that could
go on for ever is `RunEmulation`'s: its condition is data. `emulator` therefore runs
under `FairSpec`, weak fairness of the whole next-state relation: the process is the
only thread and its next instruction is always run. From that follows
`EmulationEnds`. No fairness of single actions is assumed anywhere.

| run | checks | bounds |
|---|---|---|
| `machine` | `ImplementsMachine`, `SlotsFilled`, `NeverStops`, `TypeOK`: with all assumptions, the lifted code is the traced machine | 18 handlers, traces of 5 |
| `anytrace` | `SlotsWellFormed`, `AddressesTyped`, `VspDrifts`: marks and promises stay consistent on every trace, with no assumption, and the lifter's VSP departs from the recorded one in five ways only | 34 handlers, traces of 4 |
| `parser` | `InstructionsKept`, `BlocksAreHandlers`, `AnnouncementsAttached` | every log of 4 lines |
| `lifter` | splitting: `TypeOK`, `BlocksTile`, `BlocksStraightLine`, `BlockNumbersOwn`, `OffsetsRecorded`, with handlers missed anywhere in the smaller programs; lifting and repatching: `LifterTypeOK`, `VipsArePopped`, `NeverWrongBlock`, `RunFollowsTrace`, `OffsetsAgree` | programs of 3 and 4 blocks, paths of 5 |
| `matcher` | `ControlIsControl`, `NeverMistaken`, `RecognisedWhole`, `RegistersFollow`, `LostUntilEntry`, `HalfEmulated`: the recognisers in their order, with the right registers, wrong ones, and half the data | 3 registers, operands of 1, 2, 4 and 8 bytes, 3 handlers, stacks below and above `defaultImageBase` |
| `flags` | `ResultAgrees`, `SlotAgrees`, `FlagsAgree`, `UndefinedOutOfRange` | bytes of 2 bits, slots of 4 and 8, chains of 2, all operands |
| `function` | `FunctionIsMachine`, `SlotsExact`, `StopsOnlyCut`, `SlotsCovered`: until something is cut the function is the traced machine | 19 handlers, blocks of 5 |
| `emulator` | `RunsTrace`, `RunsPopped`, `RunsForward`, `ReplayReads`, `EmulationEnds`, `TypeOK` | chains of two blocks with any two of 9 accesses each, five programs with loops; paths of 6, runs of 8 functions |
| `partialpop`, `duplicate`, `flagsacross`, `oldershrd` | one statement each that the code contradicts, section 4 | traces of 3 to 6; one arithmetic handler |

Why the bounds are enough.

* *Lifters.* The shadow stack's interesting cases need at most two
  values pushed, a pop that cuts or joins them, and a use of what is left; flags need
  two operands, the operation, the pop of the flags and a use: five handlers reach all of
  them. `machine` and `function` have an access of every kind at one or two depths; every cut
  between the depths 1, 2, 4 and 8 occurs in them or in `anytrace`. The stack arrays'
  bytes are more than five handlers move, and `Emit` keeps the trace inside them.
* *Trace lifter.* The graphs have self-loops, two-block loops, branches and both
  reading directions; a path of five blocks enters a loop a second time and leaves it.
* *Parser.* Four lines have two instructions with up to two announcements between, before
  and after them, and a third block border.
* *Recognisers.* They compare addresses, sizes and which of two variables comes first, and look
  for one register among several: three registers are VIP's, VSP's and one more that
  may hold a dead copy. Three handlers are an entry, a jump that loses or
  keeps the registers and a third handler read through them; the run goes on only after
  the handlers that change what `main` knows. The addresses lie apart on either side of
  the image base, as those of a real process do.
* *Flag arithmetic.* A formula treats the top bit, the lowest bit and those between
  differently; two bits a byte make widths of 2, 4 and 8 bits, each operand takes
  every value, and the counts are zero, in range, the width of each size and beyond.
* *Emulator.* Overlap needs two accesses of two sizes, an overwritten value a read before
  and after a write, over two blocks; a loop that is cut short needs a target that was
  jumped to twice. Eight functions are more than a run forward over six can call, so that the
  bound `MaxRuns` ends only runs whose targets are computed from data.

Each property of each passing run has a mutant in `PROJECT.json`: a definition
replaced by a plausible slip (kept beside it in the module) that the run then
catches.

Exceptions that the properties name, each one a limit of the code:

* `RunFollowsTrace` excepts `Mixed`: a block reached by a direct jump has
  lost its case in the dispatcher, and another block that goes there by a computed
  address finds none. `NeverWrongBlock` shows that the function then returns rather
  than running something else.
* `OffsetsAgree`: the offset a block is
  lifted with is what the previously *lifted* block left, and a loop that changes VSP
  on its second turn makes that differ from the recorded one.
* `NeverMistaken`, `RecognisedWhole`: an 8-byte addition, nor or nand is taken for a read of memory
  (`LooksLikeRead`), because that recogniser compares values and comes first, if its top operand
  is the address of the slot above and its second operand equals the resulting flags, or if
  its top operand is the address of the native slot through which the flags pass, whatever the second one is. A read of memory
  at the next opcode (`ReadsNextOpcode`) shares its record with the fetch, so that it is missed, or, of 8 bytes, taken for a dispatch. A
  read of less than eight bytes from the slot that holds the address has another value there, and a `VM_POP_VSP` that
  keeps the context where it is does not show. On a stack at or above `defaultImageBase` nothing is symbolic,
  and some pushes of registers and arithmetic are taken for constants and dispatches.
* `RegistersFollow`, `LostUntilEntry`: `main` may take a dead copy of the new VSP
  for VSP. Every jump after that is missed, until the next entry.
* `HalfEmulated`: after an exception only arithmetic is still matched, with the VSP
  after it recorded as zero; an exit that had read its `popfq` dereferences a null
  context.
* `ResultAgrees` to `UndefinedOutOfRange`: 8-bit additions and left shifts leave bits in the upper
  byte of the slot, which an 8-bit right shift draws in; flags of 8-bit shifts come from
  the 16-bit slot; counts of zero or at least the width give undefined flags, the latter
  undefined results of the plain shifts, too.
* `SlotsExact`, `FunctionIsMachine` hold until a pop cuts a slot: the remainder keeps
  its full width and spoils what lies above it when it is stored.
* `RunsTrace`, `ReplayReads` hold when no two jumps go to one address: the last jump names the
  function, so a loop is left after its first turn (`RunsForward` states it as what
  the code does). `ReplayReads` also excepts overlapping accesses at different places
  or sizes, absolute accesses into either stack, accesses beyond the stack vector and stack values nobody wrote.

## 4. Findings

| run | what the code does | what it says |
|---|---|---|
| `partialpop` | a 16-bit pop of a 64-bit slot leaves 48 bits, and the power-of-two assertion stops the lifter (`LLVMBasicBlockLifter.cpp:271`) | the comments provide for an `i48` in such a slot (:276, :284) |
| `duplicate` | a memory access stores the waiting slots and keeps them waiting, so a VSP pushed afterwards is too low (:1287) | "read the current stack address" (:703) |
| `flagsacross` | a jump drops promised flags without storing them (:1350) | they are to be computed "later, when the result is known" (:394) |
| `oldershrd` | the older path's `VM_SHRD` passes its operands to `llvm.fshr` in the order of `VM_SHLD`, so that it shifts the other one (`LLVMFunctionLifter.cpp:966`) | "SHRD(Dst, Src, Count): Result = (Dst >> Count) \| (Src << (Width - Count))", "fshr(Op1=Src, Op2=Dst, Amt)" (`LLVMBasicBlockLifter.cpp:1172`, :1176) |

The quoted comments are translated from Russian. What section 3 lists as exceptions
and what `VspDrifts` lists (among them that `VM_POP_VSP` adds the recorded difference to the offset after its pop
and ends eight bytes above the recorded VSP, `LLVMBasicBlockLifter.cpp:757`) is recorded under "hazards".

## 5. Proofs

`BlockLifterProofs`, for every set of handlers, any length, any registers and any
sizes, with no assumption about the trace: `SlotsStayWellFormed` and
`AddressesStayTyped`. `SlotsWellFormed` says nothing of a block's shadow stack being
a sequence and so is not inductive; `IInv` says that the shadow stack is a sequence over *some* set of
well-formed slots (`GoodStack`) while a block is being lifted, and that no address was
ill-typed. The core is `ShadowPopGood`: whatever is popped, what remains is
well formed and what comes out is a pointer only if it was one whole slot. Every
handler's lemma then only has to show that it pushes a well-formed slot.

Of the same module, for every set of handlers, any length, sizes and registers, on traces that are
`Regular`: `LifterImplementsMachine`, and from the same invariant `LifterTypesHold`, `SlotsStayFilled`
and `VspStaysTracked`. `Regular` is all of `Assumptions`; no `VM_POP_VSP`, after which the lifter's VSP
is wrong (`VspDrifts`); 8-bit handlers only where the emitted code has the machine's operands and results (`VM_NOR`,
`VM_NAND`, pops, pushes, writes: the others work on all 16 bits of a slot, and a read of the stack pushes one byte for two);
registers inside the register file, whole ones at multiples of eight; and no register that the entry or the exit does
not know. `MachineIsRegular` has TLC check that the handlers of run `machine` meet it.

The invariant `RInv` relates the three places of a byte of the live stack. The refinement
mapping computes that stack from the slots; what is reasoned about is `IsLive`, where the bytes
*lie*: slot `i` below the slots pushed after it (`TopDepth`, `Bottom`), and what is stored under all of them.
A stack with such a description is the only one (`LiveUnique`). What the lifter does to the slots
is then shown once for any stack: a push (`PushLive`), a pop of whole slots, of a part of one or of several pieces
merged, some of them already stored (`PopLive`), a flush (`FlushLive`) and a store or a read through an address
of the stack. `StackInv` adds that a waiting value fills its slot and that the array has room
below, `ContextInv` that promised flags lie in the register file at multiples of eight,
`CountersInv` that promises are older than the next result, and the last part that the recorded VSP is the
offset of the stored stack less the bytes that wait. Every handler has one lemma (`PopSim`, `AddSim`, ..., `ExitSim`): the
invariant holds after it, and its step is one of the machine's or, where the lifter stops, none. `VM_ENTRY` and `VM_EXIT`,
of any number of registers, are inductions over the slots they push and pop, again through a least number.

`TraceLifterProofs`, of `VirtualBlocks`, for every program, any path length and any missed
handlers: `TypeCorrect`, `BlocksAlwaysTile`, `BlocksAlwaysStraightLine`,
`BlockNumbersAlwaysOwn`. These last three are proved together from `SplitInv`,
which adds what makes them inductive: the splitter has not begun while the trace
is matched (`SplitLater`), every cut lies at or before the cursor (`CutsPassed`),
and a block in the making already has the address of its first handler
(`CurrentNumbers`). `AppendSubSeq`, that a piece of a sequence grows by the next
element, carries the tiling through a step. `OffsetsAlwaysRecorded` needs `OffsetInv` beside
it: while nothing was missed, each kept handler starts with the VSP the one before left
(`Linked`), so the running offset is the VSP after the last handler passed (`OffsetKnown`).
No sum appears: the recorded number is carried along.

`TraceLifterProofs`, of `TraceLifter`, for every program, any path and any missed handlers: `LifterTypeCorrect`,
`VipsAlwaysPopped`, `NeverGoesWrong`, `RunAlwaysFollows`, `OffsetsAlwaysAgree`. What the
lifter does follows from what it is given, so the second part about `VirtualBlocks` shows first that every kept
handler is the one at its place in the program (`Placed`), that the path is one
through the program, and that where nothing was missed the blocks hold the whole of it
(`WholeInv`). `BlocksInv` says the same of the blocks that were cut. On it
`LifterInv` is inductive: what was lifted and where the loop over `vipsOrder` stands (`Lifting`), the entry
(`EntryKept`), and of every jump whether it still goes to the dispatcher, which of them the
repatcher has visited, and that a case which is gone from the dispatcher was the target of a visited
jump (`Patching`). Without the last part `NeverWrongBlock` is not inductive: a
case may only be taken out because a direct branch replaces it.
`OffsetsAgree` compares a sum along the path with what the lifter carries. It has
two parts: `LiftedOffsets`, inductive, says that a block starts where the one before it ended;
that the sums over the same handlers agree is an induction over the path,
done without an induction theorem: of the places where they differ there
would be a least one (`LeastNumber`), and it cannot be.

`TraceParserProofs`, for every log: `BlocksAlwaysHandlers`, which is inductive
once the types are known: a block that is closed had no transfer before; and
`AnnouncementsAlwaysAttached`. The latter's invariant `AttachedInv` says what
the property leaves open: that the two waiting texts are what the log announces for an
instruction that would come *next* (`Waiting`), and that each instruction kept so far,
in the blocks and in the one under construction, has what the log announced for the line it was made
at (`AllLogged`). The log only grows, so what holds of an earlier line holds for good. The same
argument gives `InstructionsAlwaysKept`: the kept instructions stand at lines of the
log (`AllPlaced`), later lines do not change what lies between two of them, and behind the last one kept
(`Frontier`) no instruction follows yet.

`VmEmulatorProofs`, for every program, any path and any sizes: `AlwaysRunsPopped`,
`AlwaysRunsForward`, `AlwaysRunsTrace`, `EmulatorTypeCorrect` and `AlwaysReplaysReads`. None is inductive: which function runs next depends on
names that were given out while the blocks were prepared. `IInv` therefore adds that
a block's target is the next block (`Chained`), that a name belongs to the block after a
jump to that target (`NamesFollow`) and to the last such jump among the blocks passed
(`NamesLast`), that zero is nobody's name (`NeverZero`), and what holds in each phase (`Phases`). Forward follows: the
current block itself is a jump to the address it returns, so the last one is not
before it. `AlwaysRunsTrace` adds `OrderInv`: where no two jumps share a target (`Clean`), the name at the
address just returned can only be the one after the current block, and at the
last block there is none, so what ran is `UpTo(k)`, the blocks from the first to the `k`-th.

`AlwaysReplaysReads` compares two runs, the traced one, which is over, and the emulated one. `History` therefore says that there
is a sequence of memories, one after each traced block, from which every recorded read was taken; it grows with the trace and is
never changed afterwards. `FollowInv` relates the emulator's memory to it. After `k` functions every
byte that the traced program had written by the end of its `k`-th block is in the emulated memory, an absolute
one at its address and a stack one at the same distance from VSP (`SameBytes`). Every byte that a later block reads
before anything was written to it still has the value put there (`Seeded`). `Seeded` is inductive in both loops for
different reasons. While the blocks are prepared (`SeedingStep`), a value put over it would have to come from a read that overlaps, so of the
same bytes, so at an address that has had its value (`Defined`, `SeedsKeep`), or be that first read itself (`SeedsPut`).
While the functions run (`RunningFollows`), a store that covers the byte would be one that the traced program made before the read
(`HeldGrows`, by a least number). An access then reads the same through both memories, byte by byte
(`AbsoluteObserved`, `RelativeObserved`). The hypotheses are those of `ReplayReads`; `Apart`, that no absolute access lies in
one of the two stacks, holds of every program of run `emulator` and is needed because the emulator gives the stack other addresses.

`MatchingLoopProofs`, for any number of general registers, any stack addresses, sizes, image base and
leftovers in registers, whatever `main` takes VIP and VSP to be in: `ControlAlwaysControl`,
`RegistersAlwaysFollow`, `HalfEmulatedAlways`, `LostAlwaysUntilEntry`. They say what the thirteen recognisers
of `MatchVmHandler`, in their order, make of a handler that is *not* what they are for. The match is the one of some recogniser
(`MatchFacts`), and only `TryMatchVmEntry`, `TryMatchVmJmpIndirectRemap` and `TryMatchVmExit` yield control. An exit needs
pops, and a handler that is no exit has none: all its accesses are quiet (`Quiet`, `Ordinary`), which is shown of each kind of
handler (`StraightOrdinary`). An entry or a jump needs a register that is a sum of the right variable and an
integer; a sum shows the variable of its one source (`AddedTo`), and what a straight handler leaves in registers are sums of a register,
never of the native stack pointer or of the top of the stack (`StraightVerdict`). The same lemma read the other way
gives what is learned from a jump: only the register of VIP is a sum of what was read at VSP, a sum of VSP is in the register of VSP or a copy,
and it is one only if `main` looked for VSP where it was (`JumpVerdict`). After an exception there are no register
trees, so that only the arithmetic is left (`BlindFacts`, `QuietAlu`, `QuietDoubleShift`), and of an exit only the test of its flags
(`AllPops`, `PoppedFlagsCrash`). The invariant of the loop itself, `LoopInv`, only bounds what the registers are: the
verdict holds from any state, which is why wrong registers cannot break it.

With the right registers more is true: `NeverMistakenAlways`, that the recognisers, in their order, take a whole handler for what it is, for
nothing, or for one of the exceptions of section 3. Each recogniser is reduced to what a match by it says of the data
(`PopRegSeen` ... `DispatchSeen`); `WholeData` and `WholeDeltas` say what the data of a handler are, and `Distinct` what tells the
handlers apart in them: how they move VIP and VSP (`Moves`), where their values come from, and that no two reads and a write of
theirs form the chain that a read of memory looks for (`Chain`). `PopDistinct` and the lemmas after it show it
of each kind of handler, `...Taken` of each recogniser, `StraightNamed` puts them together. That a dispatch, the last one tried, gets no arithmetic takes the
opposite argument: `BinariesFound` shows that these are found before, by their own recogniser or, with the operands of `LooksLikeRead`, by that of a read. `JumpJudged`, `EntryJudged` and `ExitJudged` do the rest.
`Chain` compares addresses and values, so the theorem has a hypothesis on the state in which the handler begins, `OnItsStack`: the virtual stack
lies between the context and the native stack pointer, and the bytecode elsewhere. It is no guard of the model, because the code cannot ensure it: a
program may pop what it never pushed. `NeverMistakenOnStack` therefore speaks of one step, `[][OnItsStack => NeverMistaken']_vars`: whatever
was run before, and however far the stack was then from its place. `NeverMistakenAlways` follows for a program that always keeps it there. The model bounds the addresses that a program reads
memory at to four bytes, because a narrower read of the slot with the address sees its low bytes.

`RecognisedWholeOnStack` is the other direction, again of one handler: below `defaultImageBase` it *is* recognised, with its operand size and its
change of VSP, but for the kinds that the property names. That some recogniser answers (`Tries`, `FoundNamed`) and `NeverMistaken` say
with which name; what is left is that the one made for the handler finds it, and that all its matches say its size (`Sized`, `Fits`). For each kind
of handler this takes the record of its accesses: the last one at an address is recorded (`RecordedLast`), with
the expression that its sources give it, and that expression has the shape the recogniser wants (`SumTree`, `AluFound`, `ReadMemFound`,
`DoubleShiftsFound`, `StraightFits`). Entries and exits are counted: the writes or reads of an entry or exit are in one-to-one
correspondence with a sequence of addresses (`OneForEach`, `Counted`; `Descending` for the pushes, whose number above a given one the
recogniser asks for, so that prologue, return address and flags are told apart by their place), shown for the 19 or 20
pushes (`EntryPushed`) and the 17 pops (`Popped`). Besides `OnItsStack` it needs `HoldsValue`, that there is a value on the virtual stack
for the handler to work on; `RecognisedWholeAlways` is the corollary for programs that always have one.

`FunctionLifterProofs`, for every set of handlers, any length, registers and sizes, on blocks that are
`Regular`, which here only says that VSP is pushed as a word and that the registers pushed lie in `virtual_ctx`:
`SlotsStayExact`, `OnlyCutsStop`, `SlotsStayCovered`. `Disciplined` is not used: how the block treats the
stack does not matter for widths. `FInv` joins the three and says that the shadow stack and the
registers are sequences; the first two need each other, because a slot that is not exact spoils the width of
what is later joined from it. `ShadowPopGood` does the work: of an even number of bytes wanted, the whole
slots that fit hold an even number (`TopGrows`) and the next one more than the rest (`WholeSlotsIs`), so
that what a cut leaves has two bytes or more (`RemainderGood`), and without a cut exact parts fit their
places (`ExactFits`). `PopAllGood` carries it over the pops of one handler, any number of them for `VM_EXIT`, and one lemma per
handler shows the width of what it pushes.

The refinement is on top of it: `FunctionKeepsMachine`, that what the function leaves after each handler is what
`VirtualMachine` does, until a pop cuts a slot or an instruction becomes impossible. Its further assumption, `Indexed`, says that the registers pushed by
the entry all have a place in the context; `NativeContext` gives them one (`LLVM_Lifting/NativeContext.hpp`). The waiting
values and the memory under them are described as one line of bytes, indexed by address (`Line`):
`Held` says that the slots and `stackArray` together show that line from some address upwards, `Stands` that they do
so at the function's cursor, and `LineInv` that there is such a line while nothing was cut. The address is where the
machine's stack begins, `LiveStack` is what is seen from there (`StandsShown`), a push puts a value into the line just below
it (`BelowShown`), pops read the line and go up (`PopsShown`), and the flush before VSP is pushed stores what the line
already has, so that nothing changes. A value that is joined from parts, or from parts and memory, is thus the view of a piece of the line
(`SideMerged`), whichever slots it came from. Each handler then has one lemma (`PopSim` ... `EntrySim`, `ExitSim`, `EndSim` for the return) in which
`LineInv` is kept and the step is one of the machine; `NextSim` puts them together. `BlockIsRegular` and
`EntryIsIndexed` have TLC check that the handlers and registers of run `function` are meant.

`FlagArithmeticProofs`, for bytes of any number of bits, any operands and any counts: `OlderAlwaysAgreesButForShrd`, that the
older path has the processor's result for every handler but `VM_SHRD`; `OlderShrdIsExchanged`, that it has there the
result of the processor on exchanged operands; and `UndefinedOnlyOutOfRange`. The processor shifts one bit at a time, LLVM all at once: `LeftBy` and `RightBy` are the
value after `k` single shifts in one expression, and `LeftIs` and `RightIs` show, by the least `k` that could differ, that the
processor computes it. A single, a double and a funnel shift are each a case of it. The last theorem needs only which
of the shifts that the flags are made of are defined (the `...Defined` lemmas); it and the first need `SlotInv`, by which the handlers
are of at most the slot's depth.

Assumptions: `ProgramsAssumption`, `BoundsAssumption`
(`VirtualBlocks`), `HandlersAssumption`, `SizesAssumption`, `RegsAssumption` and
`DisciplineAssumption` (`BlockLifter`), the first three again in `FunctionLifter`, `LinesAssumption` (`TraceParser`),
`ProgramsAssumption` and `SizesAssumption` (`VmEmulator`), `RegsAssumption` (`HandlerMatcher`),
`MatchingAssumption` (`MatchingLoop`), `ConstAssumption` (`TraceLifter`), `SizesAssumption` and `ArgsAssumption` (`FlagArithmetic`). TLC evaluates each of them.

Only model-checked: `NeverStops` and `VspDrifts` of `BlockLifter`; `ResultAgrees`, `SlotAgrees` and `FlagsAgree` of the
flag arithmetic, whose sums and carries need powers of two, of which the provers know nothing; and of `VmEmulator` the liveness
`EmulationEnds`, which rests on fairness.

## 6. Not modelled

* Rotations (`VM_ROL`, `VM_ROR`) beyond their recognition: `LiftBasicBlock` has no case for them
  and drops them; the older path lifts them without flags.
* Triton, LLVM's passes and the JIT: external. LLVM's optimisation is taken to
  preserve what a function does. PHI nodes do not occur in the code as emitted.
* The parity and the auxiliary carry flag: the code does not compute them.
* `memWriteCallback`, which is never registered, and other code nobody calls.
* Decoding of the log's texts into registers, bytes and disassembly; printing, dumps
  and number formatting; logging calls in the emitted code.
* Re-entry of the machine after `VM_EXIT` in one trace: `TraceLifter`'s and
  `VmEmulator`'s traces end at the exit; `MatchingLoop` does re-enter.
* Registers across functions of the older path: every function has its own
  `virtual_ctx`, undefined at its start, so `FunctionIsMachine` speaks of one
  function.
* The stack read through a reference to a slot already popped
  (`LLVMBasicBlockLifter.cpp:214`): taken as the value read before.

## 7. Plan

Done, in this order: `BlockLifter` against `VirtualMachine` with its proofs;
`VirtualBlocks` with its proofs; `TraceLifter`; `TraceParser` with its proofs;
`HandlerMatcher` and `MatchingLoop`; `FlagArithmetic`; `VmEmulator` with its proofs;
`FunctionLifter` with its proofs, its refinement included; the proofs of `FlagArithmetic`;
`NeverMistaken` and `RecognisedWhole` for all registers and addresses.

To come, in the order of what they add:

1. `TraceLifter` with re-entry after `VM_EXIT` (the exit block's stale
   `nextVipShift`, the last entry wins).
