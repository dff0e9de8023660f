---------------------------- MODULE MatchingLoop ----------------------------
(***************************************************************************)
(* The loop of main that emulates and matches one native block after the   *)
(* other, with the registers in which it takes VIP and VSP to be: it learns*)
(* them from the handlers that it recognises as an entry or as a jump.     *)
(*                                                                         *)
(* The protected program is the environment: before every handler it may   *)
(* have any operands, and its jumps and entries choose the registers anew. *)
(* The native code of each handler is external; it is what the recognisers *)
(* expect of it.  An exception may end an emulation after any access.      *)
(***************************************************************************)
EXTENDS HandlerMatcher

CONSTANTS
  StackTops,     \* native stack pointers with which the machine is entered
  Widths,        \* bound: operand sizes, of 1, 2, 4 and 8
  Values,        \* bound: what operands may be besides those below
  Junk,          \* bound: what a register without a use may hold
  MaxHandlers,   \* bound: handlers run
  Followed,      \* bound: handlers after which the run goes on
  Failures       \* bound: handlers whose emulation may end with an exception

ASSUME MatchingAssumption ==
  /\ StackTops \subseteq Nat /\ Widths \subseteq {1, 2, 4, 8}
  /\ Values \subseteq Nat /\ Junk \subseteq Nat

VARIABLES
  top,           \* native stack pointer outside the machine
  inside,        \* the program runs in the virtual machine
  vipOf, vspOf,  \* registers in which it keeps VIP and VSP
  regs,          \* what the registers hold
  vipReg, vspReg,  \* variables of main
  crashed,       \* main has dereferenced a null pointer
  handlers,      \* number of handlers run
  last           \* history: the last handler and what it was taken for

vars == <<top, inside, vipOf, vspOf, regs, vipReg, vspReg, crashed, handlers, last>>

Bytecode == ImageBase + 1000     \* no recogniser tells its addresses apart
Flags == 514
EntryPushes == 19                \* a constant, a return address, 17 values
ContextBelow == 384              \* of the VSP that the machine starts with
Context == top - 8 * EntryPushes - ContextBelow
Rsp == IF inside THEN Context ELSE top
Vsp == IF inside THEN regs[vspOf] ELSE top

StackSize(d) == IF d = 1 THEN 2 ELSE d

(* Operands: any, and those that a recogniser may stumble over, which are  *)
(* what the flags will be and the addresses that handlers read from: the   *)
(* top of the stack and the slot above it, the slot of the native stack    *)
(* through which the flags pass, the next opcode.                          *)
Operands(size) ==
  Values \cup IF size = 8 THEN {Flags, Vsp, Vsp + 8, Rsp - 8, Bytecode} ELSE {}
SecondOperands(size) == Values \cup IF size = 8 THEN {Flags} ELSE {}

(* Values and where they come from.                                        *)
From(wrap, node, k, of) == [wrap |-> wrap, node |-> node, k |-> k, of |-> of]
Copy(source) == From("", "var", 0, <<source>>)
Plus(source, k) == IF k = 0 THEN Copy(source) ELSE From("", "bvadd", k, <<source>>)
Known == From("", "bv", 0, <<>>)
Mem(i) == <<"mem", i>>
Reg(reg) == <<"reg", reg>>

Access(kind, addr, size, value, from) ==
  [kind |-> kind, addr |-> addr, size |-> size, value |-> value, from |-> from,
   instruction |-> "mov", base |-> NoReg]
Load(i, addr, size, value) == Access("read", addr, size, value, Copy(Mem(i)))
Store(addr, size, value, from) == Access("write", addr, size, value, from)
By(access, instruction) == [access EXCEPT !.instruction = instruction]
Fetch(i, reg) ==
  [Load(i, Bytecode, 4, 1) EXCEPT !.instruction = "fetch", !.base = reg]

(* A handler: what it is, the accesses before it fetches the next opcode,  *)
(* the bytes of bytecode it takes, how VSP changes.                        *)
Native(op, d, accesses, taken, change) ==
  [op |-> op, d |-> d, accesses |-> Append(accesses, Fetch(Len(accesses) + 1, vipOf)),
   taken |-> taken, change |-> change, vsp |-> Plus(Reg(vspOf), change), moved |-> 0,
   a |-> 0, b |-> 0]

Pops ==
  {Native("Pop", d,
     <<Load(1, Vsp, StackSize(d), 7),
       Store(Context + 64, d, 7, From(IF d = 1 THEN "extract" ELSE "", "var", 0, <<Mem(1)>>))>>,
     5, StackSize(d)) : d \in Widths}
PushRegs ==
  {Native("PushReg", d,
     <<Load(1, Context + 64, d, 7),
       Store(Vsp - StackSize(d), StackSize(d), 7,
             From(IF d = 1 THEN "zx" ELSE "", "var", 0, <<Mem(1)>>))>>,
     5, -StackSize(d)) : d \in Widths}
PushConsts ==
  {Native("PushConst", d,
     <<Load(1, Bytecode + 100, d, 1), Store(Vsp - StackSize(d), StackSize(d), 1, Known)>>,
     4 + d, -StackSize(d)) : d \in Widths}
PushVsps ==
  {Native("PushVsp", d,
     <<Store(Vsp - d, d, Vsp, From(IF d = 8 THEN "" ELSE "extract", "var", 0, <<Reg(vspOf)>>))>>,
     4, -d) : d \in Widths \ {1}}
PopVsps ==
  {[Native("PopVsp", 8, <<Load(1, Vsp, 8, Vsp + 16)>>, 4, 16)
      EXCEPT !.vsp = Copy(Mem(1)), !.moved = moved] : moved \in {0, 256}}
Nops == {Native("Dispatch", 8, <<>>, 4, 0)}

(* The memory that is read may be the slot that held the address; bound:   *)
(* the address fits into four bytes.                                       *)
ReadMems ==
  {LET n == StackSize(d)
       value == IF a # Vsp THEN 1 ELSE IF d > 2 THEN a ELSE a % 256^d
   IN [Native("ReadMem", d,
         <<Load(1, Vsp, 8, a), Load(2, a, d, value),
           Store(Vsp + 8 - n, n, value, From(IF d = 1 THEN "zx" ELSE "", "var", 0, <<Mem(2)>>))>>,
         4, 8 - n) EXCEPT !.a = a] : d \in Widths, a \in Operands(8)}
WriteMems ==
  {[Native("WriteMem", ab[1],
      <<Load(1, Vsp, 8, ab[2]), Load(2, Vsp + 8, StackSize(ab[1]), ab[3]),
        Store(ab[2], ab[1], ab[3], From(IF ab[1] = 1 THEN "extract" ELSE "", "var", 0, <<Mem(2)>>))>>,
      4, 8 + StackSize(ab[1])) EXCEPT !.a = ab[2], !.b = ab[3]] :
     ab \in UNION {{d} \X Operands(8) \X SecondOperands(d) : d \in Widths}}

(* The result goes above the flags, which pass through the native stack.   *)
WithFlags(op, d, loads, node, of, popped, a, b) ==
  LET n == StackSize(d)
      at == Vsp + popped - n - 8
      from == From(IF d = 1 THEN "zx" ELSE "", node, 0, of)
  IN [Native(op, d,
        loads \o <<Store(at + 8, n, 1, from),
                   By(Store(Rsp - 8, 8, Flags, From("", "concat", 0, of)), "pushfq"),
                   Access("read", Rsp - 8, 8, Flags, Copy(<<"flags", 0>>)),
                   Store(at, 8, Flags, Copy(<<"flags", 0>>))>>,
        4, popped - n - 8) EXCEPT !.a = a, !.b = b]
BinaryOps == {<<"Add", "bvadd">>, <<"Nor", "not or">>, <<"Nand", "not and">>}
Binaries ==
  UNION {LET n == StackSize(d)
         IN {WithFlags(op[1], d, <<Load(1, Vsp, n, a), Load(2, Vsp + n, n, b)>>, op[2],
                       <<Mem(1), Mem(2)>>, 2 * n, a, b) :
               op \in BinaryOps, a \in Operands(d), b \in SecondOperands(d)} : d \in Widths}
ShiftOps == {<<"Shl", "bvshl">>, <<"Shr", "bvlshr">>, <<"Rol", "bvrol">>, <<"Ror", "bvror">>}
Shifts ==
  {LET n == StackSize(d)
   IN WithFlags(op[1], d, <<Load(1, Vsp, n, 7), Load(2, Vsp + n, 1, 1)>>, op[2],
                <<Mem(1), Mem(2)>>, n + 2, 7, 1) : op \in ShiftOps, d \in Widths}
DoubleShifts ==
  {WithFlags(op[1], d, <<Load(1, Vsp, d, 7), Load(2, Vsp + d, d, 7), Load(3, Vsp + 2 * d, 1, 1)>>,
             "or of shifts", op[2], 2 * d + 2, 7, 7) :
     op \in {<<"Shld", <<Mem(1), Mem(2)>>>>, <<"Shrd", <<Mem(2), Mem(1)>>>>},
     d \in Widths \ {1}}

Straight == Pops \cup PushRegs \cup PushConsts \cup PushVsps \cup PopVsps \cup Nops
              \cup ReadMems \cup WriteMems \cup Binaries \cup Shifts \cup DoubleShifts

(* The machine is entered: return address and constant of the prologue,    *)
(* the registers, the flags, the image base difference.                    *)
Entries(newVip, viaRet) ==
  LET instruction(i) == CASE i = 1 -> "push imm" [] i = 2 -> "call imm"
                          [] i = EntryPushes - 1 -> "pushfq" [] OTHER -> "push"
      pushes == [i \in 1..EntryPushes |->
                   By(Store(top - 8 * i, 8, i, Known), instruction(i))]
      target == Context - 8
  IN [op |-> "Entry", d |-> 8, change |-> -8 * EntryPushes, taken |-> 4, moved |-> 0,
      a |-> 0, b |-> 0,
      accesses |-> pushes \o <<Fetch(EntryPushes + 1, newVip)>>
                     \o IF viaRet THEN <<By(Store(target, 8, 1, Known), "push"),
                                         By(Load(EntryPushes + 3, target, 8, 1), "ret")>>
                        ELSE <<>>]

Jumps(newVip) ==
  [op |-> "Jmp", d |-> 8, change |-> 8, taken |-> 4, moved |-> 0, a |-> 0, b |-> 0,
   accesses |-> <<Load(1, Vsp, 8, Bytecode), Fetch(2, newVip)>>]

Exits ==
  LET pops == EntryPushes - 4
      PopAt(i, instruction) == By(Load(i, Vsp + 8 * (i - 1), 8, i), instruction)
  IN [op |-> "Exit", d |-> 8, change |-> 8 * (pops + 2), taken |-> 0, moved |-> 0,
      a |-> 0, b |-> 0,
      accesses |-> [i \in 1..pops |-> PopAt(i, "pop")]
                     \o <<PopAt(pops + 1, "popfq"), PopAt(pops + 2, "ret")>>]

-----------------------------------------------------------------------------
(* What is left in the registers without a use: what they held, a value of *)
(* no meaning, a copy of the new VSP.                                      *)
Kept == <<"kept", 0>>
CopyOfVsp == <<"copy", 0>>
Junks == {"junk"} \X Junk
Leftovers == {Kept, CopyOfVsp} \cup Junks
RunOf(h, newVip, newVsp, vip, vsp, left, rspEnd) ==
  [accesses |-> h.accesses, moved |-> h.moved, rspEnd |-> rspEnd,
   final |-> [r \in Regs |->
                IF r = newVsp \/ left[r] = CopyOfVsp THEN vsp
                ELSE IF r = newVip THEN vip
                ELSE IF left[r] = Kept THEN Copy(Reg(r)) ELSE Known],
   value |-> [r \in Regs |->
                IF r = newVsp \/ left[r] = CopyOfVsp THEN Vsp + h.change
                ELSE IF r = newVip THEN Bytecode
                ELSE IF left[r] = Kept THEN regs[r] ELSE left[r][2]]]

RightRegisters == vipReg = vipOf /\ vspReg = vspOf

(* That an entry alone names the registers is a plausible slip.            *)
EntryLearns(match) == match.type = "Entry"
LearnsRegisters(match) == match.type \in {"Entry", "Jmp"}

(* One round of the loop.                                                  *)
MatchBlock(h, run, n, complete) ==
  LET match == MatchVmHandler(Emulate(run, regs, Rsp, vipReg, vspReg, n, complete))
      learns == LearnsRegisters(match)
  IN /\ crashed' = (match.type = "Crash")
     /\ vipReg' = IF learns THEN match.vipReg ELSE vipReg
     /\ vspReg' = IF learns THEN match.vspReg ELSE vspReg
     /\ last' = [op |-> h.op, d |-> h.d, change |-> h.change, a |-> h.a, b |-> h.b,
                 moved |-> h.moved, vsp |-> Vsp, complete |-> complete,
                 right |-> RightRegisters, type |-> match.type, depth |-> match.depth,
                 recorded |-> match.vspAfter - match.vspBefore]
     /\ regs' = run.value
     /\ handlers' = handlers + 1

(* Bound: accesses after which an exception may end the emulation.         *)
Cuts(length) == {0, length \div 2, length - 1, length}

Rounds(h, run) ==
  \/ MatchBlock(h, run, Len(h.accesses), TRUE)
  \/ h.op \in Failures /\ \E n \in Cuts(Len(h.accesses)) : MatchBlock(h, run, n, FALSE)

Running ==
  ~crashed /\ handlers < MaxHandlers /\ last.op \in Followed \cup {"none"}

RunHandler ==
  /\ Running /\ inside
  /\ \E h \in Straight, left \in [Regs -> {Kept} \cup Junks] :
       /\ left[vspOf] = Kept /\ left[vipOf] = Kept
       /\ Rounds(h, RunOf(h, vipOf, vspOf, Plus(Reg(vipOf), h.taken), h.vsp, left, Rsp))
  /\ UNCHANGED <<top, inside, vipOf, vspOf>>

RunJump ==
  /\ Running /\ inside
  /\ \E newVip, newVsp \in Regs, left \in [Regs -> Leftovers] :
       /\ newVip # newVsp
       /\ left[newVsp] = Kept /\ left[newVip] = Kept
       /\ Rounds(Jumps(newVip),
                 RunOf(Jumps(newVip), newVip, newVsp, Plus(Mem(1), 4), Plus(Reg(vspOf), 8),
                       left, Rsp))
       /\ vipOf' = newVip /\ vspOf' = newVsp
  /\ UNCHANGED <<top, inside>>

RunEntry ==
  /\ Running /\ ~inside
  /\ \E newVip, newVsp \in Regs, left \in [Regs -> Leftovers], viaRet \in BOOLEAN :
       /\ newVip # newVsp
       /\ left[newVsp] = Kept /\ left[newVip] = Kept
       /\ LET h == Entries(newVip, viaRet)
          IN Rounds(h, RunOf(h, newVip, newVsp, Known, Plus(<<"rsp", 0>>, h.change), left, Context))
       /\ vipOf' = newVip /\ vspOf' = newVsp
  /\ inside' = TRUE
  /\ UNCHANGED top

RunExit ==
  /\ Running /\ inside
  /\ \E left \in [Regs -> Junks] :
       Rounds(Exits, RunOf(Exits, NoReg, NoReg, Known, Known, left, Vsp + Exits.change))
  /\ inside' = FALSE
  /\ UNCHANGED <<top, vipOf, vspOf>>

Init ==
  /\ top \in StackTops
  /\ inside = FALSE
  /\ vipOf = NoReg /\ vspOf = NoReg
  /\ regs = [r \in Regs |-> 0]
  /\ vipReg = NoReg /\ vspReg = NoReg
  /\ crashed = FALSE
  /\ handlers = 0
  /\ last = [op |-> "none"]

Next == RunHandler \/ RunJump \/ RunEntry \/ RunExit

Spec == Init /\ [][Next]_vars

-----------------------------------------------------------------------------
(* What the matching promises of the handler that was last emulated.       *)
Judged == last.op # "none"
Whole == Judged /\ last.complete /\ last.right
Flagged == {op[1] : op \in BinaryOps}
Logic == Flagged \cup {op[1] : op \in ShiftOps} \cup {"Shld", "Shrd"}

(* Operands for which the arithmetic with flags looks like a read of       *)
(* memory: the top of the stack holds the address of the slot above it,    *)
(* and that slot the flags that the operation is about to push; or the top *)
(* holds the address of the native slot through which they are pushed.     *)
LooksLikeRead ==
  /\ last.op \in Flagged /\ last.d = 8
  /\ (last.a = last.vsp + 8 /\ last.b = Flags) \/ last.a = Context - 8

(* A read of memory at the next opcode: only the fetch, the later of the   *)
(* two, is recorded, with its own size.                                    *)
ReadsNextOpcode == last.op = "ReadMem" /\ last.a = Bytecode

(* Blocks are cut only where control changes: whatever registers main      *)
(* works with and wherever an emulation broke off, MatchVmHandler takes    *)
(* nothing for an entry, a jump or an exit that is none.                   *)
ControlIsControl == Judged /\ last.type \in {"Entry", "Jmp", "Exit"} => last.type = last.op

(* The order of the recognisers in MatchVmHandler: with the right registers*)
(* a handler is taken for what it is or for nothing, but for the operands  *)
(* above, with which arithmetic is taken for a read and a read for a       *)
(* dispatch, and, on a stack above defaultImageBase, where memReadCallback *)
(* names nothing, two kinds of handlers.                                   *)
NeverMistaken ==
  Whole => \/ last.type \in {last.op, "Unknown"}
           \/ LooksLikeRead /\ last.type = "ReadMem"
           \/ ReadsNextOpcode /\ last.d = 8 /\ last.type = "Dispatch"
           \/ /\ top >= ImageBase
              /\ \/ last.op = "PushReg" /\ last.change = -2 /\ last.type = "PushConst"
                 \/ last.op \in Flagged /\ last.change = 0 /\ last.type = "Dispatch"

(* Below defaultImageBase it is recognised with its operand size and its   *)
(* change of VSP, but for the operands above, a narrow read of the slot    *)
(* that holds the address and a change of VSP that does not move the       *)
(* context.                                                                *)
RecognisedWhole ==
  Whole /\ top < ImageBase =>
    \/ last.type = last.op /\ last.depth = last.d /\ last.recorded = last.change
    \/ LooksLikeRead
    \/ ReadsNextOpcode /\ last.d # 4
    \/ last.op = "ReadMem" /\ last.a = last.vsp /\ last.d < 8
    \/ last.op = "PopVsp" /\ last.moved = 0

(* The registers that main takes from an entry or a jump hold VIP and VSP, *)
(* be it that VSP is only copied there.                                    *)
RegistersFollow ==
  Judged /\ last.type \in {"Entry", "Jmp"} => vipReg = vipOf /\ regs[vspReg] = Vsp

(* Once main looks for VSP in another register, no jump is recognised any  *)
(* more, so that no block is cut before the next entry.                    *)
LostUntilEntry ==
  [][handlers' # handlers /\ last'.type = "Jmp" => vspReg = vspOf]_vars

(* Of an emulation that an exception ended only the arithmetic is matched, *)
(* and an exit makes main dereference the context that it does not have.   *)
HalfEmulated ==
  Judged /\ ~last.complete =>
    \/ last.type = "Unknown"
    \/ last.type = last.op /\ last.op \in Logic
    \/ last.type = "Crash" /\ last.op = "Exit"
=============================================================================
