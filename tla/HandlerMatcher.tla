--------------------------- MODULE HandlerMatcher ---------------------------
(***************************************************************************)
(* What EmulateVmHandler makes of the native code of one handler and what  *)
(* MatchVmHandler recognises it as.                                        *)
(*                                                                         *)
(* A run of native code is the external part: the memory accesses of its   *)
(* instructions in their order, and where the registers get their final    *)
(* values from.  A value is described by its sources, so that what Triton  *)
(* derives for it depends, as in the code, on which registers and which    *)
(* memory EmulateVmHandler has made symbolic.  Of a syntax tree only what  *)
(* the recognisers look at is kept: the conversion at its root, the        *)
(* operation below, the variables in it from left to right and an added    *)
(* integer.                                                                *)
(***************************************************************************)
EXTENDS Integers, Sequences, SequencesExt, FiniteSets

CONSTANTS
  Regs,          \* the general registers, numbered in the order of their ids
  ImageBase      \* defaultImageBase

ASSUME RegsAssumption == Regs \subseteq Nat \ {0} /\ ImageBase \in Nat

NoReg == 0       \* ID_REG_INVALID

(* Names of symbolic variables.                                            *)
StackArg(offset) == <<"StackArg", offset>>
VmReg(offset) == <<"VmReg", offset>>
VIP == <<"VIP", 0>>
VSP == <<"VSP", 0>>
VM_CONTEXT == <<"VM_CONTEXT", 0>>
RFLAGS_CLEAN == <<"RFLAGS_CLEAN", 0>>

Tree(wrap, node, variables, k) == [wrap |-> wrap, node |-> node, vars |-> variables, k |-> k]
Variable(name) == Tree("", "var", <<name>>, 0)
Integer == Tree("", "bv", <<>>, 0)

IsVariable(ast, name) == ast = Variable(name)
GetUnderlyingVariable(ast) ==
  IF ast.node = "var" /\ ast.wrap \in {"", "zx", "extract"} THEN ToSet(ast.vars) ELSE {}
DependsOnStack(ast) == \E i \in DOMAIN ast.vars : ast.vars[i][1] = "StackArg"
GetAddImmediate(ast, name) ==
  IF ast.wrap = "" /\ ast.node = "bvadd" /\ ast.vars = <<name>> THEN {ast.k} ELSE {}

Abs(n) == IF n < 0 THEN -n ELSE n

-----------------------------------------------------------------------------
NoName == <<>>

(* memReadCallback: what a read from addr is made into.  vsp - 8 is        *)
(* unsigned: below 8 it is greater than every address.                     *)
SymbolOf(addr, vsp, rsp) ==
  IF addr >= ImageBase \/ vsp = 0 THEN NoName
  ELSE IF addr >= rsp /\ (vsp < 8 \/ addr < vsp - 8) THEN VmReg(addr - rsp)
  ELSE IF addr \in vsp..(vsp + 255) THEN StackArg(addr - vsp)
  ELSE NoName

(* What a view of the run, that is its accesses and the values and         *)
(* registers in use when it began, makes of a value: the name of one       *)
(* source, the names of all that have one, the tree above them.            *)
NameOf(view, source) ==
  CASE source[1] = "mem" -> SymbolOf(view.accesses[source[2]].addr, view.vsp, view.rsp)
    [] source[1] = "flags" -> RFLAGS_CLEAN
    [] source[1] = "rsp" -> VM_CONTEXT
    [] source[1] = "reg" -> IF source[2] = view.vspReg THEN VSP
                            ELSE IF source[2] = view.vipReg THEN VIP ELSE NoName
NamesOf(view, of) ==
  LET named == {i \in DOMAIN of : NameOf(view, of[i]) # NoName}
      Place(i) == Cardinality({j \in named : j <= i})
  IN [k \in 1..Cardinality(named) |-> NameOf(view, of[CHOOSE i \in named : Place(i) = k])]
AstOf(view, from) ==
  IF NamesOf(view, from.of) = <<>> THEN Integer
  ELSE Tree(from.wrap, from.node, NamesOf(view, from.of), from.k)

(* The last access of its kind to each address, of the first n.            *)
Recorded(view, kind, n) ==
  LET of == {i \in 1..n : view.accesses[i].kind = kind}
  IN {[addr |-> view.accesses[i].addr, size |-> view.accesses[i].size,
       value |-> view.accesses[i].value, base |-> view.accesses[i].base,
       instruction |-> view.accesses[i].instruction,
       ast |-> AstOf(view, view.accesses[i].from)] :
        i \in {j \in of : \A l \in of :
                 l > j => view.accesses[l].addr # view.accesses[j].addr}}

(* The data that is left when the emulation has recorded the first n       *)
(* accesses of a run: complete, or cut short by an exception.  run.final   *)
(* says what each register holds at the end, run.value its value then.     *)
Emulate(run, regs, rsp, vipReg, vspReg, n, complete) ==
  LET vipStart == IF vipReg = NoReg THEN 0 ELSE regs[vipReg]
      vspStart == IF vspReg = NoReg THEN 0 ELSE regs[vspReg]
      view == [accesses |-> run.accesses, vsp |-> vspStart, rsp |-> rsp,
               vipReg |-> vipReg, vspReg |-> vspReg]
      Final(reg) == IF complete /\ reg # NoReg THEN {AstOf(view, run.final[reg])} ELSE {}
      ValueOf(reg) == IF complete /\ reg # NoReg THEN run.value[reg] ELSE 0
  IN [vip |-> [start |-> vipStart, end |-> ValueOf(vipReg)],
      vsp |-> [start |-> vspStart, end |-> ValueOf(vspReg)],
      rsp |-> [start |-> rsp, end |-> IF complete THEN run.rspEnd ELSE 0],
      vipAst |-> Final(vipReg), vspAst |-> Final(vspReg),
      registerAst |-> IF complete THEN [reg \in Regs |-> AstOf(view, run.final[reg])] ELSE <<>>,
      vipReg |-> vipReg, vspReg |-> vspReg,
      logicReads |-> Recorded(view, "read", n), logicWrites |-> Recorded(view, "write", n),
      systemReads |-> IF complete THEN run.moved ELSE 0,
      context |-> complete]

-----------------------------------------------------------------------------
(* The recognisers.  Each yields the match, if there is one, as a set.     *)
NoMatch == [type |-> "Unknown", depth |-> 8, vspBefore |-> 0, vspAfter |-> 0,
            vipReg |-> NoReg, vspReg |-> NoReg, arg |-> 0]
Found(data, type, depth) ==
  [NoMatch EXCEPT !.type = type, !.depth = depth,
                  !.vspBefore = data.vsp.start, !.vspAfter = data.vsp.end]

(* The changes of VIP and VSP that the handlers must have in common.       *)
Deltas(data) ==
  UNION {GetAddImmediate(vip, VIP) \X GetAddImmediate(vsp, VSP) :
           vip \in data.vipAst, vsp \in data.vspAst}

Lowest(accesses) == {x \in accesses : \A y \in accesses : x.addr <= y.addr}
At(accesses, addr) == {x \in accesses : x.addr = addr}
Least(regs) == {r \in regs : \A q \in regs : r <= q}

(* The writes are gone through from the highest address down, without the  *)
(* prologue and without the target of a final ret; the 17th push is the    *)
(* image base difference.                                                  *)
TryMatchVmEntry(data) ==
  LET writes == data.logicWrites
      Above(w) == Cardinality({x \in writes : x.addr > w.addr})
      hasPrologue == /\ \E w \in writes : w.instruction = "push imm" /\ Above(w) = 0
                     /\ \E w \in writes : w.instruction = "call imm" /\ Above(w) = 1
      hasRet == \E r \in data.logicReads : r.instruction = "ret"
      pushes == {w \in writes : /\ w.instruction \in {"push imm", "push", "pushfq"}
                                /\ hasPrologue => Above(w) > 1
                                /\ hasRet => Above(w) < Cardinality(writes) - 1}
      popedRegs == {w \in pushes : /\ w.instruction # "push imm"
                                   /\ Cardinality({x \in pushes : x.addr > w.addr}) # 16}
      change == -8 * (Cardinality(pushes) + IF hasPrologue THEN 2 ELSE 0)
      fetches == {r \in data.logicReads :
                    r.addr >= ImageBase /\ r.size = 4 /\ r.instruction = "fetch"}
      copies == {reg \in DOMAIN data.registerAst :
                   change \in GetAddImmediate(data.registerAst[reg], VM_CONTEXT)}
  IN IF \/ data.rsp.end - data.rsp.start >= -16
        \/ Cardinality(writes) < 8
        \/ Cardinality(popedRegs) < 8
     THEN {}
     ELSE {[NoMatch EXCEPT !.type = "Entry", !.vspBefore = data.rsp.start,
                           !.vspAfter = data.rsp.start + change,
                           !.vipReg = fetch.base, !.vspReg = reg] :
             reg \in Least(copies), fetch \in Lowest(fetches)}

TryMatchVmPopReg(data) ==
  LET moves == \E delta \in Deltas(data) : Abs(delta[1]) = 5 /\ delta[2] \in 1..8
      stores == {w \in data.logicWrites : /\ w.ast.vars # <<>> /\ w.ast.vars[1] = StackArg(0)
                                          /\ w.addr - data.rsp.start \in 0..256}
  IN {[Found(data, "Pop", IF w.ast.wrap = "extract" THEN 1 ELSE w.size) EXCEPT
         !.arg = w.addr - data.rsp.start] : w \in {x \in Lowest(stores) : moves}}

(* That the value is any is a plausible slip.                              *)
AnyValue(ast) == TRUE
HoldsNoVariable(ast) == GetUnderlyingVariable(ast) = {}

(* Any write to the new top of the stack whose value holds no variable.    *)
TryMatchVmPushConst(data) ==
  {Found(data, "PushConst", Abs(delta[1]) - 4) :
     delta \in {x \in Deltas(data) :
        /\ x[2] \in -8..-1 /\ Abs(x[1]) >= 5
        /\ Abs(x[1]) - 4 = -x[2] \/ (Abs(x[1]) - 4 = 1 /\ x[2] = -2)
        /\ \E w \in At(data.logicWrites, data.vsp.start + x[2]) : HoldsNoVariable(w.ast)}}

TryMatchVmPushReg(data) ==
  LET moves == \E delta \in Deltas(data) : Abs(delta[1]) = 5 /\ delta[2] \in -8..-1
      ReadsOf(w) == {r \in data.logicReads : \E name \in GetUnderlyingVariable(w.ast) :
                       name[1] = "VmReg" /\ IsVariable(r.ast, name)}
      stores == {w \in data.logicWrites : moves /\ ReadsOf(w) # {}}
  IN {[Found(data, "PushReg", r.size) EXCEPT !.arg = r.ast.vars[1][2]] :
        r \in UNION {Lowest(ReadsOf(w)) : w \in Lowest(stores)}}

TryMatchVmPushVsp(data) ==
  LET tops == {data.vsp.start + delta[2] :
                 delta \in {x \in Deltas(data) : Abs(x[1]) = 4 /\ x[2] \in -8..-1}}
  IN {Found(data, "PushVsp", w.size) :
        w \in {x \in data.logicWrites : /\ x.addr \in tops
                                        /\ VSP \in GetUnderlyingVariable(x.ast)}}

TryMatchVmPopVsp(data) ==
  {Found(data, "PopVsp", 8) : vsp \in {ast \in data.vspAst :
     data.vipAst # {} /\ IsVariable(ast, StackArg(0)) /\ data.systemReads >= 256}}

(* By the values that were read and written, whatever they depend on.      *)
TryMatchVmReadMem(data) ==
  LET change == data.vsp.end - data.vsp.start
      pointers == {p \in At(data.logicReads, data.vsp.start) :
                     p.size = 8 /\ data.vipAst # {} /\ data.vspAst # {}}
      reads == UNION {At(data.logicReads, p.value) : p \in pointers}
  IN {Found(data, "ReadMem", r.size) :
        r \in {x \in reads :
                 /\ change = 8 - x.size \/ (x.size = 1 /\ change = 6)
                 /\ \E w \in At(data.logicWrites, data.vsp.end) : w.value = x.value}}

TryMatchVmWriteMem(data) ==
  LET moves == \E delta \in Deltas(data) : Abs(delta[1]) = 4 /\ delta[2] >= 9
      pointers == {p \in At(data.logicReads, data.vsp.start) : p.size = 8 /\ moves}
      writes == UNION {At(data.logicWrites, p.value) : p \in pointers}
      Low(size, value) == IF size <= 2 THEN value % 256^size ELSE value
  IN {Found(data, "WriteMem", w.size) :
        w \in {x \in writes : \E r \in At(data.logicReads, data.vsp.start + 8) :
                 Low(x.size, r.value) = Low(x.size, x.value)}}

DetectAluOperation(ast) ==
  CASE ast.node \in {"bvadd", "bvsub"} -> "Add"
    [] ast.node = "bvlshr" -> "Shr"
    [] ast.node = "bvshl" -> "Shl"
    [] ast.node = "bvrol" -> "Rol"
    [] ast.node = "bvror" -> "Ror"
    [] ast.node = "not or" -> "Nor"
    [] ast.node = "not and" -> "Nand"
    [] OTHER -> "Unknown"

(* A result of 8 bits is extended to two bytes.  To take the size of the   *)
(* write for it is a plausible slip.                                       *)
WrittenSize(w) == w.size
ResultSize(w) == IF w.ast.wrap = "zx" THEN 1 ELSE w.size
TryMatchGenericVmAlu(data) ==
  LET results == {w \in data.logicWrites :
                    DetectAluOperation(w.ast) # "Unknown" /\ DependsOnStack(w.ast)}
  IN {Found(data, DetectAluOperation(w.ast), ResultSize(w)) : w \in Lowest(results)}

(* A disjunction of a shift to the left and one to the right, of the first *)
(* and of the second variable; the shift of a known value would be folded. *)
TryMatchVmDoubleShift(data) ==
  LET results == {w \in data.logicWrites :
                    w.ast.wrap = "" /\ w.ast.node = "or of shifts" /\ Len(w.ast.vars) = 2}
      Type(ast) == IF ast.vars[1] = StackArg(0) THEN "Shld"
                   ELSE IF ast.vars[2] = StackArg(0) THEN "Shrd" ELSE "Unknown"
  IN {Found(data, Type(w.ast), w.size) : w \in Lowest(results)}

(* Of several registers that hold the new value, the first one but the     *)
(* register in use.  To stay with that one if none does is a plausible slip.*)
CandidateOrCurrent(candidates, current) ==
  IF candidates = {} THEN {current} ELSE Least(candidates)
Candidate(candidates, current) ==
  IF Cardinality(candidates) = 1 THEN candidates ELSE Least(candidates \ {current})

TryMatchVmJmpIndirectRemap(data) ==
  LET holds(reg, name, changes) ==
        GetAddImmediate(data.registerAst[reg], name) \cap changes # {}
      vspCandidats == {reg \in DOMAIN data.registerAst : holds(reg, VSP, {8})}
      vipCandidats == {reg \in DOMAIN data.registerAst : holds(reg, StackArg(0), {-4, 4})}
  IN {[Found(data, "Jmp", 8) EXCEPT !.vspAfter = data.vsp.start + 8,
                                    !.vspReg = vsp, !.vipReg = vip] :
        vsp \in Candidate(vspCandidats, data.vspReg),
        vip \in {r \in Candidate(vipCandidats, data.vipReg) :
                   At(data.logicReads, data.vsp.start) # {}}}

TryMatchVmDispatch(data) ==
  {Found(data, "Dispatch", 8) : vsp \in {ast \in data.vspAst :
     /\ IsVariable(ast, VSP)
     /\ \E vip \in data.vipAst : GetAddImmediate(vip, VIP) \cap {-4, 4} # {}}}

(* Plausible slips: no lower bound, all reads.                             *)
AtMost17(count) == count <= 17
PlausibleCount(count) == count \in 8..17
AllOrAllButOne(pops, reads) == pops >= reads - 1
AllButOne(pops, reads) == pops = reads - 1

(* The flags are named through the context, which an exception has left    *)
(* null.                                                                   *)
TryMatchVmExit(data) ==
  LET reads == data.logicReads
      pops == {r \in reads : r.instruction \in {"pop", "popfq"}}
  IN IF ~PlausibleCount(Cardinality(reads)) THEN {}
     ELSE IF ~data.context /\ \E r \in pops : r.instruction = "popfq"
     THEN {[NoMatch EXCEPT !.type = "Crash"]}
     ELSE IF AllButOne(Cardinality(pops), Cardinality(reads))
     THEN {[Found(data, "Exit", 8) EXCEPT !.vspAfter = data.rsp.end]}
     ELSE {}

(* The recognisers in the order in which they are tried.                   *)
Or(first, second) == IF first # {} THEN first ELSE second
MatchVmHandler(data) ==
  CHOOSE match \in
    Or(TryMatchVmEntry(data),
    Or(TryMatchVmPopReg(data),
    Or(TryMatchVmPushConst(data),
    Or(TryMatchVmPushReg(data),
    Or(TryMatchVmPushVsp(data),
    Or(TryMatchVmPopVsp(data),
    Or(TryMatchVmReadMem(data),
    Or(TryMatchVmWriteMem(data),
    Or(TryMatchGenericVmAlu(data),
    Or(TryMatchVmDoubleShift(data),
    Or(TryMatchVmJmpIndirectRemap(data),
    Or(TryMatchVmDispatch(data),
    Or(TryMatchVmExit(data), {NoMatch}))))))))))))) : TRUE
=============================================================================
