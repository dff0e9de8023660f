-------------------------- MODULE MatchingLoopProofs --------------------------
(***************************************************************************)
(* Where main's loop takes a handler for an entry, a jump or an exit, and  *)
(* the registers that it learns there, for any number of registers, any    *)
(* operands and whatever main took VIP and VSP to be in before; and, with  *)
(* the right registers, that it takes no handler for another and knows     *)
(* what each one is.                                                       *)
(***************************************************************************)
EXTENDS MatchingLoop, Induction

-----------------------------------------------------------------------------
(* The names of a value's sources.                                         *)
LEMMA EmptyTuple ==
  ASSUME NEW f, f = [k \in DOMAIN f |-> f[k]], DOMAIN f = {} PROVE f = <<>>
OBVIOUS

LEMMA NamesOfNone ==
  ASSUME NEW view PROVE NamesOf(view, <<>>) = <<>>
<1> DEFINE named == {i \in DOMAIN <<>> : NameOf(view, <<>>[i]) # NoName}
<1>1. named = {} /\ Cardinality(named) = 0
  BY FS_EmptySet
<1> QED  BY <1>1 DEF NamesOf

LEMMA NamesOfOne ==
  ASSUME NEW view, NEW source
  PROVE  NamesOf(view, <<source>>) =
           IF NameOf(view, source) = NoName THEN <<>> ELSE <<NameOf(view, source)>>
<1> DEFINE of == <<source>>
           named == {i \in DOMAIN of : NameOf(view, of[i]) # NoName}
           Place(i) == Cardinality({j \in named : j <= i})
<1>1. DOMAIN of = {1} /\ of[1] = source
  OBVIOUS
<1>2. CASE NameOf(view, source) = NoName
  <2>1. named = {} /\ Cardinality(named) = 0
    BY <1>1, <1>2, FS_EmptySet
  <2> DEFINE which(k) == CHOOSE i \in named : Place(i) = k
  <2>2. NamesOf(view, of) = [k \in 1..Cardinality(named) |-> NameOf(view, of[which(k)])]
    BY DEF NamesOf
  <2>3. DOMAIN NamesOf(view, of) = {}
    <3> HIDE DEF named, which, of
    <3> QED  BY <2>1, <2>2
  <2>4. NamesOf(view, of) = [k \in DOMAIN NamesOf(view, of) |-> NamesOf(view, of)[k]]
    BY <2>2, Zenon
  <2> HIDE DEF of
  <2>5. NamesOf(view, of) = <<>>
    BY <2>3, <2>4, EmptyTuple, Zenon
  <2> QED  BY <1>2, <2>5 DEF of
<1>3. CASE NameOf(view, source) # NoName
  <2>1. named = {1} /\ {j \in named : j <= 1} = {1} /\ Cardinality({1}) = 1
    BY <1>1, <1>3, FS_Singleton
  <2>2. Cardinality(named) = 1 /\ Place(1) = 1
    BY <2>1
  <2>3. (CHOOSE i \in named : Place(i) = 1) = 1
    BY <2>1, <2>2
  <2>4. NamesOf(view, of) = [k \in 1..Cardinality(named) |->
                               NameOf(view, of[CHOOSE i \in named : Place(i) = k])]
    BY DEF NamesOf
  <2>5. NamesOf(view, of) = [k \in 1..1 |-> NameOf(view, source)]
    BY <1>1, <2>2, <2>3, <2>4, SMTT(30)
  <2> QED  BY <1>3, <2>5
<1> QED  BY <1>2, <1>3

LEMMA NamesOfTwo ==
  ASSUME NEW view, NEW s, NEW t, Len(NamesOf(view, <<s, t>>)) = 2
  PROVE  /\ NamesOf(view, <<s, t>>)[1] = NameOf(view, s)
         /\ NamesOf(view, <<s, t>>)[2] = NameOf(view, t)
         /\ NameOf(view, s) # NoName /\ NameOf(view, t) # NoName
<1> DEFINE of == <<s, t>>
           named == {i \in DOMAIN of : NameOf(view, of[i]) # NoName}
           Place(i) == Cardinality({j \in named : j <= i})
<1>1. DOMAIN of = {1, 2} /\ of[1] = s /\ of[2] = t
  OBVIOUS
<1>2. NamesOf(view, of) = [k \in 1..Cardinality(named) |->
                             NameOf(view, of[CHOOSE i \in named : Place(i) = k])]
  BY DEF NamesOf
<1>3. Cardinality({1}) = 1 /\ Cardinality({2}) = 1 /\ Cardinality({}) = 0
  BY FS_Singleton, FS_EmptySet
<1>4. named \in {{}, {1}, {2}, {1, 2}}
  BY <1>1
<1>5. IsFiniteSet({1, 2}) /\ Cardinality({1, 2}) = 2
  <2>1. IsFiniteSet({1}) /\ Cardinality({1} \cup {2}) = 2
    <3>1. IsFiniteSet({1}) /\ 2 \notin {1}
      BY FS_Singleton
    <3>2. Cardinality({1} \cup {2}) = Cardinality({1}) + 1
      BY <3>1, FS_AddElement, Zenon
    <3> QED  BY <1>3, <3>1, <3>2
  <2>2. {1, 2} = {1} \cup {2}
    OBVIOUS
  <2>3. IsFiniteSet({1} \cup {2})
    BY FS_Singleton, FS_Union, Zenon
  <2> QED  BY <2>1, <2>2, <2>3
<1>6. Cardinality(named) \in Nat
  BY <1>3, <1>4, <1>5
<1>7. Cardinality(named) = 2
  <2>1. Len(NamesOf(view, of)) = Cardinality(named)
    BY <1>2, <1>6
  <2> QED  BY <2>1
<1>8. named = {1, 2}
  BY <1>3, <1>4, <1>7
<1>9. Place(1) = 1 /\ Place(2) = 2
  <2>1. {j \in named : j <= 1} = {1} /\ {j \in named : j <= 2} = {1, 2}
    BY <1>8
  <2> QED  BY <1>3, <1>5, <2>1
<1>10. (CHOOSE i \in named : Place(i) = 1) = 1 /\ (CHOOSE i \in named : Place(i) = 2) = 2
  BY <1>8, <1>9
<1>11. NamesOf(view, of)[1] = NameOf(view, of[1]) /\ NamesOf(view, of)[2] = NameOf(view, of[2])
  <2> DEFINE which(k) == CHOOSE i \in named : Place(i) = k
             f == [k \in 1..2 |-> NameOf(view, of[which(k)])]
  <2>1. NamesOf(view, of) = f
    BY <1>2, <1>7
  <2>2. which(1) = 1 /\ which(2) = 2
    BY <1>10
  <2> HIDE DEF named, Place, of, which
  <2>3. f[1] = NameOf(view, of[1]) /\ f[2] = NameOf(view, of[2])
    BY <2>2
  <2> QED  BY <2>1, <2>3
<1> QED  BY <1>1, <1>8, <1>11

-----------------------------------------------------------------------------
(* What the recognisers see of a register: an integer added to a symbol    *)
(* means that the value was made so from a source of that name.            *)
LEMMA AddedTo ==
  ASSUME NEW view, NEW source, NEW from, from.of = <<source>>,
         NEW name, NEW k \in GetAddImmediate(AstOf(view, from), name)
  PROVE  from.node = "bvadd" /\ NameOf(view, source) = name /\ k = from.k
<1> DEFINE ast == AstOf(view, from)
<1>1. ast.node = "bvadd" /\ ast.vars = <<name>> /\ k = ast.k
  BY DEF GetAddImmediate
<1>2. NamesOf(view, from.of) = IF NameOf(view, source) = NoName THEN <<>>
                               ELSE <<NameOf(view, source)>>
  BY NamesOfOne
<1>3. CASE NameOf(view, source) = NoName
  BY <1>1, <1>2, <1>3 DEF AstOf, Integer, Tree
<1>4. CASE NameOf(view, source) # NoName
  <2>1. NamesOf(view, from.of) = <<NameOf(view, source)>>
    BY <1>2, <1>4
  <2>2. <<NameOf(view, source)>> # <<>>
    OBVIOUS
  <2>3. ast = Tree(from.wrap, from.node, <<NameOf(view, source)>>, from.k)
    BY <2>1, <2>2, Zenon DEF AstOf
  <2>4. ast.node = from.node /\ ast.vars = <<NameOf(view, source)>> /\ ast.k = from.k
    BY <2>3 DEF Tree
  <2> QED  BY <1>1, <2>4
<1> QED  BY <1>3, <1>4

LEMMA NothingAddedToKnown ==
  ASSUME NEW view, NEW name
  PROVE  GetAddImmediate(AstOf(view, Known), name) = {}
<1>1. NamesOf(view, Known.of) = <<>>
  BY NamesOfNone DEF Known, From
<1>2. AstOf(view, Known) = Integer
  BY <1>1, Zenon DEF AstOf
<1>3. Integer.node # "bvadd"
  BY DEF Integer, Tree
<1> QED  BY <1>2, <1>3, Zenon DEF GetAddImmediate

(* The operation that a written value shows is the one that made it.       *)
LEMMA ShownOperation ==
  ASSUME NEW view, NEW from
  PROVE  /\ AstOf(view, from).node \in {from.node, "bv"}
         /\ \/ AstOf(view, from) = Tree(from.wrap, from.node, NamesOf(view, from.of), from.k)
            \/ AstOf(view, from) = Integer
<1>1. \/ AstOf(view, from) = Tree(from.wrap, from.node, NamesOf(view, from.of), from.k)
      \/ AstOf(view, from) = Integer
  BY Zenon DEF AstOf
<1>2. Tree(from.wrap, from.node, NamesOf(view, from.of), from.k).node = from.node
  BY DEF Tree
<1>3. Integer.node = "bv"
  BY DEF Integer, Tree
<1> QED  BY <1>1, <1>2, <1>3

-----------------------------------------------------------------------------
(* What an emulation leaves.                                               *)
StartOf(reg) == IF reg = NoReg THEN 0 ELSE regs[reg]
ViewOf(run) ==
  [accesses |-> run.accesses, vsp |-> StartOf(vspReg), rsp |-> Rsp,
   vipReg |-> vipReg, vspReg |-> vspReg]
DataOf(run, n, complete) == Emulate(run, regs, Rsp, vipReg, vspReg, n, complete)

LEMMA DataFacts ==
  ASSUME NEW run, NEW n, NEW complete \in BOOLEAN
  PROVE  LET data == DataOf(run, n, complete)
             view == ViewOf(run)
         IN /\ data.logicReads = Recorded(view, "read", n)
            /\ data.logicWrites = Recorded(view, "write", n)
            /\ data.vsp.start = StartOf(vspReg)
            /\ data.vspReg = vspReg
            /\ data.vipReg = vipReg
            /\ data.rsp.start = Rsp
            /\ data.context = complete
            /\ complete => data.registerAst = [reg \in Regs |-> AstOf(view, run.final[reg])]
            /\ ~complete => /\ data.vipAst = {} /\ data.vspAst = {}
                            /\ data.registerAst = <<>>
<1> DEFINE view == ViewOf(run)
<1>1. Emulate(run, regs, Rsp, vipReg, vspReg, n, complete) =
        [vip |-> [start |-> StartOf(vipReg),
                  end |-> IF complete /\ vipReg # NoReg THEN run.value[vipReg] ELSE 0],
         vsp |-> [start |-> StartOf(vspReg),
                  end |-> IF complete /\ vspReg # NoReg THEN run.value[vspReg] ELSE 0],
         rsp |-> [start |-> Rsp, end |-> IF complete THEN run.rspEnd ELSE 0],
         vipAst |-> IF complete /\ vipReg # NoReg THEN {AstOf(view, run.final[vipReg])} ELSE {},
         vspAst |-> IF complete /\ vspReg # NoReg THEN {AstOf(view, run.final[vspReg])} ELSE {},
         registerAst |-> IF complete THEN [reg \in Regs |-> AstOf(view, run.final[reg])]
                         ELSE <<>>,
         vipReg |-> vipReg, vspReg |-> vspReg,
         logicReads |-> Recorded(view, "read", n), logicWrites |-> Recorded(view, "write", n),
         systemReads |-> IF complete THEN run.moved ELSE 0,
         context |-> complete]
  BY Zenon DEF Emulate, ViewOf, StartOf
<1> HIDE DEF view
<1> QED  BY <1>1 DEF DataOf, view

LEMMA DataAccesses ==
  ASSUME NEW run, NEW n, NEW complete \in BOOLEAN
  PROVE  /\ DataOf(run, n, complete).logicReads = Recorded(ViewOf(run), "read", n)
         /\ DataOf(run, n, complete).logicWrites = Recorded(ViewOf(run), "write", n)
BY DEF DataOf, Emulate, ViewOf, StartOf

LEMMA RecordedFacts ==
  ASSUME NEW view, NEW kind, NEW n, NEW x \in Recorded(view, kind, n)
  PROVE  \E i \in 1..n : LET a == view.accesses[i]
                         IN /\ a.kind = kind
                            /\ x.instruction = a.instruction /\ x.base = a.base
                            /\ x.addr = a.addr /\ x.size = a.size
                            /\ x.ast = AstOf(view, a.from)
BY DEF Recorded

-----------------------------------------------------------------------------
(* The match is the one of a recogniser, and its type tells of which.      *)
LEMMA OrFacts ==
  ASSUME NEW first, NEW second, second # {}
  PROVE  Or(first, second) # {} /\ Or(first, second) \subseteq first \cup second
BY DEF Or

Plain(data) ==
  TryMatchVmPopReg(data) \cup TryMatchVmPushConst(data) \cup TryMatchVmPushReg(data)
    \cup TryMatchVmPushVsp(data) \cup TryMatchVmPopVsp(data) \cup TryMatchVmReadMem(data)
    \cup TryMatchVmWriteMem(data) \cup TryMatchVmDispatch(data)

LEMMA MatchFacts ==
  ASSUME NEW data
  PROVE  MatchVmHandler(data) \in
           TryMatchVmEntry(data) \cup Plain(data) \cup TryMatchGenericVmAlu(data)
             \cup TryMatchVmDoubleShift(data) \cup TryMatchVmJmpIndirectRemap(data)
             \cup TryMatchVmExit(data) \cup {NoMatch}
<1> DEFINE s13 == Or(TryMatchVmExit(data), {NoMatch})
           s12 == Or(TryMatchVmDispatch(data), s13)
           s11 == Or(TryMatchVmJmpIndirectRemap(data), s12)
           s10 == Or(TryMatchVmDoubleShift(data), s11)
           s9 == Or(TryMatchGenericVmAlu(data), s10)
           s8 == Or(TryMatchVmWriteMem(data), s9)
           s7 == Or(TryMatchVmReadMem(data), s8)
           s6 == Or(TryMatchVmPopVsp(data), s7)
           s5 == Or(TryMatchVmPushVsp(data), s6)
           s4 == Or(TryMatchVmPushReg(data), s5)
           s3 == Or(TryMatchVmPushConst(data), s4)
           s2 == Or(TryMatchVmPopReg(data), s3)
           s1 == Or(TryMatchVmEntry(data), s2)
<1>0. MatchVmHandler(data) = CHOOSE match \in s1 : TRUE
  BY Zenon DEF MatchVmHandler
<1>13. s13 # {} /\ s13 \subseteq TryMatchVmExit(data) \cup {NoMatch}
  BY OrFacts, Zenon
<1> HIDE DEF s13
<1>12. s12 # {} /\ s12 \subseteq TryMatchVmDispatch(data) \cup s13
  BY <1>13, OrFacts, Zenon
<1> HIDE DEF s12
<1>11. s11 # {} /\ s11 \subseteq TryMatchVmJmpIndirectRemap(data) \cup s12
  BY <1>12, OrFacts, Zenon
<1> HIDE DEF s11
<1>10. s10 # {} /\ s10 \subseteq TryMatchVmDoubleShift(data) \cup s11
  BY <1>11, OrFacts, Zenon
<1> HIDE DEF s10
<1>9. s9 # {} /\ s9 \subseteq TryMatchGenericVmAlu(data) \cup s10
  BY <1>10, OrFacts, Zenon
<1> HIDE DEF s9
<1>8. s8 # {} /\ s8 \subseteq TryMatchVmWriteMem(data) \cup s9
  BY <1>9, OrFacts, Zenon
<1> HIDE DEF s8
<1>7. s7 # {} /\ s7 \subseteq TryMatchVmReadMem(data) \cup s8
  BY <1>8, OrFacts, Zenon
<1> HIDE DEF s7
<1>6. s6 # {} /\ s6 \subseteq TryMatchVmPopVsp(data) \cup s7
  BY <1>7, OrFacts, Zenon
<1> HIDE DEF s6
<1>5. s5 # {} /\ s5 \subseteq TryMatchVmPushVsp(data) \cup s6
  BY <1>6, OrFacts, Zenon
<1> HIDE DEF s5
<1>4. s4 # {} /\ s4 \subseteq TryMatchVmPushReg(data) \cup s5
  BY <1>5, OrFacts, Zenon
<1> HIDE DEF s4
<1>3. s3 # {} /\ s3 \subseteq TryMatchVmPushConst(data) \cup s4
  BY <1>4, OrFacts, Zenon
<1> HIDE DEF s3
<1>2. s2 # {} /\ s2 \subseteq TryMatchVmPopReg(data) \cup s3
  BY <1>3, OrFacts, Zenon
<1> HIDE DEF s2
<1>1. s1 # {} /\ s1 \subseteq TryMatchVmEntry(data) \cup s2
  BY <1>2, OrFacts, Zenon
<1> HIDE DEF s1
<1>14. MatchVmHandler(data) \in s1
  BY <1>0, <1>1
<1> QED
  BY <1>1, <1>2, <1>3, <1>4, <1>5, <1>6, <1>7, <1>8, <1>9, <1>10, <1>11, <1>12, <1>13, <1>14
     DEF Plain

LEMMA FoundFacts ==
  ASSUME NEW data, NEW type, NEW depth
  PROVE  Found(data, type, depth).type = type
BY DEF Found, NoMatch

Control == {"Entry", "Jmp", "Exit", "Crash"}
LEMMA PlainTypes ==
  ASSUME NEW data, NEW m \in Plain(data) PROVE m.type \notin Control
<1>1. CASE m \in TryMatchVmPopReg(data)
  <2>1. m.type = "Pop"
    BY <1>1 DEF TryMatchVmPopReg, Found, NoMatch
  <2> QED  BY <2>1 DEF Control
<1>2. CASE m \in TryMatchVmPushConst(data)
  <2>1. m.type = "PushConst"
    BY <1>2, FoundFacts DEF TryMatchVmPushConst
  <2> QED  BY <2>1 DEF Control
<1>3. CASE m \in TryMatchVmPushReg(data)
  <2>1. m.type = "PushReg"
    BY <1>3 DEF TryMatchVmPushReg, Found, NoMatch
  <2> QED  BY <2>1 DEF Control
<1>4. CASE m \in TryMatchVmPushVsp(data)
  <2>1. m.type = "PushVsp"
    BY <1>4, FoundFacts DEF TryMatchVmPushVsp
  <2> QED  BY <2>1 DEF Control
<1>5. CASE m \in TryMatchVmPopVsp(data)
  <2>1. m.type = "PopVsp"
    BY <1>5, FoundFacts DEF TryMatchVmPopVsp
  <2> QED  BY <2>1 DEF Control
<1>6. CASE m \in TryMatchVmReadMem(data)
  <2>1. m.type = "ReadMem"
    BY <1>6, FoundFacts DEF TryMatchVmReadMem
  <2> QED  BY <2>1 DEF Control
<1>7. CASE m \in TryMatchVmWriteMem(data)
  <2>1. m.type = "WriteMem"
    BY <1>7, FoundFacts DEF TryMatchVmWriteMem
  <2> QED  BY <2>1 DEF Control
<1>8. CASE m \in TryMatchVmDispatch(data)
  <2>1. m.type = "Dispatch"
    BY <1>8, FoundFacts DEF TryMatchVmDispatch
  <2> QED  BY <2>1 DEF Control
<1> QED  BY <1>1, <1>2, <1>3, <1>4, <1>5, <1>6, <1>7, <1>8 DEF Plain

LEMMA OperationTypes ==
  ASSUME NEW ast
  PROVE  DetectAluOperation(ast) \in {"Add", "Shr", "Shl", "Rol", "Ror", "Nor", "Nand", "Unknown"}
BY DEF DetectAluOperation

LEMMA AluTypes ==
  ASSUME NEW data, NEW m \in TryMatchGenericVmAlu(data)
  PROVE  /\ m.type \notin Control
         /\ m.type # "Unknown"
         /\ \E w \in data.logicWrites : m.type = DetectAluOperation(w.ast)
<1>1. PICK w \in data.logicWrites : /\ DetectAluOperation(w.ast) # "Unknown"
                                    /\ m = Found(data, DetectAluOperation(w.ast), ResultSize(w))
  BY DEF TryMatchGenericVmAlu, Lowest
<1>2. m.type = DetectAluOperation(w.ast)
  BY <1>1, FoundFacts
<1> QED  BY <1>1, <1>2, OperationTypes DEF Control

LEMMA DoubleShiftTypes ==
  ASSUME NEW data, NEW m \in TryMatchVmDoubleShift(data)
  PROVE  /\ m.type \notin Control
         /\ \E w \in data.logicWrites :
              /\ w.ast.node = "or of shifts" /\ Len(w.ast.vars) = 2
              /\ m.type = IF w.ast.vars[1] = StackArg(0) THEN "Shld"
                          ELSE IF w.ast.vars[2] = StackArg(0) THEN "Shrd" ELSE "Unknown"
<1> DEFINE Type(w) == IF w.ast.vars[1] = StackArg(0) THEN "Shld"
                      ELSE IF w.ast.vars[2] = StackArg(0) THEN "Shrd" ELSE "Unknown"
<1>1. PICK w \in data.logicWrites :
        /\ w.ast.node = "or of shifts" /\ Len(w.ast.vars) = 2
        /\ m = Found(data, Type(w), w.size)
  BY DEF TryMatchVmDoubleShift, Lowest
<1>2. m.type = Type(w)
  <2>1. PICK t : t = Type(w)
    OBVIOUS
  <2>2. m = Found(data, t, w.size)
    BY <1>1, <2>1, Zenon
  <2>3. m.type = t
    BY <2>2, FoundFacts
  <2> QED  BY <2>1, <2>3
<1>3. m.type \in {"Shld", "Shrd", "Unknown"}
  BY <1>2
<1> QED  BY <1>1, <1>2, <1>3 DEF Control

(* An entry: both registers come from the emulation, one from a fetch of   *)
(* the first opcode and one from a register that holds the moved stack.    *)
LEMMA EntryFacts ==
  ASSUME NEW data
  PROVE  \A m \in TryMatchVmEntry(data) :
           /\ m.type = "Entry"
           /\ \E fetch \in data.logicReads : fetch.instruction = "fetch" /\ m.vipReg = fetch.base
           /\ m.vspReg \in DOMAIN data.registerAst
           /\ GetAddImmediate(data.registerAst[m.vspReg], VM_CONTEXT) # {}
<1> DEFINE writes == data.logicWrites
           Above(w) == Cardinality({x \in writes : x.addr > w.addr})
           hasPrologue == /\ \E w \in writes : w.instruction = "push imm" /\ Above(w) = 0
                          /\ \E w \in writes : w.instruction = "call imm" /\ Above(w) = 1
           hasRet == \E r \in data.logicReads : r.instruction = "ret"
           pushes == {w \in writes : /\ w.instruction \in {"push imm", "push", "pushfq"}
                                     /\ hasPrologue => Above(w) > 1
                                     /\ hasRet => Above(w) < Cardinality(writes) - 1}
           popedRegs == {w \in pushes : /\ w.instruction # "push imm"
                                        /\ Cardinality({x \in pushes : x.addr > w.addr}) # 16}
           change == -8 * (Cardinality(pushes) + IF hasPrologue THEN 2 ELSE 0)
           none == \/ data.rsp.end - data.rsp.start >= -16
                   \/ Cardinality(writes) < 8
                   \/ Cardinality(popedRegs) < 8
           fetches == {r \in data.logicReads :
                         r.addr >= ImageBase /\ r.size = 4 /\ r.instruction = "fetch"}
           copies == {reg \in DOMAIN data.registerAst :
                        change \in GetAddImmediate(data.registerAst[reg], VM_CONTEXT)}
           Built(reg, fetch) ==
             [NoMatch EXCEPT !.type = "Entry", !.vspBefore = data.rsp.start,
                             !.vspAfter = data.rsp.start + change,
                             !.vipReg = fetch.base, !.vspReg = reg]
<1>1. TryMatchVmEntry(data) =
        IF none THEN {}
        ELSE {Built(reg, fetch) : reg \in Least(copies), fetch \in Lowest(fetches)}
  BY DEF TryMatchVmEntry
<1>2. \A reg \in Least(copies) : /\ reg \in DOMAIN data.registerAst
                                 /\ GetAddImmediate(data.registerAst[reg], VM_CONTEXT) # {}
  <2> HIDE DEF change
  <2> QED  BY DEF Least
<1>3. \A fetch \in Lowest(fetches) : fetch \in data.logicReads /\ fetch.instruction = "fetch"
  BY DEF Lowest
<1>4. \A reg, fetch : /\ Built(reg, fetch).type = "Entry"
                      /\ Built(reg, fetch).vipReg = fetch.base
                      /\ Built(reg, fetch).vspReg = reg
  <2> HIDE DEF change
  <2> QED  BY DEF NoMatch
<1> HIDE DEF none, copies, fetches, Built
<1>5. ASSUME NEW m \in TryMatchVmEntry(data)
      PROVE  \E reg \in Least(copies), fetch \in Lowest(fetches) : m = Built(reg, fetch)
  BY <1>1, <1>5
<1> QED  BY <1>2, <1>3, <1>4, <1>5

(* A jump: the registers are two of those that hold what the jump leaves.  *)
LEMMA CandidateFacts ==
  ASSUME NEW candidates, NEW current
  PROVE  Candidate(candidates, current) \subseteq candidates
BY DEF Candidate, Least

LEMMA JumpFacts ==
  ASSUME NEW data
  PROVE  \A m \in TryMatchVmJmpIndirectRemap(data) :
           /\ m.type = "Jmp"
           /\ m.vspReg \in DOMAIN data.registerAst /\ m.vipReg \in DOMAIN data.registerAst
           /\ 8 \in GetAddImmediate(data.registerAst[m.vspReg], VSP)
           /\ GetAddImmediate(data.registerAst[m.vipReg], StackArg(0)) # {}
<1> DEFINE vspCandidats == {reg \in DOMAIN data.registerAst :
                              GetAddImmediate(data.registerAst[reg], VSP) \cap {8} # {}}
           vipCandidats == {reg \in DOMAIN data.registerAst :
                              GetAddImmediate(data.registerAst[reg], StackArg(0)) \cap {-4, 4} # {}}
           vips == {r \in Candidate(vipCandidats, data.vipReg) :
                      At(data.logicReads, data.vsp.start) # {}}
           Built(vsp, vip) == [Found(data, "Jmp", 8) EXCEPT !.vspAfter = data.vsp.start + 8,
                                                           !.vspReg = vsp, !.vipReg = vip]
<1>1. TryMatchVmJmpIndirectRemap(data) =
        {Built(vsp, vip) : vsp \in Candidate(vspCandidats, data.vspReg), vip \in vips}
  BY DEF TryMatchVmJmpIndirectRemap
<1>2. \A vsp, vip : /\ Built(vsp, vip).type = "Jmp"
                    /\ Built(vsp, vip).vspReg = vsp /\ Built(vsp, vip).vipReg = vip
  BY DEF Found, NoMatch
<1>3. \A vsp \in vspCandidats : /\ vsp \in DOMAIN data.registerAst
                                /\ 8 \in GetAddImmediate(data.registerAst[vsp], VSP)
  OBVIOUS
<1>4. \A vip \in vipCandidats : /\ vip \in DOMAIN data.registerAst
                                /\ GetAddImmediate(data.registerAst[vip], StackArg(0)) # {}
  OBVIOUS
<1>5. /\ Candidate(vspCandidats, data.vspReg) \subseteq vspCandidats
      /\ vips \subseteq vipCandidats
  <2> HIDE DEF vspCandidats, vipCandidats
  <2> QED  BY CandidateFacts
<1> HIDE DEF vspCandidats, vips, Built
<1>6. ASSUME NEW m \in TryMatchVmJmpIndirectRemap(data)
      PROVE  \E vsp \in Candidate(vspCandidats, data.vspReg), vip \in vips : m = Built(vsp, vip)
  BY <1>1, <1>6
<1> HIDE DEF vipCandidats
<1>7. ASSUME NEW m \in TryMatchVmJmpIndirectRemap(data)
      PROVE  \E vsp \in vspCandidats, vip \in vipCandidats : m = Built(vsp, vip)
  BY <1>5, <1>6
<1> QED  BY <1>2, <1>3, <1>4, <1>7

LEMMA ControlTypes ==
  ASSUME NEW data
  PROVE  /\ \A m \in TryMatchVmEntry(data) : m.type = "Entry"
         /\ \A m \in TryMatchVmJmpIndirectRemap(data) : m.type = "Jmp"
         /\ \A m \in TryMatchVmExit(data) : m.type \in {"Exit", "Crash"}
         /\ NoMatch.type = "Unknown"
<1>1. \A m \in TryMatchVmEntry(data) : m.type = "Entry"
  BY EntryFacts
<1>2. \A m \in TryMatchVmJmpIndirectRemap(data) : m.type = "Jmp"
  BY JumpFacts
<1>3. \A m \in TryMatchVmExit(data) : m.type \in {"Exit", "Crash"}
  BY DEF TryMatchVmExit, Found, NoMatch
<1> QED  BY <1>1, <1>2, <1>3 DEF NoMatch

-----------------------------------------------------------------------------
(* An emulation that broke off leaves no syntax trees of registers: only   *)
(* what goes by written values or by the number of reads can answer.       *)
LEMMA BlindFacts ==
  ASSUME NEW data, data.vipAst = {}, data.vspAst = {}, data.registerAst = <<>>
  PROVE  TryMatchVmEntry(data) = {} /\ TryMatchVmJmpIndirectRemap(data) = {} /\ Plain(data) = {}
<1>1. DOMAIN data.registerAst = {}
  OBVIOUS
<1>2. Deltas(data) = {}
  BY DEF Deltas
<1>3. TryMatchVmPopReg(data) = {} /\ TryMatchVmPushConst(data) = {}
  BY <1>2 DEF TryMatchVmPopReg, TryMatchVmPushConst
<1>4. TryMatchVmPushReg(data) = {}
  <2> DEFINE stores == {w \in data.logicWrites :
                          (\E delta \in Deltas(data) : Abs(delta[1]) = 5 /\ delta[2] \in -8..-1)
                          /\ {r \in data.logicReads : \E name \in GetUnderlyingVariable(w.ast) :
                                name[1] = "VmReg" /\ IsVariable(r.ast, name)} # {}}
  <2>1. Lowest(stores) = {}
    BY <1>2 DEF Lowest
  <2> QED  BY <1>2 DEF TryMatchVmPushReg, Lowest
<1>5. TryMatchVmPushVsp(data) = {}
  BY <1>2 DEF TryMatchVmPushVsp
<1>6. TryMatchVmPopVsp(data) = {} /\ TryMatchVmDispatch(data) = {}
  BY DEF TryMatchVmPopVsp, TryMatchVmDispatch
<1>7. TryMatchVmReadMem(data) = {}
  BY DEF TryMatchVmReadMem
<1>8. TryMatchVmWriteMem(data) = {}
  BY <1>2 DEF TryMatchVmWriteMem
<1>9. TryMatchVmEntry(data) = {} /\ TryMatchVmJmpIndirectRemap(data) = {}
  BY <1>1, EntryFacts, JumpFacts
<1> QED  BY <1>3, <1>4, <1>5, <1>6, <1>7, <1>8, <1>9 DEF Plain

(* Without a pop instruction no handler looks like an exit.                *)
LEMMA NoPops ==
  ASSUME NEW data, \A r \in data.logicReads : r.instruction \notin {"pop", "popfq"}
  PROVE  TryMatchVmExit(data) = {}
<1> DEFINE pops == {r \in data.logicReads : r.instruction \in {"pop", "popfq"}}
<1>1. pops = {} /\ Cardinality(pops) = 0
  BY FS_EmptySet
<1>2. PlausibleCount(Cardinality(data.logicReads)) =>
        ~AllButOne(Cardinality(pops), Cardinality(data.logicReads))
  BY <1>1 DEF PlausibleCount, AllButOne
<1>3. ~\E r \in pops : r.instruction = "popfq"
  BY <1>1
<1> QED  BY <1>2, <1>3 DEF TryMatchVmExit

(* If all reads are pops, it does not look like one either.                *)
LEMMA AllPops ==
  ASSUME NEW data, ~data.context, \A r \in data.logicReads : r.instruction \in {"pop", "popfq"}
  PROVE  \A m \in TryMatchVmExit(data) : m.type = "Crash"
<1> DEFINE pops == {r \in data.logicReads : r.instruction \in {"pop", "popfq"}}
<1>1. pops = data.logicReads
  OBVIOUS
<1>2. PlausibleCount(Cardinality(data.logicReads)) =>
        ~AllButOne(Cardinality(pops), Cardinality(data.logicReads))
  BY <1>1 DEF PlausibleCount, AllButOne
<1>3. [NoMatch EXCEPT !.type = "Crash"].type = "Crash"
  BY DEF NoMatch
<1> QED  BY <1>2, <1>3 DEF TryMatchVmExit

LEMMA PoppedFlagsCrash ==
  ASSUME NEW data, ~data.context, \E r \in data.logicReads : r.instruction = "popfq"
  PROVE  \A m \in TryMatchVmExit(data) : m.type = "Crash"
<1>1. [NoMatch EXCEPT !.type = "Crash"].type = "Crash"
  BY DEF NoMatch
<1> QED  BY <1>1 DEF TryMatchVmExit

-----------------------------------------------------------------------------
(* The handlers.  The accesses of all but an exit are quiet: none is a pop *)
(* instruction, and what a write shows is the handler's own operation.     *)
Quiet(a, op) ==
  /\ a.instruction \notin {"pop", "popfq"}
  /\ a.kind = "write" =>
       /\ DetectAluOperation(a.from) \in {op, "Unknown"}
       /\ a.from.node = "or of shifts" =>
            \/ op = "Shld" /\ a.from.of = <<Mem(1), Mem(2)>>
            \/ op = "Shrd" /\ a.from.of = <<Mem(2), Mem(1)>>
QuietSeq(s, op) == (\E S : s \in Seq(S)) /\ \A i \in 1..Len(s) : Quiet(s[i], op)

LEMMA QuietLength ==
  ASSUME NEW op, NEW s, QuietSeq(s, op) PROVE Len(s) \in Nat
BY LenProperties DEF QuietSeq

LEMMA QuietAppend ==
  ASSUME NEW op, NEW s, QuietSeq(s, op), NEW a, Quiet(a, op)
  PROVE  QuietSeq(Append(s, a), op) /\ Len(Append(s, a)) = Len(s) + 1
<1>1. PICK S : s \in Seq(S)
  BY DEF QuietSeq
<1>2. PICK T : T = S \cup {a}
  OBVIOUS
<1>3. s \in Seq(T) /\ a \in T
  BY <1>1, <1>2, SeqMonotonic
<1>4. /\ Append(s, a) \in Seq(T)
      /\ Len(Append(s, a)) = Len(s) + 1
      /\ \A i \in 1..Len(s) : Append(s, a)[i] = s[i]
      /\ Append(s, a)[Len(s) + 1] = a
      /\ Len(s) \in Nat
  BY <1>3, AppendProperties, LenProperties
<1>5. ASSUME NEW i \in 1..(Len(s) + 1) PROVE Quiet(Append(s, a)[i], op)
  <2>1. CASE i = Len(s) + 1
    BY <1>4, <2>1
  <2>2. CASE i # Len(s) + 1
    <3>1. i \in 1..Len(s)
      BY <1>4, <2>2
    <3>2. Append(s, a)[i] = s[i] /\ Quiet(s[i], op)
      BY <1>4, <3>1 DEF QuietSeq
    <3> QED  BY <3>2
  <2> QED  BY <2>1, <2>2
<1> QED  BY <1>4, <1>5 DEF QuietSeq

LEMMA QuietConcat ==
  ASSUME NEW op, NEW s, QuietSeq(s, op), NEW t, QuietSeq(t, op)
  PROVE  /\ QuietSeq(s \o t, op)
         /\ \A i \in 1..Len(s) : (s \o t)[i] = s[i]
<1>1. PICK S : s \in Seq(S)
  BY DEF QuietSeq
<1>2. PICK T : t \in Seq(T)
  BY DEF QuietSeq
<1>3. PICK U : U = S \cup T
  OBVIOUS
<1>4. s \in Seq(U) /\ t \in Seq(U)
  BY <1>1, <1>2, <1>3, SeqMonotonic
<1>5. /\ s \o t \in Seq(U) /\ Len(s \o t) = Len(s) + Len(t)
      /\ Len(s) \in Nat /\ Len(t) \in Nat
      /\ \A i \in 1..(Len(s) + Len(t)) :
           (s \o t)[i] = IF i <= Len(s) THEN s[i] ELSE t[i - Len(s)]
  BY <1>4, ConcatProperties, LenProperties
<1>6. \A i \in 1..Len(s) : (s \o t)[i] = s[i]
  BY <1>5
<1>7. ASSUME NEW i \in 1..(Len(s) + Len(t)) PROVE Quiet((s \o t)[i], op)
  <2>1. CASE i \in 1..Len(s)
    BY <1>6, <2>1 DEF QuietSeq
  <2>2. CASE i \notin 1..Len(s)
    <3>1. (s \o t)[i] = t[i - Len(s)] /\ i - Len(s) \in 1..Len(t)
      BY <1>5, <2>2
    <3> QED  BY <3>1 DEF QuietSeq
  <2> QED  BY <2>1, <2>2
<1> QED  BY <1>5, <1>6, <1>7 DEF QuietSeq

LEMMA QuietTuples ==
  ASSUME NEW op
  PROVE  /\ QuietSeq(<<>>, op)
         /\ \A a : Quiet(a, op) => QuietSeq(<<a>>, op)
         /\ \A a, b : Quiet(a, op) /\ Quiet(b, op) => QuietSeq(<<a, b>>, op)
         /\ \A a, b, c : Quiet(a, op) /\ Quiet(b, op) /\ Quiet(c, op) => QuietSeq(<<a, b, c>>, op)
         /\ \A a, b, c, d : Quiet(a, op) /\ Quiet(b, op) /\ Quiet(c, op) /\ Quiet(d, op)
                              => QuietSeq(<<a, b, c, d>>, op)
<1>1. QuietSeq(<<>>, op)
  <2>1. <<>> \in Seq({})
    OBVIOUS
  <2> QED  BY <2>1 DEF QuietSeq
<1>2. ASSUME NEW a, Quiet(a, op) PROVE QuietSeq(<<a>>, op)
  <2>1. <<a>> \in Seq({a}) /\ Len(<<a>>) = 1 /\ <<a>>[1] = a
    OBVIOUS
  <2>2. PICK s : s = <<a>>
    OBVIOUS
  <2>3. Len(s) = 1 /\ \A i \in 1..1 : Quiet(s[i], op)
    BY <1>2, <2>1, <2>2
  <2>4. QuietSeq(s, op)
    BY <2>1, <2>2, <2>3 DEF QuietSeq
  <2> QED  BY <2>2, <2>4
<1>3. ASSUME NEW a, NEW b, Quiet(a, op), Quiet(b, op) PROVE QuietSeq(<<a, b>>, op)
  <2>1. <<a, b>> \in Seq({a, b}) /\ Len(<<a, b>>) = 2 /\ <<a, b>>[1] = a /\ <<a, b>>[2] = b
    OBVIOUS
  <2>2. PICK s : s = <<a, b>>
    OBVIOUS
  <2>3. Len(s) = 2 /\ \A i \in 1..2 : Quiet(s[i], op)
    BY <1>3, <2>1, <2>2
  <2>4. QuietSeq(s, op)
    BY <2>1, <2>2, <2>3 DEF QuietSeq
  <2> QED  BY <2>2, <2>4
<1>4. ASSUME NEW a, NEW b, NEW c, Quiet(a, op), Quiet(b, op), Quiet(c, op)
      PROVE  QuietSeq(<<a, b, c>>, op)
  <2>1. /\ <<a, b, c>> \in Seq({a, b, c}) /\ Len(<<a, b, c>>) = 3
        /\ <<a, b, c>>[1] = a /\ <<a, b, c>>[2] = b /\ <<a, b, c>>[3] = c
    OBVIOUS
  <2>2. PICK s : s = <<a, b, c>>
    OBVIOUS
  <2>3. Len(s) = 3 /\ \A i \in 1..3 : Quiet(s[i], op)
    BY <1>4, <2>1, <2>2
  <2>4. QuietSeq(s, op)
    BY <2>1, <2>2, <2>3 DEF QuietSeq
  <2> QED  BY <2>2, <2>4
<1>5. ASSUME NEW a, NEW b, NEW c, NEW d,
             Quiet(a, op), Quiet(b, op), Quiet(c, op), Quiet(d, op)
      PROVE  QuietSeq(<<a, b, c, d>>, op)
  <2>1. /\ <<a, b, c, d>> \in Seq({a, b, c, d}) /\ Len(<<a, b, c, d>>) = 4
        /\ <<a, b, c, d>>[1] = a /\ <<a, b, c, d>>[2] = b
        /\ <<a, b, c, d>>[3] = c /\ <<a, b, c, d>>[4] = d
    OBVIOUS
  <2>2. PICK s : s = <<a, b, c, d>>
    OBVIOUS
  <2>3. Len(s) = 4 /\ \A i \in 1..4 : Quiet(s[i], op)
    BY <1>5, <2>1, <2>2
  <2>4. QuietSeq(s, op)
    BY <2>1, <2>2, <2>3 DEF QuietSeq
  <2> QED  BY <2>2, <2>4
<1> QED  BY <1>1, <1>2, <1>3, <1>4, <1>5

LEMMA QuietAccesses ==
  ASSUME NEW op
  PROVE  /\ \A i, addr, size, value : Quiet(Load(i, addr, size, value), op)
         /\ \A i, reg : Quiet(Fetch(i, reg), op)
         /\ \A addr, size, value, from :
              from.node \in {"var", "bv", "concat"} => Quiet(Store(addr, size, value, from), op)
<1>1. ASSUME NEW i, NEW addr, NEW size, NEW value
      PROVE  Load(i, addr, size, value).kind = "read"
             /\ Load(i, addr, size, value).instruction = "mov"
  BY DEF Load, Access
<1>2. ASSUME NEW i, NEW reg
      PROVE  Fetch(i, reg).kind = "read" /\ Fetch(i, reg).instruction = "fetch"
  BY DEF Fetch, Load, Access
<1>3. ASSUME NEW addr, NEW size, NEW value, NEW from, from.node \in {"var", "bv", "concat"}
      PROVE  Quiet(Store(addr, size, value, from), op)
  <2>1. /\ Store(addr, size, value, from).instruction = "mov"
        /\ Store(addr, size, value, from).from = from
    BY DEF Store, Access
  <2>2. DetectAluOperation(from) = "Unknown" /\ from.node # "or of shifts"
    BY <1>3 DEF DetectAluOperation
  <2> QED  BY <2>1, <2>2 DEF Quiet
<1> QED  BY <1>1, <1>2, <1>3 DEF Quiet

LEMMA Sources ==
  /\ \A source : Copy(source).node = "var" /\ Copy(source).of = <<source>>
  /\ \A source, k : Plus(source, k).of = <<source>>
  /\ Known.node = "bv" /\ Known.of = <<>>
  /\ \A wrap, node, k, of : From(wrap, node, k, of).node = node /\ From(wrap, node, k, of).of = of
BY DEF Copy, Plus, Known, From

PairAt(accesses) ==
  /\ accesses[1].addr = Vsp /\ accesses[2].addr \in Int
  /\ accesses[2].addr - Vsp \in 1..8
Ordinary(h) ==
  /\ h.op \notin Control
  /\ h.change \in Int
  /\ QuietSeq(h.accesses, h.op)
  /\ h.vsp = Plus(Reg(vspOf), h.change) \/ h.vsp = Copy(Mem(1))
  /\ h.op \in {"Shld", "Shrd"} => PairAt(h.accesses)

LEMMA NativeFacts ==
  ASSUME NEW op, NEW d, NEW accesses, QuietSeq(accesses, op), NEW taken, NEW change
  PROVE  LET h == Native(op, d, accesses, taken, change)
         IN /\ h.op = op /\ h.change = change
            /\ h.vsp = Plus(Reg(vspOf), change)
            /\ QuietSeq(h.accesses, op)
            /\ \A i \in 1..Len(accesses) : h.accesses[i] = accesses[i]
<1> DEFINE fetch == Fetch(Len(accesses) + 1, vipOf)
<1>1. Quiet(fetch, op)
  BY QuietAccesses
<1>2. PICK h : h = Native(op, d, accesses, taken, change)
  OBVIOUS
<1>3. /\ h.op = op /\ h.change = change /\ h.vsp = Plus(Reg(vspOf), change)
      /\ h.accesses = Append(accesses, fetch)
  BY <1>2 DEF Native
<1>4. QuietSeq(Append(accesses, fetch), op)
  BY <1>1, QuietAppend
<1>5. \A i \in 1..Len(accesses) : Append(accesses, fetch)[i] = accesses[i]
  <2>1. PICK S : accesses \in Seq(S)
    BY DEF QuietSeq
  <2>2. PICK T : T = S \cup {fetch}
    OBVIOUS
  <2>3. accesses \in Seq(T) /\ fetch \in T
    BY <2>1, <2>2, SeqMonotonic
  <2> QED  BY <2>3, AppendProperties
<1> QED  BY <1>2, <1>3, <1>4, <1>5

LEMMA NativeOrdinary ==
  ASSUME NEW op, op \notin Control, op \notin {"Shld", "Shrd"}, NEW d,
         NEW accesses, QuietSeq(accesses, op), NEW taken, NEW change \in Int
  PROVE  Ordinary(Native(op, d, accesses, taken, change))
BY NativeFacts DEF Ordinary

-----------------------------------------------------------------------------
(* Every straight handler is ordinary, whatever its operands.              *)
LEMMA WidthFacts ==
  \A d \in Widths : d \in 1..8 /\ StackSize(d) \in 1..8
BY MatchingAssumption DEF StackSize

LEMMA QuietStores ==
  ASSUME NEW op, NEW addr, NEW size, NEW value
  PROVE  /\ Quiet(Store(addr, size, value, Known), op)
         /\ \A wrap, of : Quiet(Store(addr, size, value, From(wrap, "var", 0, of)), op)
         /\ \A wrap, of : Quiet(Store(addr, size, value, From(wrap, "concat", 0, of)), op)
         /\ \A source : Quiet(Store(addr, size, value, Copy(source)), op)
BY QuietAccesses, Sources

LEMMA MovesOrdinary ==
  ASSUME NEW h \in Pops \cup PushRegs \cup PushConsts \cup PushVsps \cup Nops
  PROVE  Ordinary(h)
<1>1. CASE h \in Pops
  <2>1. PICK d, load, store :
          /\ d \in Widths
          /\ load = Load(1, Vsp, StackSize(d), 7)
          /\ store = Store(Context + 64, d, 7,
                           From(IF d = 1 THEN "extract" ELSE "", "var", 0, <<Mem(1)>>))
          /\ h = Native("Pop", d, <<load, store>>, 5, StackSize(d))
    BY <1>1 DEF Pops
  <2>2. Quiet(load, "Pop") /\ Quiet(store, "Pop")
    BY <2>1, QuietAccesses, QuietStores, ZenonT(60)
  <2>3. QuietSeq(<<load, store>>, "Pop")
    BY <2>2, QuietTuples
  <2>4. StackSize(d) \in Int
    <3>1. d \in Widths
      BY <2>1
    <3> QED  BY <3>1, WidthFacts
  <2> QED  BY <2>1, <2>3, <2>4, NativeOrdinary DEF Control
<1>2. CASE h \in PushRegs
  <2>1. PICK d, load, store :
          /\ d \in Widths
          /\ load = Load(1, Context + 64, d, 7)
          /\ store = Store(Vsp - StackSize(d), StackSize(d), 7,
                           From(IF d = 1 THEN "zx" ELSE "", "var", 0, <<Mem(1)>>))
          /\ h = Native("PushReg", d, <<load, store>>, 5, -StackSize(d))
    BY <1>2 DEF PushRegs
  <2>2. Quiet(load, "PushReg") /\ Quiet(store, "PushReg")
    BY <2>1, QuietAccesses, QuietStores
  <2>3. QuietSeq(<<load, store>>, "PushReg")
    BY <2>2, QuietTuples
  <2>4. -StackSize(d) \in Int
    <3>1. d \in Widths
      BY <2>1
    <3> QED  BY <3>1, WidthFacts
  <2> QED  BY <2>1, <2>3, <2>4, NativeOrdinary DEF Control
<1>3. CASE h \in PushConsts
  <2>1. PICK d, load, store :
          /\ d \in Widths
          /\ load = Load(1, Bytecode + 100, d, 1)
          /\ store = Store(Vsp - StackSize(d), StackSize(d), 1, Known)
          /\ h = Native("PushConst", d, <<load, store>>, 4 + d, -StackSize(d))
    BY <1>3 DEF PushConsts
  <2>2. Quiet(load, "PushConst") /\ Quiet(store, "PushConst")
    BY <2>1, QuietAccesses, QuietStores
  <2>3. QuietSeq(<<load, store>>, "PushConst")
    BY <2>2, QuietTuples
  <2>4. -StackSize(d) \in Int
    <3>1. d \in Widths
      BY <2>1
    <3> QED  BY <3>1, WidthFacts
  <2> QED  BY <2>1, <2>3, <2>4, NativeOrdinary DEF Control
<1>4. CASE h \in PushVsps
  <2>1. PICK d, store :
          /\ d \in Widths
          /\ store = Store(Vsp - d, d, Vsp,
                           From(IF d = 8 THEN "" ELSE "extract", "var", 0, <<Reg(vspOf)>>))
          /\ h = Native("PushVsp", d, <<store>>, 4, -d)
    BY <1>4 DEF PushVsps
  <2>2. Quiet(store, "PushVsp")
    BY <2>1, QuietAccesses, QuietStores
  <2>3. QuietSeq(<<store>>, "PushVsp")
    BY <2>2, QuietTuples
  <2>4. -d \in Int
    <3>1. d \in Widths
      BY <2>1
    <3> QED  BY <3>1, WidthFacts
  <2> QED  BY <2>1, <2>3, <2>4, NativeOrdinary DEF Control
<1>5. CASE h \in Nops
  <2>1. h = Native("Dispatch", 8, <<>>, 4, 0)
    BY <1>5 DEF Nops
  <2> QED  BY <2>1, QuietTuples, NativeOrdinary DEF Control
<1> QED  BY <1>1, <1>2, <1>3, <1>4, <1>5

LEMMA PopVspOrdinary ==
  \A h \in PopVsps : Ordinary(h)
<1> DEFINE load == Load(1, Vsp, 8, Vsp + 16)
           n == Native("PopVsp", 8, <<load>>, 4, 16)
           Built(moved) == [n EXCEPT !.vsp = Copy(Mem(1)), !.moved = moved]
<1>1. PopVsps = {Built(moved) : moved \in {0, 256}}
  BY DEF PopVsps
<1>2. QuietSeq(<<load>>, "PopVsp")
  <2>1. Quiet(load, "PopVsp")
    BY QuietAccesses
  <2> HIDE DEF load
  <2> QED  BY <2>1, QuietTuples
<1>3. Ordinary(n)
  <2>1. "PopVsp" \notin Control /\ "PopVsp" \notin {"Shld", "Shrd"} /\ 16 \in Int
    BY DEF Control
  <2> HIDE DEF load
  <2> QED  BY <1>2, <2>1, NativeOrdinary
<1>4. \A moved : /\ Built(moved).op = n.op /\ Built(moved).change = n.change
                 /\ Built(moved).accesses = n.accesses /\ Built(moved).vsp = Copy(Mem(1))
  <2> HIDE DEF load
  <2> QED  BY DEF Native
<1>5. \A moved : Ordinary(Built(moved))
  <2> HIDE DEF n, Built
  <2> QED  BY <1>3, <1>4 DEF Ordinary
<1> HIDE DEF Built
<1> QED  BY <1>1, <1>5

LEMMA ReadMemOrdinary ==
  \A h \in ReadMems : Ordinary(h)
<1> DEFINE ValueOf(d, a) == IF a # Vsp THEN 1 ELSE IF d > 2 THEN a ELSE a % 256^d
           Store3(d, v) == Store(Vsp + 8 - StackSize(d), StackSize(d), v,
                                 From(IF d = 1 THEN "zx" ELSE "", "var", 0, <<Mem(2)>>))
           Accesses(d, a) == <<Load(1, Vsp, 8, a), Load(2, a, d, ValueOf(d, a)),
                               Store3(d, ValueOf(d, a))>>
           Plain3(d, a) == Native("ReadMem", d, Accesses(d, a), 4, 8 - StackSize(d))
           Built(d, a) == [Plain3(d, a) EXCEPT !.a = a]
<1>1. ReadMems = {Built(d, a) : d \in Widths, a \in Operands(8)}
  BY DEF ReadMems
<1> HIDE DEF ValueOf
<1>2. ASSUME NEW d \in Widths, NEW a PROVE Ordinary(Built(d, a))
  <2>1. PICK pointer, load, store :
          /\ pointer = Load(1, Vsp, 8, a) /\ load = Load(2, a, d, ValueOf(d, a))
          /\ store = Store3(d, ValueOf(d, a))
    OBVIOUS
  <2>2. Quiet(pointer, "ReadMem") /\ Quiet(load, "ReadMem") /\ Quiet(store, "ReadMem")
    BY <2>1, QuietAccesses, QuietStores
  <2>3. QuietSeq(<<pointer, load, store>>, "ReadMem")
    BY <2>2, QuietTuples
  <2>4. 8 - StackSize(d) \in Int
    BY WidthFacts
  <2>5. PICK n : n = Native("ReadMem", d, <<pointer, load, store>>, 4, 8 - StackSize(d))
    OBVIOUS
  <2>6. Ordinary(n)
    BY <2>3, <2>4, <2>5, NativeOrdinary DEF Control
  <2>7. Built(d, a) = [n EXCEPT !.a = a]
    BY <2>1, <2>5
  <2> HIDE DEF Built
  <2>8. /\ Built(d, a).op = n.op /\ Built(d, a).change = n.change
        /\ Built(d, a).accesses = n.accesses /\ Built(d, a).vsp = n.vsp
    BY <2>5, <2>7 DEF Native
  <2> QED  BY <2>6, <2>8 DEF Ordinary
<1> HIDE DEF Built
<1> QED  BY <1>1, <1>2

LEMMA WriteMemOrdinary ==
  \A h \in WriteMems : Ordinary(h)
<1> DEFINE Accesses(d, a, b) ==
             <<Load(1, Vsp, 8, a), Load(2, Vsp + 8, StackSize(d), b),
               Store(a, d, b, From(IF d = 1 THEN "extract" ELSE "", "var", 0, <<Mem(2)>>))>>
           Plain3(d, a, b) == Native("WriteMem", d, Accesses(d, a, b), 4, 8 + StackSize(d))
           Built(d, a, b) == [Plain3(d, a, b) EXCEPT !.a = a, !.b = b]
           Inputs == UNION {{d} \X Operands(8) \X SecondOperands(d) : d \in Widths}
<1>1. WriteMems = {Built(ab[1], ab[2], ab[3]) : ab \in Inputs}
  BY DEF WriteMems
<1>2. ASSUME NEW d \in Widths, NEW a, NEW b PROVE Ordinary(Built(d, a, b))
  <2>1. PICK pointer, load, store :
          /\ pointer = Load(1, Vsp, 8, a) /\ load = Load(2, Vsp + 8, StackSize(d), b)
          /\ store = Store(a, d, b, From(IF d = 1 THEN "extract" ELSE "", "var", 0, <<Mem(2)>>))
    OBVIOUS
  <2>2. Quiet(pointer, "WriteMem") /\ Quiet(load, "WriteMem") /\ Quiet(store, "WriteMem")
    BY <2>1, QuietAccesses, QuietStores
  <2>3. QuietSeq(<<pointer, load, store>>, "WriteMem")
    BY <2>2, QuietTuples
  <2>4. 8 + StackSize(d) \in Int
    BY WidthFacts
  <2>5. PICK n : n = Native("WriteMem", d, <<pointer, load, store>>, 4, 8 + StackSize(d))
    OBVIOUS
  <2>6. Ordinary(n)
    BY <2>3, <2>4, <2>5, NativeOrdinary DEF Control
  <2>7. Built(d, a, b) = [n EXCEPT !.a = a, !.b = b]
    BY <2>1, <2>5
  <2> HIDE DEF Built
  <2>8. /\ Built(d, a, b).op = n.op /\ Built(d, a, b).change = n.change
        /\ Built(d, a, b).accesses = n.accesses /\ Built(d, a, b).vsp = n.vsp
    BY <2>5, <2>7 DEF Native
  <2> QED  BY <2>6, <2>8 DEF Ordinary
<1>3. \A ab \in Inputs : ab[1] \in Widths
  OBVIOUS
<1> HIDE DEF Built, Inputs
<1> QED  BY <1>1, <1>2, <1>3

(* The arithmetic with flags: the result shows the operation.              *)
LEMMA WithFlagsOrdinary ==
  ASSUME NEW op, op \notin Control, NEW d \in Widths, NEW loads, QuietSeq(loads, op),
         NEW node, NEW of, NEW popped \in Int, NEW a, NEW b,
         \A addr, size, value, wrap : Quiet(Store(addr, size, value, From(wrap, node, 0, of)), op),
         op \in {"Shld", "Shrd"} => Len(loads) \in Nat /\ Len(loads) >= 2 /\ PairAt(loads)
  PROVE  Ordinary(WithFlags(op, d, loads, node, of, popped, a, b))
<1> DEFINE size == StackSize(d)
           at == Vsp + popped - size - 8
           from == From(IF d = 1 THEN "zx" ELSE "", node, 0, of)
<1>1. PICK result, pushed, popped8, flags :
        /\ result = Store(at + 8, size, 1, from)
        /\ pushed = By(Store(Rsp - 8, 8, Flags, From("", "concat", 0, of)), "pushfq")
        /\ popped8 = Access("read", Rsp - 8, 8, Flags, Copy(<<"flags", 0>>))
        /\ flags = Store(at, 8, Flags, Copy(<<"flags", 0>>))
  OBVIOUS
<1>2. Quiet(result, op)
  BY <1>1
<1>3. Quiet(pushed, op)
  <2>1. PICK s : s = Store(Rsp - 8, 8, Flags, From("", "concat", 0, of))
    OBVIOUS
  <2>2. Quiet(s, op)
    BY <2>1, QuietStores
  <2>3. pushed.kind = s.kind /\ pushed.from = s.from /\ pushed.instruction = "pushfq"
    BY <1>1, <2>1 DEF By, Store, Access
  <2> QED  BY <2>2, <2>3 DEF Quiet
<1>4. Quiet(popped8, op)
  <2>1. popped8.kind = "read" /\ popped8.instruction = "mov"
    BY <1>1 DEF Access
  <2> QED  BY <2>1 DEF Quiet
<1>5. Quiet(flags, op)
  BY <1>1, QuietStores
<1>6. PICK tail : tail = <<result, pushed, popped8, flags>>
  OBVIOUS
<1>7. QuietSeq(tail, op)
  BY <1>2, <1>3, <1>4, <1>5, <1>6, QuietTuples
<1>8. PICK accesses : accesses = loads \o tail
  OBVIOUS
<1>9. QuietSeq(accesses, op) /\ \A i \in 1..Len(loads) : accesses[i] = loads[i]
  BY <1>7, <1>8, QuietConcat
<1>10. PICK n : n = Native(op, d, accesses, 4, popped - size - 8)
  OBVIOUS
<1>11. WithFlags(op, d, loads, node, of, popped, a, b) = [n EXCEPT !.a = a, !.b = b]
  BY <1>1, <1>6, <1>8, <1>10 DEF WithFlags
<1>12. PICK h : h = WithFlags(op, d, loads, node, of, popped, a, b)
  OBVIOUS
<1>13. h.op = n.op /\ h.change = n.change /\ h.accesses = n.accesses /\ h.vsp = n.vsp
  BY <1>10, <1>11, <1>12 DEF Native
<1>14. popped - size - 8 \in Int
  BY WidthFacts
<1> HIDE DEF at, from, size
<1>15. /\ n.op = op /\ n.change = popped - size - 8
       /\ n.vsp = Plus(Reg(vspOf), popped - size - 8)
       /\ QuietSeq(n.accesses, op)
       /\ \A i \in 1..Len(accesses) : n.accesses[i] = accesses[i]
  <2>1. PICK change : change = popped - size - 8
    OBVIOUS
  <2>2. /\ Native(op, d, accesses, 4, change).op = op
        /\ Native(op, d, accesses, 4, change).change = change
        /\ Native(op, d, accesses, 4, change).vsp = Plus(Reg(vspOf), change)
        /\ QuietSeq(Native(op, d, accesses, 4, change).accesses, op)
        /\ \A i \in 1..Len(accesses) :
             Native(op, d, accesses, 4, change).accesses[i] = accesses[i]
    <3>1. QuietSeq(accesses, op)
      BY <1>9
    <3> QED  BY <3>1, NativeFacts
  <2>3. n = Native(op, d, accesses, 4, change)
    BY <1>10, <2>1, Zenon
  <2> QED  BY <2>1, <2>2, <2>3
<1>16. op \in {"Shld", "Shrd"} => PairAt(n.accesses)
  <2> SUFFICES ASSUME op \in {"Shld", "Shrd"} PROVE PairAt(n.accesses)
    OBVIOUS
  <2>1. 1 \in 1..Len(loads) /\ 2 \in 1..Len(loads)
    OBVIOUS
  <2>2. accesses[1] = loads[1] /\ accesses[2] = loads[2]
    BY <1>9, <2>1
  <2>3. 1 \in 1..Len(accesses) /\ 2 \in 1..Len(accesses)
    <3>1. PICK S : loads \in Seq(S)
      BY DEF QuietSeq
    <3>2. PICK T : tail \in Seq(T)
      BY <1>7 DEF QuietSeq
    <3>3. PICK U : U = S \cup T
      OBVIOUS
    <3>4. loads \in Seq(U) /\ tail \in Seq(U)
      BY <3>1, <3>2, <3>3, SeqMonotonic
    <3>5. Len(accesses) = Len(loads) + Len(tail) /\ Len(tail) \in Nat
      BY <1>8, <3>4, ConcatProperties, LenProperties
    <3> QED  BY <3>5
  <2> QED  BY <1>15, <2>2, <2>3 DEF PairAt
<1> QED  BY <1>12, <1>13, <1>14, <1>15, <1>16 DEF Ordinary

LEMMA ResultQuiet ==
  ASSUME NEW op, NEW node, NEW of,
         \/ <<op, node>> \in BinaryOps \cup ShiftOps
         \/ node = "or of shifts" /\ op = "Shld" /\ of = <<Mem(1), Mem(2)>>
         \/ node = "or of shifts" /\ op = "Shrd" /\ of = <<Mem(2), Mem(1)>>
  PROVE  \A addr, size, value, wrap :
           Quiet(Store(addr, size, value, From(wrap, node, 0, of)), op)
<1> SUFFICES ASSUME NEW addr, NEW size, NEW value, NEW wrap
             PROVE  Quiet(Store(addr, size, value, From(wrap, node, 0, of)), op)
  OBVIOUS
<1>1. PICK from : from = From(wrap, node, 0, of)
  OBVIOUS
<1>2. from.node = node /\ from.of = of
  BY <1>1 DEF From
<1>3. /\ Store(addr, size, value, from).from = from
      /\ Store(addr, size, value, from).instruction = "mov"
  BY DEF Store, Access
<1>4. DetectAluOperation(from) \in {op, "Unknown"}
  BY <1>2 DEF DetectAluOperation, BinaryOps, ShiftOps
<1>5. node = "or of shifts" => \/ op = "Shld" /\ of = <<Mem(1), Mem(2)>>
                               \/ op = "Shrd" /\ of = <<Mem(2), Mem(1)>>
  BY DEF BinaryOps, ShiftOps
<1> QED  BY <1>1, <1>2, <1>3, <1>4, <1>5 DEF Quiet

LEMMA ArithmeticOrdinary ==
  ASSUME Vsp \in Int PROVE \A h \in Binaries \cup Shifts \cup DoubleShifts : Ordinary(h)
<1> DEFINE Ops == {<<"Shld", <<Mem(1), Mem(2)>>>>, <<"Shrd", <<Mem(2), Mem(1)>>>>}
           Built(op, d) ==
             WithFlags(op[1], d,
                       <<Load(1, Vsp, d, 7), Load(2, Vsp + d, d, 7), Load(3, Vsp + 2 * d, 1, 1)>>,
                       "or of shifts", op[2], 2 * d + 2, 7, 7)
<1>0. DoubleShifts = {Built(op, d) : op \in Ops, d \in Widths \ {1}}
  BY DEF DoubleShifts
<1> HIDE DEF Built, Ops
<1> SUFFICES ASSUME NEW h \in Binaries \cup Shifts \cup DoubleShifts PROVE Ordinary(h)
  OBVIOUS
<1>1. CASE h \in Binaries
  <2>1. PICK d \in Widths, op \in BinaryOps : \E a, b :
          h = WithFlags(op[1], d,
                        <<Load(1, Vsp, StackSize(d), a),
                          Load(2, Vsp + StackSize(d), StackSize(d), b)>>,
                        op[2], <<Mem(1), Mem(2)>>, 2 * StackSize(d), a, b)
    BY <1>1 DEF Binaries
  <2>2. PICK a, b, first, second, name, node :
          /\ first = Load(1, Vsp, StackSize(d), a)
          /\ second = Load(2, Vsp + StackSize(d), StackSize(d), b)
          /\ name = op[1] /\ node = op[2]
          /\ h = WithFlags(name, d, <<first, second>>, node, <<Mem(1), Mem(2)>>,
                           2 * StackSize(d), a, b)
    BY <2>1
  <2>3. /\ <<name, node>> \in BinaryOps
        /\ name \notin Control /\ name \notin {"Shld", "Shrd"}
    <3>1. op \in {<<"Add", "bvadd">>, <<"Nor", "not or">>, <<"Nand", "not and">>}
      BY DEF BinaryOps
    <3>2. <<op[1], op[2]>> = op /\ op[1] \in {"Add", "Nor", "Nand"}
      <4>1. CASE op = <<"Add", "bvadd">>
        BY <4>1
      <4>2. CASE op = <<"Nor", "not or">>
        BY <4>2
      <4>3. CASE op = <<"Nand", "not and">>
        BY <4>3
      <4> QED  BY <3>1, <4>1, <4>2, <4>3
    <3> QED  BY <2>2, <3>2 DEF Control
  <2>4. Quiet(first, name) /\ Quiet(second, name)
    BY <2>2, QuietAccesses
  <2>5. QuietSeq(<<first, second>>, name)
    BY <2>4, QuietTuples
  <2>6. 2 * StackSize(d) \in Int
    BY WidthFacts
  <2>7. \A addr, size, value, wrap :
          Quiet(Store(addr, size, value, From(wrap, node, 0, <<Mem(1), Mem(2)>>)), name)
    BY <2>3, ResultQuiet
  <2> QED  BY <2>2, <2>3, <2>5, <2>6, <2>7, WithFlagsOrdinary
<1>2. CASE h \in Shifts
  <2>1. PICK d \in Widths, op \in ShiftOps :
          h = WithFlags(op[1], d,
                        <<Load(1, Vsp, StackSize(d), 7),
                          Load(2, Vsp + StackSize(d), 1, 1)>>,
                        op[2], <<Mem(1), Mem(2)>>, StackSize(d) + 2, 7, 1)
    BY <1>2 DEF Shifts
  <2>2. PICK first, second, name, node :
          /\ first = Load(1, Vsp, StackSize(d), 7)
          /\ second = Load(2, Vsp + StackSize(d), 1, 1)
          /\ name = op[1] /\ node = op[2]
    OBVIOUS
  <2>3. /\ <<name, node>> \in ShiftOps
        /\ name \notin Control /\ name \notin {"Shld", "Shrd"}
    BY <2>2 DEF ShiftOps, Control
  <2>4. Quiet(first, name) /\ Quiet(second, name)
    BY <2>2, QuietAccesses
  <2>5. QuietSeq(<<first, second>>, name)
    BY <2>4, QuietTuples
  <2>6. StackSize(d) + 2 \in Int
    BY WidthFacts
  <2>7. \A addr, size, value, wrap :
          Quiet(Store(addr, size, value, From(wrap, node, 0, <<Mem(1), Mem(2)>>)), name)
    BY <2>3, ResultQuiet
  <2> QED  BY <2>1, <2>2, <2>3, <2>5, <2>6, <2>7, WithFlagsOrdinary
<1>3. CASE h \in DoubleShifts
  <2>0. PICK d \in Widths, op \in Ops : h = Built(op, d)
    BY <1>0, <1>3
  <2>1. h = WithFlags(op[1], d,
                      <<Load(1, Vsp, d, 7), Load(2, Vsp + d, d, 7), Load(3, Vsp + 2 * d, 1, 1)>>,
                      "or of shifts", op[2], 2 * d + 2, 7, 7)
    BY <2>0 DEF Built
  <2>2. PICK first, second, third, loads, name, of :
          /\ first = Load(1, Vsp, d, 7) /\ second = Load(2, Vsp + d, d, 7)
          /\ third = Load(3, Vsp + 2 * d, 1, 1)
          /\ loads = <<first, second, third>>
          /\ name = op[1] /\ of = op[2]
    OBVIOUS
  <2>3. \/ name = "Shld" /\ of = <<Mem(1), Mem(2)>>
        \/ name = "Shrd" /\ of = <<Mem(2), Mem(1)>>
    BY <2>0, <2>2 DEF Ops
  <2>4. Quiet(first, name) /\ Quiet(second, name) /\ Quiet(third, name)
    BY <2>2, QuietAccesses
  <2>5. QuietSeq(loads, name)
    BY <2>2, <2>4, QuietTuples
  <2>6. 2 * d + 2 \in Int /\ name \notin Control
    BY <2>3, WidthFacts DEF Control
  <2>7. \A addr, size, value, wrap :
          Quiet(Store(addr, size, value, From(wrap, "or of shifts", 0, of)), name)
    BY <2>3, ResultQuiet
  <2>8. Len(loads) \in Nat /\ Len(loads) >= 2 /\ PairAt(loads)
    <3>1. Len(loads) = 3 /\ loads[1] = first /\ loads[2] = second
      BY <2>2
    <3>2. first.addr = Vsp /\ second.addr = Vsp + d
      BY <2>2 DEF Load, Access
    <3>3. PICK v \in Int : v = Vsp
      OBVIOUS
    <3>4. second.addr - v \in 1..8 /\ second.addr \in Int
      BY <3>2, <3>3, WidthFacts
    <3> QED  BY <3>1, <3>2, <3>3, <3>4 DEF PairAt
  <2> QED  BY <2>1, <2>2, <2>5, <2>6, <2>7, <2>8, WithFlagsOrdinary
<1> QED  BY <1>1, <1>2, <1>3

LEMMA StraightOrdinary ==
  ASSUME Vsp \in Int PROVE \A h \in Straight : Ordinary(h)
BY MovesOrdinary, PopVspOrdinary, ReadMemOrdinary, WriteMemOrdinary, ArithmeticOrdinary
   DEF Straight

-----------------------------------------------------------------------------
(* What quiet accesses may be taken for.                                   *)
QuietRun(run, op, n) == \A i \in 1..n : Quiet(run.accesses[i], op)

LEMMA QuietNoExit ==
  ASSUME NEW run, NEW op, NEW n, QuietRun(run, op, n), NEW complete \in BOOLEAN
  PROVE  TryMatchVmExit(DataOf(run, n, complete)) = {}
<1> DEFINE data == DataOf(run, n, complete)
           view == ViewOf(run)
<1>1. data.logicReads = Recorded(view, "read", n)
  BY DataAccesses
<1>2. view.accesses = run.accesses
  BY DEF ViewOf
<1> HIDE DEF data, view
<1>3. ASSUME NEW r \in data.logicReads PROVE r.instruction \notin {"pop", "popfq"}
  <2>1. PICK i \in 1..n : r.instruction = view.accesses[i].instruction
    BY <1>1, RecordedFacts
  <2>2. Quiet(run.accesses[i], op)
    BY DEF QuietRun
  <2> QED  BY <1>2, <2>1, <2>2 DEF Quiet
<1> QED  BY <1>3, NoPops DEF data

LEMMA WrittenFrom ==
  ASSUME NEW run, NEW op, NEW n, QuietRun(run, op, n), NEW complete \in BOOLEAN,
         NEW w \in DataOf(run, n, complete).logicWrites
  PROVE  \E i \in 1..n : /\ Quiet(run.accesses[i], op)
                         /\ run.accesses[i].kind = "write"
                         /\ w.ast = AstOf(ViewOf(run), run.accesses[i].from)
<1>1. w \in Recorded(ViewOf(run), "write", n)
  BY DataAccesses
<1>2. PICK i \in 1..n :
        /\ ViewOf(run).accesses[i].kind = "write"
        /\ w.ast = AstOf(ViewOf(run), ViewOf(run).accesses[i].from)
  BY <1>1, RecordedFacts
<1>3. ViewOf(run).accesses = run.accesses
  BY DEF ViewOf
<1> QED  BY <1>2, <1>3 DEF QuietRun

LEMMA QuietAlu ==
  ASSUME NEW run, NEW op, NEW n, QuietRun(run, op, n), NEW complete \in BOOLEAN,
         NEW m \in TryMatchGenericVmAlu(DataOf(run, n, complete))
  PROVE  m.type = op /\ m.type \in Logic /\ m.type \notin Control
<1>1. PICK w \in DataOf(run, n, complete).logicWrites : m.type = DetectAluOperation(w.ast)
  BY AluTypes
<1>2. PICK a : /\ Quiet(a, op) /\ a.kind = "write"
               /\ w.ast = AstOf(ViewOf(run), a.from)
  BY WrittenFrom
<1>3. w.ast.node \in {a.from.node, "bv"}
  BY <1>2, ShownOperation
<1>4. m.type # "Unknown" /\ m.type \notin Control
  BY AluTypes
<1>5. m.type = DetectAluOperation(a.from)
  BY <1>1, <1>3, <1>4 DEF DetectAluOperation
<1>6. m.type = op
  BY <1>2, <1>4, <1>5 DEF Quiet
<1>7. m.type \in Logic
  <2>1. m.type \in {"Add", "Shr", "Shl", "Rol", "Ror", "Nor", "Nand"}
    BY <1>1, <1>4, OperationTypes
  <2>2. /\ \A op1 \in {"Add", "Nor", "Nand"} : \E x \in BinaryOps : x[1] = op1
        /\ \A op1 \in {"Shl", "Shr", "Rol", "Ror"} : \E x \in ShiftOps : x[1] = op1
    BY DEF BinaryOps, ShiftOps
  <2> QED  BY <2>1, <2>2 DEF Logic, Flagged
<1> QED  BY <1>4, <1>6, <1>7

(* The two operands of a double shift lie so close together that, if one   *)
(* is taken for the top of the stack, the one below it has no name or both *)
(* are taken for registers.                                                *)
LEMMA OnlyTop ==
  ASSUME NEW vsp \in Int, NEW rsp \in Int, NEW low \in Int, NEW d \in 1..8,
         SymbolOf(low + d, vsp, rsp) = StackArg(0)
  PROVE  SymbolOf(low, vsp, rsp) = NoName
<1>1. VmReg(low + d - rsp) # StackArg(0) /\ NoName # StackArg(0)
  BY DEF VmReg, StackArg, NoName
<1>2. \A k \in Int : StackArg(k) = StackArg(0) => k = 0
  BY DEF StackArg
<1>3. /\ low + d < ImageBase /\ vsp # 0
      /\ ~(low + d >= rsp /\ (vsp < 8 \/ low + d < vsp - 8))
      /\ low + d = vsp
  BY <1>1, <1>2, RegsAssumption DEF SymbolOf
<1>4. ~(low >= rsp /\ (vsp < 8 \/ low < vsp - 8)) /\ low \notin vsp..(vsp + 255)
  BY <1>3
<1> QED  BY <1>4 DEF SymbolOf

LEMMA QuietDoubleShift ==
  ASSUME NEW run, NEW op, NEW n, QuietRun(run, op, n), NEW complete \in BOOLEAN,
         Vsp \in Int, Rsp \in Int, StartOf(vspReg) \in Int,
         op \in {"Shld", "Shrd"} => PairAt(run.accesses),
         NEW m \in TryMatchVmDoubleShift(DataOf(run, n, complete))
  PROVE  m.type \notin Control /\ (m.type = "Unknown" \/ (m.type = op /\ m.type \in Logic))
<1> DEFINE view == ViewOf(run)
<1>1. PICK w \in DataOf(run, n, complete).logicWrites :
        /\ w.ast.node = "or of shifts" /\ Len(w.ast.vars) = 2
        /\ m.type = IF w.ast.vars[1] = StackArg(0) THEN "Shld"
                    ELSE IF w.ast.vars[2] = StackArg(0) THEN "Shrd" ELSE "Unknown"
  BY DoubleShiftTypes
<1>2. PICK a : /\ Quiet(a, op) /\ a.kind = "write"
               /\ w.ast = AstOf(view, a.from)
  BY WrittenFrom
<1>3. w.ast = Tree(a.from.wrap, a.from.node, NamesOf(view, a.from.of), a.from.k)
  <2>1. Integer.node # "or of shifts"
    BY DEF Integer, Tree
  <2> QED  BY <1>1, <1>2, <2>1, ShownOperation
<1>4. w.ast.vars = NamesOf(view, a.from.of) /\ a.from.node = "or of shifts"
  <2>1. PICK wrap, node, names, k : /\ wrap = a.from.wrap /\ node = a.from.node
                                    /\ names = NamesOf(view, a.from.of) /\ k = a.from.k
    OBVIOUS
  <2>2. Tree(wrap, node, names, k).vars = names /\ Tree(wrap, node, names, k).node = node
    BY DEF Tree
  <2> QED  BY <1>1, <1>3, <2>1, <2>2
<1>5. \/ op = "Shld" /\ a.from.of = <<Mem(1), Mem(2)>>
      \/ op = "Shrd" /\ a.from.of = <<Mem(2), Mem(1)>>
  BY <1>2, <1>4 DEF Quiet
<1>6. "Shld" \in Logic /\ "Shrd" \in Logic
  BY DEF Logic
<1>7. PICK low \in Int, d \in 1..8, vsp \in Int, rsp \in Int :
        /\ run.accesses[1].addr = low /\ run.accesses[2].addr = low + d
        /\ vsp = StartOf(vspReg) /\ rsp = Rsp
  <2>1. PICK low \in Int, high \in Int : low = Vsp /\ high = run.accesses[2].addr
    BY <1>5 DEF PairAt
  <2>2. high - low \in 1..8 /\ high = low + (high - low)
    BY <1>5, <2>1 DEF PairAt
  <2> QED  BY <1>5, <2>1, <2>2 DEF PairAt
<1>8. /\ NameOf(view, Mem(1)) = SymbolOf(low, vsp, rsp)
      /\ NameOf(view, Mem(2)) = SymbolOf(low + d, vsp, rsp)
  BY <1>7 DEF NameOf, Mem, ViewOf
<1>9. NameOf(view, Mem(2)) = StackArg(0) => NameOf(view, Mem(1)) = NoName
  BY <1>8, OnlyTop
<1>10. CASE op = "Shld"
  <2>1. a.from.of = <<Mem(1), Mem(2)>>
    BY <1>5, <1>10
  <2>2. /\ w.ast.vars = NamesOf(view, <<Mem(1), Mem(2)>>)
        /\ Len(NamesOf(view, <<Mem(1), Mem(2)>>)) = 2
    BY <1>1, <1>4, <2>1
  <2>3. /\ w.ast.vars[2] = NameOf(view, Mem(2))
        /\ NameOf(view, Mem(1)) # NoName
    BY <2>2, NamesOfTwo
  <2>4. w.ast.vars[2] # StackArg(0)
    BY <1>9, <2>3
  <2>5. m.type = "Shld" \/ m.type = "Unknown"
    BY <1>1, <2>4
  <2> QED  BY <1>6, <1>10, <2>5 DEF Control
<1>11. CASE op = "Shrd"
  <2>1. a.from.of = <<Mem(2), Mem(1)>>
    BY <1>5, <1>11
  <2>2. /\ w.ast.vars = NamesOf(view, <<Mem(2), Mem(1)>>)
        /\ Len(NamesOf(view, <<Mem(2), Mem(1)>>)) = 2
    BY <1>1, <1>4, <2>1
  <2>3. /\ w.ast.vars[1] = NameOf(view, Mem(2))
        /\ NameOf(view, Mem(1)) # NoName
    BY <2>2, NamesOfTwo
  <2>4. w.ast.vars[1] # StackArg(0)
    BY <1>9, <2>3
  <2>5. m.type = "Shrd" \/ m.type = "Unknown"
    BY <1>1, <2>4
  <2> QED  BY <1>6, <1>11, <2>5 DEF Control
<1> QED  BY <1>5, <1>10, <1>11

(* A quiet handler is taken for an entry or a jump by its registers, or    *)
(* for neither; half emulated it is taken for itself or for nothing.       *)
LEMMA QuietMatch ==
  ASSUME NEW run, NEW op, NEW n, QuietRun(run, op, n),
         op \in {"Shld", "Shrd"} => PairAt(run.accesses),
         NEW complete \in BOOLEAN,
         Vsp \in Int, Rsp \in Int, StartOf(vspReg) \in Int,
         NEW m, m = MatchVmHandler(DataOf(run, n, complete))
  PROVE  /\ \/ m \in TryMatchVmEntry(DataOf(run, n, complete))
            \/ m \in TryMatchVmJmpIndirectRemap(DataOf(run, n, complete))
            \/ m.type \notin Control
         /\ ~complete => \/ m.type = "Unknown"
                         \/ m.type = op /\ m.type \in Logic /\ m.type \notin Control
<1>1. PICK data : data = DataOf(run, n, complete)
  OBVIOUS
<1>2. m \in TryMatchVmEntry(data) \cup Plain(data) \cup TryMatchGenericVmAlu(data)
              \cup TryMatchVmDoubleShift(data) \cup TryMatchVmJmpIndirectRemap(data)
              \cup TryMatchVmExit(data) \cup {NoMatch}
  BY <1>1, MatchFacts, Zenon
<1>3. TryMatchVmExit(data) = {}
  BY <1>1, QuietNoExit, Zenon
<1>4. m \in Plain(data) => m.type \notin Control
  BY PlainTypes
<1>5. m \in TryMatchGenericVmAlu(data) =>
        m.type = op /\ m.type \in Logic /\ m.type \notin Control
  BY <1>1, QuietAlu
<1>6. m \in TryMatchVmDoubleShift(data) =>
        m.type \notin Control /\ (m.type = "Unknown" \/ (m.type = op /\ m.type \in Logic))
  BY <1>1, QuietDoubleShift
<1>7. m = NoMatch => m.type = "Unknown" /\ m.type \notin Control
  BY ControlTypes DEF Control
<1>8. ~complete => data.vipAst = {} /\ data.vspAst = {} /\ data.registerAst = <<>>
  BY <1>1, DataFacts, ZenonT(60)
<1>9. ~complete => /\ TryMatchVmEntry(data) = {} /\ TryMatchVmJmpIndirectRemap(data) = {}
                   /\ Plain(data) = {}
  BY <1>8, BlindFacts
<1> QED  BY <1>1, <1>2, <1>3, <1>4, <1>5, <1>6, <1>7, <1>9

-----------------------------------------------------------------------------
(* What the names of the three kinds of sources cannot be.                 *)
LEMMA SourceNames ==
  ASSUME NEW run
  PROVE  /\ \A q : /\ NameOf(ViewOf(run), Reg(q)) \in {VSP, VIP, NoName}
                   /\ NameOf(ViewOf(run), Reg(q)) = VSP => q = vspReg
         /\ \A i : NameOf(ViewOf(run), Mem(i)) \notin {VSP, VM_CONTEXT}
         /\ NameOf(ViewOf(run), <<"rsp", 0>>) = VM_CONTEXT
         /\ VSP # VM_CONTEXT /\ VSP # StackArg(0) /\ VM_CONTEXT # StackArg(0)
         /\ VIP # VM_CONTEXT /\ VIP # StackArg(0) /\ VIP # VSP
         /\ NoName \notin {VIP, VSP, VM_CONTEXT, StackArg(0)}
<1> DEFINE view == ViewOf(run)
<1>1. VSP # VIP /\ VSP # NoName
  BY DEF VSP, VIP, NoName
<1>2. view.vspReg = vspReg /\ view.vipReg = vipReg
  BY DEF ViewOf
<1>3. ASSUME NEW q
      PROVE  NameOf(view, Reg(q)) = IF q = vspReg THEN VSP ELSE IF q = vipReg THEN VIP ELSE NoName
  <2>1. Reg(q)[1] = "reg" /\ Reg(q)[2] = q
    BY DEF Reg
  <2> HIDE DEF view
  <2> QED  BY <1>2, <2>1 DEF NameOf
<1>4. ASSUME NEW i PROVE NameOf(view, Mem(i)) \notin {VSP, VM_CONTEXT}
  <2>1. Mem(i)[1] = "mem"
    BY DEF Mem
  <2>2. PICK addr : NameOf(view, Mem(i)) = SymbolOf(addr, view.vsp, view.rsp)
    <3> HIDE DEF view
    <3> QED  BY <2>1 DEF NameOf
  <2>3. ASSUME NEW k
        PROVE  VmReg(k) \notin {VSP, VM_CONTEXT} /\ StackArg(k) \notin {VSP, VM_CONTEXT}
    BY DEF VmReg, StackArg, VSP, VM_CONTEXT
  <2>4. NoName \notin {VSP, VM_CONTEXT}
    BY DEF NoName, VSP, VM_CONTEXT
  <2>5. PICK vsp, rsp : vsp = view.vsp /\ rsp = view.rsp
    OBVIOUS
  <2>6. SymbolOf(addr, vsp, rsp) \notin {VSP, VM_CONTEXT}
    BY <2>3, <2>4 DEF SymbolOf
  <2> QED  BY <2>2, <2>5, <2>6
<1>5. NameOf(view, <<"rsp", 0>>) = VM_CONTEXT
  BY DEF NameOf
<1>6. /\ VSP # VM_CONTEXT /\ VSP # StackArg(0) /\ VM_CONTEXT # StackArg(0)
      /\ VIP # VM_CONTEXT /\ VIP # StackArg(0)
      /\ NoName \notin {VIP, VSP, VM_CONTEXT, StackArg(0)}
  BY DEF VSP, VIP, VM_CONTEXT, StackArg, NoName
<1> QED  BY <1>1, <1>3, <1>4, <1>5, <1>6

(* The type invariant that the verdicts need.                              *)
LoopInv ==
  /\ top \in Int
  /\ regs \in [Regs -> Int]
  /\ inside \in BOOLEAN
  /\ inside => vipOf \in Regs /\ vspOf \in Regs /\ vipOf # vspOf
  /\ vipOf \in Regs \cup {NoReg}
  /\ vspReg \in Regs \cup {NoReg}

LEMMA StackFacts ==
  ASSUME LoopInv
  PROVE  Vsp \in Int /\ Rsp \in Int /\ Context \in Int /\ StartOf(vspReg) \in Int
<1>1. Context \in Int
  BY DEF LoopInv, Context, EntryPushes, ContextBelow
<1>2. Vsp \in Int /\ Rsp \in Int
  BY <1>1 DEF LoopInv, Vsp, Rsp
<1>3. StartOf(vspReg) \in Int
  BY DEF LoopInv, StartOf
<1> QED  BY <1>1, <1>2, <1>3

LEMMA FinalAst ==
  ASSUME NEW run, NEW n, NEW r
  PROVE  /\ DOMAIN DataOf(run, n, TRUE).registerAst = Regs
         /\ r \in Regs => DataOf(run, n, TRUE).registerAst[r] = AstOf(ViewOf(run), run.final[r])
<1>1. DataOf(run, n, TRUE).registerAst = [reg \in Regs |-> AstOf(ViewOf(run), run.final[reg])]
  BY DataFacts, ZenonT(60)
<1> QED  BY <1>1

(* A register cannot look moved if its value was not.                      *)
Unmoved(from) == from = Known \/ \E source : from.of = <<source>> /\ from.node # "bvadd"
LEMMA UnmovedFacts ==
  ASSUME NEW view, NEW from, Unmoved(from), NEW name
  PROVE  GetAddImmediate(AstOf(view, from), name) = {}
<1>1. CASE from = Known
  BY <1>1, NothingAddedToKnown
<1>2. CASE \E source : from.of = <<source>> /\ from.node # "bvadd"
  BY <1>2, AddedTo
<1> QED  BY <1>1, <1>2 DEF Unmoved

LEMMA CopyUnmoved ==
  \A source : Unmoved(Copy(source))
BY Sources DEF Unmoved

(* An entry or a jump that is recognised has registers that look the part. *)
LEMMA RecognisedEntry ==
  ASSUME NEW run, NEW n, NEW complete \in BOOLEAN,
         NEW m \in TryMatchVmEntry(DataOf(run, n, complete))
  PROVE  /\ complete
         /\ m.type = "Entry"
         /\ m.vspReg \in Regs
         /\ GetAddImmediate(AstOf(ViewOf(run), run.final[m.vspReg]), VM_CONTEXT) # {}
         /\ \E i \in 1..n : /\ run.accesses[i].instruction = "fetch"
                            /\ m.vipReg = run.accesses[i].base
<1>1. PICK data : data = DataOf(run, n, complete)
  OBVIOUS
<1>2. complete
  <2>1. ~complete => data.vipAst = {} /\ data.vspAst = {} /\ data.registerAst = <<>>
    BY <1>1, DataFacts, ZenonT(60)
  <2> QED  BY <1>1, <2>1, BlindFacts
<1>3. /\ m.type = "Entry"
      /\ \E fetch \in data.logicReads : fetch.instruction = "fetch" /\ m.vipReg = fetch.base
      /\ m.vspReg \in DOMAIN data.registerAst
      /\ GetAddImmediate(data.registerAst[m.vspReg], VM_CONTEXT) # {}
  BY <1>1, EntryFacts
<1>4. data = DataOf(run, n, TRUE)
  BY <1>1, <1>2
<1>5. /\ m.vspReg \in Regs
      /\ data.registerAst[m.vspReg] = AstOf(ViewOf(run), run.final[m.vspReg])
  <2>1. PICK r : r = m.vspReg
    OBVIOUS
  <2>2. r \in Regs
    BY <1>3, <1>4, <2>1, FinalAst
  <2>3. data.registerAst[r] = AstOf(ViewOf(run), run.final[r])
    BY <1>4, <2>2, FinalAst
  <2> QED  BY <2>1, <2>2, <2>3
<1>6. \E i \in 1..n : /\ run.accesses[i].instruction = "fetch"
                      /\ m.vipReg = run.accesses[i].base
  <2>1. PICK fetch \in Recorded(ViewOf(run), "read", n) :
          fetch.instruction = "fetch" /\ m.vipReg = fetch.base
    BY <1>3, <1>4, DataAccesses
  <2>2. ViewOf(run).accesses = run.accesses
    BY DEF ViewOf
  <2> QED  BY <2>1, <2>2, RecordedFacts
<1> QED  BY <1>2, <1>3, <1>5, <1>6

LEMMA RecognisedJump ==
  ASSUME NEW run, NEW n, NEW complete \in BOOLEAN,
         NEW m \in TryMatchVmJmpIndirectRemap(DataOf(run, n, complete))
  PROVE  /\ complete
         /\ m.type = "Jmp"
         /\ m.vspReg \in Regs /\ m.vipReg \in Regs
         /\ 8 \in GetAddImmediate(AstOf(ViewOf(run), run.final[m.vspReg]), VSP)
         /\ GetAddImmediate(AstOf(ViewOf(run), run.final[m.vipReg]), StackArg(0)) # {}
<1>1. PICK data : data = DataOf(run, n, complete)
  OBVIOUS
<1>2. complete
  <2>1. ~complete => data.vipAst = {} /\ data.vspAst = {} /\ data.registerAst = <<>>
    BY <1>1, DataFacts, ZenonT(60)
  <2> QED  BY <1>1, <2>1, BlindFacts
<1>3. /\ m.type = "Jmp"
      /\ m.vspReg \in DOMAIN data.registerAst /\ m.vipReg \in DOMAIN data.registerAst
      /\ 8 \in GetAddImmediate(data.registerAst[m.vspReg], VSP)
      /\ GetAddImmediate(data.registerAst[m.vipReg], StackArg(0)) # {}
  BY <1>1, JumpFacts
<1>4. data = DataOf(run, n, TRUE)
  BY <1>1, <1>2
<1>5. /\ m.vspReg \in Regs /\ m.vipReg \in Regs
      /\ data.registerAst[m.vspReg] = AstOf(ViewOf(run), run.final[m.vspReg])
      /\ data.registerAst[m.vipReg] = AstOf(ViewOf(run), run.final[m.vipReg])
  BY <1>3, <1>4, FinalAst, ZenonT(60)
<1> QED  BY <1>2, <1>3, <1>5

(* A straight handler is taken for no entry, no jump and no exit.          *)
LEMMA StraightVerdict ==
  ASSUME LoopInv, NEW h \in Straight, NEW left,
         NEW run, run = RunOf(h, vipOf, vspOf, Plus(Reg(vipOf), h.taken), h.vsp, left, Rsp),
         NEW n, \A i \in 1..n : i \in 1..Len(h.accesses), NEW complete \in BOOLEAN,
         NEW m, m = MatchVmHandler(DataOf(run, n, complete))
  PROVE  /\ m.type \notin Control
         /\ ~complete => m.type = "Unknown" \/ (m.type = h.op /\ m.type \in Logic)
<1>1. Vsp \in Int /\ Rsp \in Int /\ StartOf(vspReg) \in Int
  BY StackFacts
<1>2. Ordinary(h)
  BY <1>1, StraightOrdinary
<1>3. run.accesses = h.accesses
  BY DEF RunOf
<1>4. QuietRun(run, h.op, n)
  BY <1>2, <1>3 DEF QuietRun, QuietSeq, Ordinary
<1>5. h.op \in {"Shld", "Shrd"} => PairAt(run.accesses)
  BY <1>2, <1>3 DEF Ordinary
<1>6. /\ \/ m \in TryMatchVmEntry(DataOf(run, n, complete))
         \/ m \in TryMatchVmJmpIndirectRemap(DataOf(run, n, complete))
         \/ m.type \notin Control
      /\ ~complete => \/ m.type = "Unknown"
                      \/ m.type = h.op /\ m.type \in Logic /\ m.type \notin Control
  BY <1>1, <1>4, <1>5, QuietMatch
<1>7. ASSUME NEW r \in Regs
      PROVE  Unmoved(run.final[r]) \/ \E q, k : run.final[r] = Plus(Reg(q), k)
  <2>1. run.final[r] \in {h.vsp, Plus(Reg(vipOf), h.taken), Copy(Reg(r)), Known}
    BY DEF RunOf
  <2>2. h.vsp = Plus(Reg(vspOf), h.change) \/ h.vsp = Copy(Mem(1))
    BY <1>2 DEF Ordinary
  <2>3. Unmoved(Known)
    BY DEF Unmoved
  <2> QED  BY <2>1, <2>2, <2>3, CopyUnmoved
<1>8. ASSUME NEW r \in Regs, NEW name \in {VM_CONTEXT, StackArg(0)}
      PROVE  GetAddImmediate(AstOf(ViewOf(run), run.final[r]), name) = {}
  <2>1. CASE Unmoved(run.final[r])
    BY <2>1, UnmovedFacts
  <2>2. CASE \E q, k : run.final[r] = Plus(Reg(q), k)
    <3>1. PICK q : run.final[r].of = <<Reg(q)>>
      BY <2>2, Sources
    <3>2. NameOf(ViewOf(run), Reg(q)) # name
      <4>1. NameOf(ViewOf(run), Reg(q)) \in {VSP, VIP, NoName}
        BY SourceNames
      <4> QED  BY <4>1, SourceNames
    <3> QED  BY <3>1, <3>2, AddedTo
  <2> QED  BY <1>7, <2>1, <2>2
<1>9. m \notin TryMatchVmEntry(DataOf(run, n, complete))
  BY <1>8, RecognisedEntry, ZenonT(60)
<1>10. m \notin TryMatchVmJmpIndirectRemap(DataOf(run, n, complete))
  BY <1>8, RecognisedJump, ZenonT(60)
<1> QED  BY <1>6, <1>9, <1>10

-----------------------------------------------------------------------------
(* A jump: whoever takes it for one has found VIP, and VSP or a copy.      *)
LEMMA JumpAccesses ==
  ASSUME NEW newVip, NEW h, h = Jumps(newVip)
  PROVE  h.op = "Jmp" /\ h.change = 8 /\ QuietSeq(h.accesses, "Jmp")
<1>1. PICK load, fetch : load = Load(1, Vsp, 8, Bytecode) /\ fetch = Fetch(2, newVip)
  OBVIOUS
<1>2. h.op = "Jmp" /\ h.change = 8 /\ h.accesses = <<load, fetch>>
  BY <1>1 DEF Jumps
<1>3. Quiet(load, "Jmp") /\ Quiet(fetch, "Jmp")
  BY <1>1, QuietAccesses
<1> QED  BY <1>2, <1>3, QuietTuples

JumpTaken(run, newVip, complete, m) ==
  /\ m.type \in Control => /\ m.type = "Jmp" /\ complete
                           /\ m.vipReg = newVip /\ m.vspReg \in Regs
                           /\ run.value[m.vspReg] = Vsp + 8
                           /\ vspReg = vspOf
  /\ ~complete => m.type = "Unknown"

LEMMA JumpVerdict ==
  ASSUME LoopInv, NEW newVip \in Regs, NEW newVsp \in Regs, newVip # newVsp,
         NEW left, left[newVsp] = Kept, left[newVip] = Kept,
         NEW h, h = Jumps(newVip),
         NEW run, run = RunOf(h, newVip, newVsp, Plus(Mem(1), 4), Plus(Reg(vspOf), 8), left, Rsp),
         NEW n, \A i \in 1..n : i \in 1..Len(h.accesses), NEW complete \in BOOLEAN,
         NEW m, m = MatchVmHandler(DataOf(run, n, complete))
  PROVE  JumpTaken(run, newVip, complete, m)
<1>1. Vsp \in Int /\ Rsp \in Int /\ StartOf(vspReg) \in Int
  BY StackFacts
<1>2. h.op = "Jmp" /\ h.change = 8 /\ QuietSeq(h.accesses, "Jmp")
  BY JumpAccesses
<1>3. run.accesses = h.accesses
  BY DEF RunOf
<1>4. QuietRun(run, "Jmp", n)
  BY <1>2, <1>3 DEF QuietRun, QuietSeq
<1>5. /\ \/ m \in TryMatchVmEntry(DataOf(run, n, complete))
         \/ m \in TryMatchVmJmpIndirectRemap(DataOf(run, n, complete))
         \/ m.type \notin Control
      /\ ~complete => \/ m.type = "Unknown"
                      \/ m.type = "Jmp" /\ m.type \in Logic /\ m.type \notin Control
  BY <1>1, <1>4, QuietMatch
<1>6. ASSUME NEW r \in Regs
      PROVE  \/ run.final[r] = Plus(Reg(vspOf), 8) /\ run.value[r] = Vsp + 8
             \/ r = newVip /\ run.final[r] = Plus(Mem(1), 4)
             \/ Unmoved(run.final[r])
  <2>1. \/ run.final[r] = Plus(Reg(vspOf), 8) /\ run.value[r] = Vsp + h.change
        \/ r = newVip /\ run.final[r] = Plus(Mem(1), 4)
        \/ run.final[r] \in {Copy(Reg(r)), Known}
    BY DEF RunOf
  <2> QED  BY <1>2, <2>1, CopyUnmoved DEF Unmoved
<1>7. ASSUME NEW r \in Regs
      PROVE  /\ GetAddImmediate(AstOf(ViewOf(run), run.final[r]), VM_CONTEXT) = {}
             /\ GetAddImmediate(AstOf(ViewOf(run), run.final[r]), StackArg(0)) # {} => r = newVip
             /\ GetAddImmediate(AstOf(ViewOf(run), run.final[r]), VSP) # {} =>
                  run.value[r] = Vsp + 8 /\ vspReg = vspOf
  <2>1. CASE Unmoved(run.final[r])
    BY <2>1, UnmovedFacts
  <2>2. CASE run.final[r] = Plus(Reg(vspOf), 8) /\ run.value[r] = Vsp + 8
    <3>1. run.final[r].of = <<Reg(vspOf)>>
      BY <2>2, Sources
    <3>2. NameOf(ViewOf(run), Reg(vspOf)) \in {VSP, VIP, NoName}
      BY SourceNames
    <3>3. NameOf(ViewOf(run), Reg(vspOf)) \notin {VM_CONTEXT, StackArg(0)}
      BY <3>2, SourceNames
    <3>4. NameOf(ViewOf(run), Reg(vspOf)) = VSP => vspReg = vspOf
      BY SourceNames
    <3> QED  BY <2>2, <3>1, <3>3, <3>4, AddedTo
  <2>3. CASE r = newVip /\ run.final[r] = Plus(Mem(1), 4)
    <3>1. run.final[r].of = <<Mem(1)>>
      BY <2>3, Sources
    <3>2. NameOf(ViewOf(run), Mem(1)) \notin {VSP, VM_CONTEXT}
      BY SourceNames
    <3> QED  BY <2>3, <3>1, <3>2, AddedTo
  <2> QED  BY <1>6, <2>1, <2>2, <2>3
<1>8. m \notin TryMatchVmEntry(DataOf(run, n, complete))
  <2> SUFFICES ASSUME m \in TryMatchVmEntry(DataOf(run, n, complete)) PROVE FALSE
    OBVIOUS
  <2>1. PICK r : r = m.vspReg
    OBVIOUS
  <2>2. r \in Regs /\ GetAddImmediate(AstOf(ViewOf(run), run.final[r]), VM_CONTEXT) # {}
    BY <2>1, RecognisedEntry
  <2> QED  BY <1>7, <2>2
<1>9. m \in TryMatchVmJmpIndirectRemap(DataOf(run, n, complete)) =>
        /\ m.type = "Jmp" /\ complete /\ m.vipReg = newVip /\ m.vspReg \in Regs
        /\ run.value[m.vspReg] = Vsp + 8 /\ vspReg = vspOf
  <2> SUFFICES ASSUME m \in TryMatchVmJmpIndirectRemap(DataOf(run, n, complete))
               PROVE  /\ m.type = "Jmp" /\ complete /\ m.vipReg = newVip /\ m.vspReg \in Regs
                      /\ run.value[m.vspReg] = Vsp + 8 /\ vspReg = vspOf
    OBVIOUS
  <2>1. PICK vip, vsp : vip = m.vipReg /\ vsp = m.vspReg
    OBVIOUS
  <2>2. /\ complete /\ m.type = "Jmp" /\ vsp \in Regs /\ vip \in Regs
        /\ GetAddImmediate(AstOf(ViewOf(run), run.final[vsp]), VSP) # {}
        /\ GetAddImmediate(AstOf(ViewOf(run), run.final[vip]), StackArg(0)) # {}
    BY <2>1, RecognisedJump
  <2> QED  BY <1>7, <2>1, <2>2, ZenonT(120)
<1>10. "Jmp" \in Control
  BY DEF Control
<1> QED  BY <1>5, <1>8, <1>9, <1>10 DEF JumpTaken

(* An entry likewise.                                                      *)
EntersWith(h, newVip) ==
  /\ h.op = "Entry" /\ h.change \in Int /\ Len(h.accesses) \in Nat
  /\ \A i \in 1..Len(h.accesses) :
       /\ Quiet(h.accesses[i], "Entry")
       /\ h.accesses[i].instruction = "fetch" => h.accesses[i].base = newVip

LEMMA EntryAccesses ==
  ASSUME NEW newVip, NEW viaRet \in BOOLEAN, NEW h, h = Entries(newVip, viaRet)
  PROVE  EntersWith(h, newVip)
<1> DEFINE Instruction(i) == CASE i = 1 -> "push imm" [] i = 2 -> "call imm"
                               [] i = EntryPushes - 1 -> "pushfq" [] OTHER -> "push"
           Push(i) == By(Store(top - 8 * i, 8, i, Known), Instruction(i))
           Good(a) == Quiet(a, "Entry") /\ (a.instruction = "fetch" => a.base = newVip)
<1>1. PICK pushes, fetch, store, load, tail :
        /\ pushes = [i \in 1..EntryPushes |-> Push(i)]
        /\ fetch = Fetch(EntryPushes + 1, newVip)
        /\ store = By(Store(Context - 8, 8, 1, Known), "push")
        /\ load = By(Load(EntryPushes + 3, Context - 8, 8, 1), "ret")
        /\ tail = IF viaRet THEN <<store, load>> ELSE <<>>
  OBVIOUS
<1>2. h.op = "Entry" /\ h.change = -8 * EntryPushes /\ h.accesses = pushes \o <<fetch>> \o tail
  BY <1>1 DEF Entries
<1>3. ASSUME NEW addr, NEW size, NEW value, NEW i,
             NEW instruction \in {"push imm", "call imm", "pushfq", "push"}
      PROVE  Good(By(Store(addr, size, value, Known), instruction))
  <2>1. PICK s : s = Store(addr, size, value, Known)
    OBVIOUS
  <2>2. Quiet(s, "Entry")
    BY <2>1, QuietStores
  <2>3. /\ By(s, instruction).kind = s.kind /\ By(s, instruction).from = s.from
        /\ By(s, instruction).instruction = instruction
    BY <2>1 DEF By, Store, Access
  <2> QED  BY <2>1, <2>2, <2>3 DEF Quiet
<1>4. \A i \in 1..EntryPushes : Good(Push(i))
  <2>1. \A i : Instruction(i) \in {"push imm", "call imm", "pushfq", "push"}
    OBVIOUS
  <2> HIDE DEF Instruction, Good
  <2> QED  BY <1>3, <2>1
<1>5. Good(fetch) /\ Good(store) /\ Good(load)
  <2>1. Good(store)
    <3> HIDE DEF Good
    <3> QED  BY <1>1, <1>3
  <2>2. fetch.instruction = "fetch" /\ fetch.base = newVip /\ fetch.kind = "read"
    BY <1>1 DEF Fetch, Load, Access
  <2>3. load.instruction = "ret" /\ load.kind = "read"
    BY <1>1 DEF By, Load, Access
  <2> QED  BY <2>1, <2>2, <2>3 DEF Quiet
<1>6. PICK S : S = {Push(i) : i \in 1..EntryPushes} \cup {fetch, store, load}
  OBVIOUS
<1>7. \A a \in S : Good(a)
  <2> HIDE DEF Good, Push
  <2> QED  BY <1>4, <1>5, <1>6
<1>8. h.accesses \in Seq(S)
  <2>1. pushes \in [1..EntryPushes -> S] /\ EntryPushes \in Nat
    <3> HIDE DEF Push
    <3> QED  BY <1>1, <1>6 DEF EntryPushes
  <2>2. pushes \in Seq(S)
    BY <2>1, SeqDef
  <2>3. <<fetch>> \in Seq(S) /\ tail \in Seq(S)
    <3>1. fetch \in S /\ store \in S /\ load \in S
      BY <1>6
    <3> HIDE DEF Push
    <3> QED  BY <1>1, <3>1
  <2>4. pushes \o <<fetch>> \in Seq(S)
    BY <2>2, <2>3, ConcatProperties
  <2>5. pushes \o <<fetch>> \o tail \in Seq(S)
    BY <2>3, <2>4, ConcatProperties
  <2> QED  BY <1>2, <2>5
<1>9. \A i \in 1..Len(h.accesses) : h.accesses[i] \in S
  BY <1>8, ElementOfSeq
<1>10. h.change \in Int
  BY <1>2 DEF EntryPushes
<1> QED  BY <1>2, <1>7, <1>8, <1>9, <1>10, LenProperties DEF EntersWith

EntryTaken(h, run, newVip, complete, m) ==
  /\ m.type \in Control => /\ m.type = "Entry" /\ complete
                           /\ m.vipReg = newVip /\ m.vspReg \in Regs
                           /\ run.value[m.vspReg] = Vsp + h.change
  /\ ~complete => m.type = "Unknown"

LEMMA EntryVerdict ==
  ASSUME LoopInv, NEW newVip \in Regs, NEW newVsp \in Regs, newVip # newVsp,
         NEW left, left[newVsp] = Kept, left[newVip] = Kept,
         NEW h, EntersWith(h, newVip), NEW rspEnd,
         NEW run, run = RunOf(h, newVip, newVsp, Known, Plus(<<"rsp", 0>>, h.change), left, rspEnd),
         NEW n, \A i \in 1..n : i \in 1..Len(h.accesses), NEW complete \in BOOLEAN,
         NEW m, m = MatchVmHandler(DataOf(run, n, complete))
  PROVE  EntryTaken(h, run, newVip, complete, m)
<1>1. Vsp \in Int /\ Rsp \in Int /\ StartOf(vspReg) \in Int
  BY StackFacts
<1>2. /\ h.op = "Entry" /\ h.change \in Int
      /\ \A i \in 1..Len(h.accesses) :
           /\ Quiet(h.accesses[i], "Entry")
           /\ h.accesses[i].instruction = "fetch" => h.accesses[i].base = newVip
  BY DEF EntersWith
<1>3. run.accesses = h.accesses
  BY DEF RunOf
<1>4. QuietRun(run, "Entry", n)
  BY <1>2, <1>3 DEF QuietRun
<1>5. /\ \/ m \in TryMatchVmEntry(DataOf(run, n, complete))
         \/ m \in TryMatchVmJmpIndirectRemap(DataOf(run, n, complete))
         \/ m.type \notin Control
      /\ ~complete => \/ m.type = "Unknown"
                      \/ m.type = "Entry" /\ m.type \in Logic /\ m.type \notin Control
  BY <1>1, <1>4, QuietMatch
<1>6. ASSUME NEW r \in Regs
      PROVE  \/ run.final[r] = Plus(<<"rsp", 0>>, h.change) /\ run.value[r] = Vsp + h.change
             \/ Unmoved(run.final[r])
  <2>1. \/ run.final[r] = Plus(<<"rsp", 0>>, h.change) /\ run.value[r] = Vsp + h.change
        \/ run.final[r] \in {Copy(Reg(r)), Known}
    BY DEF RunOf
  <2> QED  BY <2>1, CopyUnmoved DEF Unmoved
<1>7. ASSUME NEW r \in Regs
      PROVE  /\ GetAddImmediate(AstOf(ViewOf(run), run.final[r]), VM_CONTEXT) # {} =>
                  run.value[r] = Vsp + h.change
             /\ GetAddImmediate(AstOf(ViewOf(run), run.final[r]), StackArg(0)) = {}
  <2>1. CASE Unmoved(run.final[r])
    BY <2>1, UnmovedFacts
  <2>2. CASE run.final[r] = Plus(<<"rsp", 0>>, h.change) /\ run.value[r] = Vsp + h.change
    <3>1. run.final[r].of = <<<<"rsp", 0>>>>
      BY <2>2, Sources
    <3>2. NameOf(ViewOf(run), <<"rsp", 0>>) # StackArg(0)
      BY SourceNames
    <3> QED  BY <2>2, <3>1, <3>2, AddedTo
  <2> QED  BY <1>6, <2>1, <2>2
<1>8. m \notin TryMatchVmJmpIndirectRemap(DataOf(run, n, complete))
  <2> SUFFICES ASSUME m \in TryMatchVmJmpIndirectRemap(DataOf(run, n, complete)) PROVE FALSE
    OBVIOUS
  <2>1. PICK r : r = m.vipReg
    OBVIOUS
  <2>2. r \in Regs /\ GetAddImmediate(AstOf(ViewOf(run), run.final[r]), StackArg(0)) # {}
    BY <2>1, RecognisedJump
  <2> QED  BY <1>7, <2>2
<1>9. m \in TryMatchVmEntry(DataOf(run, n, complete)) =>
        /\ m.type = "Entry" /\ complete /\ m.vipReg = newVip /\ m.vspReg \in Regs
        /\ run.value[m.vspReg] = Vsp + h.change
  <2> SUFFICES ASSUME m \in TryMatchVmEntry(DataOf(run, n, complete))
               PROVE  /\ m.type = "Entry" /\ complete /\ m.vipReg = newVip /\ m.vspReg \in Regs
                      /\ run.value[m.vspReg] = Vsp + h.change
    OBVIOUS
  <2>1. PICK vsp : vsp = m.vspReg
    OBVIOUS
  <2>2. /\ complete /\ m.type = "Entry" /\ vsp \in Regs
        /\ GetAddImmediate(AstOf(ViewOf(run), run.final[vsp]), VM_CONTEXT) # {}
    BY <2>1, RecognisedEntry
  <2>3. PICK i \in 1..n : run.accesses[i].instruction = "fetch" /\ m.vipReg = run.accesses[i].base
    BY RecognisedEntry
  <2>4. m.vipReg = newVip
    BY <1>2, <1>3, <2>3
  <2> QED  BY <1>7, <2>1, <2>2, <2>4
<1>10. "Entry" \in Control
  BY DEF Control
<1> QED  BY <1>5, <1>8, <1>9, <1>10 DEF EntryTaken

-----------------------------------------------------------------------------
(* An exit pops, and writes nothing.                                       *)
LEMMA ExitAccesses ==
  ASSUME Vsp \in Int
  PROVE  /\ Exits.op = "Exit" /\ Exits.change = 136
         /\ Len(Exits.accesses) = 17
         /\ \A i \in 1..17 :
              /\ Exits.accesses[i].kind = "read"
              /\ Exits.accesses[i].addr = Vsp + 8 * (i - 1)
              /\ Exits.accesses[i].instruction = IF i = 17 THEN "ret"
                                                 ELSE IF i = 16 THEN "popfq" ELSE "pop"
<1> DEFINE PopAt(i, instruction) == By(Load(i, Vsp + 8 * (i - 1), 8, i), instruction)
           pops == [i \in 1..15 |-> PopAt(i, "pop")]
           tail == <<PopAt(16, "popfq"), PopAt(17, "ret")>>
<1>1. Exits.op = "Exit" /\ Exits.change = 136 /\ Exits.accesses = pops \o tail
  BY DEF Exits, EntryPushes
<1>2. ASSUME NEW i, NEW instruction
      PROVE  /\ PopAt(i, instruction).kind = "read"
             /\ PopAt(i, instruction).addr = Vsp + 8 * (i - 1)
             /\ PopAt(i, instruction).instruction = instruction
  BY DEF By, Load, Access
<1> DEFINE S == {PopAt(i, "pop") : i \in 1..15} \cup {PopAt(16, "popfq"), PopAt(17, "ret")}
<1>3. pops \in Seq(S) /\ Len(pops) = 15 /\ tail \in Seq(S) /\ Len(tail) = 2
  <2>1. \A i \in 1..15 : PopAt(i, "pop") \in S
    OBVIOUS
  <2>2. PopAt(16, "popfq") \in S /\ PopAt(17, "ret") \in S
    OBVIOUS
  <2> HIDE DEF PopAt, S
  <2>3. pops \in [1..15 -> S]
    BY <2>1
  <2>4. pops \in Seq(S) /\ Len(pops) = 15
    BY <2>3, SeqDef
  <2> QED  BY <2>2, <2>4
<1>4. /\ Len(pops \o tail) = 17
      /\ \A i \in 1..17 : (pops \o tail)[i] = IF i <= 15 THEN pops[i] ELSE tail[i - 15]
  <2> HIDE DEF pops, tail, S
  <2>1. PICK p, t : p = pops /\ t = tail
    OBVIOUS
  <2>2. p \in Seq(S) /\ Len(p) = 15 /\ t \in Seq(S) /\ Len(t) = 2
    BY <1>3, <2>1
  <2>3. /\ Len(p \o t) = Len(p) + Len(t)
        /\ \A i \in 1..Len(p) + Len(t) :
             (p \o t)[i] = IF i <= Len(p) THEN p[i] ELSE t[i - Len(p)]
    BY <2>2, ConcatProperties
  <2>4. /\ Len(p \o t) = 17
        /\ \A i \in 1..17 : (p \o t)[i] = IF i <= 15 THEN p[i] ELSE t[i - 15]
    <3>1. PICK c : c = p \o t
      OBVIOUS
    <3>2. Len(c) = 15 + 2 /\ \A i \in 1..15 + 2 : c[i] = IF i <= 15 THEN p[i] ELSE t[i - 15]
      BY <2>2, <2>3, <3>1, Zenon
    <3>3. 15 + 2 = 17
      OBVIOUS
    <3> QED  BY <3>1, <3>2, <3>3, Zenon
  <2> QED  BY <2>1, <2>4, Zenon
<1>5. \A i \in 1..15 : pops[i] = PopAt(i, "pop")
  <2> HIDE DEF PopAt
  <2> QED  OBVIOUS
<1>6. tail[1] = PopAt(16, "popfq") /\ tail[2] = PopAt(17, "ret")
  <2> HIDE DEF PopAt
  <2> QED  OBVIOUS
<1>7. ASSUME NEW i \in 1..17
      PROVE  /\ Exits.accesses[i].kind = "read"
             /\ Exits.accesses[i].addr = Vsp + 8 * (i - 1)
             /\ Exits.accesses[i].instruction = IF i = 17 THEN "ret"
                                                ELSE IF i = 16 THEN "popfq" ELSE "pop"
  <2> HIDE DEF PopAt, pops, tail
  <2>0. PICK all : all = pops \o tail
    OBVIOUS
  <2>1. CASE i \in 1..15
    <3>1. Exits.accesses[i] = PopAt(i, "pop")
      <4>1. all[i] = IF i <= 15 THEN pops[i] ELSE tail[i - 15]
        BY <1>4, <2>0, Zenon
      <4> QED  BY <1>1, <1>5, <2>0, <2>1, <4>1, i <= 15
    <3> QED  BY <1>2, <2>1, <3>1
  <2>2. CASE i = 16
    <3>1. Exits.accesses[16] = PopAt(16, "popfq")
      <4>1. all[16] = tail[1]
        BY <1>4, <2>0, SMTT(30)
      <4> QED  BY <1>1, <1>6, <2>0, <4>1
    <3> QED  BY <1>2, <2>2, <3>1
  <2>3. CASE i = 17
    <3>1. Exits.accesses[17] = PopAt(17, "ret")
      <4>1. all[17] = tail[2]
        BY <1>4, <2>0, SMTT(30)
      <4> QED  BY <1>1, <1>6, <2>0, <4>1
    <3> QED  BY <1>2, <2>3, <3>1
  <2> QED  BY <2>1, <2>2, <2>3
<1>8. Len(Exits.accesses) = 17
  <2> HIDE DEF pops, tail
  <2> QED  BY <1>1, <1>4
<1> QED  BY <1>1, <1>7, <1>8

LEMMA ExitVerdict ==
  ASSUME LoopInv, NEW left \in [Regs -> Junks], NEW rspEnd,
         NEW run, run = RunOf(Exits, NoReg, NoReg, Known, Known, left, rspEnd),
         NEW n \in Int, \A i \in 1..n : i \in 1..17, NEW complete \in BOOLEAN,
         NEW m, m = MatchVmHandler(DataOf(run, n, complete))
  PROVE  /\ m.type \in Control => m.type = "Exit" \/ (m.type = "Crash" /\ ~complete)
         /\ ~complete => m.type \in {"Unknown", "Crash"}
<1>1. Vsp \in Int
  BY StackFacts
<1>2. /\ run.accesses = Exits.accesses
      /\ \A r \in Regs : run.final[r] = Known
  <2>1. \A r \in Regs : left[r] # CopyOfVsp /\ left[r] # Kept /\ r # NoReg
    BY RegsAssumption DEF Junks, CopyOfVsp, Kept, NoReg
  <2> QED  BY <2>1 DEF RunOf
<1>3. PICK data : data = DataOf(run, n, complete)
  OBVIOUS
<1>4. PICK view : view = ViewOf(run)
  OBVIOUS
<1>5. /\ data.logicReads = Recorded(view, "read", n)
      /\ data.logicWrites = Recorded(view, "write", n)
      /\ data.context = complete
  <2>1. DataOf(run, n, complete).context = complete
    BY DataFacts
  <2> QED  BY <1>3, <1>4, <2>1, DataAccesses
<1>6. view.accesses = run.accesses
  BY <1>4 DEF ViewOf
<1>7. m \in TryMatchVmEntry(data) \cup Plain(data) \cup TryMatchGenericVmAlu(data)
              \cup TryMatchVmDoubleShift(data) \cup TryMatchVmJmpIndirectRemap(data)
              \cup TryMatchVmExit(data) \cup {NoMatch}
  BY <1>3, MatchFacts, Zenon
<1>8. data.logicWrites = {}
  <2> SUFFICES ASSUME NEW w \in data.logicWrites PROVE FALSE
    OBVIOUS
  <2>1. PICK i \in 1..n : view.accesses[i].kind = "write"
    BY <1>5, RecordedFacts
  <2> QED  BY <1>1, <1>2, <1>6, <2>1, ExitAccesses
<1>9. m \notin TryMatchGenericVmAlu(data) /\ m \notin TryMatchVmDoubleShift(data)
  BY <1>8, AluTypes, DoubleShiftTypes
<1>10. m \notin TryMatchVmEntry(data)
  <2> SUFFICES ASSUME m \in TryMatchVmEntry(data) PROVE FALSE
    OBVIOUS
  <2>1. PICK r : r = m.vspReg
    OBVIOUS
  <2>2. r \in Regs /\ GetAddImmediate(AstOf(ViewOf(run), run.final[r]), VM_CONTEXT) # {}
    BY <1>3, <2>1, RecognisedEntry
  <2> QED  BY <1>2, <2>2, NothingAddedToKnown
<1>11. m \notin TryMatchVmJmpIndirectRemap(data)
  <2> SUFFICES ASSUME m \in TryMatchVmJmpIndirectRemap(data) PROVE FALSE
    OBVIOUS
  <2>1. PICK r : r = m.vipReg
    OBVIOUS
  <2>2. r \in Regs /\ GetAddImmediate(AstOf(ViewOf(run), run.final[r]), StackArg(0)) # {}
    BY <1>3, <2>1, RecognisedJump
  <2> QED  BY <1>2, <2>2, NothingAddedToKnown
<1>12. m \in Plain(data) => m.type \notin Control /\ complete
  <2>1. ~complete => data.vipAst = {} /\ data.vspAst = {} /\ data.registerAst = <<>>
    BY <1>3, DataFacts, ZenonT(60)
  <2>2. ~complete => Plain(data) = {}
    BY <2>1, BlindFacts
  <2> QED  BY <2>2, PlainTypes
<1>13. m = NoMatch => m.type = "Unknown"
  BY ControlTypes
<1>14. ASSUME m \in TryMatchVmExit(data), complete PROVE m.type = "Exit"
  <2>1. Found(data, "Exit", 8) = [Found(data, "Exit", 8) EXCEPT !.type = "Exit"]
    BY DEF Found, NoMatch
  <2>2. m = [Found(data, "Exit", 8) EXCEPT !.vspAfter = data.rsp.end]
    BY <1>5, <1>14 DEF TryMatchVmExit
  <2> QED  BY <2>2 DEF Found, NoMatch
<1>15. ASSUME m \in TryMatchVmExit(data), ~complete PROVE m.type = "Crash"
  <2>1. CASE 16 \in 1..n
    <3> DEFINE of == {i \in 1..n : view.accesses[i].kind = "read"}
               Rec(i) == [addr |-> view.accesses[i].addr, size |-> view.accesses[i].size,
                          value |-> view.accesses[i].value, base |-> view.accesses[i].base,
                          instruction |-> view.accesses[i].instruction,
                          ast |-> AstOf(view, view.accesses[i].from)]
               final == {j \in of : \A l \in of :
                           l > j => view.accesses[l].addr # view.accesses[j].addr}
    <3>1. data.logicReads = {Rec(i) : i \in final}
      BY <1>5 DEF Recorded
    <3>2. 16 \in final
      <4>1. 16 \in of
        BY <1>1, <1>2, <1>6, <2>1, ExitAccesses
      <4>2. ASSUME NEW l \in of, l > 16
            PROVE  view.accesses[l].addr # view.accesses[16].addr
        <5>1. l \in 1..17 /\ 16 \in 1..17
          OBVIOUS
        <5>2. /\ view.accesses[l].addr = Vsp + 8 * (l - 1)
              /\ view.accesses[16].addr = Vsp + 8 * (16 - 1)
          BY <1>1, <1>2, <1>6, <5>1, ExitAccesses
        <5> QED  BY <1>1, <4>2, <5>1, <5>2
      <4> QED  BY <4>1, <4>2
    <3>3. view.accesses[16].instruction = "popfq"
      BY <1>1, <1>2, <1>6, ExitAccesses
    <3>4. Rec(16).instruction = "popfq"
      BY <3>3
    <3>5. Rec(16) \in data.logicReads
      <4> HIDE DEF Rec, final
      <4> QED  BY <3>1, <3>2
    <3>6. \E r \in data.logicReads : r.instruction = "popfq"
      <4> HIDE DEF Rec, final
      <4> QED  BY <3>4, <3>5
    <3> QED  BY <1>5, <1>15, <3>6, PoppedFlagsCrash
  <2>2. CASE 16 \notin 1..n
    <3>1. ASSUME NEW r \in data.logicReads PROVE r.instruction \in {"pop", "popfq"}
      <4>1. PICK i \in 1..n : r.instruction = view.accesses[i].instruction
        BY <1>5, RecordedFacts
      <4>2. i \in 1..17 /\ i # 16 /\ i # 17
        BY <2>2
      <4> QED  BY <1>1, <1>2, <1>6, <4>1, <4>2, ExitAccesses
    <3> QED  BY <1>5, <1>15, <3>1, AllPops
  <2> QED  BY <2>1, <2>2
<1>16. "Unknown" \notin Control
  BY DEF Control
<1> QED  BY <1>7, <1>9, <1>10, <1>11, <1>12, <1>13, <1>14, <1>15, <1>16

-----------------------------------------------------------------------------
(* A step of main runs one handler and matches it, whole or cut short.     *)
LEMMA CutFacts ==
  ASSUME NEW length \in Nat, NEW n \in Cuts(length) \cup {length}
  PROVE  n \in Int /\ \A i \in 1..n : i \in 1..length
BY DEF Cuts

Matched(h, run, n, complete, m) ==
  /\ n \in Int /\ complete \in BOOLEAN
  /\ \A i \in 1..n : i \in 1..Len(h.accesses)
  /\ m = MatchVmHandler(DataOf(run, n, complete))
  /\ last'.op = h.op /\ last'.type = m.type /\ last'.complete = complete
  /\ IF m.type \in {"Entry", "Jmp"} THEN vipReg' = m.vipReg /\ vspReg' = m.vspReg
     ELSE vipReg' = vipReg /\ vspReg' = vspReg
  /\ regs' = run.value

LEMMA RoundsFacts ==
  ASSUME NEW h, NEW run, Len(h.accesses) \in Nat, Rounds(h, run)
  PROVE  \E n, complete, m : Matched(h, run, n, complete, m)
<1>1. PICK n, complete : /\ complete \in BOOLEAN
                         /\ n \in Cuts(Len(h.accesses)) \cup {Len(h.accesses)}
                         /\ MatchBlock(h, run, n, complete)
  <2>1. CASE MatchBlock(h, run, Len(h.accesses), TRUE)
    BY <2>1
  <2>2. CASE \E n \in Cuts(Len(h.accesses)) : MatchBlock(h, run, n, FALSE)
    BY <2>2
  <2> QED  BY <2>1, <2>2 DEF Rounds
<1>2. n \in Int /\ \A i \in 1..n : i \in 1..Len(h.accesses)
  BY <1>1, CutFacts
<1>3. PICK m : m = MatchVmHandler(DataOf(run, n, complete))
  OBVIOUS
<1>4. /\ last'.op = h.op /\ last'.type = m.type /\ last'.complete = complete
      /\ vipReg' = IF LearnsRegisters(m) THEN m.vipReg ELSE vipReg
      /\ vspReg' = IF LearnsRegisters(m) THEN m.vspReg ELSE vspReg
      /\ regs' = run.value
  BY <1>1, <1>3 DEF MatchBlock, DataOf
<1> QED  BY <1>1, <1>2, <1>3, <1>4 DEF Matched, LearnsRegisters

(* What the registers hold after a run are integers.                       *)
LEMMA RunValues ==
  ASSUME LoopInv, NEW h, h.change \in Int, NEW newVip, NEW newVsp, NEW vip, NEW vsp,
         NEW left \in [Regs -> Leftovers], NEW rspEnd,
         NEW run, run = RunOf(h, newVip, newVsp, vip, vsp, left, rspEnd)
  PROVE  run.value \in [Regs -> Int]
<1>1. Vsp \in Int /\ Bytecode \in Int
  BY StackFacts, RegsAssumption DEF Bytecode
<1>2. run.value = [r \in Regs |->
                     IF r = newVsp \/ left[r] = CopyOfVsp THEN Vsp + h.change
                     ELSE IF r = newVip THEN Bytecode
                     ELSE IF left[r] = Kept THEN regs[r] ELSE left[r][2]]
  BY DEF RunOf
<1>3. ASSUME NEW r \in Regs
      PROVE  \/ left[r] \in {CopyOfVsp, Kept}
             \/ left[r][2] \in Int
  <2>1. left[r] \in {Kept, CopyOfVsp} \cup Junks
    BY DEF Leftovers
  <2>2. \A pair \in Junks : pair[2] \in Junk
    BY DEF Junks
  <2>3. CASE left[r] \in Junks
    <3>1. left[r][2] \in Junk
      BY <2>2, <2>3
    <3>2. \A v \in Junk : v \in Int
      BY MatchingAssumption
    <3> QED  BY <3>1, <3>2, Zenon
  <2> QED  BY <2>1, <2>3
<1>4. \A r \in Regs : regs[r] \in Int
  BY DEF LoopInv
<1>5. \A r \in Regs : run.value[r] \in Int
  BY <1>1, <1>2, <1>3, <1>4
<1> QED  BY <1>2, <1>5

LEMMA NewVspValue ==
  ASSUME NEW h, NEW newVip, NEW newVsp \in Regs, NEW vip, NEW vsp, NEW left, NEW rspEnd,
         NEW run, run = RunOf(h, newVip, newVsp, vip, vsp, left, rspEnd)
  PROVE  run.value[newVsp] = Vsp + h.change
BY DEF RunOf

-----------------------------------------------------------------------------
(* What every step of main leaves true.                                    *)
Verdict == ControlIsControl /\ RegistersFollow /\ HalfEmulated
LostStep == handlers' # handlers /\ last'.type = "Jmp" => vspReg = vspOf

LEMMA ControlNames ==
  /\ "Entry" \in Control /\ "Jmp" \in Control /\ "Exit" \in Control /\ "Crash" \in Control
  /\ "Unknown" \notin Control /\ Logic \cap Control = {}
  /\ \A type : type \in {"Entry", "Jmp", "Exit"} => type \in Control
<1>1. Flagged \subseteq {"Add", "Nor", "Nand"}
  <2> SUFFICES ASSUME NEW op \in BinaryOps PROVE op[1] \in {"Add", "Nor", "Nand"}
    BY DEF Flagged
  <2>1. CASE op = <<"Add", "bvadd">>
    BY <2>1
  <2>2. CASE op = <<"Nor", "not or">>
    BY <2>2
  <2>3. CASE op = <<"Nand", "not and">>
    BY <2>3
  <2> QED  BY <2>1, <2>2, <2>3 DEF BinaryOps
<1>2. {op[1] : op \in ShiftOps} = {"Shl", "Shr", "Rol", "Ror"}
  BY DEF ShiftOps
<1>3. Logic \subseteq {"Add", "Nor", "Nand", "Shl", "Shr", "Rol", "Ror", "Shld", "Shrd"}
  BY <1>1, <1>2 DEF Logic
<1> QED  BY <1>3 DEF Control

LEMMA HandlerStep ==
  ASSUME LoopInv, RunHandler PROVE LoopInv' /\ Verdict' /\ LostStep
<1>1. PICK h \in Straight, left \in [Regs -> {Kept} \cup Junks] :
        /\ left[vspOf] = Kept /\ left[vipOf] = Kept
        /\ Rounds(h, RunOf(h, vipOf, vspOf, Plus(Reg(vipOf), h.taken), h.vsp, left, Rsp))
  BY DEF RunHandler
<1>2. PICK run : run = RunOf(h, vipOf, vspOf, Plus(Reg(vipOf), h.taken), h.vsp, left, Rsp)
  OBVIOUS
<1>3. inside /\ UNCHANGED <<top, inside, vipOf, vspOf>>
  BY DEF RunHandler
<1>4. Vsp \in Int
  BY StackFacts
<1>5. Ordinary(h)
  BY <1>4, StraightOrdinary
<1>6. Len(h.accesses) \in Nat /\ h.change \in Int
  BY <1>5, QuietLength DEF Ordinary
<1>7. PICK n, complete, m : Matched(h, run, n, complete, m)
  BY <1>1, <1>2, <1>6, RoundsFacts
<1>8. /\ n \in Int /\ complete \in BOOLEAN
      /\ \A i \in 1..n : i \in 1..Len(h.accesses)
      /\ m = MatchVmHandler(DataOf(run, n, complete))
  BY <1>7 DEF Matched
<1>9. /\ m.type \notin Control
      /\ ~complete => m.type = "Unknown" \/ (m.type = h.op /\ m.type \in Logic)
  BY <1>2, <1>8, StraightVerdict
<1>10. /\ last'.op = h.op /\ last'.type = m.type /\ last'.complete = complete
       /\ vipReg' = vipReg /\ vspReg' = vspReg /\ regs' = run.value
  BY <1>7, <1>9, ControlNames DEF Matched
<1>11. left \in [Regs -> Leftovers]
  <2>1. {Kept} \cup Junks \subseteq Leftovers
    BY DEF Leftovers
  <2> QED  BY <2>1
<1>12. run.value \in [Regs -> Int]
  BY <1>2, <1>6, <1>11, RunValues
<1>13. LoopInv'
  BY <1>3, <1>10, <1>12 DEF LoopInv
<1>14. Verdict'
  BY <1>9, <1>10, ControlNames DEF Verdict, ControlIsControl, RegistersFollow, HalfEmulated
<1>15. LostStep
  BY <1>9, <1>10, ControlNames DEF LostStep
<1> QED  BY <1>13, <1>14, <1>15

LEMMA JumpStep ==
  ASSUME LoopInv, RunJump PROVE LoopInv' /\ Verdict' /\ LostStep
<1>1. PICK newVip \in Regs, newVsp \in Regs, left \in [Regs -> Leftovers] :
        /\ newVip # newVsp
        /\ left[newVsp] = Kept /\ left[newVip] = Kept
        /\ Rounds(Jumps(newVip),
                  RunOf(Jumps(newVip), newVip, newVsp, Plus(Mem(1), 4), Plus(Reg(vspOf), 8),
                        left, Rsp))
        /\ vipOf' = newVip /\ vspOf' = newVsp
  BY DEF RunJump
<1>2. PICK h, run :
        /\ h = Jumps(newVip)
        /\ run = RunOf(h, newVip, newVsp, Plus(Mem(1), 4), Plus(Reg(vspOf), 8), left, Rsp)
  OBVIOUS
<1>3. inside /\ UNCHANGED <<top, inside>>
  BY DEF RunJump
<1>4. h.op = "Jmp" /\ h.change = 8 /\ QuietSeq(h.accesses, "Jmp")
  BY <1>2, JumpAccesses
<1>5. Len(h.accesses) \in Nat
  BY <1>4, QuietLength
<1>6. PICK n, complete, m : Matched(h, run, n, complete, m)
  BY <1>1, <1>2, <1>5, RoundsFacts
<1>7. /\ n \in Int /\ complete \in BOOLEAN
      /\ \A i \in 1..n : i \in 1..Len(h.accesses)
      /\ m = MatchVmHandler(DataOf(run, n, complete))
  BY <1>6 DEF Matched
<1>8. /\ m.type \in Control => /\ m.type = "Jmp" /\ complete
                               /\ m.vipReg = newVip /\ m.vspReg \in Regs
                               /\ run.value[m.vspReg] = Vsp + 8
                               /\ vspReg = vspOf
      /\ ~complete => m.type = "Unknown"
  <2>1. /\ newVip \in Regs /\ newVsp \in Regs /\ newVip # newVsp
        /\ left[newVsp] = Kept /\ left[newVip] = Kept
    BY <1>1
  <2>2. JumpTaken(run, newVip, complete, m)
    BY <1>2, <1>7, <2>1, JumpVerdict
  <2> QED  BY <2>2 DEF JumpTaken
<1>9. /\ run.value \in [Regs -> Int]
      /\ run.value[newVsp] = Vsp + 8
  <2>1. h.change \in Int
    BY <1>4
  <2>2. PICK vip, vsp, rspEnd : run = RunOf(h, newVip, newVsp, vip, vsp, left, rspEnd)
    BY <1>2
  <2>3. run.value \in [Regs -> Int]
    BY <1>1, <2>1, <2>2, RunValues
  <2>4. run.value[newVsp] = Vsp + h.change
    BY <2>2, NewVspValue
  <2> QED  BY <1>4, <2>3, <2>4
<1>10. /\ last'.op = "Jmp" /\ last'.type = m.type /\ last'.complete = complete
       /\ regs' = run.value
       /\ m.type \in {"Entry", "Jmp"} => vipReg' = newVip /\ vspReg' = m.vspReg
       /\ m.type \notin {"Entry", "Jmp"} => vspReg' = vspReg
  BY <1>4, <1>6, <1>8, ControlNames DEF Matched
<1>11. LoopInv'
  <2>1. vspReg' \in Regs \cup {NoReg}
    BY <1>8, <1>10, ControlNames DEF LoopInv
  <2> QED  BY <1>1, <1>3, <1>9, <1>10, <2>1 DEF LoopInv
<1>12. Vsp' = Vsp + 8
  BY <1>1, <1>3, <1>9, <1>10 DEF Vsp
<1>13. Verdict'
  <2>1. ControlIsControl'
    BY <1>8, <1>10, ControlNames DEF ControlIsControl
  <2>2. RegistersFollow'
    BY <1>1, <1>8, <1>10, <1>12, ControlNames DEF RegistersFollow
  <2>3. HalfEmulated'
    BY <1>8, <1>10 DEF HalfEmulated
  <2> QED  BY <2>1, <2>2, <2>3 DEF Verdict
<1>14. LostStep
  BY <1>8, <1>10, ControlNames DEF LostStep
<1> QED  BY <1>11, <1>13, <1>14

LEMMA EntryStep ==
  ASSUME LoopInv, RunEntry PROVE LoopInv' /\ Verdict' /\ LostStep
<1>1. PICK newVip \in Regs, newVsp \in Regs, left \in [Regs -> Leftovers], viaRet \in BOOLEAN :
        /\ newVip # newVsp
        /\ left[newVsp] = Kept /\ left[newVip] = Kept
        /\ Rounds(Entries(newVip, viaRet),
                  RunOf(Entries(newVip, viaRet), newVip, newVsp, Known,
                        Plus(<<"rsp", 0>>, Entries(newVip, viaRet).change), left, Context))
        /\ vipOf' = newVip /\ vspOf' = newVsp
  BY DEF RunEntry
<1>2. PICK h, rspEnd, run :
        /\ h = Entries(newVip, viaRet) /\ rspEnd = Context
        /\ run = RunOf(h, newVip, newVsp, Known, Plus(<<"rsp", 0>>, h.change), left, rspEnd)
  OBVIOUS
<1>3. inside' = TRUE /\ top' = top
  BY DEF RunEntry
<1>4. h.op = "Entry" /\ h.change \in Int /\ Len(h.accesses) \in Nat
  BY <1>2, EntryAccesses DEF EntersWith
<1>6. PICK n, complete, m : Matched(h, run, n, complete, m)
  BY <1>1, <1>2, <1>4, RoundsFacts
<1>7. /\ n \in Int /\ complete \in BOOLEAN
      /\ \A i \in 1..n : i \in 1..Len(h.accesses)
      /\ m = MatchVmHandler(DataOf(run, n, complete))
  BY <1>6 DEF Matched
<1>8. /\ m.type \in Control => /\ m.type = "Entry" /\ complete
                               /\ m.vipReg = newVip /\ m.vspReg \in Regs
                               /\ run.value[m.vspReg] = Vsp + h.change
      /\ ~complete => m.type = "Unknown"
  <2>1. /\ newVip \in Regs /\ newVsp \in Regs /\ newVip # newVsp
        /\ left[newVsp] = Kept /\ left[newVip] = Kept
    BY <1>1
  <2>2. EntersWith(h, newVip)
    BY <1>2, EntryAccesses
  <2>3. EntryTaken(h, run, newVip, complete, m)
    BY <1>2, <1>7, <2>1, <2>2, EntryVerdict
  <2> QED  BY <2>3 DEF EntryTaken
<1>9. /\ run.value \in [Regs -> Int]
      /\ run.value[newVsp] = Vsp + h.change
  <2>1. PICK vip, vsp : run = RunOf(h, newVip, newVsp, vip, vsp, left, rspEnd)
    BY <1>2
  <2>2. run.value \in [Regs -> Int]
    BY <1>1, <1>4, <2>1, RunValues
  <2>3. run.value[newVsp] = Vsp + h.change
    BY <2>1, NewVspValue
  <2> QED  BY <2>2, <2>3
<1>10. /\ last'.op = "Entry" /\ last'.type = m.type /\ last'.complete = complete
       /\ regs' = run.value
       /\ m.type \in {"Entry", "Jmp"} => vipReg' = newVip /\ vspReg' = m.vspReg
       /\ m.type \notin {"Entry", "Jmp"} => vspReg' = vspReg
  BY <1>4, <1>6, <1>8, ControlNames DEF Matched
<1>11. LoopInv'
  <2>1. vspReg' \in Regs \cup {NoReg}
    BY <1>8, <1>10, ControlNames DEF LoopInv
  <2> QED  BY <1>1, <1>3, <1>9, <1>10, <2>1 DEF LoopInv
<1>12. Vsp' = Vsp + h.change
  BY <1>1, <1>3, <1>9, <1>10 DEF Vsp
<1>13. Verdict'
  <2>1. ControlIsControl'
    BY <1>8, <1>10, ControlNames DEF ControlIsControl
  <2>2. RegistersFollow'
    BY <1>1, <1>8, <1>10, <1>12, ControlNames DEF RegistersFollow
  <2>3. HalfEmulated'
    BY <1>8, <1>10 DEF HalfEmulated
  <2> QED  BY <2>1, <2>2, <2>3 DEF Verdict
<1>14. LostStep
  BY <1>8, <1>10, ControlNames DEF LostStep
<1> QED  BY <1>11, <1>13, <1>14

LEMMA ExitStep ==
  ASSUME LoopInv, RunExit PROVE LoopInv' /\ Verdict' /\ LostStep
<1>1. PICK left \in [Regs -> Junks] : \E rspEnd :
        Rounds(Exits, RunOf(Exits, NoReg, NoReg, Known, Known, left, rspEnd))
  BY DEF RunExit
<1>2. PICK rspEnd, run : /\ run = RunOf(Exits, NoReg, NoReg, Known, Known, left, rspEnd)
                         /\ Rounds(Exits, run)
  BY <1>1
<1>3. inside' = FALSE /\ UNCHANGED <<top, vipOf, vspOf>>
  BY DEF RunExit
<1>4. Vsp \in Int
  BY StackFacts
<1>5. Exits.op = "Exit" /\ Exits.change \in Int /\ Len(Exits.accesses) = 17
  BY <1>4, ExitAccesses
<1>6. PICK n, complete, m : Matched(Exits, run, n, complete, m)
  <2>1. Len(Exits.accesses) \in Nat
    BY <1>5
  <2> QED  BY <1>2, <2>1, RoundsFacts
<1>7. /\ n \in Int /\ complete \in BOOLEAN
      /\ \A i \in 1..n : i \in 1..17
      /\ m = MatchVmHandler(DataOf(run, n, complete))
  BY <1>5, <1>6 DEF Matched
<1>8. /\ m.type \in Control => m.type = "Exit" \/ (m.type = "Crash" /\ ~complete)
      /\ ~complete => m.type \in {"Unknown", "Crash"}
  BY <1>2, <1>7, ExitVerdict
<1>9. left \in [Regs -> Leftovers]
  <2>1. Junks \subseteq Leftovers
    BY DEF Leftovers
  <2> QED  BY <2>1
<1>10. run.value \in [Regs -> Int]
  BY <1>2, <1>5, <1>9, RunValues
<1>11. m.type \notin {"Entry", "Jmp"}
  BY <1>8, ControlNames
<1>12. /\ last'.op = "Exit" /\ last'.type = m.type /\ last'.complete = complete
       /\ vspReg' = vspReg /\ regs' = run.value
  BY <1>5, <1>6, <1>11 DEF Matched
<1>13. LoopInv'
  BY <1>3, <1>10, <1>12 DEF LoopInv
<1>14. Verdict'
  <2>1. ControlIsControl'
    BY <1>8, <1>11, <1>12, ControlNames DEF ControlIsControl
  <2>2. RegistersFollow'
    BY <1>11, <1>12 DEF RegistersFollow
  <2>3. HalfEmulated'
    BY <1>8, <1>12 DEF HalfEmulated
  <2> QED  BY <2>1, <2>2, <2>3 DEF Verdict
<1>15. LostStep
  BY <1>11, <1>12 DEF LostStep
<1> QED  BY <1>13, <1>14, <1>15

LEMMA LoopInit ==
  ASSUME Init PROVE LoopInv /\ Verdict
<1>1. LoopInv
  <2>1. top \in StackTops /\ inside = FALSE /\ regs = [r \in Regs |-> 0] /\ vspReg = NoReg
        /\ vipOf = NoReg
    BY DEF Init
  <2>2. top \in Int
    BY <2>1, MatchingAssumption
  <2>3. regs \in [Regs -> Int]
    BY <2>1
  <2> QED  BY <2>1, <2>2, <2>3 DEF LoopInv
<1>2. ~Judged
  BY DEF Init, Judged
<1>3. Verdict
  BY <1>2 DEF Verdict, ControlIsControl, RegistersFollow, HalfEmulated
<1> QED  BY <1>1, <1>3

LEMMA LoopStep ==
  ASSUME LoopInv, Verdict, [Next]_vars PROVE LoopInv' /\ Verdict' /\ LostStep
<1>1. CASE Next
  BY <1>1, HandlerStep, JumpStep, EntryStep, ExitStep DEF Next
<1>2. CASE UNCHANGED vars
  <2>1. /\ top' = top /\ inside' = inside /\ vipOf' = vipOf /\ vspOf' = vspOf
        /\ regs' = regs /\ vipReg' = vipReg /\ vspReg' = vspReg
        /\ handlers' = handlers /\ last' = last
    BY <1>2 DEF vars
  <2>2. LoopInv'
    BY <2>1 DEF LoopInv
  <2>3. Judged' = Judged /\ Vsp' = Vsp
    BY <2>1 DEF Judged, Vsp
  <2>4. Verdict'
    <3>1. ControlIsControl'
      BY <2>1, <2>3 DEF Verdict, ControlIsControl
    <3>2. RegistersFollow'
      BY <2>1, <2>3 DEF Verdict, RegistersFollow
    <3>3. HalfEmulated'
      BY <2>1, <2>3 DEF Verdict, HalfEmulated
    <3> QED  BY <3>1, <3>2, <3>3 DEF Verdict
  <2> QED  BY <2>1, <2>2, <2>4 DEF LostStep
<1> QED  BY <1>1, <1>2

LEMMA LoopVerdict == Spec => [](LoopInv /\ Verdict)
<1>1. Init => LoopInv /\ Verdict
  BY LoopInit
<1>2. LoopInv /\ Verdict /\ [Next]_vars => (LoopInv /\ Verdict)'
  BY LoopStep
<1> QED  BY <1>1, <1>2, PTL DEF Spec

(* Whatever registers main works with and after whatever access an         *)
(* emulation broke off, MatchVmHandler takes nothing for an entry, a jump  *)
(* or an exit that is none: no virtual block is cut in the wrong place.    *)
THEOREM ControlAlwaysControl == Spec => []ControlIsControl
<1>1. Verdict => ControlIsControl
  BY DEF Verdict
<1> QED  BY <1>1, LoopVerdict, PTL

(* What main learns from an entry or a jump that it recognises is right:   *)
(* the register of VIP is the one of the program, and the one of VSP holds *)
(* VSP, however many registers hold a copy.                                *)
THEOREM RegistersAlwaysFollow == Spec => []RegistersFollow
<1>1. Verdict => RegistersFollow
  BY DEF Verdict
<1> QED  BY <1>1, LoopVerdict, PTL

(* Of an emulation that an exception ended MatchVmHandler makes nothing,   *)
(* the arithmetic that it is, or, of an exit that had popped its flags, a  *)
(* use of the context that is not there.                                   *)
THEOREM HalfEmulatedAlways == Spec => []HalfEmulated
<1>1. Verdict => HalfEmulated
  BY DEF Verdict
<1> QED  BY <1>1, LoopVerdict, PTL

(* With VSP looked for in another register than the program keeps it in,   *)
(* no jump is recognised, so that main stays lost until the next entry.    *)
THEOREM LostAlwaysUntilEntry == Spec => LostUntilEntry
<1>1. LoopInv /\ Verdict /\ [Next]_vars =>
        [handlers' # handlers /\ last'.type = "Jmp" => vspReg = vspOf]_vars
  BY LoopStep DEF LostStep
<1> QED  BY <1>1, LoopVerdict, PTL DEF LostUntilEntry, Spec

-----------------------------------------------------------------------------
(* A state of a program that is run on a stack of its own: the virtual     *)
(* stack is above the context, with room between, and does not grow over   *)
(* the native one, and the bytecode is elsewhere.  The program sees to it, *)
(* not the analyzer: a program may pop what it has not pushed.             *)
OnItsStack ==
  /\ Context >= 1024
  /\ inside => Vsp \in (Context + 128)..top
  /\ Bytecode \notin (Context - 8)..(top + 16)

LEMMA StackPlaces ==
  ASSUME LoopInv, OnItsStack, inside
  PROVE  /\ Vsp \in Int /\ Context \in Int /\ Bytecode \in Int /\ top \in Int
         /\ Rsp = Context /\ Context >= 1024 /\ Vsp >= Context + 128 /\ Vsp <= top
         /\ Bytecode >= 1000
         /\ Bytecode < Context - 8 \/ Bytecode > Vsp + 16
<1>1. Vsp \in Int /\ Context \in Int /\ top \in Int
  BY StackFacts DEF LoopInv
<1>2. Bytecode \in Int /\ Bytecode >= 1000
  BY RegsAssumption DEF Bytecode
<1>3. PICK v, c, b, t : v = Vsp /\ c = Context /\ b = Bytecode /\ t = top
  OBVIOUS
<1>4. c >= 1024 /\ v \in (c + 128)..t /\ b \notin (c - 8)..(t + 16)
  BY <1>3 DEF OnItsStack
<1>5. c >= 1024 /\ v >= c + 128 /\ v <= t /\ (b < c - 8 \/ b > v + 16)
  BY <1>1, <1>2, <1>3, <1>4
<1> QED  BY <1>1, <1>2, <1>3, <1>5 DEF Rsp

-----------------------------------------------------------------------------
(* What is looked at in a match that is neither arithmetic nor control.    *)
LEMMA PopRegSeen ==
  ASSUME NEW data, NEW m \in TryMatchVmPopReg(data)
  PROVE  /\ m.type = "Pop"
         /\ \E delta \in Deltas(data) : Abs(delta[1]) = 5 /\ delta[2] \in 1..8
<1>1. PICK w : m = [Found(data, "Pop", IF w.ast.wrap = "extract" THEN 1 ELSE w.size) EXCEPT
                      !.arg = w.addr - data.rsp.start]
               /\ \E delta \in Deltas(data) : Abs(delta[1]) = 5 /\ delta[2] \in 1..8
  BY DEF TryMatchVmPopReg
<1>2. m.type = "Pop"
  BY <1>1 DEF Found, NoMatch
<1> QED  BY <1>1, <1>2

LEMMA PushConstSeen ==
  ASSUME NEW data, NEW m \in TryMatchVmPushConst(data)
  PROVE  /\ m.type = "PushConst"
         /\ \E delta \in Deltas(data) :
              /\ delta[2] \in -8..-1 /\ Abs(delta[1]) >= 5
              /\ Abs(delta[1]) - 4 = -delta[2] \/ (Abs(delta[1]) - 4 = 1 /\ delta[2] = -2)
              /\ \E w \in data.logicWrites : /\ w.addr = data.vsp.start + delta[2]
                                             /\ HoldsNoVariable(w.ast)
<1>1. PICK delta \in Deltas(data) :
        /\ m = Found(data, "PushConst", Abs(delta[1]) - 4)
        /\ delta[2] \in -8..-1 /\ Abs(delta[1]) >= 5
        /\ Abs(delta[1]) - 4 = -delta[2] \/ (Abs(delta[1]) - 4 = 1 /\ delta[2] = -2)
        /\ \E w \in At(data.logicWrites, data.vsp.start + delta[2]) : HoldsNoVariable(w.ast)
  BY DEF TryMatchVmPushConst
<1>2. m.type = "PushConst"
  BY <1>1, FoundFacts
<1> QED  BY <1>1, <1>2 DEF At

LEMMA PushRegSeen ==
  ASSUME NEW data, NEW m \in TryMatchVmPushReg(data)
  PROVE  /\ m.type = "PushReg"
         /\ \E delta \in Deltas(data) : Abs(delta[1]) = 5 /\ delta[2] \in -8..-1
         /\ \E w \in data.logicWrites : GetUnderlyingVariable(w.ast) # {}
<1> DEFINE ReadsOf(w) == {r \in data.logicReads : \E name \in GetUnderlyingVariable(w.ast) :
                            name[1] = "VmReg" /\ IsVariable(r.ast, name)}
           moves == \E delta \in Deltas(data) : Abs(delta[1]) = 5 /\ delta[2] \in -8..-1
           stores == {w \in data.logicWrites : moves /\ ReadsOf(w) # {}}
<1>1. TryMatchVmPushReg(data) = {[Found(data, "PushReg", r.size) EXCEPT !.arg = r.ast.vars[1][2]] :
                                   r \in UNION {Lowest(ReadsOf(w)) : w \in Lowest(stores)}}
  BY Zenon DEF TryMatchVmPushReg
<1>2. PICK r \in UNION {Lowest(ReadsOf(w)) : w \in Lowest(stores)} :
        m = [Found(data, "PushReg", r.size) EXCEPT !.arg = r.ast.vars[1][2]]
  <2> HIDE DEF stores, ReadsOf
  <2> QED  BY <1>1
<1>3. m.type = "PushReg"
  BY <1>2 DEF Found, NoMatch
<1>4. PICK w \in Lowest(stores) : r \in Lowest(ReadsOf(w))
  <2> HIDE DEF stores, ReadsOf
  <2> QED  BY <1>2
<1>5. w \in stores
  <2> HIDE DEF stores
  <2> QED  BY <1>4 DEF Lowest
<1>6. w \in data.logicWrites /\ moves /\ ReadsOf(w) # {}
  <2> HIDE DEF moves, ReadsOf
  <2> QED  BY <1>5
<1>7. GetUnderlyingVariable(w.ast) # {}
  BY <1>6
<1> QED  BY <1>3, <1>6, <1>7

LEMMA PushVspSeen ==
  ASSUME NEW data, NEW m \in TryMatchVmPushVsp(data)
  PROVE  /\ m.type = "PushVsp"
         /\ \E w \in data.logicWrites : VSP \in GetUnderlyingVariable(w.ast)
<1>1. PICK w \in data.logicWrites : /\ VSP \in GetUnderlyingVariable(w.ast)
                                    /\ m = Found(data, "PushVsp", w.size)
  BY DEF TryMatchVmPushVsp
<1> QED  BY <1>1, FoundFacts

LEMMA PopVspSeen ==
  ASSUME NEW data, NEW m \in TryMatchVmPopVsp(data)
  PROVE  /\ m.type = "PopVsp"
         /\ \E ast \in data.vspAst : IsVariable(ast, StackArg(0))
<1>1. PICK ast \in data.vspAst : /\ IsVariable(ast, StackArg(0))
                                 /\ m = Found(data, "PopVsp", 8)
  BY DEF TryMatchVmPopVsp
<1> QED  BY <1>1, FoundFacts

LEMMA ReadMemSeen ==
  ASSUME NEW data, NEW m \in TryMatchVmReadMem(data)
  PROVE  /\ m.type = "ReadMem"
         /\ \E p, r \in data.logicReads, w \in data.logicWrites :
              /\ p.addr = data.vsp.start /\ p.size = 8
              /\ r.addr = p.value
              /\ \/ data.vsp.end - data.vsp.start = 8 - r.size
                 \/ r.size = 1 /\ data.vsp.end - data.vsp.start = 6
              /\ w.addr = data.vsp.end /\ w.value = r.value
<1> DEFINE change == data.vsp.end - data.vsp.start
           pointers == {p \in At(data.logicReads, data.vsp.start) :
                          p.size = 8 /\ data.vipAst # {} /\ data.vspAst # {}}
           reads == UNION {At(data.logicReads, p.value) : p \in pointers}
<1>1. PICK r \in reads :
        /\ m = Found(data, "ReadMem", r.size)
        /\ change = 8 - r.size \/ (r.size = 1 /\ change = 6)
        /\ \E w \in At(data.logicWrites, data.vsp.end) : w.value = r.value
  <2> HIDE DEF reads
  <2>1. TryMatchVmReadMem(data) =
          {Found(data, "ReadMem", x.size) :
             x \in {y \in reads :
                      /\ change = 8 - y.size \/ (y.size = 1 /\ change = 6)
                      /\ \E w \in At(data.logicWrites, data.vsp.end) : w.value = y.value}}
    BY Zenon DEF TryMatchVmReadMem, reads
  <2> QED  BY <2>1
<1>2. PICK p \in pointers : r \in At(data.logicReads, p.value)
  <2> HIDE DEF pointers
  <2> QED  BY <1>1
<1>3. p \in data.logicReads /\ p.addr = data.vsp.start /\ p.size = 8
  BY <1>2 DEF At
<1>4. r \in data.logicReads /\ r.addr = p.value
  BY <1>2 DEF At
<1>5. PICK w \in data.logicWrites : w.addr = data.vsp.end /\ w.value = r.value
  BY <1>1 DEF At
<1>6. m.type = "ReadMem"
  BY <1>1, FoundFacts
<1> QED  BY <1>1, <1>3, <1>4, <1>5, <1>6

LEMMA WriteMemSeen ==
  ASSUME NEW data, NEW m \in TryMatchVmWriteMem(data)
  PROVE  /\ m.type = "WriteMem"
         /\ \E delta \in Deltas(data) : Abs(delta[1]) = 4 /\ delta[2] >= 9
<1> DEFINE moves == \E delta \in Deltas(data) : Abs(delta[1]) = 4 /\ delta[2] >= 9
           pointers == {p \in At(data.logicReads, data.vsp.start) : p.size = 8 /\ moves}
           writes == UNION {At(data.logicWrites, p.value) : p \in pointers}
           Low(size, value) == IF size <= 2 THEN value % 256^size ELSE value
           Kept2(x) == \E r \in At(data.logicReads, data.vsp.start + 8) :
                         Low(x.size, r.value) = Low(x.size, x.value)
<1>1. TryMatchVmWriteMem(data) = {Found(data, "WriteMem", w.size) : w \in {x \in writes : Kept2(x)}}
  BY Zenon DEF TryMatchVmWriteMem
<1> HIDE DEF Kept2, Low
<1>2. PICK w \in writes : m = Found(data, "WriteMem", w.size)
  <2> HIDE DEF writes
  <2> QED  BY <1>1
<1>3. PICK p \in pointers : w \in At(data.logicWrites, p.value)
  <2> HIDE DEF pointers
  <2> QED  BY <1>2
<1>4. moves
  <2> HIDE DEF moves
  <2> QED  BY <1>3
<1>5. m.type = "WriteMem"
  BY <1>2, FoundFacts
<1> QED  BY <1>4, <1>5

LEMMA DispatchSeen ==
  ASSUME NEW data, NEW m \in TryMatchVmDispatch(data)
  PROVE  /\ m.type = "Dispatch"
         /\ \E ast \in data.vspAst : IsVariable(ast, VSP)
         /\ \E ast \in data.vipAst : GetAddImmediate(ast, VIP) # {}
<1>1. PICK vsp \in data.vspAst :
        /\ m = Found(data, "Dispatch", 8)
        /\ IsVariable(vsp, VSP)
        /\ \E vip \in data.vipAst : GetAddImmediate(vip, VIP) \cap {-4, 4} # {}
  BY DEF TryMatchVmDispatch
<1>2. PICK vip \in data.vipAst : GetAddImmediate(vip, VIP) \cap {-4, 4} # {}
  BY <1>1
<1> QED  BY <1>1, <1>2, FoundFacts

(* A match by its bytes or as arithmetic comes before one as a dispatch.   *)
LEMMA FirstSix ==
  ASSUME NEW data, NEW rest, rest # {},
         rest = Or(TryMatchVmReadMem(data), Or(TryMatchVmWriteMem(data),
                Or(TryMatchGenericVmAlu(data), Or(TryMatchVmDoubleShift(data),
                Or(TryMatchVmJmpIndirectRemap(data), Or(TryMatchVmDispatch(data),
                Or(TryMatchVmExit(data), {NoMatch})))))))
  PROVE  MatchVmHandler(data) \in
           TryMatchVmEntry(data) \cup TryMatchVmPopReg(data) \cup TryMatchVmPushConst(data)
             \cup TryMatchVmPushReg(data) \cup TryMatchVmPushVsp(data)
             \cup TryMatchVmPopVsp(data) \cup rest
<1> DEFINE s6 == Or(TryMatchVmPopVsp(data), rest)
           s5 == Or(TryMatchVmPushVsp(data), s6)
           s4 == Or(TryMatchVmPushReg(data), s5)
           s3 == Or(TryMatchVmPushConst(data), s4)
           s2 == Or(TryMatchVmPopReg(data), s3)
           s1 == Or(TryMatchVmEntry(data), s2)
<1>0. MatchVmHandler(data) = CHOOSE match \in s1 : TRUE
  BY Zenon DEF MatchVmHandler
<1>6. s6 # {} /\ s6 \subseteq TryMatchVmPopVsp(data) \cup rest
  BY OrFacts
<1> HIDE DEF s6
<1>5. s5 # {} /\ s5 \subseteq TryMatchVmPushVsp(data) \cup s6
  BY <1>6, OrFacts, Zenon
<1> HIDE DEF s5
<1>4. s4 # {} /\ s4 \subseteq TryMatchVmPushReg(data) \cup s5
  BY <1>5, OrFacts, Zenon
<1> HIDE DEF s4
<1>3. s3 # {} /\ s3 \subseteq TryMatchVmPushConst(data) \cup s4
  BY <1>4, OrFacts, Zenon
<1> HIDE DEF s3
<1>2. s2 # {} /\ s2 \subseteq TryMatchVmPopReg(data) \cup s3
  BY <1>3, OrFacts, Zenon
<1> HIDE DEF s2
<1>1. s1 # {} /\ s1 \subseteq TryMatchVmEntry(data) \cup s2
  BY <1>2, OrFacts, Zenon
<1> HIDE DEF s1
<1>7. MatchVmHandler(data) \in s1
  BY <1>0, <1>1
<1> QED  BY <1>1, <1>2, <1>3, <1>4, <1>5, <1>6, <1>7

LEMMA DispatchLate ==
  ASSUME NEW data, TryMatchVmReadMem(data) # {} \/ TryMatchGenericVmAlu(data) # {}
  PROVE  MatchVmHandler(data).type # "Dispatch"
<1> DEFINE s10 == Or(TryMatchVmDoubleShift(data), Or(TryMatchVmJmpIndirectRemap(data),
                    Or(TryMatchVmDispatch(data), Or(TryMatchVmExit(data), {NoMatch}))))
           s9 == Or(TryMatchGenericVmAlu(data), s10)
           s8 == Or(TryMatchVmWriteMem(data), s9)
           s7 == Or(TryMatchVmReadMem(data), s8)
<1>1. PICK rest : rest = s7
  OBVIOUS
<1>2. rest # {} /\ rest \subseteq TryMatchVmReadMem(data) \cup TryMatchVmWriteMem(data)
                                    \cup TryMatchGenericVmAlu(data)
  <2> HIDE DEF s10
  <2>1. CASE TryMatchVmReadMem(data) # {}
    BY <1>1, <2>1 DEF Or
  <2>2. CASE TryMatchVmReadMem(data) = {} /\ TryMatchGenericVmAlu(data) # {}
    BY <1>1, <2>2 DEF Or
  <2> QED  BY <2>1, <2>2
<1>3. MatchVmHandler(data) \in
        TryMatchVmEntry(data) \cup TryMatchVmPopReg(data) \cup TryMatchVmPushConst(data)
          \cup TryMatchVmPushReg(data) \cup TryMatchVmPushVsp(data)
          \cup TryMatchVmPopVsp(data) \cup rest
  BY <1>1, <1>2, FirstSix
<1>4. \A t \in TryMatchGenericVmAlu(data) : t.type # "Dispatch"
  BY AluTypes, OperationTypes, Zenon
<1>5. \A t \in TryMatchVmEntry(data) : t.type # "Dispatch"
  BY ControlTypes
<1> QED  BY <1>2, <1>3, <1>4, <1>5, PopRegSeen, PushConstSeen, PushRegSeen, PushVspSeen, PopVspSeen,
            ReadMemSeen, WriteMemSeen

-----------------------------------------------------------------------------
LEMMA VariableFields ==
  ASSUME NEW ast, NEW name, IsVariable(ast, name)
  PROVE  ast.node = "var" /\ ast.vars = <<name>>
BY DEF IsVariable, Variable, Tree

(* The variable that a value shows is the name of what it was copied from. *)
LEMMA VariableShown ==
  ASSUME NEW view, NEW from, NEW name,
         \/ IsVariable(AstOf(view, from), name)
         \/ name \in GetUnderlyingVariable(AstOf(view, from))
  PROVE  /\ from.node = "var"
         /\ \A source : from.of = <<source>> => name = NameOf(view, source)
<1>0. PICK ast : ast = AstOf(view, from)
  OBVIOUS
<1>1. ast.node = "var"
  <2>1. CASE IsVariable(ast, name)
    BY <2>1, VariableFields
  <2>2. CASE name \in GetUnderlyingVariable(ast)
    BY <2>2 DEF GetUnderlyingVariable
  <2> QED  BY <1>0, <2>1, <2>2
<1>2. ast # Integer
  <2>1. Integer.node = "bv"
    BY DEF Integer, Tree
  <2> QED  BY <1>1, <2>1, Zenon
<1>3. ast = Tree(from.wrap, from.node, NamesOf(view, from.of), from.k)
  BY <1>0, <1>2, ShownOperation
<1>4. from.node = "var"
  BY <1>1, <1>3 DEF Tree
<1>5. ASSUME NEW source, from.of = <<source>>
      PROVE  name = NameOf(view, source)
  <2>1. NamesOf(view, from.of) = IF NameOf(view, source) = NoName THEN <<>>
                                 ELSE <<NameOf(view, source)>>
    BY <1>5, NamesOfOne
  <2>2. NamesOf(view, from.of) # <<>>
    BY <1>0, <1>2, Zenon DEF AstOf
  <2>3. NamesOf(view, from.of) = <<NameOf(view, source)>>
    BY <2>1, <2>2
  <2>4. ast.vars = <<NameOf(view, source)>>
    BY <1>3, <2>3 DEF Tree
  <2>5. CASE IsVariable(ast, name)
    BY <2>4, <2>5, VariableFields
  <2>6. CASE name \in GetUnderlyingVariable(ast)
    <3>1. name \in ToSet(ast.vars)
      BY <2>6 DEF GetUnderlyingVariable
    <3> QED  BY <2>4, <3>1 DEF ToSet
  <2> QED  BY <1>0, <2>5, <2>6
<1> QED  BY <1>4, <1>5

(* A copy of what has a name shows that name.                              *)
LEMMA CopyShows ==
  ASSUME NEW view, NEW source, NameOf(view, source) # NoName,
         NEW from, from.of = <<source>>
  PROVE  AstOf(view, from) = Tree(from.wrap, from.node, <<NameOf(view, source)>>, from.k)
<1>1. NamesOf(view, from.of) = <<NameOf(view, source)>>
  BY NamesOfOne
<1>2. <<NameOf(view, source)>> # <<>>
  OBVIOUS
<1> QED  BY <1>1, <1>2, Zenon DEF AstOf

LEMMA KnownShown ==
  ASSUME NEW view PROVE AstOf(view, Known) = Integer
<1>1. NamesOf(view, Known.of) = <<>>
  BY NamesOfNone DEF Known, From
<1> QED  BY <1>1, Zenon DEF AstOf

-----------------------------------------------------------------------------
(* A handler run to its end in the registers that main works with.         *)
WholeRun(h, left, run, n) ==
  /\ LoopInv /\ inside /\ RightRegisters
  /\ Ordinary(h)
  /\ run = RunOf(h, vipOf, vspOf, Plus(Reg(vipOf), h.taken), h.vsp, left, Rsp)
  /\ n = Len(h.accesses)

WholeSeen(h, data, view, n) ==
  /\ data.vsp.start = Vsp /\ data.vsp.end = Vsp + h.change
  /\ data.rsp.start = Rsp
  /\ data.vipAst = {AstOf(view, Plus(Reg(vipOf), h.taken))}
  /\ data.vspAst = {AstOf(view, h.vsp)}
  /\ data.logicReads = Recorded(view, "read", n)
  /\ data.logicWrites = Recorded(view, "write", n)
  /\ view.vsp = Vsp /\ view.rsp = Rsp /\ view.accesses = h.accesses
  /\ NameOf(view, Reg(vspOf)) = VSP /\ NameOf(view, Reg(vipOf)) = VIP

LEMMA WholeData ==
  ASSUME NEW h, NEW left, NEW run, NEW n, WholeRun(h, left, run, n), left[vipOf] = Kept
  PROVE  WholeSeen(h, DataOf(run, n, TRUE), ViewOf(run), n)
<1> DEFINE data == DataOf(run, n, TRUE)
           view == ViewOf(run)
<1>1. /\ vipOf \in Regs /\ vspOf \in Regs /\ vipOf # vspOf /\ inside
      /\ vipReg = vipOf /\ vspReg = vspOf
      /\ run = RunOf(h, vipOf, vspOf, Plus(Reg(vipOf), h.taken), h.vsp, left, Rsp)
  BY DEF WholeRun, LoopInv, RightRegisters
<1>2. vipOf # NoReg /\ vspOf # NoReg
  BY <1>1, RegsAssumption DEF NoReg
<1>3. StartOf(vspReg) = Vsp
  BY <1>1, <1>2 DEF StartOf, Vsp
<1>4. view.vsp = Vsp /\ view.rsp = Rsp /\ view.accesses = run.accesses
  BY <1>3 DEF ViewOf
<1>5. /\ run.accesses = h.accesses
      /\ run.final[vspOf] = h.vsp /\ run.value[vspOf] = Vsp + h.change
      /\ run.final[vipOf] = Plus(Reg(vipOf), h.taken)
  <2>1. left[vipOf] # CopyOfVsp
    BY DEF Kept, CopyOfVsp
  <2> QED  BY <1>1, <2>1 DEF RunOf
<1>6. /\ data.logicReads = Recorded(view, "read", n)
      /\ data.logicWrites = Recorded(view, "write", n)
      /\ data.vsp.start = Vsp /\ data.rsp.start = Rsp
  BY <1>3, DataFacts, ZenonT(60)
<1>7. data.vsp.end = run.value[vspReg]
  BY <1>1, <1>2 DEF DataOf, Emulate
<1>8. data.vipAst = {AstOf(view, run.final[vipReg])}
  BY <1>1, <1>2 DEF DataOf, Emulate, ViewOf, StartOf
<1>9. data.vspAst = {AstOf(view, run.final[vspReg])}
  BY <1>1, <1>2 DEF DataOf, Emulate, ViewOf, StartOf
<1>10. NameOf(view, Reg(vspOf)) = VSP /\ NameOf(view, Reg(vipOf)) = VIP
  <2>1. view.vspReg = vspOf /\ view.vipReg = vipOf
    BY <1>1 DEF ViewOf
  <2>2. \A q : Reg(q)[1] = "reg" /\ Reg(q)[2] = q
    BY DEF Reg
  <2> HIDE DEF view
  <2> QED  BY <1>1, <2>1, <2>2 DEF NameOf
<1> QED  BY <1>1, <1>4, <1>5, <1>6, <1>7, <1>8, <1>9, <1>10 DEF WholeSeen

LEMMA WholeDeltas ==
  ASSUME NEW h, NEW left, NEW run, NEW n, WholeRun(h, left, run, n), left[vipOf] = Kept,
         NEW delta \in Deltas(DataOf(run, n, TRUE))
  PROVE  delta[1] = h.taken /\ delta[2] = h.change /\ h.vsp.node = "bvadd"
<1>0. PICK data, view : data = DataOf(run, n, TRUE) /\ view = ViewOf(run)
  OBVIOUS
<1>1. /\ data.vipAst = {AstOf(view, Plus(Reg(vipOf), h.taken))}
      /\ data.vspAst = {AstOf(view, h.vsp)}
  <2>1. WholeSeen(h, data, view, n)
    BY <1>0, WholeData, Zenon
  <2> QED  BY <2>1 DEF WholeSeen
<1>2. delta \in GetAddImmediate(AstOf(view, Plus(Reg(vipOf), h.taken)), VIP)
                  \X GetAddImmediate(AstOf(view, h.vsp), VSP)
  <2>1. delta \in UNION {GetAddImmediate(vip, VIP) \X GetAddImmediate(vsp, VSP) :
                           vip \in data.vipAst, vsp \in data.vspAst}
    <3>1. delta \in Deltas(data)
      BY <1>0
    <3> QED  BY <3>1 DEF Deltas
  <2> QED  BY <1>1, <2>1
<1>3. /\ delta[1] \in GetAddImmediate(AstOf(view, Plus(Reg(vipOf), h.taken)), VIP)
      /\ delta[2] \in GetAddImmediate(AstOf(view, h.vsp), VSP)
  BY <1>2
<1>4. \A source, k : Plus(source, k).node = "bvadd" => Plus(source, k).k = k
  BY DEF Plus, Copy, From
<1>5. delta[1] = h.taken
  <2>1. PICK from : from = Plus(Reg(vipOf), h.taken)
    OBVIOUS
  <2>2. from.of = <<Reg(vipOf)>>
    BY <2>1, Sources
  <2>3. from.node = "bvadd" /\ delta[1] = from.k
    BY <1>3, <2>1, <2>2, AddedTo
  <2> QED  BY <1>4, <2>1, <2>3
<1>6. PICK from : from = h.vsp
  OBVIOUS
<1>7. from = Plus(Reg(vspOf), h.change) \/ from = Copy(Mem(1))
  BY <1>6 DEF WholeRun, Ordinary
<1>8. PICK source : from.of = <<source>>
  BY <1>7, Sources
<1>9. from.node = "bvadd" /\ delta[2] = from.k
  BY <1>3, <1>6, <1>8, AddedTo
<1>10. from = Plus(Reg(vspOf), h.change)
  BY <1>7, <1>9, Sources
<1> QED  BY <1>4, <1>5, <1>6, <1>9, <1>10

-----------------------------------------------------------------------------
(* What is recorded are accesses of the handler, for each address the last.*)
RecordOf(view, kind, a, x) ==
  /\ a.kind = kind
  /\ x.addr = a.addr /\ x.size = a.size /\ x.value = a.value
  /\ x.ast = AstOf(view, a.from)

LEMMA RecordedIn ==
  ASSUME NEW view, NEW S, view.accesses \in Seq(S), NEW kind,
         NEW x \in Recorded(view, kind, Len(view.accesses))
  PROVE  \E a \in S : RecordOf(view, kind, a, x)
<1>1. PICK i \in 1..Len(view.accesses) :
        LET a == view.accesses[i]
        IN /\ a.kind = kind
           /\ x.addr = a.addr /\ x.size = a.size /\ x.value = a.value
           /\ x.ast = AstOf(view, a.from)
  BY DEF Recorded
<1>2. view.accesses[i] \in S
  OBVIOUS
<1> QED  BY <1>1, <1>2 DEF RecordOf

LEMMA RecordedLast ==
  ASSUME NEW view, NEW kind, NEW n, NEW i \in 1..n,
         view.accesses[i].kind = kind,
         \A l \in 1..n : l > i /\ view.accesses[l].kind = kind
                           => view.accesses[l].addr # view.accesses[i].addr
  PROVE  \E x \in Recorded(view, kind, n) : RecordOf(view, kind, view.accesses[i], x)
<1> DEFINE of == {j \in 1..n : view.accesses[j].kind = kind}
           Record(j) == [addr |-> view.accesses[j].addr, size |-> view.accesses[j].size,
                           value |-> view.accesses[j].value, base |-> view.accesses[j].base,
                           instruction |-> view.accesses[j].instruction,
                           ast |-> AstOf(view, view.accesses[j].from)]
<1>1. i \in {j \in of : \A l \in of : l > j => view.accesses[l].addr # view.accesses[j].addr}
  OBVIOUS
<1>2. Record(i) \in Recorded(view, kind, n)
  BY <1>1 DEF Recorded
<1>3. /\ Record(i).addr = view.accesses[i].addr
      /\ Record(i).size = view.accesses[i].size
      /\ Record(i).value = view.accesses[i].value
      /\ Record(i).ast = AstOf(view, view.accesses[i].from)
  OBVIOUS
<1> QED  BY <1>2, <1>3 DEF RecordOf

LEMMA LoadFields ==
  ASSUME NEW i, NEW addr, NEW size, NEW value, NEW a, a = Load(i, addr, size, value)
  PROVE  /\ a.kind = "read" /\ a.addr = addr /\ a.size = size /\ a.value = value
         /\ a.from = Copy(Mem(i))
BY DEF Load, Access

LEMMA StoreFields ==
  ASSUME NEW addr, NEW size, NEW value, NEW from, NEW a, a = Store(addr, size, value, from)
  PROVE  /\ a.kind = "write" /\ a.addr = addr /\ a.size = size /\ a.value = value
         /\ a.from = from
BY DEF Store, Access

LEMMA FetchFields ==
  ASSUME NEW i, NEW reg, NEW a, a = Fetch(i, reg)
  PROVE  a.kind = "read" /\ a.addr = Bytecode /\ a.size = 4 /\ a.value = 1
<1>1. PICK l : l = Load(i, Bytecode, 4, 1)
  OBVIOUS
<1>2. l.kind = "read" /\ l.addr = Bytecode /\ l.size = 4 /\ l.value = 1
  BY <1>1, LoadFields
<1>3. a = [l EXCEPT !.instruction = "fetch", !.base = reg]
  BY <1>1, Zenon DEF Fetch
<1>4. l = [kind |-> l.kind, addr |-> l.addr, size |-> l.size, value |-> l.value, from |-> l.from,
           instruction |-> l.instruction, base |-> l.base]
  BY <1>1 DEF Load, Access
<1> QED  BY <1>2, <1>3, <1>4

(* A handler made of its accesses and of the fetch of the next opcode.     *)
Made(h, op, d, accesses, taken, change) ==
  /\ h.op = op /\ h.d = d /\ h.taken = taken /\ h.change = change
  /\ h.vsp = Plus(Reg(vspOf), change)
  /\ h.accesses = Append(accesses, Fetch(Len(accesses) + 1, vipOf))

LEMMA NativeMade ==
  ASSUME NEW op, NEW d, NEW accesses, NEW taken, NEW change,
         NEW h, h = Native(op, d, accesses, taken, change)
  PROVE  Made(h, op, d, accesses, taken, change)
<1>1. PICK vsp, all : vsp = Plus(Reg(vspOf), change)
                      /\ all = Append(accesses, Fetch(Len(accesses) + 1, vipOf))
  OBVIOUS
<1>2. h = [op |-> op, d |-> d, accesses |-> all, taken |-> taken, change |-> change,
           vsp |-> vsp, moved |-> 0, a |-> 0, b |-> 0]
  BY <1>1, Zenon DEF Native
<1> QED  BY <1>1, <1>2 DEF Made

(* The operands that are noted in it change nothing else.                  *)
LEMMA OperandMade ==
  ASSUME NEW op, NEW d, NEW accesses, NEW taken, NEW change,
         NEW g, g = Native(op, d, accesses, taken, change), NEW a,
         NEW h, h = [g EXCEPT !.a = a]
  PROVE  Made(h, op, d, accesses, taken, change) /\ h.a = a
<1>1. PICK vsp, all : vsp = Plus(Reg(vspOf), change)
                      /\ all = Append(accesses, Fetch(Len(accesses) + 1, vipOf))
  OBVIOUS
<1>2. g = [op |-> op, d |-> d, accesses |-> all, taken |-> taken, change |-> change,
           vsp |-> vsp, moved |-> 0, a |-> 0, b |-> 0]
  BY <1>1, Zenon DEF Native
<1>3. h = [op |-> op, d |-> d, accesses |-> all, taken |-> taken, change |-> change,
           vsp |-> vsp, moved |-> 0, a |-> a, b |-> 0]
  BY <1>2
<1> QED  BY <1>1, <1>3 DEF Made

LEMMA OperandsMade ==
  ASSUME NEW op, NEW d, NEW accesses, NEW taken, NEW change,
         NEW g, g = Native(op, d, accesses, taken, change), NEW a, NEW b,
         NEW k, k = [g EXCEPT !.a = a], NEW h, h = [k EXCEPT !.b = b]
  PROVE  Made(h, op, d, accesses, taken, change) /\ h.a = a /\ h.b = b
<1>1. Made(g, op, d, accesses, taken, change)
  BY NativeMade
<1>2. g = [op |-> g.op, d |-> g.d, accesses |-> g.accesses, taken |-> g.taken,
           change |-> g.change, vsp |-> g.vsp, moved |-> g.moved, a |-> g.a, b |-> g.b]
  BY DEF Native
<1>3. k = [op |-> g.op, d |-> g.d, accesses |-> g.accesses, taken |-> g.taken,
              change |-> g.change, vsp |-> g.vsp, moved |-> g.moved, a |-> a, b |-> g.b]
  BY <1>2
<1>4. /\ h.op = g.op /\ h.d = g.d /\ h.accesses = g.accesses /\ h.taken = g.taken
      /\ h.change = g.change /\ h.vsp = g.vsp /\ h.a = a /\ h.b = b
  BY <1>3
<1> QED  BY <1>1, <1>4 DEF Made

EndsWith(accesses, s, f, S) ==
  /\ accesses \in Seq(S \cup {f})
  /\ Len(accesses) = Len(s) + 1
  /\ \A i \in 1..Len(s) : accesses[i] = s[i]
  /\ accesses[Len(s) + 1] = f

LEMMA MadeAccesses ==
  ASSUME NEW h, NEW op, NEW d, NEW s, NEW taken, NEW change, Made(h, op, d, s, taken, change),
         NEW S, s \in Seq(S), NEW f, f = Fetch(Len(s) + 1, vipOf)
  PROVE  EndsWith(h.accesses, s, f, S)
<1>1. h.accesses = Append(s, f)
  BY DEF Made
<1>2. Append(s, f) \in Seq(S \cup {f})
  OBVIOUS
<1>3. /\ Len(Append(s, f)) = Len(s) + 1
      /\ \A i \in 1..Len(s) : Append(s, f)[i] = s[i]
      /\ Append(s, f)[Len(s) + 1] = f
  OBVIOUS
<1> QED  BY <1>1, <1>2, <1>3 DEF EndsWith

-----------------------------------------------------------------------------
(* What tells the handlers apart: how far they move, where the values come *)
(* from that they write, and whether they read memory through an address.  *)
LooksSo(h) ==
  h.op \in Flagged /\ h.d = 8 /\ ((h.a = Vsp + 8 /\ h.b = Flags) \/ h.a = Context - 8)
Chain(h, p, r, w) ==
  /\ p.kind = "read" /\ p.addr = Vsp /\ p.size = 8
  /\ r.kind = "read" /\ r.addr = p.value
  /\ h.change = 8 - r.size \/ (r.size = 1 /\ h.change = 6)
  /\ w.kind = "write" /\ w.addr = Vsp + h.change /\ w.value = r.value
Sourced(from) ==
  from.node = "var" => \E source : /\ from.of = <<source>>
                                   /\ source = <<"flags", 0>> \/ \E i : source = Mem(i)
Moves(h) ==
  /\ h.op # "PopVsp" => h.vsp = Plus(Reg(vspOf), h.change)
  /\ h.change = 0 => h.op = "Dispatch" \/ (h.op \in {"ReadMem"} \cup Flagged /\ h.d = 8)
  /\ \/ h.op = "Pop" /\ h.taken = 5 /\ h.change \in 1..8
     \/ h.op = "PushReg" /\ h.taken = 5 /\ h.change \in {-2, -4, -8}
     \/ h.op = "PushConst" /\ h.taken \in 5..12 /\ h.change < 0
     \/ h.op = "PopVsp" /\ h.taken = 4 /\ h.vsp = Copy(Mem(1))
     \/ h.op \in {"PushVsp", "Dispatch", "ReadMem"} \cup Logic /\ h.taken = 4 /\ h.change <= 6
     \/ h.op = "WriteMem" /\ h.taken = 4 /\ h.change \in 9..16
  /\ h.change \in -8..16
Distinct(h, S) ==
  /\ h.accesses \in Seq(S)
  /\ Moves(h)
  /\ \A p, r, w \in S : Chain(h, p, r, w) => h.op = "ReadMem" \/ LooksSo(h)
  /\ \A w \in S : w.kind = "write" => /\ h.op # "PushVsp" => Sourced(w.from)
                                      /\ h.op = "PushConst" => w.from = Known

LEMMA Widths1 ==
  ASSUME NEW d \in Widths
  PROVE  /\ d \in {1, 2, 4, 8} /\ StackSize(d) \in {2, 4, 8}
         /\ d # 1 => StackSize(d) = d
         /\ StackSize(d) = 8 => d = 8
BY MatchingAssumption DEF StackSize

LEMMA SourcedFacts ==
  /\ Sourced(Known)
  /\ \A wrap, i : Sourced(From(wrap, "var", 0, <<Mem(i)>>))
  /\ \A i : Sourced(Copy(Mem(i)))
  /\ Sourced(Copy(<<"flags", 0>>))
  /\ \A wrap, node, of : node # "var" => Sourced(From(wrap, node, 0, of))
BY Sources DEF Sourced

LEMMA MadeOne ==
  ASSUME NEW h, NEW op, NEW d, NEW taken, NEW change, NEW x,
         Made(h, op, d, <<x>>, taken, change), NEW f, f = Fetch(2, vipOf)
  PROVE  /\ h.accesses \in Seq({x, f})
         /\ Len(h.accesses) = 2
         /\ h.accesses[1] = x /\ h.accesses[2] = f
<1>1. PICK s : s = <<x>>
  OBVIOUS
<1>2. s \in Seq({x}) /\ Len(s) = 1 /\ s[1] = x
  BY <1>1
<1>3. Fetch(Len(s) + 1, vipOf) = f
  BY <1>2
<1>4. Made(h, op, d, s, taken, change)
  BY <1>1
<1>0. PICK S : S = {x}
  OBVIOUS
<1>5. /\ h.accesses \in Seq(S \cup {f})
      /\ Len(h.accesses) = Len(s) + 1
      /\ \A i \in 1..Len(s) : h.accesses[i] = s[i]
      /\ h.accesses[Len(s) + 1] = f
  <2>1. s \in Seq(S) /\ f = Fetch(Len(s) + 1, vipOf)
    BY <1>0, <1>2, <1>3
  <2>2. EndsWith(h.accesses, s, f, S)
    BY <1>4, <2>1, MadeAccesses, Zenon
  <2> QED  BY <2>2 DEF EndsWith
<1>6. S \cup {f} = {x, f}
  BY <1>0
<1> QED  BY <1>2, <1>5, <1>6

LEMMA MadeTwo ==
  ASSUME NEW h, NEW op, NEW d, NEW taken, NEW change, NEW x, NEW y,
         Made(h, op, d, <<x, y>>, taken, change), NEW f, f = Fetch(3, vipOf)
  PROVE  /\ h.accesses \in Seq({x, y, f})
         /\ Len(h.accesses) = 3
         /\ h.accesses[1] = x /\ h.accesses[2] = y /\ h.accesses[3] = f
<1>1. PICK s : s = <<x, y>>
  OBVIOUS
<1>2. s \in Seq({x, y}) /\ Len(s) = 2 /\ s[1] = x /\ s[2] = y
  BY <1>1
<1>3. Fetch(Len(s) + 1, vipOf) = f
  BY <1>2
<1>4. Made(h, op, d, s, taken, change)
  BY <1>1
<1>0. PICK S : S = {x, y}
  OBVIOUS
<1>5. /\ h.accesses \in Seq(S \cup {f})
      /\ Len(h.accesses) = Len(s) + 1
      /\ \A i \in 1..Len(s) : h.accesses[i] = s[i]
      /\ h.accesses[Len(s) + 1] = f
  <2>1. s \in Seq(S) /\ f = Fetch(Len(s) + 1, vipOf)
    BY <1>0, <1>2, <1>3
  <2>2. EndsWith(h.accesses, s, f, S)
    BY <1>4, <2>1, MadeAccesses, Zenon
  <2> QED  BY <2>2 DEF EndsWith
<1>6. S \cup {f} = {x, y, f}
  BY <1>0
<1> QED  BY <1>2, <1>5, <1>6

LEMMA MadeThree ==
  ASSUME NEW h, NEW op, NEW d, NEW taken, NEW change, NEW x, NEW y, NEW z,
         Made(h, op, d, <<x, y, z>>, taken, change), NEW f, f = Fetch(4, vipOf)
  PROVE  /\ h.accesses \in Seq({x, y, z, f})
         /\ Len(h.accesses) = 4
         /\ h.accesses[1] = x /\ h.accesses[2] = y /\ h.accesses[3] = z /\ h.accesses[4] = f
<1>1. PICK s : s = <<x, y, z>>
  OBVIOUS
<1>2. s \in Seq({x, y, z}) /\ Len(s) = 3 /\ s[1] = x /\ s[2] = y /\ s[3] = z
  BY <1>1
<1>3. Fetch(Len(s) + 1, vipOf) = f
  BY <1>2
<1>4. Made(h, op, d, s, taken, change)
  BY <1>1
<1>0. PICK S : S = {x, y, z}
  OBVIOUS
<1>5. /\ h.accesses \in Seq(S \cup {f})
      /\ Len(h.accesses) = Len(s) + 1
      /\ \A i \in 1..Len(s) : h.accesses[i] = s[i]
      /\ h.accesses[Len(s) + 1] = f
  <2>1. s \in Seq(S) /\ f = Fetch(Len(s) + 1, vipOf)
    BY <1>0, <1>2, <1>3
  <2>2. EndsWith(h.accesses, s, f, S)
    BY <1>4, <2>1, MadeAccesses, Zenon
  <2> QED  BY <2>2 DEF EndsWith
<1>6. S \cup {f} = {x, y, z, f}
  BY <1>0
<1> QED  BY <1>2, <1>5, <1>6

LEMMA PopDistinct ==
  ASSUME LoopInv, OnItsStack, inside, NEW h \in Pops
  PROVE  h.op = "Pop" /\ \E S : Distinct(h, S)
<1>1. PICK d, wrap, load, store :
        /\ d \in Widths
        /\ load = Load(1, Vsp, StackSize(d), 7)
        /\ store = Store(Context + 64, d, 7, From(wrap, "var", 0, <<Mem(1)>>))
        /\ h = Native("Pop", d, <<load, store>>, 5, StackSize(d))
  BY DEF Pops
<1>0. d \in Widths
  BY <1>1, Zenon
<1>2. load = Load(1, Vsp, StackSize(d), 7)
  BY <1>1
<1>4. store = Store(Context + 64, d, 7, From(wrap, "var", 0, <<Mem(1)>>))
  BY <1>1
<1>5. PICK fetch : fetch = Fetch(3, vipOf)
  OBVIOUS
<1>6. Made(h, "Pop", d, <<load, store>>, 5, StackSize(d))
  BY <1>1, NativeMade
<1>7. h.accesses \in Seq({load, store, fetch})
  BY <1>5, <1>6, MadeTwo
<1>8. load.kind = "read" /\ load.addr = Vsp /\ load.value = 7
  BY <1>2, LoadFields
<1>9. store.kind = "write" /\ store.from = From(wrap, "var", 0, <<Mem(1)>>)
  BY <1>4, StoreFields
<1>10. fetch.kind = "read" /\ fetch.addr = Bytecode
  BY <1>5, FetchFields
<1>11. Moves(h)
  BY <1>6, <1>0, Widths1 DEF Made, Moves
<1>12. ASSUME NEW p \in {load, store, fetch}, NEW r \in {load, store, fetch}, NEW w,
              Chain(h, p, r, w)
       PROVE  FALSE
  BY <1>8, <1>9, <1>10, <1>12, StackPlaces DEF Chain
<1>13. Sourced(store.from) /\ h.op = "Pop"
  BY <1>6, <1>9, SourcedFacts DEF Made
<1> QED  BY <1>7, <1>8, <1>10, <1>11, <1>12, <1>13 DEF Distinct

LEMMA PushRegDistinct ==
  ASSUME LoopInv, OnItsStack, inside, NEW h \in PushRegs
  PROVE  h.op = "PushReg" /\ \E S : Distinct(h, S)
<1>1. PICK d, wrap, load, store :
        /\ d \in Widths
        /\ load = Load(1, Context + 64, d, 7)
        /\ store = Store(Vsp - StackSize(d), StackSize(d), 7, From(wrap, "var", 0, <<Mem(1)>>))
        /\ h = Native("PushReg", d, <<load, store>>, 5, -StackSize(d))
  BY DEF PushRegs
<1>0. d \in Widths
  BY <1>1, Zenon
<1>2. load = Load(1, Context + 64, d, 7)
  BY <1>1
<1>4. store = Store(Vsp - StackSize(d), StackSize(d), 7, From(wrap, "var", 0, <<Mem(1)>>))
  BY <1>1
<1>5. PICK fetch : fetch = Fetch(3, vipOf)
  OBVIOUS
<1>6. Made(h, "PushReg", d, <<load, store>>, 5, -StackSize(d))
  BY <1>1, NativeMade
<1>7. h.accesses \in Seq({load, store, fetch})
  BY <1>5, <1>6, MadeTwo
<1>8. load.kind = "read" /\ load.addr = Context + 64
  BY <1>2, LoadFields
<1>9. store.kind = "write" /\ store.from = From(wrap, "var", 0, <<Mem(1)>>)
  BY <1>4, StoreFields
<1>10. fetch.kind = "read" /\ fetch.addr = Bytecode
  BY <1>5, FetchFields
<1>11. Moves(h)
  BY <1>6, <1>0, Widths1 DEF Made, Moves
<1>12. ASSUME NEW p \in {load, store, fetch}, NEW r, NEW w, Chain(h, p, r, w)
       PROVE  FALSE
  BY <1>8, <1>9, <1>10, <1>12, StackPlaces DEF Chain
<1>13. Sourced(store.from) /\ h.op = "PushReg"
  BY <1>6, <1>9, SourcedFacts DEF Made
<1> QED  BY <1>7, <1>8, <1>10, <1>11, <1>12, <1>13 DEF Distinct

LEMMA PushConstDistinct ==
  ASSUME LoopInv, OnItsStack, inside, NEW h \in PushConsts
  PROVE  h.op = "PushConst" /\ \E S : Distinct(h, S)
<1>1. PICK d \in Widths :
        h = Native("PushConst", d,
              <<Load(1, Bytecode + 100, d, 1), Store(Vsp - StackSize(d), StackSize(d), 1, Known)>>,
              4 + d, -StackSize(d))
  BY DEF PushConsts
<1>2. PICK load : load = Load(1, Bytecode + 100, d, 1)
  OBVIOUS
<1>3. PICK store : store = Store(Vsp - StackSize(d), StackSize(d), 1, Known)
  OBVIOUS
<1>4. PICK fetch : fetch = Fetch(3, vipOf)
  OBVIOUS
<1>5. Made(h, "PushConst", d, <<load, store>>, 4 + d, -StackSize(d))
  BY <1>1, <1>2, <1>3, NativeMade, Zenon
<1>6. h.accesses \in Seq({load, store, fetch})
  BY <1>4, <1>5, MadeTwo
<1>7. load.kind = "read" /\ load.addr = Bytecode + 100 /\ load.value = 1
  BY <1>2, LoadFields
<1>8. store.kind = "write" /\ store.from = Known
  BY <1>3, StoreFields
<1>9. fetch.kind = "read" /\ fetch.addr = Bytecode
  BY <1>4, FetchFields
<1>10. Moves(h)
  BY <1>5, Widths1 DEF Made, Moves
<1>11. ASSUME NEW p \in {load, store, fetch}, NEW r \in {load, store, fetch}, NEW w,
              Chain(h, p, r, w)
       PROVE  FALSE
  BY <1>7, <1>8, <1>9, <1>11, StackPlaces DEF Chain
<1>12. Sourced(store.from) /\ h.op = "PushConst"
  BY <1>5, <1>8, SourcedFacts DEF Made
<1> QED  BY <1>6, <1>7, <1>8, <1>9, <1>10, <1>11, <1>12 DEF Distinct

LEMMA PushVspDistinct ==
  ASSUME LoopInv, OnItsStack, inside, NEW h \in PushVsps
  PROVE  h.op = "PushVsp" /\ \E S : Distinct(h, S)
<1>1. PICK d, from, store :
        /\ d \in Widths \ {1}
        /\ store = Store(Vsp - d, d, Vsp, from)
        /\ h = Native("PushVsp", d, <<store>>, 4, -d)
  BY DEF PushVsps
<1>0. d \in Widths \ {1}
  BY <1>1, Zenon
<1>2. store = Store(Vsp - d, d, Vsp, from)
  BY <1>1
<1>3. PICK fetch : fetch = Fetch(2, vipOf)
  OBVIOUS
<1>4. Made(h, "PushVsp", d, <<store>>, 4, -d)
  BY <1>1, NativeMade
<1>5. h.accesses \in Seq({store, fetch})
  BY <1>3, <1>4, MadeOne
<1>6. store.kind = "write"
  BY <1>2, StoreFields
<1>7. fetch.kind = "read" /\ fetch.addr = Bytecode
  BY <1>3, FetchFields
<1>8. Moves(h)
  BY <1>4, <1>0, Widths1 DEF Made, Moves
<1>9. ASSUME NEW p \in {store, fetch}, NEW r, NEW w, Chain(h, p, r, w)
      PROVE  FALSE
  BY <1>6, <1>7, <1>9, StackPlaces DEF Chain
<1>10. h.op = "PushVsp"
  BY <1>4 DEF Made
<1> QED  BY <1>5, <1>7, <1>8, <1>9, <1>10 DEF Distinct

LEMMA NopDistinct ==
  ASSUME LoopInv, OnItsStack, inside, NEW h \in Nops
  PROVE  h.op = "Dispatch" /\ \E S : Distinct(h, S)
<1>1. h = Native("Dispatch", 8, <<>>, 4, 0)
  BY DEF Nops
<1>2. PICK fetch : fetch = Fetch(1, vipOf)
  OBVIOUS
<1>3. Made(h, "Dispatch", 8, <<>>, 4, 0)
  BY <1>1, NativeMade
<1>4. h.accesses \in Seq({fetch})
  <2>1. h.accesses = <<fetch>>
    BY <1>2, <1>3 DEF Made
  <2> QED  BY <2>1
<1>5. fetch.kind = "read"
  BY <1>2, FetchFields
<1>6. Moves(h)
  BY <1>3 DEF Made, Moves
<1>7. h.op = "Dispatch"
  BY <1>3 DEF Made
<1> QED  BY <1>4, <1>5, <1>6, <1>7 DEF Distinct, Chain

LEMMA PopVspDistinct ==
  ASSUME LoopInv, OnItsStack, inside, NEW h \in PopVsps
  PROVE  h.op = "PopVsp" /\ \E S : Distinct(h, S)
<1>0. PICK moved : h = [Native("PopVsp", 8, <<Load(1, Vsp, 8, Vsp + 16)>>, 4, 16)
                          EXCEPT !.vsp = Copy(Mem(1)), !.moved = moved]
  BY DEF PopVsps
<1>1. PICK load, g :
        /\ load = Load(1, Vsp, 8, Vsp + 16)
        /\ g = Native("PopVsp", 8, <<load>>, 4, 16)
        /\ h = [g EXCEPT !.vsp = Copy(Mem(1)), !.moved = moved]
  BY <1>0
<1>2. PICK fetch : fetch = Fetch(2, vipOf)
  OBVIOUS
<1>3. Made(g, "PopVsp", 8, <<load>>, 4, 16)
  BY <1>1, NativeMade
<1>4. g.accesses \in Seq({load, fetch})
  BY <1>2, <1>3, MadeOne
<1>5. /\ h.accesses = g.accesses /\ h.op = g.op /\ h.taken = g.taken /\ h.change = g.change
      /\ h.vsp = Copy(Mem(1))
  <2>1. PICK copy : copy = Copy(Mem(1))
    OBVIOUS
  <2>2. g = [op |-> g.op, d |-> g.d, accesses |-> g.accesses, taken |-> g.taken, change |-> g.change,
             vsp |-> g.vsp, moved |-> g.moved, a |-> g.a, b |-> g.b]
    BY <1>1 DEF Native
  <2>3. h = [g EXCEPT !.vsp = copy, !.moved = moved]
    BY <1>1, <2>1
  <2> QED  BY <2>1, <2>2, <2>3
<1>6. load.kind = "read" /\ load.addr = Vsp /\ load.value = Vsp + 16
  <2>1. load = Load(1, Vsp, 8, Vsp + 16)
    BY <1>1
  <2> QED  BY <2>1, LoadFields
<1>7. fetch.kind = "read" /\ fetch.addr = Bytecode
  BY <1>2, FetchFields
<1>8. Moves(h)
  BY <1>3, <1>5 DEF Made, Moves
<1>9. ASSUME NEW p \in {load, fetch}, NEW r \in {load, fetch}, NEW w, Chain(h, p, r, w)
      PROVE  FALSE
  BY <1>6, <1>7, <1>9, StackPlaces DEF Chain
<1>10. h.op = "PopVsp"
  BY <1>3, <1>5 DEF Made
<1> QED  BY <1>4, <1>5, <1>6, <1>7, <1>8, <1>9, <1>10 DEF Distinct

(* A read of memory, whatever the address.                                 *)
ReadMemParts(h, d, a, pointer, load, store) ==
  /\ d \in Widths /\ a \in Operands(8) /\ h.a = a
  /\ pointer = Load(1, Vsp, 8, a)
  /\ \E value : /\ value = IF a # Vsp THEN 1 ELSE IF d > 2 THEN a ELSE a % 256^d
                /\ load = Load(2, a, d, value)
                /\ \E wrap : store = Store(Vsp + 8 - StackSize(d), StackSize(d), value,
                                           From(wrap, "var", 0, <<Mem(2)>>))
  /\ Made(h, "ReadMem", d, <<pointer, load, store>>, 4, 8 - StackSize(d))

LEMMA ReadMemMade ==
  \A h \in ReadMems : \E d, a, pointer, load, store :
    ReadMemParts(h, d, a, pointer, load, store)
<1> DEFINE ValueOf(d, a) == IF a # Vsp THEN 1 ELSE IF d > 2 THEN a ELSE a % 256^d
           StoreOf(d, v) == Store(Vsp + 8 - StackSize(d), StackSize(d), v,
                                  From(IF d = 1 THEN "zx" ELSE "", "var", 0, <<Mem(2)>>))
           Accesses(d, a) == <<Load(1, Vsp, 8, a), Load(2, a, d, ValueOf(d, a)),
                               StoreOf(d, ValueOf(d, a))>>
           NativeOf(d, a) == Native("ReadMem", d, Accesses(d, a), 4, 8 - StackSize(d))
           Built(d, a) == [NativeOf(d, a) EXCEPT !.a = a]
<1>1. ReadMems = {Built(d, a) : d \in Widths, a \in Operands(8)}
  BY DEF ReadMems
<1> SUFFICES ASSUME NEW h \in ReadMems
             PROVE  \E d, a, pointer, load, store :
                      ReadMemParts(h, d, a, pointer, load, store)
  OBVIOUS
<1> HIDE DEF Built
<1>2. PICK d \in Widths, a \in Operands(8) : h = Built(d, a)
  BY <1>1
<1> USE DEF Built
<1> HIDE DEF ValueOf
<1>3. PICK value : value = ValueOf(d, a)
  OBVIOUS
<1> HIDE DEF StoreOf
<1>4. PICK pointer, load, store :
        /\ pointer = Load(1, Vsp, 8, a) /\ load = Load(2, a, d, value)
        /\ store = StoreOf(d, value)
  OBVIOUS
<1>5. PICK g, accesses, change :
        /\ accesses = <<pointer, load, store>> /\ change = 8 - StackSize(d)
        /\ g = Native("ReadMem", d, accesses, 4, change)
  OBVIOUS
<1>6. h = [g EXCEPT !.a = a]
  BY <1>2, <1>3, <1>4, <1>5
<1>7. g = Native("ReadMem", d, accesses, 4, change)
  BY <1>5
<1>8. Made(h, "ReadMem", d, accesses, 4, change) /\ h.a = a
  <2>1. PICK op, taken : op = "ReadMem" /\ taken = 4
    OBVIOUS
  <2>2. g = Native(op, d, accesses, taken, change)
    BY <1>7, <2>1, Zenon
  <2>3. Made(h, op, d, accesses, taken, change)
    BY <1>6, <2>2, OperandMade, Zenon
  <2>4. g = [op |-> g.op, d |-> g.d, accesses |-> g.accesses, taken |-> g.taken,
             change |-> g.change, vsp |-> g.vsp, moved |-> g.moved, a |-> g.a, b |-> g.b]
    BY <2>2 DEF Native
  <2> QED  BY <1>6, <2>1, <2>3, <2>4
<1>9. PICK wrap : store = Store(Vsp + 8 - StackSize(d), StackSize(d), value,
                                From(wrap, "var", 0, <<Mem(2)>>))
  BY <1>4 DEF StoreOf
<1>10. value = IF a # Vsp THEN 1 ELSE IF d > 2 THEN a ELSE a % 256^d
  BY <1>3 DEF ValueOf
<1>11. Made(h, "ReadMem", d, <<pointer, load, store>>, 4, 8 - StackSize(d))
  BY <1>5, <1>8
<1>12. ReadMemParts(h, d, a, pointer, load, store)
  BY <1>4, <1>8, <1>9, <1>10, <1>11 DEF ReadMemParts
<1> QED  BY <1>12

LEMMA ReadMemDistinct ==
  ASSUME LoopInv, OnItsStack, inside, NEW h \in ReadMems
  PROVE  h.op = "ReadMem" /\ \E S : Distinct(h, S)
<1>1. PICK d, a, pointer, load, store : ReadMemParts(h, d, a, pointer, load, store)
  BY ReadMemMade
<1>2. PICK fetch : fetch = Fetch(4, vipOf)
  OBVIOUS
<1>3. Made(h, "ReadMem", d, <<pointer, load, store>>, 4, 8 - StackSize(d))
  BY <1>1 DEF ReadMemParts
<1>4. h.accesses \in Seq({pointer, load, store, fetch})
  BY <1>2, <1>3, MadeThree
<1>5. pointer.kind = "read" /\ load.kind = "read"
  BY <1>1, LoadFields DEF ReadMemParts
<1>6. Sourced(store.from)
  BY <1>1, StoreFields, SourcedFacts DEF ReadMemParts
<1>7. fetch.kind = "read"
  BY <1>2, FetchFields
<1>8. Moves(h)
  <2>1. d \in Widths
    BY <1>1 DEF ReadMemParts
  <2> QED  BY <1>3, <2>1, Widths1 DEF Made, Moves
<1>9. h.op = "ReadMem"
  BY <1>3 DEF Made
<1> QED  BY <1>4, <1>5, <1>6, <1>7, <1>8, <1>9 DEF Distinct

LEMMA WriteMemDistinct ==
  ASSUME LoopInv, OnItsStack, inside, NEW h \in WriteMems
  PROVE  h.op = "WriteMem" /\ \E S : Distinct(h, S)
<1>1. PICK ab \in UNION {{d} \X Operands(8) \X SecondOperands(d) : d \in Widths} :
        h = [Native("WriteMem", ab[1],
               <<Load(1, Vsp, 8, ab[2]), Load(2, Vsp + 8, StackSize(ab[1]), ab[3]),
                 Store(ab[2], ab[1], ab[3],
                       From(IF ab[1] = 1 THEN "extract" ELSE "", "var", 0, <<Mem(2)>>))>>,
               4, 8 + StackSize(ab[1])) EXCEPT !.a = ab[2], !.b = ab[3]]
  BY DEF WriteMems
<1>2. PICK d, a, b : /\ d \in Widths /\ a \in Operands(8)
                     /\ d = ab[1] /\ a = ab[2] /\ b = ab[3]
  OBVIOUS
<1>3. PICK pointer, load, store :
        /\ pointer = Load(1, Vsp, 8, a) /\ load = Load(2, Vsp + 8, StackSize(d), b)
        /\ store = Store(a, d, b, From(IF d = 1 THEN "extract" ELSE "", "var", 0, <<Mem(2)>>))
  OBVIOUS
<1>4. PICK g : g = Native("WriteMem", d, <<pointer, load, store>>, 4, 8 + StackSize(d))
  OBVIOUS
<1>5. PICK k : k = [g EXCEPT !.a = a] /\ h = [k EXCEPT !.b = b]
  BY <1>1, <1>2, <1>3, <1>4
<1>6. Made(h, "WriteMem", d, <<pointer, load, store>>, 4, 8 + StackSize(d))
  <2>1. PICK op, accesses, taken, change :
          /\ op = "WriteMem" /\ accesses = <<pointer, load, store>> /\ taken = 4
          /\ change = 8 + StackSize(d)
    OBVIOUS
  <2>2. g = Native(op, d, accesses, taken, change)
    BY <1>4, <2>1, Zenon
  <2>3. Made(h, op, d, accesses, taken, change)
    BY <1>5, <2>2, OperandsMade, ZenonT(60)
  <2> QED  BY <2>1, <2>3
<1>7. PICK fetch : fetch = Fetch(4, vipOf)
  OBVIOUS
<1>8. h.accesses \in Seq({pointer, load, store, fetch})
  BY <1>6, <1>7, MadeThree
<1>9. pointer.kind = "read" /\ pointer.addr = Vsp /\ pointer.size = 8 /\ pointer.value = a
  <2>1. pointer = Load(1, Vsp, 8, a)
    BY <1>3
  <2> QED  BY <2>1, LoadFields
<1>10. load.kind = "read" /\ load.addr = Vsp + 8 /\ load.size = StackSize(d)
  <2>1. load = Load(2, Vsp + 8, StackSize(d), b)
    BY <1>3
  <2> QED  BY <2>1, LoadFields
<1>11. store.kind = "write" /\ Sourced(store.from)
  <2>1. PICK wrap : wrap = IF d = 1 THEN "extract" ELSE ""
    OBVIOUS
  <2>2. store = Store(a, d, b, From(wrap, "var", 0, <<Mem(2)>>))
    BY <1>3, <2>1
  <2>3. store.kind = "write" /\ store.from = From(wrap, "var", 0, <<Mem(2)>>)
    BY <2>2, StoreFields
  <2> QED  BY <2>3, SourcedFacts
<1>12. fetch.kind = "read" /\ fetch.addr = Bytecode /\ fetch.size = 4
  BY <1>7, FetchFields
<1>13. h.op = "WriteMem" /\ h.taken = 4 /\ h.change = 8 + StackSize(d)
  BY <1>6 DEF Made
<1>14. Moves(h)
  BY <1>2, <1>6, <1>13, Widths1 DEF Made, Moves
<1>15. ASSUME NEW p \in {pointer, load, store, fetch}, NEW r \in {pointer, load, store, fetch}, NEW w,
              Chain(h, p, r, w)
       PROVE  FALSE
  <2>1. h.change \in {10, 12, 16}
    BY <1>2, <1>13, Widths1
  <2>2. r.size \in {8, 4, 2}
    <3>1. r.kind = "read"
      BY <1>15 DEF Chain
    <3> QED  BY <1>2, <1>9, <1>10, <1>11, <1>12, <3>1, Widths1
  <2> QED  BY <1>15, <2>1, <2>2 DEF Chain
<1> QED  BY <1>8, <1>9, <1>10, <1>11, <1>12, <1>13, <1>14, <1>15 DEF Distinct

-----------------------------------------------------------------------------
(* The arithmetic: the operands, the result, the flags through the native  *)
(* stack, the fetch.                                                       *)
WrapIn(d, one) == IF d = 1 THEN one ELSE ""
FlagParts(op, d, n, at, node, of, result, push, pull, flags) ==
  /\ result.kind = "write" /\ result.addr = at + 8 /\ result.size = n /\ result.value = 1
  /\ \E wrap : wrap = WrapIn(d, "zx") /\ result.from = From(wrap, node, 0, of)
  /\ push.kind = "write" /\ push.addr = Rsp - 8 /\ push.from = From("", "concat", 0, of)
  /\ pull.kind = "read" /\ pull.addr = Rsp - 8 /\ pull.size = 8 /\ pull.value = Flags
  /\ flags.kind = "write" /\ flags.addr = at /\ flags.value = Flags
  /\ flags.from = Copy(<<"flags", 0>>)

LEMMA PushedFields ==
  ASSUME NEW addr, NEW size, NEW value, NEW from, NEW instruction,
         NEW a, a = By(Store(addr, size, value, from), instruction)
  PROVE  a.kind = "write" /\ a.addr = addr /\ a.from = from
<1>1. PICK s : s = Store(addr, size, value, from)
  OBVIOUS
<1>2. s.kind = "write" /\ s.addr = addr /\ s.from = from
  BY <1>1, StoreFields
<1>3. a.kind = s.kind /\ a.addr = s.addr /\ a.from = s.from
  BY <1>1 DEF By, Store, Access
<1> QED  BY <1>2, <1>3

IsFlagged(h, op, d, loads, node, of, popped, a, b, n, at) ==
  \E result, push, pull, flags :
    /\ FlagParts(op, d, n, at, node, of, result, push, pull, flags)
    /\ Made(h, op, d, loads \o <<result, push, pull, flags>>, 4, popped - n - 8)
    /\ h.a = a /\ h.b = b

LEMMA WithFlagsMade ==
  ASSUME NEW op, NEW d, NEW loads, NEW node, NEW of, NEW popped, NEW a, NEW b,
         NEW n, n = StackSize(d), NEW at, at = Vsp + popped - n - 8,
         NEW h, h = WithFlags(op, d, loads, node, of, popped, a, b)
  PROVE  IsFlagged(h, op, d, loads, node, of, popped, a, b, n, at)
<1>1. PICK wrap, from : /\ wrap = (IF d = 1 THEN "zx" ELSE "")
                        /\ from = From(wrap, node, 0, of)
  OBVIOUS
<1>2. PICK result, push, pull, flags, accesses, change :
        /\ result = Store(at + 8, n, 1, from)
        /\ push = By(Store(Rsp - 8, 8, Flags, From("", "concat", 0, of)), "pushfq")
        /\ pull = Access("read", Rsp - 8, 8, Flags, Copy(<<"flags", 0>>))
        /\ flags = Store(at, 8, Flags, Copy(<<"flags", 0>>))
        /\ accesses = loads \o <<result, push, pull, flags>>
        /\ change = popped - n - 8
  OBVIOUS
<1>3. PICK g, k : /\ g = Native(op, d, accesses, 4, change)
                  /\ k = [g EXCEPT !.a = a]
  OBVIOUS
<1>4. h = [k EXCEPT !.b = b]
  <2>1. h = [Native(op, d, accesses, 4, change) EXCEPT !.a = a, !.b = b]
    BY <1>1, <1>2, Zenon DEF WithFlags
  <2> QED  BY <1>3, <2>1
<1>5. Made(h, op, d, accesses, 4, change) /\ h.a = a /\ h.b = b
  <2>1. PICK taken : taken = 4
    OBVIOUS
  <2>2. g = Native(op, d, accesses, taken, change)
    BY <1>3, <2>1, Zenon
  <2>3. Made(g, op, d, accesses, taken, change)
    BY <2>2, NativeMade
  <2>4. g = [op |-> g.op, d |-> g.d, accesses |-> g.accesses, taken |-> g.taken,
             change |-> g.change, vsp |-> g.vsp, moved |-> g.moved, a |-> g.a, b |-> g.b]
    BY <2>2 DEF Native
  <2>5. k = [op |-> g.op, d |-> g.d, accesses |-> g.accesses, taken |-> g.taken,
             change |-> g.change, vsp |-> g.vsp, moved |-> g.moved, a |-> a, b |-> g.b]
    BY <1>3, <2>4
  <2>6. /\ h.op = g.op /\ h.d = g.d /\ h.accesses = g.accesses /\ h.taken = g.taken
        /\ h.change = g.change /\ h.vsp = g.vsp /\ h.a = a /\ h.b = b
    BY <1>4, <2>5
  <2> QED  BY <2>1, <2>3, <2>6 DEF Made
<1>6. FlagParts(op, d, n, at, node, of, result, push, pull, flags)
  <2>1. /\ result.kind = "write" /\ result.addr = at + 8 /\ result.size = n /\ result.value = 1
        /\ result.from = from
    <3>1. result = Store(at + 8, n, 1, from)
      BY <1>2
    <3> QED  BY <3>1, StoreFields
  <2>2. push.kind = "write" /\ push.addr = Rsp - 8 /\ push.from = From("", "concat", 0, of)
    <3>1. PICK addr, size, value, src, instruction :
            /\ addr = Rsp - 8 /\ size = 8 /\ value = Flags
            /\ src = From("", "concat", 0, of) /\ instruction = "pushfq"
      OBVIOUS
    <3>2. push = By(Store(addr, size, value, src), instruction)
      BY <1>2, <3>1
    <3>3. push.kind = "write" /\ push.addr = addr /\ push.from = src
      BY <3>2, PushedFields
    <3> QED  BY <3>1, <3>3
  <2>3. pull.kind = "read" /\ pull.addr = Rsp - 8 /\ pull.size = 8 /\ pull.value = Flags
    BY <1>2 DEF Access
  <2>4. flags.kind = "write" /\ flags.addr = at /\ flags.value = Flags
        /\ flags.from = Copy(<<"flags", 0>>)
    <3>1. flags = Store(at, 8, Flags, Copy(<<"flags", 0>>))
      BY <1>2
    <3> QED  BY <3>1, StoreFields
  <2>5. wrap = WrapIn(d, "zx") /\ result.from = From(wrap, node, 0, of)
    BY <1>1, <2>1 DEF WrapIn
  <2> QED  BY <2>1, <2>2, <2>3, <2>4, <2>5 DEF FlagParts
<1> QED  BY <1>2, <1>5, <1>6 DEF IsFlagged

(* Where the accesses stand.                                               *)
Ending(h, L, loads, result, push, pull, flags, fetch) ==
  /\ h.accesses \in Seq(L \cup {result, push, pull, flags, fetch})
  /\ Len(h.accesses) = Len(loads) + 5
  /\ \A i \in 1..Len(loads) : h.accesses[i] = loads[i]
  /\ h.accesses[Len(loads) + 1] = result
  /\ h.accesses[Len(loads) + 2] = push
  /\ h.accesses[Len(loads) + 3] = pull
  /\ h.accesses[Len(loads) + 4] = flags
  /\ h.accesses[Len(loads) + 5] = fetch

HasEnding(h, L, loads, result, push, pull, flags) ==
  \E fetch : /\ fetch.kind = "read" /\ fetch.addr = Bytecode /\ fetch.size = 4
             /\ Ending(h, L, loads, result, push, pull, flags, fetch)

LEMMA MadeEnding ==
  ASSUME NEW h, NEW op, NEW d, NEW taken, NEW change, NEW L, NEW loads \in Seq(L),
         NEW result, NEW push, NEW pull, NEW flags,
         Made(h, op, d, loads \o <<result, push, pull, flags>>, taken, change)
  PROVE  HasEnding(h, L, loads, result, push, pull, flags)
<1>1. PICK tail, T : tail = <<result, push, pull, flags>> /\ T = {result, push, pull, flags}
  OBVIOUS
<1>2. /\ tail \in Seq(T) /\ Len(tail) = 4
      /\ tail[1] = result /\ tail[2] = push /\ tail[3] = pull /\ tail[4] = flags
  BY <1>1
<1>3. PICK s, S : s = loads \o tail /\ S = L \cup T
  OBVIOUS
<1>4. loads \in Seq(S) /\ tail \in Seq(S)
  BY <1>2, <1>3, SeqMonotonic
<1>5. /\ s \in Seq(S) /\ Len(s) = Len(loads) + 4 /\ Len(loads) \in Nat
      /\ \A i \in 1..(Len(loads) + 4) :
           s[i] = IF i <= Len(loads) THEN loads[i] ELSE tail[i - Len(loads)]
  <2>1. /\ loads \o tail \in Seq(S) /\ Len(loads \o tail) = Len(loads) + Len(tail)
        /\ \A i \in 1..(Len(loads) + Len(tail)) :
             (loads \o tail)[i] = IF i <= Len(loads) THEN loads[i] ELSE tail[i - Len(loads)]
    BY <1>4, ConcatProperties
  <2>2. Len(tail) = 4 /\ Len(loads) \in Nat /\ s = loads \o tail
    BY <1>2, <1>3, LenProperties
  <2> QED  BY <2>1, <2>2
<1>6. PICK f : f = Fetch(Len(s) + 1, vipOf)
  OBVIOUS
<1>7. EndsWith(h.accesses, s, f, S)
  <2>1. Made(h, op, d, s, taken, change)
    BY <1>1, <1>3
  <2> QED  BY <1>5, <1>6, <2>1, MadeAccesses, Zenon
<1>8. /\ h.accesses \in Seq(S \cup {f})
      /\ Len(h.accesses) = Len(s) + 1
      /\ \A i \in 1..Len(s) : h.accesses[i] = s[i]
      /\ h.accesses[Len(s) + 1] = f
  BY <1>7 DEF EndsWith
<1>9. S \cup {f} = L \cup {result, push, pull, flags, f}
  BY <1>1, <1>3
<1>10. \A i \in 1..Len(loads) : h.accesses[i] = loads[i]
  BY <1>5, <1>8
<1>11. PICK k \in Nat : k = Len(loads)
  BY <1>5
<1>12. \A i \in 1..4 : h.accesses[k + i] = tail[i]
  <2> TAKE i \in 1..4
  <2>1. k + i \in 1..Len(s)
    BY <1>5, <1>11
  <2>2. s[k + i] = tail[(k + i) - k]
    BY <1>5, <1>11, <2>1
  <2>3. (k + i) - k = i
    OBVIOUS
  <2> QED  BY <1>8, <2>1, <2>2, <2>3
<1>13. /\ h.accesses[k + 1] = result /\ h.accesses[k + 2] = push
       /\ h.accesses[k + 3] = pull /\ h.accesses[k + 4] = flags
  BY <1>2, <1>12
<1>14. Len(h.accesses) = k + 5 /\ h.accesses[k + 5] = f
  <2>1. Len(s) + 1 = k + 5
    BY <1>5, <1>11
  <2> QED  BY <1>8, <2>1
<1>15. h.accesses \in Seq(L \cup {result, push, pull, flags, f})
  BY <1>8, <1>9
<1>16. f.kind = "read" /\ f.addr = Bytecode /\ f.size = 4
  BY <1>6, FetchFields
<1>17. Ending(h, L, loads, result, push, pull, flags, f)
  BY <1>10, <1>11, <1>13, <1>14, <1>15 DEF Ending
<1> QED  BY <1>16, <1>17 DEF HasEnding

LEMMA FlagsSourced ==
  ASSUME NEW op, NEW d, NEW n, NEW at, NEW node, node # "var", NEW of,
         NEW result, NEW push, NEW pull, NEW flags,
         FlagParts(op, d, n, at, node, of, result, push, pull, flags)
  PROVE  Sourced(result.from) /\ Sourced(push.from) /\ Sourced(flags.from)
<1>1. PICK wrap : result.from = From(wrap, node, 0, of)
  BY DEF FlagParts
<1>2. push.from = From("", "concat", 0, of) /\ flags.from = Copy(<<"flags", 0>>)
  BY DEF FlagParts
<1>3. Sourced(result.from)
  BY <1>1, SourcedFacts
<1>4. Sourced(push.from)
  <2>1. "concat" # "var"
    OBVIOUS
  <2> QED  BY <1>2, <2>1, SourcedFacts
<1>5. Sourced(flags.from)
  BY <1>2, SourcedFacts
<1> QED  BY <1>3, <1>4, <1>5

(* Arithmetic that moves VSP reads nothing whose size explains the move.   *)
LEMMA MovedDistinct ==
  ASSUME LoopInv, OnItsStack, inside,
         NEW h, Moves(h), h.op \notin {"PopVsp", "PushVsp", "PushConst"}, h.change \in Int,
         NEW L, \A x \in L : x.kind = "read" /\ x.size \in {1, 2, 4, 8} /\ h.change # 8 - x.size,
         h.change \notin {0, 4, 6},
         NEW op, NEW d, NEW n, NEW at, NEW node, node # "var", NEW of,
         NEW result, NEW push, NEW pull, NEW flags, NEW fetch, NEW loads,
         FlagParts(op, d, n, at, node, of, result, push, pull, flags),
         fetch.kind = "read", fetch.size = 4,
         Ending(h, L, loads, result, push, pull, flags, fetch)
  PROVE  \E S : Distinct(h, S)
<1>1. PICK S : S = L \cup {result, push, pull, flags, fetch}
  OBVIOUS
<1>2. h.accesses \in Seq(S)
  BY <1>1 DEF Ending
<1>3. Sourced(result.from) /\ Sourced(push.from) /\ Sourced(flags.from)
  BY FlagsSourced
<1>4. result.kind = "write" /\ push.kind = "write" /\ flags.kind = "write"
      /\ pull.kind = "read" /\ pull.size = 8
  BY DEF FlagParts
<1>5. ASSUME NEW r \in S, r.kind = "read"
      PROVE  r.size \in {1, 2, 4, 8} /\ h.change # 8 - r.size
  BY <1>1, <1>4, <1>5
<1>6. ASSUME NEW p \in S, NEW r \in S, NEW w \in S, Chain(h, p, r, w) PROVE FALSE
  <2>1. r.kind = "read" /\ (h.change = 8 - r.size \/ h.change = 6)
    BY <1>6 DEF Chain
  <2> QED  BY <1>5, <2>1
<1>7. ASSUME NEW w \in S, w.kind = "write" PROVE Sourced(w.from)
  BY <1>1, <1>3, <1>4, <1>7
<1>8. Distinct(h, S)
  BY <1>2, <1>6, <1>7 DEF Distinct
<1> QED  BY <1>8

(* Arithmetic on eight bytes that leaves VSP where it was reads what looks *)
(* like memory only for the operands of LooksLikeRead.                     *)
LEMMA UnmovedDistinct ==
  ASSUME LoopInv, OnItsStack, inside,
         NEW h, Moves(h), h.op \in Flagged, h.d = 8, h.change = 0,
         h.op \notin {"PopVsp", "PushVsp", "PushConst"},
         NEW x, x.kind = "read", x.addr = Vsp, x.value = h.a, x.size = 8,
         NEW y, y.kind = "read", y.addr = Vsp + 8, y.value = h.b, y.size = 8,
         NEW op, NEW d, NEW n, NEW node, node # "var", NEW of,
         NEW result, NEW push, NEW pull, NEW flags, NEW fetch, NEW loads,
         FlagParts(op, d, n, Vsp, node, of, result, push, pull, flags),
         fetch.kind = "read", fetch.size = 4, fetch.addr = Bytecode,
         Ending(h, {x, y}, loads, result, push, pull, flags, fetch)
  PROVE  \E S : Distinct(h, S)
<1>1. PICK S : S = {x, y} \cup {result, push, pull, flags, fetch}
  OBVIOUS
<1>2. h.accesses \in Seq(S)
  BY <1>1 DEF Ending
<1>3. Sourced(result.from) /\ Sourced(push.from) /\ Sourced(flags.from)
  BY FlagsSourced
<1>4. /\ result.kind = "write" /\ push.kind = "write" /\ flags.kind = "write"
      /\ result.addr = Vsp + 8 /\ push.addr = Rsp - 8 /\ flags.value = Flags
      /\ pull.kind = "read" /\ pull.addr = Rsp - 8 /\ pull.size = 8
  BY DEF FlagParts
<1>5. PICK v, c, b : /\ v = Vsp /\ c = Context /\ b = Bytecode /\ Rsp = c
                     /\ v \in Int /\ c \in Int /\ b \in Int
                     /\ c >= 1024 /\ v >= c + 128 /\ b >= 1000 /\ (b < c - 8 \/ b > v + 16)
  BY StackPlaces
<1>7. ASSUME NEW p \in S, NEW r \in S, NEW w \in S, Chain(h, p, r, w) PROVE LooksSo(h)
  <2>1. /\ p.kind = "read" /\ p.addr = v
        /\ r.kind = "read" /\ r.addr = p.value /\ r.size = 8
        /\ w.kind = "write" /\ w.addr = v /\ w.value = r.value
    <3>1. /\ p.kind = "read" /\ p.addr = Vsp
          /\ r.kind = "read" /\ r.addr = p.value /\ (h.change = 8 - r.size \/ h.change = 6)
          /\ w.kind = "write" /\ w.addr = Vsp + h.change /\ w.value = r.value
      BY <1>7 DEF Chain
    <3>2. r.size = 8
      <4>1. 0 = 8 - r.size
        BY <3>1
      <4>2. r \in {x, y, pull, fetch}
        BY <1>1, <1>4, <3>1
      <4>3. r.size \in {4, 8}
        BY <1>4, <4>2
      <4> QED  BY <4>1, <4>3
    <3> QED  BY <1>5, <3>1, <3>2
  <2>2. p = x
    <3>1. p \in {x, y, pull, fetch}
      BY <1>1, <1>4, <2>1
    <3> QED  BY <1>4, <1>5, <2>1, <3>1
  <2>3. w = flags
    <3>1. w \in {result, push, flags}
      BY <1>1, <1>4, <2>1
    <3> QED  BY <1>4, <1>5, <2>1, <3>1
  <2>4. r.value = 514
    BY <1>4, <2>1, <2>3 DEF Flags
  <2>5. r \in {x, y, pull, fetch} /\ r.addr = h.a
    BY <1>1, <1>4, <2>1, <2>2
  <2>6. r # x
    <3>1. x.addr = v /\ x.value = h.a
      BY <1>5
    <3> QED  BY <1>5, <2>4, <2>5, <3>1
  <2>7. r # fetch
    BY <2>1
  <2>8. CASE r = y
    <3>1. h.a = Vsp + 8 /\ h.b = Flags
      BY <2>4, <2>5, <2>8 DEF Flags
    <3> QED  BY <3>1 DEF LooksSo
  <2>9. CASE r = pull
    <3>1. h.a = Context - 8
      BY <1>4, <1>5, <2>5, <2>9
    <3> QED  BY <3>1 DEF LooksSo
  <2> QED  BY <2>5, <2>6, <2>7, <2>8, <2>9
<1>8. ASSUME NEW w \in S, w.kind = "write" PROVE Sourced(w.from)
  BY <1>1, <1>3, <1>4, <1>8
<1>9. Distinct(h, S)
  BY <1>2, <1>7, <1>8 DEF Distinct
<1> QED  BY <1>9

LEMMA OpNames ==
  /\ \A op \in BinaryOps : /\ op[1] \in Flagged /\ op[1] \in {"Add", "Nor", "Nand"}
                            /\ op[2] \in {"bvadd", "not or", "not and"} /\ op[2] # "var"
  /\ \A op \in ShiftOps : op[1] \in Logic /\ op[1] \in {"Shl", "Shr", "Rol", "Ror"}
  /\ "Shld" \in Logic /\ "Shrd" \in Logic
  /\ Flagged \subseteq Logic
  /\ Flagged \subseteq {"Add", "Nor", "Nand"}
<1>1. ASSUME NEW op \in BinaryOps
      PROVE  /\ op[1] \in Flagged /\ op[1] \in {"Add", "Nor", "Nand"}
             /\ op[2] \in {"bvadd", "not or", "not and"} /\ op[2] # "var"
  <2>1. CASE op = <<"Add", "bvadd">>
    BY <2>1 DEF Flagged
  <2>2. CASE op = <<"Nor", "not or">>
    BY <2>2 DEF Flagged
  <2>3. CASE op = <<"Nand", "not and">>
    BY <2>3 DEF Flagged
  <2> QED  BY <2>1, <2>2, <2>3 DEF BinaryOps
<1>2. ASSUME NEW op \in ShiftOps PROVE op[1] \in {"Shl", "Shr", "Rol", "Ror"}
  BY DEF ShiftOps
<1>3. \A op \in ShiftOps : op[1] \in Logic
  BY DEF Logic
<1>4. Flagged \subseteq {"Add", "Nor", "Nand"}
  BY <1>1 DEF Flagged
<1> QED  BY <1>1, <1>2, <1>3, <1>4 DEF Logic

LEMMA BinaryDistinct ==
  ASSUME LoopInv, OnItsStack, inside, NEW h \in Binaries
  PROVE  h.op \in Flagged /\ \E S : Distinct(h, S)
<1>1. PICK d \in Widths, op \in BinaryOps : \E a \in Operands(d), b \in SecondOperands(d) :
        h = WithFlags(op[1], d,
                      <<Load(1, Vsp, StackSize(d), a),
                        Load(2, Vsp + StackSize(d), StackSize(d), b)>>,
                      op[2], <<Mem(1), Mem(2)>>, 2 * StackSize(d), a, b)
  BY DEF Binaries
<1>2. PICK n, name, node, of, popped :
        /\ n = StackSize(d) /\ name = op[1] /\ node = op[2] /\ of = <<Mem(1), Mem(2)>>
        /\ popped = 2 * n
  OBVIOUS
<1>3. PICK a, b :
        /\ a \in Operands(d)
        /\ \E x, y, loads :
             /\ x = Load(1, Vsp, n, a) /\ y = Load(2, Vsp + n, n, b)
             /\ loads = <<x, y>>
             /\ h = WithFlags(name, d, loads, node, of, popped, a, b)
  BY <1>1, <1>2
<1>4. PICK x, y, loads :
        /\ x = Load(1, Vsp, n, a) /\ y = Load(2, Vsp + n, n, b)
        /\ loads = <<x, y>>
        /\ h = WithFlags(name, d, loads, node, of, popped, a, b)
  BY <1>3
<1>5. PICK at : at = Vsp + popped - n - 8
  OBVIOUS
<1>6. PICK result, push, pull, flags :
        /\ FlagParts(name, d, n, at, node, of, result, push, pull, flags)
        /\ Made(h, name, d, loads \o <<result, push, pull, flags>>, 4, popped - n - 8)
        /\ h.a = a /\ h.b = b
  <2>1. h = WithFlags(name, d, loads, node, of, popped, a, b)
    BY <1>4
  <2>2. n = StackSize(d)
    BY <1>2
  <2>3. IsFlagged(h, name, d, loads, node, of, popped, a, b, n, at)
    BY <1>5, <2>1, <2>2, WithFlagsMade, Zenon
  <2> QED  BY <2>3 DEF IsFlagged
<1>7. loads \in Seq({x, y})
  BY <1>4
<1>8. PICK fetch : /\ fetch.kind = "read" /\ fetch.addr = Bytecode /\ fetch.size = 4
                   /\ Ending(h, {x, y}, loads, result, push, pull, flags, fetch)
  <2>1. HasEnding(h, {x, y}, loads, result, push, pull, flags)
    BY <1>6, <1>7, MadeEnding, Zenon
  <2> QED  BY <2>1 DEF HasEnding
<1>9. n \in {2, 4, 8} /\ (n = 8 => d = 8)
  BY <1>2, Widths1
<1>10. h.op = name /\ h.d = d /\ h.taken = 4 /\ h.change = n - 8
       /\ h.vsp = Plus(Reg(vspOf), n - 8)
  <2>1. popped - n - 8 = n - 8
    BY <1>2, <1>9
  <2> QED  BY <1>6, <2>1 DEF Made
<1>11. /\ name \in Flagged /\ name \in Logic
       /\ name \notin {"PopVsp", "PushVsp", "PushConst", "Pop", "PushReg", "WriteMem"}
  BY <1>2, OpNames
<1>12. node # "var"
  BY <1>2, OpNames
<1>13. Moves(h)
  <2>1. h.change = 0 => h.op \in Flagged /\ h.d = 8
    BY <1>9, <1>10, <1>11
  <2>2. h.op \in Logic /\ h.taken = 4 /\ h.change <= 6
    BY <1>9, <1>10, <1>11
  <2>3. h.vsp = Plus(Reg(vspOf), h.change)
    BY <1>10
  <2>4. h.change \in -8..16
    BY <1>9, <1>10
  <2> QED  BY <2>1, <2>2, <2>3, <2>4 DEF Moves
<1>14. /\ x.kind = "read" /\ x.addr = Vsp /\ x.size = n /\ x.value = a
       /\ y.kind = "read" /\ y.addr = Vsp + n /\ y.size = n /\ y.value = b
  <2>1. x = Load(1, Vsp, n, a) /\ y = Load(2, Vsp + n, n, b)
    BY <1>4
  <2> QED  BY <2>1, LoadFields
<1>15. CASE n = 8
  <2>1. d = 8 /\ h.change = 0
    BY <1>9, <1>10, <1>15
  <2>2. at = Vsp
    BY <1>2, <1>5, <1>15, StackPlaces
  <2>3. FlagParts(name, d, n, Vsp, node, of, result, push, pull, flags)
    BY <1>6, <2>2
  <2>5. h.op \in Flagged /\ h.d = 8 /\ h.op \notin {"PopVsp", "PushVsp", "PushConst"}
    BY <1>10, <1>11, <2>1
  <2>6. /\ x.kind = "read" /\ x.addr = Vsp /\ x.value = h.a /\ x.size = 8
        /\ y.kind = "read" /\ y.addr = Vsp + 8 /\ y.value = h.b /\ y.size = 8
    BY <1>6, <1>14, <1>15
  <2> QED  BY <1>8, <1>12, <1>13, <2>1, <2>3, <2>5, <2>6, UnmovedDistinct
<1>16. CASE n # 8
  <2>1. h.change \in {-6, -4} /\ n \in {2, 4}
    BY <1>9, <1>10, <1>16
  <2>2. \A z \in {x, y} : z.kind = "read" /\ z.size \in {1, 2, 4, 8} /\ h.change # 8 - z.size
    BY <1>14, <2>1
  <2>3. h.change \notin {0, 4, 6} /\ h.change \in Int
    BY <2>1
  <2>4. h.op \notin {"PopVsp", "PushVsp", "PushConst"}
    BY <1>10, <1>11
  <2>5. PICK L : L = {x, y}
    OBVIOUS
  <2>6. /\ Ending(h, L, loads, result, push, pull, flags, fetch)
        /\ \A z \in L : z.kind = "read" /\ z.size \in {1, 2, 4, 8} /\ h.change # 8 - z.size
    BY <1>8, <2>2, <2>5
  <2>7. FlagParts(name, d, n, at, node, of, result, push, pull, flags)
    BY <1>6
  <2>8. fetch.kind = "read" /\ fetch.size = 4
    BY <1>8
  <2>9. \E S : Distinct(h, S)
    BY <1>12, <1>13, <2>3, <2>4, <2>6, <2>7, <2>8, MovedDistinct
  <2> QED  BY <1>10, <1>11, <2>9
<1> QED  BY <1>15, <1>16

LEMMA ShiftDistinct ==
  ASSUME LoopInv, OnItsStack, inside, NEW h \in Shifts
  PROVE  h.op \in {"Shl", "Shr", "Rol", "Ror"} /\ \E S : Distinct(h, S)
<1>1. PICK d \in Widths, op \in ShiftOps :
        h = WithFlags(op[1], d,
                      <<Load(1, Vsp, StackSize(d), 7), Load(2, Vsp + StackSize(d), 1, 1)>>,
                      op[2], <<Mem(1), Mem(2)>>, StackSize(d) + 2, 7, 1)
  BY DEF Shifts
<1>2. PICK n, name, node, of, popped, a, b :
        /\ n = StackSize(d) /\ name = op[1] /\ node = op[2] /\ of = <<Mem(1), Mem(2)>>
        /\ popped = n + 2 /\ a = 7 /\ b = 1
  OBVIOUS
<1>4. PICK x, y, loads :
        /\ x = Load(1, Vsp, n, 7) /\ y = Load(2, Vsp + n, 1, 1)
        /\ loads = <<x, y>>
        /\ h = WithFlags(name, d, loads, node, of, popped, a, b)
  BY <1>1, <1>2
<1>5. PICK at : at = Vsp + popped - n - 8
  OBVIOUS
<1>6. PICK result, push, pull, flags :
        /\ FlagParts(name, d, n, at, node, of, result, push, pull, flags)
        /\ Made(h, name, d, loads \o <<result, push, pull, flags>>, 4, popped - n - 8)
        /\ h.a = a /\ h.b = b
  <2>1. h = WithFlags(name, d, loads, node, of, popped, a, b)
    BY <1>4
  <2>2. n = StackSize(d)
    BY <1>2
  <2>3. IsFlagged(h, name, d, loads, node, of, popped, a, b, n, at)
    BY <1>5, <2>1, <2>2, WithFlagsMade, Zenon
  <2> QED  BY <2>3 DEF IsFlagged
<1>7. loads \in Seq({x, y})
  BY <1>4
<1>8. PICK fetch : /\ fetch.kind = "read" /\ fetch.addr = Bytecode /\ fetch.size = 4
                   /\ Ending(h, {x, y}, loads, result, push, pull, flags, fetch)
  <2>1. HasEnding(h, {x, y}, loads, result, push, pull, flags)
    BY <1>6, <1>7, MadeEnding, Zenon
  <2> QED  BY <2>1 DEF HasEnding
<1>9. n \in {2, 4, 8}
  BY <1>2, Widths1
<1>10. h.op = name /\ h.taken = 4 /\ h.change = -6 /\ h.vsp = Plus(Reg(vspOf), -6)
  <2>1. popped - n - 8 = -6
    BY <1>2, <1>9
  <2> QED  BY <1>6, <2>1 DEF Made
<1>11. /\ name \in Logic
       /\ name \notin {"PopVsp", "PushVsp", "PushConst", "Pop", "PushReg", "WriteMem"}
  BY <1>2, OpNames
<1>12. node # "var"
  <2>1. op[2] \in {"bvshl", "bvlshr", "bvrol", "bvror"}
    BY DEF ShiftOps
  <2> QED  BY <1>2, <2>1
<1>13. Moves(h)
  BY <1>10, <1>11 DEF Moves
<1>14. x.kind = "read" /\ x.size = n /\ y.kind = "read" /\ y.size = 1
  <2>1. x = Load(1, Vsp, n, 7) /\ y = Load(2, Vsp + n, 1, 1)
    BY <1>4
  <2> QED  BY <2>1, LoadFields
<1>15. \A z \in {x, y} : z.kind = "read" /\ z.size \in {1, 2, 4, 8} /\ h.change # 8 - z.size
  BY <1>9, <1>10, <1>14
<1>16. h.change \notin {0, 4, 6} /\ h.change \in Int /\ h.op \notin {"PopVsp", "PushVsp", "PushConst"}
  BY <1>10, <1>11
<1>17. PICK L : L = {x, y}
  OBVIOUS
<1>18. /\ Ending(h, L, loads, result, push, pull, flags, fetch)
       /\ \A z \in L : z.kind = "read" /\ z.size \in {1, 2, 4, 8} /\ h.change # 8 - z.size
  BY <1>8, <1>15, <1>17
<1>19. FlagParts(name, d, n, at, node, of, result, push, pull, flags)
  BY <1>6
<1>20. fetch.kind = "read" /\ fetch.size = 4
  BY <1>8
<1>21. \E S : Distinct(h, S)
  BY <1>12, <1>13, <1>16, <1>18, <1>19, <1>20, MovedDistinct
<1>22. h.op \in {"Shl", "Shr", "Rol", "Ror"}
  BY <1>2, <1>10, OpNames
<1> QED  BY <1>21, <1>22

LEMMA DoubleShiftDistinct ==
  ASSUME LoopInv, OnItsStack, inside
  PROVE  \A h \in DoubleShifts : h.op \in {"Shld", "Shrd"} /\ \E S : Distinct(h, S)
<1> DEFINE Ops == {<<"Shld", <<Mem(1), Mem(2)>>>>, <<"Shrd", <<Mem(2), Mem(1)>>>>}
           Built(op, d) ==
             WithFlags(op[1], d,
                       <<Load(1, Vsp, d, 7), Load(2, Vsp + d, d, 7), Load(3, Vsp + 2 * d, 1, 1)>>,
                       "or of shifts", op[2], 2 * d + 2, 7, 7)
<1>0. DoubleShifts = {Built(op, d) : op \in Ops, d \in Widths \ {1}}
  BY DEF DoubleShifts
<1> SUFFICES ASSUME NEW h \in DoubleShifts PROVE h.op \in {"Shld", "Shrd"} /\ \E S : Distinct(h, S)
  OBVIOUS
<1> HIDE DEF Built, Ops
<1>01. PICK d \in Widths \ {1}, op \in Ops : h = Built(op, d)
  BY <1>0
<1>1. h = WithFlags(op[1], d,
                    <<Load(1, Vsp, d, 7), Load(2, Vsp + d, d, 7), Load(3, Vsp + 2 * d, 1, 1)>>,
                    "or of shifts", op[2], 2 * d + 2, 7, 7)
  BY <1>01 DEF Built
<1>2. PICK name, node, of, popped, a :
        /\ name = op[1] /\ node = "or of shifts" /\ of = op[2]
        /\ popped = 2 * d + 2 /\ a = 7
  OBVIOUS
<1>4. PICK x, y, z, loads :
        /\ x = Load(1, Vsp, d, 7) /\ y = Load(2, Vsp + d, d, 7) /\ z = Load(3, Vsp + 2 * d, 1, 1)
        /\ loads = <<x, y, z>>
        /\ h = WithFlags(name, d, loads, node, of, popped, a, a)
  BY <1>1, <1>2
<1>3. d = StackSize(d) /\ d \in {2, 4, 8}
  BY Widths1
<1>5. PICK at : at = Vsp + popped - d - 8
  OBVIOUS
<1>6. PICK result, push, pull, flags :
        /\ FlagParts(name, d, d, at, node, of, result, push, pull, flags)
        /\ Made(h, name, d, loads \o <<result, push, pull, flags>>, 4, popped - d - 8)
        /\ h.a = a /\ h.b = a
  <2>1. h = WithFlags(name, d, loads, node, of, popped, a, a)
    BY <1>4
  <2>2. d = StackSize(d)
    BY <1>3
  <2>3. IsFlagged(h, name, d, loads, node, of, popped, a, a, d, at)
    BY <1>5, <2>1, <2>2, WithFlagsMade, Zenon
  <2> QED  BY <2>3 DEF IsFlagged
<1>17. PICK L : L = {x, y, z}
  OBVIOUS
<1>7. loads \in Seq(L)
  BY <1>4, <1>17
<1>8. PICK fetch : /\ fetch.kind = "read" /\ fetch.addr = Bytecode /\ fetch.size = 4
                   /\ Ending(h, L, loads, result, push, pull, flags, fetch)
  <2>1. HasEnding(h, L, loads, result, push, pull, flags)
    BY <1>6, <1>7, MadeEnding, Zenon
  <2> QED  BY <2>1 DEF HasEnding
<1>10. h.op = name /\ h.taken = 4 /\ h.change = d - 6 /\ h.vsp = Plus(Reg(vspOf), d - 6)
  <2>1. popped - d - 8 = d - 6
    <3>1. popped = 2 * d + 2
      BY <1>2
    <3> QED  BY <1>3, <3>1
  <2> QED  BY <1>6, <2>1 DEF Made
<1>11. name \in {"Shld", "Shrd"} /\ name \in Logic
  <2>1. op[1] \in {"Shld", "Shrd"}
    BY DEF Ops
  <2> QED  BY <1>2, <2>1, OpNames
<1>12. node # "var"
  BY <1>2
<1>9. h.change \in {-4, -2, 2}
  BY <1>3, <1>10
<1>13. Moves(h)
  BY <1>9, <1>10, <1>11 DEF Moves
<1>14. x.kind = "read" /\ x.size = d /\ y.kind = "read" /\ y.size = d /\ z.kind = "read" /\ z.size = 1
  <2>1. x = Load(1, Vsp, d, 7) /\ y = Load(2, Vsp + d, d, 7) /\ z = Load(3, Vsp + 2 * d, 1, 1)
    BY <1>4
  <2> QED  BY <2>1, LoadFields
<1>15. \A u \in L : u.kind = "read" /\ u.size \in {1, 2, 4, 8} /\ h.change # 8 - u.size
  BY <1>3, <1>10, <1>14, <1>17
<1>16. h.change \notin {0, 4, 6} /\ h.change \in Int /\ h.op \notin {"PopVsp", "PushVsp", "PushConst"}
  BY <1>9, <1>10, <1>11
<1>19. FlagParts(name, d, d, at, node, of, result, push, pull, flags)
  BY <1>6
<1>20. fetch.kind = "read" /\ fetch.size = 4
  BY <1>8
<1>21. \E S : Distinct(h, S)
  BY <1>8, <1>12, <1>13, <1>15, <1>16, <1>19, <1>20, MovedDistinct
<1> QED  BY <1>10, <1>11, <1>21

LEMMA StraightDistinct ==
  ASSUME LoopInv, OnItsStack, inside, NEW h \in Straight
  PROVE  \E S : Distinct(h, S)
BY PopDistinct, PushRegDistinct, PushConstDistinct, PushVspDistinct, PopVspDistinct,
   NopDistinct, ReadMemDistinct, WriteMemDistinct, BinaryDistinct, ShiftDistinct,
   DoubleShiftDistinct DEF Straight

-----------------------------------------------------------------------------
(* What stands for the handlers that a dispatch could be taken for.        *)
LEMMA Kinds ==
  ASSUME LoopInv, OnItsStack, inside, NEW h \in Straight
  PROVE  /\ h.op = "PushReg" => h \in PushRegs
         /\ h.op = "ReadMem" => h \in ReadMems
         /\ h.op \in Flagged => h \in Binaries
<1>1. h.op \in Flagged => h.op \in {"Add", "Nor", "Nand"}
  BY OpNames
<1>2. h \in Pops => h.op = "Pop"
  BY PopDistinct
<1>3. h \in PushRegs => h.op = "PushReg"
  BY PushRegDistinct
<1>4. h \in PushConsts => h.op = "PushConst"
  BY PushConstDistinct
<1>5. h \in PushVsps => h.op = "PushVsp"
  BY PushVspDistinct
<1>6. h \in PopVsps => h.op = "PopVsp"
  BY PopVspDistinct
<1>7. h \in Nops => h.op = "Dispatch"
  BY NopDistinct
<1>8. h \in ReadMems => h.op = "ReadMem"
  BY ReadMemDistinct
<1>9. h \in WriteMems => h.op = "WriteMem"
  BY WriteMemDistinct
<1>10. h \in Binaries => h.op \in {"Add", "Nor", "Nand"}
  BY BinaryDistinct, OpNames
<1>11. h \in Shifts => h.op \in {"Shl", "Shr", "Rol", "Ror"}
  BY ShiftDistinct
<1>12. h \in DoubleShifts => h.op \in {"Shld", "Shrd"}
  BY DoubleShiftDistinct
<1> QED
  BY <1>1, <1>2, <1>3, <1>4, <1>5, <1>6, <1>7, <1>8, <1>9, <1>10, <1>11, <1>12 DEF Straight

(* The registers lie below the stack and have names.                       *)
LEMMA RegisterName ==
  ASSUME LoopInv, OnItsStack, inside, top < ImageBase,
         NEW view, view.vsp = Vsp, view.rsp = Rsp,
         NEW i, view.accesses[i].addr = Context + 64
  PROVE  NameOf(view, Mem(i)) = VmReg(64)
<1>1. PICK v, c, t : /\ v = Vsp /\ c = Context /\ t = top /\ Rsp = c
                     /\ v \in Int /\ c \in Int /\ t \in Int
                     /\ c >= 1024 /\ v >= c + 128 /\ v <= t
  BY StackPlaces
<1>2. NameOf(view, Mem(i)) = SymbolOf(c + 64, v, c)
  <2>1. Mem(i)[1] = "mem" /\ Mem(i)[2] = i
    BY DEF Mem
  <2>2. NameOf(view, Mem(i)) = SymbolOf(view.accesses[i].addr, view.vsp, view.rsp)
    BY <2>1 DEF NameOf
  <2> QED  BY <1>1, <2>2
<1>3. SymbolOf(c + 64, v, c) = VmReg((c + 64) - c)
  <2>1. ~(c + 64 >= ImageBase) /\ v # 0 /\ c + 64 >= c /\ c + 64 < v - 8
    BY <1>1, RegsAssumption
  <2> QED  BY <2>1 DEF SymbolOf
<1>4. (c + 64) - c = 64
  BY <1>1
<1> QED  BY <1>2, <1>3, <1>4

LEMMA TopName ==
  ASSUME LoopInv, OnItsStack, inside, top < ImageBase,
         NEW view, view.vsp = Vsp, view.rsp = Rsp,
         NEW i, view.accesses[i].addr = Vsp
  PROVE  NameOf(view, Mem(i)) = StackArg(0)
<1>1. PICK v, c, t : /\ v = Vsp /\ c = Context /\ t = top /\ Rsp = c
                     /\ v \in Int /\ c \in Int /\ t \in Int
                     /\ c >= 1024 /\ v >= c + 128 /\ v <= t
  BY StackPlaces
<1>2. NameOf(view, Mem(i)) = SymbolOf(v, v, c)
  <2>1. Mem(i)[1] = "mem" /\ Mem(i)[2] = i
    BY DEF Mem
  <2>2. NameOf(view, Mem(i)) = SymbolOf(view.accesses[i].addr, view.vsp, view.rsp)
    BY <2>1 DEF NameOf
  <2> QED  BY <1>1, <2>2
<1>3. SymbolOf(v, v, c) = StackArg(v - v)
  <2>1. ~(v >= ImageBase) /\ v # 0 /\ ~(v < 8 \/ v < v - 8) /\ v \in v..(v + 255)
    BY <1>1, RegsAssumption
  <2> QED  BY <2>1 DEF SymbolOf
<1>4. v - v = 0
  BY <1>1
<1> QED  BY <1>2, <1>3, <1>4

(* What PushReg writes shows the register.                                 *)
Unchanged(wrap) == wrap \in {"", "zx", "extract"}
LEMMA PushRegNamed ==
  ASSUME LoopInv, OnItsStack, inside, top < ImageBase, NEW h \in PushRegs,
         NEW view, view.vsp = Vsp, view.rsp = Rsp, view.accesses = h.accesses
  PROVE  \A w \in Recorded(view, "write", Len(view.accesses)) : GetUnderlyingVariable(w.ast) # {}
<1>1. PICK d, load, store :
        /\ d \in Widths
        /\ \E wrap :
             /\ Unchanged(wrap)
             /\ load = Load(1, Context + 64, d, 7)
             /\ store = Store(Vsp - StackSize(d), StackSize(d), 7, From(wrap, "var", 0, <<Mem(1)>>))
             /\ h = Native("PushReg", d, <<load, store>>, 5, -StackSize(d))
  BY DEF PushRegs, Unchanged
<1>2. PICK wrap :
        /\ Unchanged(wrap)
        /\ load = Load(1, Context + 64, d, 7)
        /\ store = Store(Vsp - StackSize(d), StackSize(d), 7, From(wrap, "var", 0, <<Mem(1)>>))
        /\ h = Native("PushReg", d, <<load, store>>, 5, -StackSize(d))
  BY <1>1
<1>3. load = Load(1, Context + 64, d, 7)
  BY <1>2
<1>4. store = Store(Vsp - StackSize(d), StackSize(d), 7, From(wrap, "var", 0, <<Mem(1)>>))
  BY <1>2
<1>5. PICK fetch : fetch = Fetch(3, vipOf)
  OBVIOUS
<1>6. Made(h, "PushReg", d, <<load, store>>, 5, -StackSize(d))
  BY <1>2, NativeMade
<1>7. h.accesses \in Seq({load, store, fetch}) /\ h.accesses[1] = load
  BY <1>5, <1>6, MadeTwo
<1>8. load.kind = "read" /\ load.addr = Context + 64
  BY <1>3, LoadFields
<1>9. store.kind = "write" /\ store.from = From(wrap, "var", 0, <<Mem(1)>>)
  BY <1>4, StoreFields
<1>10. fetch.kind = "read"
  BY <1>5, FetchFields
<1>11. PICK from, source : from = From(wrap, "var", 0, <<source>>) /\ source = Mem(1)
  OBVIOUS
<1>12. ASSUME NEW w \in Recorded(view, "write", Len(view.accesses)) PROVE w.ast = AstOf(view, from)
  <2>1. PICK S : S = {load, store, fetch}
    OBVIOUS
  <2>2. view.accesses \in Seq(S)
    BY <1>7, <2>1
  <2>3. PICK a \in S : a.kind = "write" /\ w.ast = AstOf(view, a.from)
    <3>1. PICK kind : kind = "write"
      OBVIOUS
    <3>2. w \in Recorded(view, kind, Len(view.accesses))
      BY <1>12, <3>1
    <3>3. \E a \in S : RecordOf(view, kind, a, w)
      BY <2>2, <3>2, RecordedIn, Zenon
    <3> QED  BY <3>1, <3>3, Zenon DEF RecordOf
  <2>4. a = store
    BY <1>8, <1>10, <2>1, <2>3
  <2> QED  BY <1>9, <1>11, <2>3, <2>4
<1>13. NameOf(view, source) = VmReg(64)
  <2>1. view.accesses[1].addr = Context + 64
    BY <1>7, <1>8
  <2> QED  BY <1>11, <2>1, RegisterName
<1>14. NameOf(view, source) # NoName
  BY <1>13 DEF VmReg, NoName
<1>15. from.of = <<source>> /\ from.node = "var" /\ from.wrap = wrap
  BY <1>11 DEF From
<1>16. AstOf(view, from) = Tree(from.wrap, from.node, <<NameOf(view, source)>>, from.k)
  BY <1>14, <1>15, CopyShows
<1>17. PICK ast, name, k : /\ ast = AstOf(view, from) /\ name = NameOf(view, source) /\ k = from.k
                           /\ ast = Tree(wrap, "var", <<name>>, k)
  BY <1>15, <1>16
<1>18. ast.node = "var" /\ ast.wrap = wrap /\ ast.vars = <<name>>
  BY <1>17 DEF Tree
<1>19. name \in ToSet(ast.vars)
  BY <1>18 DEF ToSet
<1>20. name \in GetUnderlyingVariable(ast)
  BY <1>2, <1>18, <1>19 DEF Unchanged, GetUnderlyingVariable
<1> QED  BY <1>12, <1>17, <1>20

ThreeThen(accesses, x, y, z, f) ==
  /\ Len(accesses) = 4
  /\ accesses[1] = x /\ accesses[2] = y /\ accesses[3] = z /\ accesses[4] = f
LEMMA ThreePlaced ==
  ASSUME NEW h, NEW op, NEW d, NEW taken, NEW change, NEW x, NEW y, NEW z,
         Made(h, op, d, <<x, y, z>>, taken, change), NEW f, f = Fetch(4, vipOf)
  PROVE  ThreeThen(h.accesses, x, y, z, f)
<1>1. PICK s : s = <<x, y, z>>
  OBVIOUS
<1>2. s \in Seq({x, y, z}) /\ Len(s) = 3 /\ s[1] = x /\ s[2] = y /\ s[3] = z
  BY <1>1
<1>3. Fetch(Len(s) + 1, vipOf) = f
  BY <1>2
<1>4. Made(h, op, d, s, taken, change)
  BY <1>1
<1>5. PICK S : S = {x, y, z}
  OBVIOUS
<1>6. s \in Seq(S) /\ f = Fetch(Len(s) + 1, vipOf)
  BY <1>2, <1>3, <1>5
<1>7. EndsWith(h.accesses, s, f, S)
  BY <1>4, <1>6, MadeAccesses, Zenon
<1> QED  BY <1>2, <1>7 DEF EndsWith, ThreeThen

-----------------------------------------------------------------------------
(* The names of two sources begin with that of the first, if it has one.   *)
LEMMA NamesBegin ==
  ASSUME NEW view, NEW s, NEW t, NameOf(view, s) # NoName
  PROVE  1 \in DOMAIN NamesOf(view, <<s, t>>) /\ NamesOf(view, <<s, t>>)[1] = NameOf(view, s)
<1> DEFINE of == <<s, t>>
           named == {i \in DOMAIN of : NameOf(view, of[i]) # NoName}
           Place(i) == Cardinality({j \in named : j <= i})
<1>1. DOMAIN of = {1, 2} /\ of[1] = s /\ of[2] = t
  OBVIOUS
<1>2. NamesOf(view, of) = [k \in 1..Cardinality(named) |->
                             NameOf(view, of[CHOOSE i \in named : Place(i) = k])]
  BY DEF NamesOf
<1>3. Cardinality({1}) = 1
  BY FS_Singleton
<1>4. Cardinality({1, 2}) = 2
  <2>0. 2 \notin {1}
    OBVIOUS
  <2>1. IsFiniteSet({1}) /\ 2 \notin {1}
    BY <2>0, FS_Singleton, Zenon
  <2>2. Cardinality({1} \cup {2}) = Cardinality({1}) + 1
    BY <2>1, FS_AddElement, Zenon
  <2>3. {1, 2} = {1} \cup {2}
    OBVIOUS
  <2> QED  BY <1>3, <2>2, <2>3
<1>5. named \in {{1}, {1, 2}}
  BY <1>1
<1>6. Cardinality(named) \in 1..2
  BY <1>3, <1>4, <1>5
<1>7. Place(1) = 1 /\ (2 \in named => Place(2) = 2)
  <2>1. {j \in named : j <= 1} = {1} /\ (2 \in named => {j \in named : j <= 2} = {1, 2})
    BY <1>5
  <2> QED  BY <1>3, <1>4, <2>1
<1>8. (CHOOSE i \in named : Place(i) = 1) = 1
  BY <1>5, <1>7
<1> DEFINE which(k) == CHOOSE i \in named : Place(i) = k
           f == [k \in 1..Cardinality(named) |-> NameOf(view, of[which(k)])]
<1>9. NamesOf(view, of) = f
  BY <1>2
<1>10. which(1) = 1
  BY <1>8
<1> HIDE DEF named, Place, of, which
<1>11. 1 \in DOMAIN f /\ f[1] = NameOf(view, of[1])
  BY <1>6, <1>10
<1> QED  BY <1>1, <1>9, <1>11 DEF of

(* A result that shows what it was made of is taken for an operation.      *)
LEMMA AluShown ==
  ASSUME NEW data, NEW w \in data.logicWrites,
         DetectAluOperation(w.ast) # "Unknown", DependsOnStack(w.ast),
         \A v \in data.logicWrites : DetectAluOperation(v.ast) # "Unknown" => v.addr = w.addr,
         w.addr \in Int
  PROVE  TryMatchGenericVmAlu(data) # {}
<1> DEFINE results == {v \in data.logicWrites :
                         DetectAluOperation(v.ast) # "Unknown" /\ DependsOnStack(v.ast)}
<1>1. TryMatchGenericVmAlu(data) =
        {Found(data, DetectAluOperation(v.ast), ResultSize(v)) : v \in Lowest(results)}
  BY Zenon DEF TryMatchGenericVmAlu
<1>2. w \in results /\ \A v \in results : v.addr = w.addr
  OBVIOUS
<1>3. w \in Lowest(results)
  <2> HIDE DEF results
  <2> QED  BY <1>2 DEF Lowest
<1> HIDE DEF results
<1> QED  BY <1>1, <1>3

-----------------------------------------------------------------------------
(* A whole run of a handler that is distinct: what each recogniser that is *)
(* neither of arithmetic nor of control makes of it.                       *)
Moved(h, delta) == delta[1] = h.taken /\ delta[2] = h.change /\ h.vsp.node = "bvadd"
Seen(h, S, data, view) ==
  /\ Distinct(h, S) /\ h.change \in Int
  /\ WholeSeen(h, data, view, Len(h.accesses))
  /\ \A delta \in Deltas(data) : Moved(h, delta)
  /\ \A i : NameOf(view, Mem(i)) # VSP

LEMMA LogicNames ==
  \A op \in Logic : op \in {"Add", "Nor", "Nand", "Shl", "Shr", "Rol", "Ror", "Shld", "Shrd"}
BY OpNames DEF Logic

LEMMA SeenWritten ==
  ASSUME NEW h, NEW S, NEW data, NEW view, Seen(h, S, data, view), NEW w \in data.logicWrites
  PROVE  \E a \in S : RecordOf(view, "write", a, w)
<1>1. PICK kind : kind = "write"
  OBVIOUS
<1>2. w \in Recorded(view, kind, Len(view.accesses)) /\ view.accesses \in Seq(S)
  BY <1>1 DEF Seen, WholeSeen, Distinct
<1> QED  BY <1>1, <1>2, RecordedIn, Zenon

LEMMA SeenRead ==
  ASSUME NEW h, NEW S, NEW data, NEW view, Seen(h, S, data, view), NEW r \in data.logicReads
  PROVE  \E a \in S : RecordOf(view, "read", a, r)
<1>1. PICK kind : kind = "read"
  OBVIOUS
<1>2. r \in Recorded(view, kind, Len(view.accesses)) /\ view.accesses \in Seq(S)
  BY <1>1 DEF Seen, WholeSeen, Distinct
<1> QED  BY <1>1, <1>2, RecordedIn, Zenon

LEMMA PopTaken ==
  ASSUME NEW h, NEW S, NEW data, NEW view, Seen(h, S, data, view),
         NEW m \in TryMatchVmPopReg(data)
  PROVE  m.type = "Pop" /\ h.op = "Pop"
<1>1. m.type = "Pop"
  BY PopRegSeen
<1>2. PICK delta \in Deltas(data) : Abs(delta[1]) = 5 /\ delta[2] \in 1..8
  BY PopRegSeen
<1>3. Moved(h, delta) /\ Moves(h)
  BY DEF Seen, Distinct
<1>4. Abs(h.taken) = 5 /\ h.change \in 1..8
  BY <1>2, <1>3 DEF Moved
<1>5. h.taken # 4
  BY <1>4 DEF Abs
<1> QED  BY <1>1, <1>3, <1>4, <1>5 DEF Moves

LEMMA PushRegTaken ==
  ASSUME NEW h, NEW S, NEW data, NEW view, Seen(h, S, data, view),
         NEW m \in TryMatchVmPushReg(data)
  PROVE  m.type = "PushReg" /\ h.op = "PushReg"
<1>1. m.type = "PushReg"
  BY PushRegSeen
<1>2. PICK delta \in Deltas(data) : Abs(delta[1]) = 5 /\ delta[2] \in -8..-1
  BY PushRegSeen
<1>3. Moved(h, delta) /\ Moves(h)
  BY DEF Seen, Distinct
<1>4. Abs(h.taken) = 5 /\ h.change \in -8..-1
  BY <1>2, <1>3 DEF Moved
<1>5. h.taken # 4
  BY <1>4 DEF Abs
<1>6. h.op \in {"PushReg", "PushConst"}
  BY <1>3, <1>4, <1>5 DEF Moves
<1>7. h.op # "PushConst"
  <2> SUFFICES ASSUME h.op = "PushConst" PROVE FALSE
    OBVIOUS
  <2>1. PICK w \in data.logicWrites : GetUnderlyingVariable(w.ast) # {}
    BY PushRegSeen
  <2>2. PICK a \in S : a.kind = "write" /\ w.ast = AstOf(view, a.from)
    BY SeenWritten DEF RecordOf
  <2>3. a.from = Known
    BY <2>2 DEF Seen, Distinct
  <2>4. w.ast.node \in {Known.node, "bv"}
    BY <2>2, <2>3, ShownOperation
  <2>5. w.ast.node = "bv"
    BY <2>4, Sources
  <2> QED  BY <2>1, <2>5 DEF GetUnderlyingVariable
<1> QED  BY <1>1, <1>6, <1>7

LEMMA PushConstTaken ==
  ASSUME NEW h, NEW S, NEW data, NEW view, Seen(h, S, data, view),
         NEW m \in TryMatchVmPushConst(data)
  PROVE  /\ m.type = "PushConst"
         /\ \/ h.op = "PushConst"
            \/ /\ h.op = "PushReg" /\ h.change = -2
               /\ \E w \in data.logicWrites : GetUnderlyingVariable(w.ast) = {}
<1>1. m.type = "PushConst"
  BY PushConstSeen
<1>2. PICK delta \in Deltas(data) :
        /\ delta[2] \in -8..-1 /\ Abs(delta[1]) >= 5
        /\ Abs(delta[1]) - 4 = -delta[2] \/ (Abs(delta[1]) - 4 = 1 /\ delta[2] = -2)
        /\ \E w \in data.logicWrites : /\ w.addr = data.vsp.start + delta[2]
                                       /\ HoldsNoVariable(w.ast)
  BY PushConstSeen
<1>3. Moved(h, delta) /\ Moves(h)
  BY DEF Seen, Distinct
<1>4. /\ h.change \in -8..-1 /\ Abs(h.taken) >= 5
      /\ Abs(h.taken) - 4 = -h.change \/ (Abs(h.taken) - 4 = 1 /\ h.change = -2)
  BY <1>2, <1>3 DEF Moved
<1>5. h.taken # 4
  BY <1>4 DEF Abs
<1>6. h.op \in {"PushReg", "PushConst"}
  BY <1>3, <1>4, <1>5 DEF Moves
<1>7. h.op = "PushReg" => h.change = -2
  <2> SUFFICES ASSUME h.op = "PushReg" PROVE h.change = -2
    OBVIOUS
  <2>1. h.taken = 5 /\ h.change \in {-2, -4, -8}
    BY <1>3, LogicNames DEF Moves
  <2>2. Abs(h.taken) = 5
    BY <2>1 DEF Abs
  <2> QED  BY <1>4, <2>1, <2>2
<1>8. \E w \in data.logicWrites : GetUnderlyingVariable(w.ast) = {}
  BY <1>2 DEF HoldsNoVariable
<1> QED  BY <1>1, <1>6, <1>7, <1>8

LEMMA PushVspTaken ==
  ASSUME NEW h, NEW S, NEW data, NEW view, Seen(h, S, data, view),
         NEW m \in TryMatchVmPushVsp(data)
  PROVE  m.type = "PushVsp" /\ h.op = "PushVsp"
<1>1. m.type = "PushVsp"
  BY PushVspSeen
<1>2. PICK w \in data.logicWrites : VSP \in GetUnderlyingVariable(w.ast)
  BY PushVspSeen
<1>3. PICK a \in S : a.kind = "write" /\ w.ast = AstOf(view, a.from)
  BY SeenWritten DEF RecordOf
<1>4. PICK from : from = a.from
  OBVIOUS
<1>5. /\ from.node = "var"
      /\ \A source : from.of = <<source>> => VSP = NameOf(view, source)
  <2>1. VSP \in GetUnderlyingVariable(AstOf(view, from))
    BY <1>2, <1>3, <1>4
  <2> QED  BY <2>1, VariableShown
<1>6. h.op = "PushVsp"
  <2> SUFFICES ASSUME h.op # "PushVsp" PROVE FALSE
    OBVIOUS
  <2>1. Sourced(from)
    BY <1>3, <1>4 DEF Seen, Distinct
  <2>2. PICK source : /\ from.of = <<source>>
                      /\ source = <<"flags", 0>> \/ \E i : source = Mem(i)
    BY <1>5, <2>1 DEF Sourced
  <2>3. VSP = NameOf(view, source)
    BY <1>5, <2>2
  <2>4. source = <<"flags", 0>>
    BY <2>2, <2>3 DEF Seen
  <2>5. NameOf(view, source) = RFLAGS_CLEAN
    BY <2>4 DEF NameOf
  <2> QED  BY <2>3, <2>5 DEF VSP, RFLAGS_CLEAN
<1> QED  BY <1>1, <1>6

LEMMA PopVspTaken ==
  ASSUME NEW h, NEW S, NEW data, NEW view, Seen(h, S, data, view),
         NEW m \in TryMatchVmPopVsp(data)
  PROVE  m.type = "PopVsp" /\ h.op = "PopVsp"
<1>1. m.type = "PopVsp"
  BY PopVspSeen
<1>2. IsVariable(AstOf(view, h.vsp), StackArg(0))
  <2>1. data.vspAst = {AstOf(view, h.vsp)}
    BY DEF Seen, WholeSeen
  <2> QED  BY <2>1, PopVspSeen
<1>3. h.op = "PopVsp"
  <2> SUFFICES ASSUME h.op # "PopVsp" PROVE FALSE
    OBVIOUS
  <2>1. h.vsp = Plus(Reg(vspOf), h.change)
    BY DEF Seen, Distinct, Moves
  <2>2. h.vsp.of = <<Reg(vspOf)>>
    BY <2>1, Sources
  <2>3. StackArg(0) = NameOf(view, Reg(vspOf))
    BY <1>2, <2>2, VariableShown
  <2>4. NameOf(view, Reg(vspOf)) = VSP
    BY DEF Seen, WholeSeen
  <2> QED  BY <2>3, <2>4 DEF VSP, StackArg
<1> QED  BY <1>1, <1>3

LEMMA ReadMemTaken ==
  ASSUME NEW h, NEW S, NEW data, NEW view, Seen(h, S, data, view), Vsp \in Int,
         NEW m \in TryMatchVmReadMem(data)
  PROVE  m.type = "ReadMem" /\ (h.op = "ReadMem" \/ LooksSo(h))
<1>1. m.type = "ReadMem"
  BY ReadMemSeen
<1>2. PICK p \in data.logicReads, r \in data.logicReads, w \in data.logicWrites :
        /\ p.addr = data.vsp.start /\ p.size = 8
        /\ r.addr = p.value
        /\ \/ data.vsp.end - data.vsp.start = 8 - r.size
           \/ r.size = 1 /\ data.vsp.end - data.vsp.start = 6
        /\ w.addr = data.vsp.end /\ w.value = r.value
  BY ReadMemSeen
<1>3. data.vsp.start = Vsp /\ data.vsp.end = Vsp + h.change /\ h.change \in Int
  BY DEF Seen, WholeSeen
<1>4. data.vsp.end - data.vsp.start = h.change
  BY <1>3
<1>5. PICK a \in S : RecordOf(view, "read", a, p)
  BY SeenRead, Zenon
<1>6. PICK b \in S : RecordOf(view, "read", b, r)
  BY SeenRead, Zenon
<1>7. PICK c \in S : RecordOf(view, "write", c, w)
  BY SeenWritten, Zenon
<1>8. Chain(h, a, b, c)
  BY <1>2, <1>3, <1>4, <1>5, <1>6, <1>7 DEF Chain, RecordOf
<1> QED  BY <1>1, <1>8 DEF Seen, Distinct

LEMMA WriteMemTaken ==
  ASSUME NEW h, NEW S, NEW data, NEW view, Seen(h, S, data, view),
         NEW m \in TryMatchVmWriteMem(data)
  PROVE  m.type = "WriteMem" /\ h.op = "WriteMem"
<1>1. m.type = "WriteMem"
  BY WriteMemSeen
<1>2. PICK delta \in Deltas(data) : Abs(delta[1]) = 4 /\ delta[2] >= 9
  BY WriteMemSeen
<1>3. Moved(h, delta) /\ Moves(h)
  BY DEF Seen, Distinct
<1>4. Abs(h.taken) = 4 /\ h.change >= 9 /\ h.vsp.node = "bvadd"
  BY <1>2, <1>3 DEF Moved
<1>5. h.taken \notin 5..12
  BY <1>4 DEF Abs
<1>6. h.vsp # Copy(Mem(1))
  BY <1>4, Sources
<1>7. h.change \in Int
  BY DEF Seen
<1>8. ~(h.change \in 1..8) /\ ~(h.change \in {-2, -4, -8}) /\ ~(h.change <= 6) /\ h.taken # 5
  BY <1>4, <1>5, <1>7
<1> QED  BY <1>1, <1>3, <1>5, <1>6, <1>8 DEF Moves

LEMMA DispatchTaken ==
  ASSUME NEW h, NEW S, NEW data, NEW view, Seen(h, S, data, view),
         NEW m \in TryMatchVmDispatch(data)
  PROVE  /\ m.type = "Dispatch"
         /\ h.op = "Dispatch" \/ (h.change = 0 /\ h.d = 8 /\ h.op \in {"ReadMem"} \cup Flagged)
<1>1. m.type = "Dispatch"
  BY DispatchSeen
<1>2. IsVariable(AstOf(view, h.vsp), VSP)
  <2>1. data.vspAst = {AstOf(view, h.vsp)}
    BY DEF Seen, WholeSeen
  <2> QED  BY <2>1, DispatchSeen
<1>3. Moves(h)
  BY DEF Seen, Distinct
<1>4. h.vsp.node = "var" /\ \A source : h.vsp.of = <<source>> => VSP = NameOf(view, source)
  BY <1>2, VariableShown
<1>5. h.op # "PopVsp"
  <2> SUFFICES ASSUME h.op = "PopVsp" PROVE FALSE
    OBVIOUS
  <2>1. h.vsp = Copy(Mem(1))
    BY <1>3, LogicNames DEF Moves
  <2>2. VSP = NameOf(view, Mem(1))
    BY <1>4, <2>1, Sources
  <2> QED  BY <2>2 DEF Seen
<1>6. h.vsp = Plus(Reg(vspOf), h.change)
  BY <1>3, <1>5 DEF Moves
<1>7. h.change = 0
  <2>1. \A source, k : k # 0 => Plus(source, k).node = "bvadd"
    BY DEF Plus, Copy, From
  <2> QED  BY <1>4, <1>6, <2>1
<1> QED  BY <1>1, <1>3, <1>7 DEF Moves

-----------------------------------------------------------------------------
(* What a straight handler is taken for.                                   *)
ReadsNext(h) == h.op = "ReadMem" /\ h.a = Bytecode
Named(h, m) ==
  \/ m.type \in {h.op, "Unknown"}
  \/ LooksSo(h) /\ m.type = "ReadMem"
  \/ ReadsNext(h) /\ h.d = 8 /\ m.type = "Dispatch"
  \/ /\ top >= ImageBase
     /\ \/ h.op = "PushReg" /\ h.change = -2 /\ m.type = "PushConst"
        \/ h.op \in Flagged /\ h.change = 0 /\ m.type = "Dispatch"

LEMMA WholeSeenSo ==
  ASSUME LoopInv, OnItsStack, inside, RightRegisters, NEW h \in Straight,
         NEW left, left[vipOf] = Kept,
         NEW run, run = RunOf(h, vipOf, vspOf, Plus(Reg(vipOf), h.taken), h.vsp, left, Rsp),
         NEW n, n = Len(h.accesses)
  PROVE  \E S : Seen(h, S, DataOf(run, n, TRUE), ViewOf(run))
<1>1. Vsp \in Int
  BY StackFacts
<1>2. Ordinary(h)
  BY <1>1, StraightOrdinary
<1>3. WholeRun(h, left, run, n)
  BY <1>2 DEF WholeRun
<1>4. WholeSeen(h, DataOf(run, n, TRUE), ViewOf(run), n)
  BY <1>3, WholeData, Zenon
<1>5. \A delta \in Deltas(DataOf(run, n, TRUE)) : Moved(h, delta)
  BY <1>3, WholeDeltas, Zenon DEF Moved
<1>6. PICK S : Distinct(h, S)
  BY StraightDistinct, Zenon
<1>7. \A i : NameOf(ViewOf(run), Mem(i)) # VSP
  BY SourceNames
<1>8. h.change \in Int
  BY <1>2 DEF Ordinary
<1> QED  BY <1>4, <1>5, <1>6, <1>7, <1>8, Zenon DEF Seen

LEMMA ArithmeticNamed ==
  ASSUME LoopInv, NEW run, NEW op, NEW n, QuietRun(run, op, n),
         op \in {"Shld", "Shrd"} => PairAt(run.accesses), NEW complete \in BOOLEAN,
         NEW data, data = DataOf(run, n, complete),
         NEW m \in TryMatchGenericVmAlu(data) \cup TryMatchVmDoubleShift(data)
  PROVE  m.type \in {op, "Unknown"}
<1>1. Vsp \in Int /\ Rsp \in Int /\ StartOf(vspReg) \in Int
  BY StackFacts
<1>2. CASE m \in TryMatchGenericVmAlu(data)
  BY <1>2, QuietAlu
<1>3. CASE m \in TryMatchVmDoubleShift(data)
  BY <1>1, <1>3, QuietDoubleShift
<1> QED  BY <1>2, <1>3

-----------------------------------------------------------------------------
(* The match is found by one of the recognisers if any of them finds one.  *)
Tries(data) ==
  TryMatchVmEntry(data) \cup Plain(data) \cup TryMatchGenericVmAlu(data)
    \cup TryMatchVmDoubleShift(data) \cup TryMatchVmJmpIndirectRemap(data)
    \cup TryMatchVmExit(data)
Within(second, rest, all) == second # {} /\ (rest # {} => second \subseteq all)

LEMMA OrWithin ==
  ASSUME NEW first, NEW second, NEW rest, NEW all, first \subseteq all,
         Within(second, rest, all)
  PROVE  Within(Or(first, second), first \cup rest, all)
<1>1. CASE first = {}
  BY <1>1 DEF Within, Or
<1>2. CASE first # {}
  BY <1>2 DEF Within, Or
<1> QED  BY <1>1, <1>2

LEMMA TriesFound ==
  ASSUME NEW data, Tries(data) # {}
  PROVE  MatchVmHandler(data) \in Tries(data)
<1> DEFINE all == Tries(data)
           t1 == TryMatchVmEntry(data)
           t2 == TryMatchVmPopReg(data)
           t3 == TryMatchVmPushConst(data)
           t4 == TryMatchVmPushReg(data)
           t5 == TryMatchVmPushVsp(data)
           t6 == TryMatchVmPopVsp(data)
           t7 == TryMatchVmReadMem(data)
           t8 == TryMatchVmWriteMem(data)
           t9 == TryMatchGenericVmAlu(data)
           t10 == TryMatchVmDoubleShift(data)
           t11 == TryMatchVmJmpIndirectRemap(data)
           t12 == TryMatchVmDispatch(data)
           t13 == TryMatchVmExit(data)
           s13 == Or(t13, {NoMatch})
           s12 == Or(t12, s13)
           s11 == Or(t11, s12)
           s10 == Or(t10, s11)
           s9 == Or(t9, s10)
           s8 == Or(t8, s9)
           s7 == Or(t7, s8)
           s6 == Or(t6, s7)
           s5 == Or(t5, s6)
           s4 == Or(t4, s5)
           s3 == Or(t3, s4)
           s2 == Or(t2, s3)
           s1 == Or(t1, s2)
<1>1. MatchVmHandler(data) = CHOOSE match \in s1 : TRUE
  BY Zenon DEF MatchVmHandler
<1>2. /\ t1 \subseteq all /\ t2 \subseteq all /\ t3 \subseteq all /\ t4 \subseteq all
      /\ t5 \subseteq all /\ t6 \subseteq all /\ t7 \subseteq all /\ t8 \subseteq all
      /\ t9 \subseteq all /\ t10 \subseteq all /\ t11 \subseteq all /\ t12 \subseteq all
      /\ t13 \subseteq all
  <2> HIDE DEF t1, t2, t3, t4, t5, t6, t7, t8, t9, t10, t11, t12, t13
  <2>1. all = t1 \cup (t2 \cup t3 \cup t4 \cup t5 \cup t6 \cup t7 \cup t8 \cup t12)
                 \cup t9 \cup t10 \cup t11 \cup t13
    BY Zenon DEF Tries, Plain, t1, t2, t3, t4, t5, t6, t7, t8, t9, t10, t11, t12, t13
  <2> HIDE DEF all
  <2> QED  BY <2>1
<1>3. all = t1 \cup (t2 \cup (t3 \cup (t4 \cup (t5 \cup (t6 \cup (t7 \cup (t8 \cup (t9
              \cup (t10 \cup (t11 \cup (t12 \cup (t13 \cup {}))))))))))))
  <2> HIDE DEF t1, t2, t3, t4, t5, t6, t7, t8, t9, t10, t11, t12, t13
  <2>1. all = t1 \cup (t2 \cup t3 \cup t4 \cup t5 \cup t6 \cup t7 \cup t8 \cup t12)
                 \cup t9 \cup t10 \cup t11 \cup t13
    BY Zenon DEF Tries, Plain, t1, t2, t3, t4, t5, t6, t7, t8, t9, t10, t11, t12, t13
  <2> HIDE DEF all
  <2> QED  BY <2>1
<1> HIDE DEF all, t1, t2, t3, t4, t5, t6, t7, t8, t9, t10, t11, t12, t13
<1>4. Within({NoMatch}, {}, all)
  BY DEF Within
<1>5. Within(s13, t13 \cup {}, all)
  BY <1>2, <1>4, OrWithin, Zenon
<1> DEFINE r13 == t13 \cup {}
<1> HIDE DEF s13, r13
<1>6. Within(s12, t12 \cup r13, all)
  BY <1>2, <1>5, OrWithin, Zenon DEF r13
<1> DEFINE r12 == t12 \cup r13
<1> HIDE DEF s12, r12
<1>7. Within(s11, t11 \cup r12, all)
  BY <1>2, <1>6, OrWithin, Zenon DEF r12
<1> DEFINE r11 == t11 \cup r12
<1> HIDE DEF s11, r11
<1>8. Within(s10, t10 \cup r11, all)
  BY <1>2, <1>7, OrWithin, Zenon DEF r11
<1> DEFINE r10 == t10 \cup r11
<1> HIDE DEF s10, r10
<1>9. Within(s9, t9 \cup r10, all)
  BY <1>2, <1>8, OrWithin, Zenon DEF r10
<1> DEFINE r9 == t9 \cup r10
<1> HIDE DEF s9, r9
<1>10. Within(s8, t8 \cup r9, all)
  BY <1>2, <1>9, OrWithin, Zenon DEF r9
<1> DEFINE r8 == t8 \cup r9
<1> HIDE DEF s8, r8
<1>11. Within(s7, t7 \cup r8, all)
  BY <1>2, <1>10, OrWithin, Zenon DEF r8
<1> DEFINE r7 == t7 \cup r8
<1> HIDE DEF s7, r7
<1>12. Within(s6, t6 \cup r7, all)
  BY <1>2, <1>11, OrWithin, Zenon DEF r7
<1> DEFINE r6 == t6 \cup r7
<1> HIDE DEF s6, r6
<1>13. Within(s5, t5 \cup r6, all)
  BY <1>2, <1>12, OrWithin, Zenon DEF r6
<1> DEFINE r5 == t5 \cup r6
<1> HIDE DEF s5, r5
<1>14. Within(s4, t4 \cup r5, all)
  BY <1>2, <1>13, OrWithin, Zenon DEF r5
<1> DEFINE r4 == t4 \cup r5
<1> HIDE DEF s4, r4
<1>15. Within(s3, t3 \cup r4, all)
  BY <1>2, <1>14, OrWithin, Zenon DEF r4
<1> DEFINE r3 == t3 \cup r4
<1> HIDE DEF s3, r3
<1>16. Within(s2, t2 \cup r3, all)
  BY <1>2, <1>15, OrWithin, Zenon DEF r3
<1> DEFINE r2 == t2 \cup r3
<1> HIDE DEF s2, r2
<1>17. Within(s1, t1 \cup r2, all)
  BY <1>2, <1>16, OrWithin, Zenon DEF r2
<1>18. all = t1 \cup r2
  BY <1>3, Zenon DEF r2, r3, r4, r5, r6, r7, r8, r9, r10, r11, r12, r13
<1>19. s1 # {} /\ s1 \subseteq all
  <2>1. all # {}
    BY DEF all
  <2> QED  BY <1>17, <1>18, <2>1 DEF Within
<1>20. MatchVmHandler(data) \in s1
  <2> HIDE DEF s1
  <2> QED  BY <1>1, <1>19
<1> QED  BY <1>19, <1>20 DEF all

(* A type tells of which recogniser the match is.                          *)
TypeTells(data, m) ==
  /\ m.type = "Entry" => m \in TryMatchVmEntry(data)
  /\ m.type = "Pop" => m \in TryMatchVmPopReg(data)
  /\ m.type = "PushConst" => m \in TryMatchVmPushConst(data)
  /\ m.type = "PushReg" => m \in TryMatchVmPushReg(data)
  /\ m.type = "PushVsp" => m \in TryMatchVmPushVsp(data)
  /\ m.type = "PopVsp" => m \in TryMatchVmPopVsp(data)
  /\ m.type = "ReadMem" => m \in TryMatchVmReadMem(data)
  /\ m.type = "WriteMem" => m \in TryMatchVmWriteMem(data)
  /\ m.type \in {"Add", "Shr", "Shl", "Rol", "Ror", "Nor", "Nand"} => m \in TryMatchGenericVmAlu(data)
  /\ m.type \in {"Shld", "Shrd"} => m \in TryMatchVmDoubleShift(data)
  /\ m.type = "Jmp" => m \in TryMatchVmJmpIndirectRemap(data)
  /\ m.type = "Dispatch" => m \in TryMatchVmDispatch(data)
  /\ m.type = "Exit" => m \in TryMatchVmExit(data)

LEMMA TypesTell ==
  ASSUME NEW data, NEW m \in Tries(data),
         \A t \in TryMatchVmDoubleShift(data) : t.type # "Unknown"
  PROVE  TypeTells(data, m) /\ m.type # "Unknown"
<1>1. CASE m \in TryMatchVmEntry(data)
  <2>1. m.type = "Entry"
    BY <1>1, ControlTypes
  <2> QED  BY <1>1, <2>1 DEF TypeTells
<1>2. CASE m \in TryMatchVmPopReg(data)
  <2>1. m.type = "Pop"
    BY <1>2, PopRegSeen
  <2> QED  BY <1>2, <2>1 DEF TypeTells
<1>3. CASE m \in TryMatchVmPushConst(data)
  <2>1. m.type = "PushConst"
    BY <1>3, PushConstSeen
  <2> QED  BY <1>3, <2>1 DEF TypeTells
<1>4. CASE m \in TryMatchVmPushReg(data)
  <2>1. m.type = "PushReg"
    BY <1>4, PushRegSeen
  <2> QED  BY <1>4, <2>1 DEF TypeTells
<1>5. CASE m \in TryMatchVmPushVsp(data)
  <2>1. m.type = "PushVsp"
    BY <1>5, PushVspSeen
  <2> QED  BY <1>5, <2>1 DEF TypeTells
<1>6. CASE m \in TryMatchVmPopVsp(data)
  <2>1. m.type = "PopVsp"
    BY <1>6, PopVspSeen
  <2> QED  BY <1>6, <2>1 DEF TypeTells
<1>7. CASE m \in TryMatchVmReadMem(data)
  <2>1. m.type = "ReadMem"
    BY <1>7, ReadMemSeen
  <2> QED  BY <1>7, <2>1 DEF TypeTells
<1>8. CASE m \in TryMatchVmWriteMem(data)
  <2>1. m.type = "WriteMem"
    BY <1>8, WriteMemSeen
  <2> QED  BY <1>8, <2>1 DEF TypeTells
<1>9. CASE m \in TryMatchGenericVmAlu(data)
  <2>1. m.type \in {"Add", "Shr", "Shl", "Rol", "Ror", "Nor", "Nand"}
    BY <1>9, AluTypes, OperationTypes
  <2> QED  BY <1>9, <2>1 DEF TypeTells
<1>10. CASE m \in TryMatchVmDoubleShift(data)
  <2>1. m.type \in {"Shld", "Shrd"}
    BY <1>10, DoubleShiftTypes
  <2> QED  BY <1>10, <2>1 DEF TypeTells
<1>11. CASE m \in TryMatchVmJmpIndirectRemap(data)
  <2>1. m.type = "Jmp"
    BY <1>11, ControlTypes
  <2> QED  BY <1>11, <2>1 DEF TypeTells
<1>12. CASE m \in TryMatchVmDispatch(data)
  <2>1. m.type = "Dispatch"
    BY <1>12, DispatchSeen
  <2> QED  BY <1>12, <2>1 DEF TypeTells
<1>13. CASE m \in TryMatchVmExit(data)
  <2>1. m.type \in {"Exit", "Crash"}
    BY <1>13, ControlTypes
  <2> QED  BY <1>13, <2>1 DEF TypeTells
<1> QED
  BY <1>1, <1>2, <1>3, <1>4, <1>5, <1>6, <1>7, <1>8, <1>9, <1>10, <1>11, <1>12, <1>13
  DEF Tries, Plain

(* A match with an operand size and with the VSPs that were seen.          *)
Sized(data, m, depth) ==
  m.depth = depth /\ m.vspBefore = data.vsp.start /\ m.vspAfter = data.vsp.end

LEMMA FoundSized ==
  ASSUME NEW data, NEW type, NEW depth PROVE Sized(data, Found(data, type, depth), depth)
BY DEF Found, NoMatch, Sized

LEMMA FoundWith ==
  ASSUME NEW data, NEW type, NEW depth, NEW arg
  PROVE  Sized(data, [Found(data, type, depth) EXCEPT !.arg = arg], depth)
BY DEF Found, NoMatch, Sized

-----------------------------------------------------------------------------
(* What is shown of a value that has a single source with a name.          *)
LEMMA VarTree ==
  ASSUME NEW view, NEW source, NEW name, NameOf(view, source) = name, name # NoName,
         NEW wrap, NEW from, from = From(wrap, "var", 0, <<source>>),
         NEW ast, ast = AstOf(view, from)
  PROVE  /\ ast.node = "var" /\ ast.wrap = wrap /\ ast.vars = <<name>>
         /\ Unchanged(wrap) => GetUnderlyingVariable(ast) = {name}
<1>1. from.of = <<source>> /\ from.node = "var" /\ from.wrap = wrap
  BY DEF From
<1>2. AstOf(view, from) = Tree(from.wrap, from.node, <<NameOf(view, source)>>, from.k)
  BY <1>1, CopyShows
<1>3. PICK k : ast = Tree(wrap, "var", <<name>>, k)
  BY <1>1, <1>2
<1>4. ast.node = "var" /\ ast.wrap = wrap /\ ast.vars = <<name>>
  BY <1>3 DEF Tree
<1>5. ToSet(ast.vars) = {name}
  BY <1>4 DEF ToSet
<1> QED  BY <1>4, <1>5 DEF Unchanged, GetUnderlyingVariable

LEMMA CopyTree ==
  ASSUME NEW view, NEW source, NEW name, NameOf(view, source) = name, name # NoName
  PROVE  AstOf(view, Copy(source)) = Variable(name)
<1>1. PICK from : from = Copy(source)
  OBVIOUS
<1>2. from.of = <<source>> /\ from.node = "var" /\ from.wrap = "" /\ from.k = 0
  BY <1>1 DEF Copy, From
<1>3. AstOf(view, from) = Tree(from.wrap, from.node, <<NameOf(view, source)>>, from.k)
  BY <1>2, CopyShows
<1> QED  BY <1>1, <1>2, <1>3 DEF Variable

LEMMA SumTree ==
  ASSUME NEW view, NEW source, NEW name, NameOf(view, source) = name, name # NoName,
         NEW k \in Int, k # 0
  PROVE  GetAddImmediate(AstOf(view, Plus(source, k)), name) = {k}
<1>1. PICK from : from = Plus(source, k)
  OBVIOUS
<1>2. from.of = <<source>> /\ from.node = "bvadd" /\ from.wrap = "" /\ from.k = k
  BY <1>1 DEF Plus, From
<1>3. AstOf(view, from) = Tree(from.wrap, from.node, <<NameOf(view, source)>>, from.k)
  BY <1>2, CopyShows
<1>4. PICK ast, wrap, node, one : /\ ast = AstOf(view, from) /\ wrap = from.wrap /\ node = from.node
                                 /\ one = <<NameOf(view, source)>>
  OBVIOUS
<1>6. ast = Tree(wrap, node, one, from.k)
  BY <1>3, <1>4
<1>7. ast.wrap = wrap /\ ast.node = node /\ ast.vars = one /\ ast.k = from.k
  BY <1>6 DEF Tree
<1>5. ast.wrap = "" /\ ast.node = "bvadd" /\ ast.vars = <<name>> /\ ast.k = k
  BY <1>2, <1>4, <1>7
<1> QED  BY <1>1, <1>4, <1>5 DEF GetAddImmediate

LEMMA NamesDiffer ==
  /\ VIP # NoName /\ VSP # NoName /\ VM_CONTEXT # NoName
  /\ \A i : StackArg(i) # NoName /\ VmReg(i) # NoName
  /\ \A i : VmReg(i)[1] = "VmReg" /\ StackArg(i)[1] = "StackArg"
BY DEF VIP, VSP, VM_CONTEXT, NoName, StackArg, VmReg

(* The changes of VIP and VSP are seen.                                    *)
LEMMA DeltaThere ==
  ASSUME NEW h, NEW S, NEW data, NEW view, Seen(h, S, data, view),
         h.vsp = Plus(Reg(vspOf), h.change), h.change # 0, h.taken \in Int, h.taken # 0
  PROVE  \E delta \in Deltas(data) : delta[1] = h.taken /\ delta[2] = h.change
<1>1. WholeSeen(h, data, view, Len(h.accesses)) /\ h.change \in Int
  BY DEF Seen
<1>2. PICK vipAst, vspAst : /\ vipAst = AstOf(view, Plus(Reg(vipOf), h.taken))
                            /\ vspAst = AstOf(view, h.vsp)
                            /\ data.vipAst = {vipAst} /\ data.vspAst = {vspAst}
  BY <1>1 DEF WholeSeen
<1>3. NameOf(view, Reg(vspOf)) = VSP /\ NameOf(view, Reg(vipOf)) = VIP
  BY <1>1 DEF WholeSeen
<1>4. GetAddImmediate(vipAst, VIP) = {h.taken}
  BY <1>2, <1>3, SumTree, NamesDiffer
<1>5. GetAddImmediate(vspAst, VSP) = {h.change}
  BY <1>1, <1>2, <1>3, SumTree, NamesDiffer
<1>6. <<h.taken, h.change>> \in GetAddImmediate(vipAst, VIP) \X GetAddImmediate(vspAst, VSP)
  BY <1>4, <1>5
<1>7. <<h.taken, h.change>> \in Deltas(data)
  <2>1. vipAst \in data.vipAst /\ vspAst \in data.vspAst
    BY <1>2
  <2> DEFINE Pairs(vip, vsp) == GetAddImmediate(vip, VIP) \X GetAddImmediate(vsp, VSP)
  <2>2. Deltas(data) = UNION {Pairs(vip, vsp) : vip \in data.vipAst, vsp \in data.vspAst}
    BY DEF Deltas
  <2>3. <<h.taken, h.change>> \in Pairs(vipAst, vspAst)
    BY <1>6
  <2> HIDE DEF Pairs
  <2> QED  BY <2>1, <2>2, <2>3
<1> QED  BY <1>7

(* The only write of a handler is what is recorded as written.             *)
WritesOnly(view, n, i, store) ==
  /\ i \in 1..n /\ view.accesses[i] = store /\ store.kind = "write"
  /\ \A l \in 1..n : view.accesses[l].kind = "write" => l = i
Written(view, writes, store) ==
  /\ \E w \in writes : RecordOf(view, "write", store, w)
  /\ \A w \in writes : RecordOf(view, "write", store, w)

LEMMA SoleWrite ==
  ASSUME NEW view, NEW n, NEW i, NEW store, WritesOnly(view, n, i, store)
  PROVE  Written(view, Recorded(view, "write", n), store)
<1>1. PICK kind : kind = "write"
  OBVIOUS
<1>2. /\ i \in 1..n /\ view.accesses[i] = store /\ store.kind = kind
      /\ \A l \in 1..n : view.accesses[l].kind = kind => l = i
  BY <1>1 DEF WritesOnly
<1>3. \E w \in Recorded(view, kind, n) : RecordOf(view, kind, store, w)
  <2>1. \A l \in 1..n : l > i /\ view.accesses[l].kind = kind
                          => view.accesses[l].addr # view.accesses[i].addr
    <3>1. SUFFICES ASSUME NEW l \in 1..n, l > i, view.accesses[l].kind = kind
                   PROVE  FALSE
      OBVIOUS
    <3>2. l = i
      BY <1>2, <3>1
    <3> QED  BY <1>2, <3>1, <3>2
  <2> QED  BY <1>2, <2>1, RecordedLast
<1>4. ASSUME NEW w \in Recorded(view, kind, n) PROVE RecordOf(view, kind, store, w)
  <2>1. PICK l \in 1..n : LET a == view.accesses[l]
                          IN /\ a.kind = kind
                             /\ w.addr = a.addr /\ w.size = a.size /\ w.value = a.value
                             /\ w.ast = AstOf(view, a.from)
    BY <1>4 DEF Recorded
  <2>2. view.accesses[l] = store
    BY <1>2, <2>1
  <2> QED  BY <2>1, <2>2 DEF RecordOf
<1> QED  BY <1>1, <1>3, <1>4 DEF Written

LEMMA LowestOfOne ==
  ASSUME NEW set, set # {}, NEW addr \in Int, \A x \in set : x.addr = addr
  PROVE  Lowest(set) = set
BY DEF Lowest

-----------------------------------------------------------------------------
(* Each handler is found by its recogniser, with its operand size.         *)
LEMMA PopDepth ==
  ASSUME NEW data, NEW m \in TryMatchVmPopReg(data)
  PROVE  \E w \in data.logicWrites : \E depth :
           Sized(data, m, depth) /\ depth = IF w.ast.wrap = "extract" THEN 1 ELSE w.size
<1> DEFINE stores == {w \in data.logicWrites : /\ w.ast.vars # <<>> /\ w.ast.vars[1] = StackArg(0)
                                               /\ w.addr - data.rsp.start \in 0..256}
           moves == \E delta \in Deltas(data) : Abs(delta[1]) = 5 /\ delta[2] \in 1..8
           MatchOf(w) == [Found(data, "Pop", IF w.ast.wrap = "extract" THEN 1 ELSE w.size) EXCEPT
                            !.arg = w.addr - data.rsp.start]
<1>1. TryMatchVmPopReg(data) = {MatchOf(w) : w \in {x \in Lowest(stores) : moves}}
  BY Zenon DEF TryMatchVmPopReg
<1>2. PICK w \in Lowest(stores) : m = MatchOf(w)
  <2> HIDE DEF stores, moves, MatchOf
  <2> QED  BY <1>1
<1>3. w \in data.logicWrites
  <2>1. w \in stores
    <3> HIDE DEF stores
    <3> QED  BY <1>2 DEF Lowest
  <2> QED  BY <2>1
<1>4. PICK depth, arg : /\ depth = IF w.ast.wrap = "extract" THEN 1 ELSE w.size
                        /\ m = [Found(data, "Pop", depth) EXCEPT !.arg = arg]
  BY <1>2
<1>5. PICK type : m = [Found(data, type, depth) EXCEPT !.arg = arg]
  BY <1>4
<1>6. depth = IF w.ast.wrap = "extract" THEN 1 ELSE w.size
  BY <1>4
<1> HIDE DEF MatchOf, stores, moves
<1>7. Sized(data, m, depth)
  BY <1>5, FoundWith, Zenon
<1> QED  BY <1>3, <1>6, <1>7, Zenon

LEMMA PopShown ==
  ASSUME NEW data, NEW w \in data.logicWrites, w.addr \in Int,
         w.ast.vars = <<StackArg(0)>>, w.addr - data.rsp.start \in 0..256,
         \A v \in data.logicWrites : v.addr = w.addr,
         NEW delta \in Deltas(data), Abs(delta[1]) = 5, delta[2] \in 1..8
  PROVE  TryMatchVmPopReg(data) # {}
<1> DEFINE stores == {x \in data.logicWrites : /\ x.ast.vars # <<>> /\ x.ast.vars[1] = StackArg(0)
                                               /\ x.addr - data.rsp.start \in 0..256}
           moves == \E x \in Deltas(data) : Abs(x[1]) = 5 /\ x[2] \in 1..8
           MatchOf(x) == [Found(data, "Pop", IF x.ast.wrap = "extract" THEN 1 ELSE x.size) EXCEPT
                            !.arg = x.addr - data.rsp.start]
<1>1. TryMatchVmPopReg(data) = {MatchOf(x) : x \in {y \in Lowest(stores) : moves}}
  BY Zenon DEF TryMatchVmPopReg
<1>2. w \in stores /\ moves /\ \A x \in stores : x.addr = w.addr
  <2>1. w.ast.vars # <<>> /\ w.ast.vars[1] = StackArg(0)
    BY DEF StackArg
  <2>2. w \in stores
    BY <2>1
  <2>3. \A x \in stores : x.addr = w.addr
    OBVIOUS
  <2> QED  BY <2>2, <2>3, Zenon
<1>3. w \in Lowest(stores)
  <2> HIDE DEF stores
  <2> QED  BY <1>2, LowestOfOne
<1> HIDE DEF stores, moves, MatchOf
<1> QED  BY <1>1, <1>2, <1>3


LEMMA WrapFacts ==
  ASSUME NEW d
  PROVE  /\ \A one : d = 1 => WrapIn(d, one) = one
         /\ d # 1 => \A one : WrapIn(d, one) # "extract" /\ WrapIn(d, one) # "zx"
         /\ Unchanged(WrapIn(d, "zx")) /\ Unchanged(WrapIn(d, "extract"))
BY DEF WrapIn, Unchanged

LEMMA PopFound ==
  ASSUME LoopInv, OnItsStack, inside, top < ImageBase, NEW h \in Pops,
         NEW S, NEW data, NEW view, Seen(h, S, data, view)
  PROVE  /\ TryMatchVmPopReg(data) # {}
         /\ \A m \in TryMatchVmPopReg(data) : Sized(data, m, h.d)
<1>1. PICK d, wrap, load, store :
        /\ d \in Widths /\ wrap = WrapIn(d, "extract")
        /\ load = Load(1, Vsp, StackSize(d), 7)
        /\ store = Store(Context + 64, d, 7, From(wrap, "var", 0, <<Mem(1)>>))
        /\ h = Native("Pop", d, <<load, store>>, 5, StackSize(d))
  BY DEF Pops, WrapIn
<1>2. load = Load(1, Vsp, StackSize(d), 7)
  BY <1>1
<1>3. store = Store(Context + 64, d, 7, From(wrap, "var", 0, <<Mem(1)>>))
  BY <1>1
<1>4. PICK fetch : fetch = Fetch(3, vipOf)
  OBVIOUS
<1>5. Made(h, "Pop", d, <<load, store>>, 5, StackSize(d))
  BY <1>1, NativeMade
<1>6. d \in Widths /\ wrap = WrapIn(d, "extract")
  BY <1>1, Zenon
<1>7. h.accesses \in Seq({load, store, fetch})
      /\ Len(h.accesses) = 3
      /\ h.accesses[1] = load /\ h.accesses[2] = store /\ h.accesses[3] = fetch
  BY <1>4, <1>5, MadeTwo
<1>8. load.kind = "read" /\ load.addr = Vsp
  BY <1>2, LoadFields
<1>9. /\ store.kind = "write" /\ store.addr = Context + 64 /\ store.size = d
      /\ store.from = From(wrap, "var", 0, <<Mem(1)>>)
  BY <1>3, StoreFields
<1>10. fetch.kind = "read"
  BY <1>4, FetchFields
<1>11. WholeSeen(h, data, view, Len(h.accesses))
  BY DEF Seen
<1>12. /\ view.vsp = Vsp /\ view.rsp = Rsp /\ view.accesses = h.accesses /\ data.rsp.start = Rsp
       /\ data.logicWrites = Recorded(view, "write", 3)
  BY <1>7, <1>11 DEF WholeSeen
<1>13. /\ \E w \in data.logicWrites : RecordOf(view, "write", store, w)
       /\ \A w \in data.logicWrites : RecordOf(view, "write", store, w)
  <2>1. WritesOnly(view, 3, 2, store)
    BY <1>7, <1>8, <1>9, <1>10, <1>12 DEF WritesOnly
  <2>2. Written(view, data.logicWrites, store)
    BY <1>12, <2>1, SoleWrite
  <2> QED  BY <2>2 DEF Written
<1>14. NameOf(view, Mem(1)) = StackArg(0) /\ StackArg(0) # NoName
  BY <1>7, <1>8, <1>12, TopName, NamesDiffer
<1>15. PICK ast : ast = AstOf(view, store.from)
  OBVIOUS
<1>16. ast.wrap = wrap /\ ast.vars = <<StackArg(0)>>
  BY <1>9, <1>14, <1>15, VarTree
<1>17. \A w \in data.logicWrites : w.addr = Context + 64 /\ w.size = d /\ w.ast = ast
  BY <1>9, <1>13, <1>15 DEF RecordOf
<1>18. Context \in Int /\ Rsp = Context
  BY StackPlaces
<1>19. PICK delta \in Deltas(data) : Abs(delta[1]) = 5 /\ delta[2] \in 1..8
  <2>1. h.taken = 5 /\ h.change \in 1..8 /\ h.vsp = Plus(Reg(vspOf), h.change)
    BY <1>5, <1>6, Widths1 DEF Made
  <2> QED  BY <2>1, DeltaThere DEF Abs
<1>20. TryMatchVmPopReg(data) # {}
  <2>1. PICK w \in data.logicWrites : TRUE
    BY <1>13
  <2>2. PICK c, start : c = Context + 64 /\ start = data.rsp.start /\ c \in Int /\ c - start = 64
    BY <1>12, <1>18
  <2>3. w.addr = c /\ w.ast.vars = <<StackArg(0)>> /\ \A v \in data.logicWrites : v.addr = c
    BY <1>16, <1>17, <2>2
  <2>4. w.addr - start \in 0..256
    BY <2>2, <2>3
  <2>5. w.addr \in Int /\ w.addr - data.rsp.start \in 0..256
        /\ \A v \in data.logicWrites : v.addr = w.addr
    BY <2>2, <2>3, <2>4
  <2>6. w.ast.vars = <<StackArg(0)>>
    BY <2>3
  <2> QED  BY <1>19, <2>5, <2>6, PopShown, Zenon
<1>21. ASSUME NEW m \in TryMatchVmPopReg(data) PROVE Sized(data, m, h.d)
  <2>1. PICK depth : \E w \in data.logicWrites :
          Sized(data, m, depth) /\ depth = IF w.ast.wrap = "extract" THEN 1 ELSE w.size
    BY <1>21, PopDepth
  <2>2. depth = IF wrap = "extract" THEN 1 ELSE d
    BY <1>16, <1>17, <2>1
  <2>3. depth = h.d
    BY <1>5, <1>6, <2>2, WrapFacts DEF Made
  <2> QED  BY <2>1, <2>3
<1> QED  BY <1>20, <1>21

OneThen(accesses, x, f) == Len(accesses) = 2 /\ accesses[1] = x /\ accesses[2] = f
LEMMA OnePlaced ==
  ASSUME NEW h, NEW op, NEW d, NEW taken, NEW change, NEW x,
         Made(h, op, d, <<x>>, taken, change), NEW f, f = Fetch(2, vipOf)
  PROVE  OneThen(h.accesses, x, f)
<1>1. PICK s : s = <<x>>
  OBVIOUS
<1>2. s \in Seq({x}) /\ Len(s) = 1 /\ s[1] = x
  BY <1>1
<1>3. Fetch(Len(s) + 1, vipOf) = f
  BY <1>2
<1>4. Made(h, op, d, s, taken, change)
  BY <1>1
<1>5. PICK S : S = {x}
  OBVIOUS
<1>6. s \in Seq(S) /\ f = Fetch(Len(s) + 1, vipOf)
  BY <1>2, <1>3, <1>5
<1>7. EndsWith(h.accesses, s, f, S)
  BY <1>4, <1>6, MadeAccesses, Zenon
<1> QED  BY <1>2, <1>7 DEF EndsWith, OneThen

TwoThen(accesses, x, y, f) ==
  Len(accesses) = 3 /\ accesses[1] = x /\ accesses[2] = y /\ accesses[3] = f
LEMMA TwoPlaced ==
  ASSUME NEW h, NEW op, NEW d, NEW taken, NEW change, NEW x, NEW y,
         Made(h, op, d, <<x, y>>, taken, change), NEW f, f = Fetch(3, vipOf)
  PROVE  TwoThen(h.accesses, x, y, f)
<1>1. PICK s : s = <<x, y>>
  OBVIOUS
<1>2. s \in Seq({x, y}) /\ Len(s) = 2 /\ s[1] = x /\ s[2] = y
  BY <1>1
<1>3. Fetch(Len(s) + 1, vipOf) = f
  BY <1>2
<1>4. Made(h, op, d, s, taken, change)
  BY <1>1
<1>5. PICK S : S = {x, y}
  OBVIOUS
<1>6. s \in Seq(S) /\ f = Fetch(Len(s) + 1, vipOf)
  BY <1>2, <1>3, <1>5
<1>7. EndsWith(h.accesses, s, f, S)
  BY <1>4, <1>6, MadeAccesses, Zenon
<1> QED  BY <1>2, <1>7 DEF EndsWith, TwoThen

LEMMA FetchFrom ==
  ASSUME NEW i, NEW reg, NEW a, a = Fetch(i, reg)
  PROVE  a.from = Copy(Mem(i))
<1>1. PICK load : load = Load(i, Bytecode, 4, 1) /\ load.from = Copy(Mem(i))
  BY LoadFields
<1>2. a.from = load.from
  BY <1>1 DEF Fetch, Load, Access
<1> QED  BY <1>1, <1>2

LEMMA RecordedAt ==
  ASSUME NEW view, NEW kind, NEW n, NEW x \in Recorded(view, kind, n)
  PROVE  \E l \in 1..n : RecordOf(view, kind, view.accesses[l], x)
<1>1. PICK l \in 1..n : LET a == view.accesses[l]
                        IN /\ a.kind = kind
                           /\ x.addr = a.addr /\ x.size = a.size /\ x.value = a.value
                           /\ x.ast = AstOf(view, a.from)
  BY DEF Recorded
<1> QED  BY <1>1 DEF RecordOf

(* The bytecode has no name.                                               *)
LEMMA FetchHidden ==
  ASSUME NEW view, NEW i, view.accesses[i].addr = Bytecode
  PROVE  AstOf(view, Copy(Mem(i))) = Integer
<1>1. PICK source : source = Mem(i)
  OBVIOUS
<1>2. source[1] = "mem" /\ source[2] = i
  BY <1>1 DEF Mem
<1>3. NameOf(view, source) = SymbolOf(Bytecode, view.vsp, view.rsp)
  BY <1>2 DEF NameOf
<1>4. Bytecode >= ImageBase
  BY RegsAssumption DEF Bytecode
<1>5. SymbolOf(Bytecode, view.vsp, view.rsp) = NoName
  BY <1>4 DEF SymbolOf
<1>6. NamesOf(view, <<source>>) = <<>>
  BY <1>3, <1>5, NamesOfOne, Zenon
<1>7. PICK from : from = Copy(source) /\ from.of = <<source>>
  BY Sources
<1> QED  BY <1>1, <1>6, <1>7 DEF AstOf

LEMMA PushRegSizes ==
  ASSUME NEW data, NEW m \in TryMatchVmPushReg(data)
  PROVE  \E r \in data.logicReads : /\ Sized(data, m, r.size)
                                    /\ \E name : name[1] = "VmReg" /\ IsVariable(r.ast, name)
<1> DEFINE ReadsOf(w) == {r \in data.logicReads : \E name \in GetUnderlyingVariable(w.ast) :
                            name[1] = "VmReg" /\ IsVariable(r.ast, name)}
           moves == \E delta \in Deltas(data) : Abs(delta[1]) = 5 /\ delta[2] \in -8..-1
           stores == {w \in data.logicWrites : moves /\ ReadsOf(w) # {}}
<1>1. TryMatchVmPushReg(data) = {[Found(data, "PushReg", r.size) EXCEPT !.arg = r.ast.vars[1][2]] :
                                   r \in UNION {Lowest(ReadsOf(w)) : w \in Lowest(stores)}}
  BY Zenon DEF TryMatchVmPushReg
<1>2. PICK r \in UNION {Lowest(ReadsOf(w)) : w \in Lowest(stores)} :
        m = [Found(data, "PushReg", r.size) EXCEPT !.arg = r.ast.vars[1][2]]
  <2> HIDE DEF stores, ReadsOf
  <2> QED  BY <1>1
<1>3. Sized(data, m, r.size)
  BY <1>2, FoundWith, Zenon
<1>4. \E w : r \in Lowest(ReadsOf(w))
  <2> HIDE DEF stores, ReadsOf
  <2> QED  BY <1>2
<1>5. PICK w : r \in ReadsOf(w)
  <2> HIDE DEF stores, ReadsOf
  <2> QED  BY <1>4 DEF Lowest
<1> QED  BY <1>3, <1>5

LEMMA PushRegShown ==
  ASSUME NEW data, NEW w \in data.logicWrites, NEW r \in data.logicReads,
         NEW name, name[1] = "VmReg", GetUnderlyingVariable(w.ast) = {name},
         IsVariable(r.ast, name), w.addr \in Int, r.addr \in Int,
         \A v \in data.logicWrites : v.addr = w.addr,
         \A q \in data.logicReads : IsVariable(q.ast, name) => q.addr = r.addr,
         NEW delta \in Deltas(data), Abs(delta[1]) = 5, delta[2] \in -8..-1
  PROVE  TryMatchVmPushReg(data) # {}
<1> DEFINE ReadsOf(v) == {q \in data.logicReads : \E other \in GetUnderlyingVariable(v.ast) :
                            other[1] = "VmReg" /\ IsVariable(q.ast, other)}
           moves == \E x \in Deltas(data) : Abs(x[1]) = 5 /\ x[2] \in -8..-1
           stores == {v \in data.logicWrites : moves /\ ReadsOf(v) # {}}
           MatchOf(q) == [Found(data, "PushReg", q.size) EXCEPT !.arg = q.ast.vars[1][2]]
<1>1. TryMatchVmPushReg(data) =
        {MatchOf(q) : q \in UNION {Lowest(ReadsOf(v)) : v \in Lowest(stores)}}
  BY Zenon DEF TryMatchVmPushReg
<1>2. r \in ReadsOf(w) /\ \A q \in ReadsOf(w) : q.addr = r.addr
  OBVIOUS
<1>3. moves
  OBVIOUS
<1> HIDE DEF ReadsOf, moves, MatchOf
<1>4. r \in Lowest(ReadsOf(w))
  BY <1>2, LowestOfOne
<1>5. w \in stores /\ \A v \in stores : v.addr = w.addr
  BY <1>2, <1>3
<1> HIDE DEF stores
<1>6. w \in Lowest(stores)
  BY <1>5, LowestOfOne
<1>7. r \in UNION {Lowest(ReadsOf(v)) : v \in Lowest(stores)}
  BY <1>4, <1>6
<1> QED  BY <1>1, <1>7

LEMMA PushRegFound ==
  ASSUME LoopInv, OnItsStack, inside, top < ImageBase, NEW h \in PushRegs,
         NEW S, NEW data, NEW view, Seen(h, S, data, view)
  PROVE  /\ TryMatchVmPushReg(data) # {}
         /\ \A m \in TryMatchVmPushReg(data) : Sized(data, m, h.d)
<1>1. PICK d, wrap, load, store :
        /\ d \in Widths /\ wrap = WrapIn(d, "zx")
        /\ load = Load(1, Context + 64, d, 7)
        /\ store = Store(Vsp - StackSize(d), StackSize(d), 7, From(wrap, "var", 0, <<Mem(1)>>))
        /\ h = Native("PushReg", d, <<load, store>>, 5, -StackSize(d))
  BY DEF PushRegs, WrapIn
<1>2. load = Load(1, Context + 64, d, 7)
  BY <1>1
<1>3. store = Store(Vsp - StackSize(d), StackSize(d), 7, From(wrap, "var", 0, <<Mem(1)>>))
  BY <1>1
<1>4. PICK fetch : fetch = Fetch(3, vipOf)
  OBVIOUS
<1>5. Made(h, "PushReg", d, <<load, store>>, 5, -StackSize(d))
  BY <1>1, NativeMade
<1>6. d \in Widths /\ wrap = WrapIn(d, "zx")
  BY <1>1, Zenon
<1>7. Len(h.accesses) = 3
      /\ h.accesses[1] = load /\ h.accesses[2] = store /\ h.accesses[3] = fetch
  <2>1. TwoThen(h.accesses, load, store, fetch)
    BY <1>4, <1>5, TwoPlaced, Zenon
  <2> QED  BY <2>1 DEF TwoThen
<1>8. load.kind = "read" /\ load.addr = Context + 64 /\ load.size = d /\ load.from = Copy(Mem(1))
  BY <1>2, LoadFields
<1>9. /\ store.kind = "write" /\ store.addr = Vsp - StackSize(d)
      /\ store.from = From(wrap, "var", 0, <<Mem(1)>>)
  BY <1>3, StoreFields
<1>10. fetch.kind = "read" /\ fetch.addr = Bytecode /\ fetch.from = Copy(Mem(3))
  BY <1>4, FetchFields, FetchFrom
<1>11. WholeSeen(h, data, view, Len(h.accesses))
  BY DEF Seen
<1>12. /\ view.vsp = Vsp /\ view.rsp = Rsp /\ view.accesses = h.accesses
       /\ data.logicWrites = Recorded(view, "write", 3)
       /\ data.logicReads = Recorded(view, "read", 3)
  BY <1>7, <1>11 DEF WholeSeen
<1>13. /\ \E w \in data.logicWrites : RecordOf(view, "write", store, w)
       /\ \A w \in data.logicWrites : RecordOf(view, "write", store, w)
  <2>1. WritesOnly(view, 3, 2, store)
    BY <1>7, <1>8, <1>9, <1>10, <1>12 DEF WritesOnly
  <2>2. Written(view, data.logicWrites, store)
    BY <1>12, <2>1, SoleWrite
  <2> QED  BY <2>2 DEF Written
<1>14. PICK name, source : /\ source = Mem(1) /\ name = VmReg(64) /\ name[1] = "VmReg"
                           /\ NameOf(view, source) = name /\ name # NoName
  <2>1. view.accesses[1].addr = Context + 64
    BY <1>7, <1>8, <1>12
  <2> QED  BY <1>12, <2>1, RegisterName, NamesDiffer
<1>15. PICK ast : ast = AstOf(view, store.from)
  OBVIOUS
<1>16. GetUnderlyingVariable(ast) = {name}
  <2>1. store.from = From(wrap, "var", 0, <<source>>)
    BY <1>9, <1>14
  <2>2. Unchanged(wrap) => GetUnderlyingVariable(ast) = {name}
    BY <1>14, <1>15, <2>1, VarTree
  <2> QED  BY <1>6, <2>2, WrapFacts
<1>17. AstOf(view, load.from) = Variable(name)
  BY <1>8, <1>14, CopyTree
<1>18. AstOf(view, fetch.from) = Integer
  <2>1. view.accesses[3].addr = Bytecode
    BY <1>7, <1>10, <1>12
  <2> QED  BY <1>10, <2>1, FetchHidden
<1>19. PICK v, c, b : /\ v = Vsp /\ c = Context /\ b = Bytecode
                      /\ v \in Int /\ c \in Int /\ b \in Int
                      /\ v >= c + 128 /\ (b < c - 8 \/ b > v + 16)
  BY StackPlaces
<1>20. ASSUME NEW r \in data.logicReads, NEW other, IsVariable(r.ast, other)
       PROVE  r.addr = load.addr /\ r.size = d
  <2>1. PICK kind : kind = "read"
    OBVIOUS
  <2>2. r \in Recorded(view, kind, 3)
    BY <1>12, <1>20, <2>1
  <2>3. PICK l \in 1..3 : RecordOf(view, kind, view.accesses[l], r)
    BY <2>2, RecordedAt
  <2>4. PICK a : /\ a \in {load, store, fetch} /\ a.kind = kind
                 /\ r.addr = a.addr /\ r.size = a.size /\ r.ast = AstOf(view, a.from)
    BY <1>7, <1>12, <2>3 DEF RecordOf
  <2>5. a # store
    BY <1>9, <2>1, <2>4
  <2>6. Integer.node # "var" /\ r.ast.node = "var"
    BY <1>20, VariableFields DEF Integer, Tree
  <2>7. a # fetch
    BY <1>18, <2>4, <2>6
  <2> QED  BY <1>8, <2>4, <2>5, <2>7
<1>21. PICK r \in data.logicReads : r.addr = load.addr /\ r.ast = Variable(name)
  <2>1. PICK kind : kind = "read"
    OBVIOUS
  <2>2. /\ view.accesses[1].kind = kind /\ view.accesses[1] = load
        /\ \A l \in 1..3 : l > 1 /\ view.accesses[l].kind = kind
                             => view.accesses[l].addr # view.accesses[1].addr
    BY <1>7, <1>8, <1>9, <1>10, <1>12, <1>19, <2>1
  <2>3. PICK i : i = 1 /\ i \in 1..3
    OBVIOUS
  <2>4. \E x \in Recorded(view, kind, 3) : RecordOf(view, kind, view.accesses[i], x)
    BY <2>2, <2>3, RecordedLast
  <2> QED  BY <1>12, <1>17, <2>1, <2>2, <2>3, <2>4 DEF RecordOf
<1>22. PICK delta \in Deltas(data) : Abs(delta[1]) = 5 /\ delta[2] \in -8..-1
  <2>1. h.taken = 5 /\ h.change \in -8..-1 /\ h.vsp = Plus(Reg(vspOf), h.change)
    BY <1>5, <1>6, Widths1 DEF Made
  <2> QED  BY <2>1, DeltaThere DEF Abs
<1>23. TryMatchVmPushReg(data) # {}
  <2>1. PICK w \in data.logicWrites : TRUE
    BY <1>13
  <2>2. \A u \in data.logicWrites : u.addr = store.addr /\ u.ast = ast
    BY <1>13, <1>15 DEF RecordOf
  <2>3. store.addr \in Int /\ load.addr \in Int
    BY <1>6, <1>8, <1>9, <1>19, Widths1
  <2>4. IsVariable(r.ast, name)
    BY <1>21 DEF IsVariable
  <2>5. \A q \in data.logicReads : IsVariable(q.ast, name) => q.addr = r.addr
    BY <1>20, <1>21
  <2>6. GetUnderlyingVariable(w.ast) = {name} /\ w.addr \in Int /\ r.addr \in Int
        /\ \A u \in data.logicWrites : u.addr = w.addr
    BY <1>16, <1>21, <2>2, <2>3
  <2> QED  BY <1>14, <1>22, <2>4, <2>5, <2>6, PushRegShown, Zenon
<1>24. ASSUME NEW m \in TryMatchVmPushReg(data) PROVE Sized(data, m, h.d)
  <2>1. PICK q \in data.logicReads : /\ Sized(data, m, q.size)
                                     /\ \E other : IsVariable(q.ast, other)
    BY <1>24, PushRegSizes
  <2>2. q.size = h.d
    BY <1>5, <1>20, <2>1 DEF Made
  <2> QED  BY <2>1, <2>2
<1> QED  BY <1>23, <1>24

LEMMA PushConstFound ==
  ASSUME LoopInv, OnItsStack, inside, NEW h \in PushConsts,
         NEW S, NEW data, NEW view, Seen(h, S, data, view)
  PROVE  /\ TryMatchVmPushConst(data) # {}
         /\ \A m \in TryMatchVmPushConst(data) : Sized(data, m, h.d)
<1>1. PICK d \in Widths :
        h = Native("PushConst", d,
              <<Load(1, Bytecode + 100, d, 1), Store(Vsp - StackSize(d), StackSize(d), 1, Known)>>,
              4 + d, -StackSize(d))
  BY DEF PushConsts
<1>2. PICK load : load = Load(1, Bytecode + 100, d, 1)
  OBVIOUS
<1>3. PICK store : store = Store(Vsp - StackSize(d), StackSize(d), 1, Known)
  OBVIOUS
<1>4. PICK fetch : fetch = Fetch(3, vipOf)
  OBVIOUS
<1>5. Made(h, "PushConst", d, <<load, store>>, 4 + d, -StackSize(d))
  BY <1>1, <1>2, <1>3, NativeMade, Zenon
<1>6. Len(h.accesses) = 3
      /\ h.accesses[1] = load /\ h.accesses[2] = store /\ h.accesses[3] = fetch
  <2>1. TwoThen(h.accesses, load, store, fetch)
    BY <1>4, <1>5, TwoPlaced, Zenon
  <2> QED  BY <2>1 DEF TwoThen
<1>7. load.kind = "read"
  BY <1>2, LoadFields
<1>8. store.kind = "write" /\ store.addr = Vsp - StackSize(d) /\ store.from = Known
  BY <1>3, StoreFields
<1>9. fetch.kind = "read"
  BY <1>4, FetchFields
<1>10. /\ view.accesses = h.accesses /\ data.logicWrites = Recorded(view, "write", 3)
       /\ data.vsp.start = Vsp
  BY <1>6 DEF Seen, WholeSeen
<1>11. PICK w \in data.logicWrites : RecordOf(view, "write", store, w)
  <2>1. WritesOnly(view, 3, 2, store)
    BY <1>6, <1>7, <1>8, <1>9, <1>10 DEF WritesOnly
  <2>2. Written(view, data.logicWrites, store)
    BY <1>10, <2>1, SoleWrite
  <2> QED  BY <2>2 DEF Written
<1>12. HoldsNoVariable(w.ast) /\ w.addr = Vsp - StackSize(d)
  <2>1. w.ast = Integer
    BY <1>8, <1>11, KnownShown DEF RecordOf
  <2>2. Integer.node # "var"
    BY DEF Integer, Tree
  <2> QED  BY <1>8, <1>11, <2>1, <2>2 DEF RecordOf, HoldsNoVariable, GetUnderlyingVariable
<1>13. PICK n, v : n = StackSize(d) /\ v = Vsp /\ v \in Int
  BY StackFacts
<1>14. /\ d \in {1, 2, 4, 8} /\ n \in {2, 4, 8} /\ (d # 1 => n = d) /\ (d = 1 => n = 2)
  BY <1>1, <1>13, Widths1 DEF StackSize
<1>15. h.taken = 4 + d /\ h.change = -n /\ h.vsp = Plus(Reg(vspOf), h.change) /\ h.d = d
  BY <1>5, <1>13 DEF Made
<1>16. PICK delta \in Deltas(data) : delta[1] = 4 + d /\ delta[2] = -n
  BY <1>14, <1>15, DeltaThere
<1>17. Found(data, "PushConst", Abs(delta[1]) - 4) \in TryMatchVmPushConst(data)
  <2>1. /\ delta[2] \in -8..-1 /\ Abs(delta[1]) >= 5
        /\ Abs(delta[1]) - 4 = -delta[2] \/ (Abs(delta[1]) - 4 = 1 /\ delta[2] = -2)
    BY <1>14, <1>16 DEF Abs
  <2>2. w \in At(data.logicWrites, data.vsp.start + delta[2])
    BY <1>10, <1>12, <1>13, <1>14, <1>16 DEF At
  <2> QED  BY <1>12, <2>1, <2>2 DEF TryMatchVmPushConst
<1>18. ASSUME NEW m \in TryMatchVmPushConst(data) PROVE Sized(data, m, h.d)
  <2>1. PICK x \in Deltas(data) : m = Found(data, "PushConst", Abs(x[1]) - 4)
    BY <1>18 DEF TryMatchVmPushConst
  <2>2. x[1] = 4 + d
    BY <1>15 DEF Seen, Moved
  <2>3. Abs(x[1]) - 4 = h.d
    BY <1>14, <1>15, <2>2 DEF Abs
  <2> QED  BY <2>1, <2>3, FoundSized
<1> QED  BY <1>17, <1>18

LEMMA PushVspFound ==
  ASSUME LoopInv, OnItsStack, inside, NEW h \in PushVsps,
         NEW S, NEW data, NEW view, Seen(h, S, data, view)
  PROVE  /\ TryMatchVmPushVsp(data) # {}
         /\ \A m \in TryMatchVmPushVsp(data) : Sized(data, m, h.d)
<1>1. PICK d, wrap, store :
        /\ d \in Widths \ {1} /\ wrap \in {"", "extract"}
        /\ store = Store(Vsp - d, d, Vsp, From(wrap, "var", 0, <<Reg(vspOf)>>))
        /\ h = Native("PushVsp", d, <<store>>, 4, -d)
  BY DEF PushVsps
<1>2. d \in Widths \ {1} /\ Unchanged(wrap)
  BY <1>1, Zenon DEF Unchanged
<1>3. store = Store(Vsp - d, d, Vsp, From(wrap, "var", 0, <<Reg(vspOf)>>))
  BY <1>1
<1>4. PICK fetch : fetch = Fetch(2, vipOf)
  OBVIOUS
<1>5. Made(h, "PushVsp", d, <<store>>, 4, -d)
  BY <1>1, NativeMade
<1>6. Len(h.accesses) = 2 /\ h.accesses[1] = store /\ h.accesses[2] = fetch
  <2>1. OneThen(h.accesses, store, fetch)
    BY <1>4, <1>5, OnePlaced, Zenon
  <2> QED  BY <2>1 DEF OneThen
<1>7. /\ store.kind = "write" /\ store.addr = Vsp - d /\ store.size = d
      /\ store.from = From(wrap, "var", 0, <<Reg(vspOf)>>)
  BY <1>3, StoreFields
<1>8. fetch.kind = "read"
  BY <1>4, FetchFields
<1>9. /\ view.accesses = h.accesses /\ data.logicWrites = Recorded(view, "write", 2)
      /\ data.vsp.start = Vsp /\ NameOf(view, Reg(vspOf)) = VSP
  BY <1>6 DEF Seen, WholeSeen
<1>10. /\ \E w \in data.logicWrites : RecordOf(view, "write", store, w)
       /\ \A w \in data.logicWrites : RecordOf(view, "write", store, w)
  <2>1. WritesOnly(view, 2, 1, store)
    BY <1>6, <1>7, <1>8, <1>9 DEF WritesOnly
  <2>2. Written(view, data.logicWrites, store)
    BY <1>9, <2>1, SoleWrite
  <2> QED  BY <2>2 DEF Written
<1>11. PICK w \in data.logicWrites : RecordOf(view, "write", store, w)
  BY <1>10
<1>12. VSP \in GetUnderlyingVariable(w.ast)
  <2>1. PICK ast, source : ast = AstOf(view, store.from) /\ source = Reg(vspOf)
    OBVIOUS
  <2>2. store.from = From(wrap, "var", 0, <<source>>) /\ NameOf(view, source) = VSP /\ VSP # NoName
    BY <1>7, <1>9, <2>1, NamesDiffer
  <2>3. Unchanged(wrap) => GetUnderlyingVariable(ast) = {VSP}
    BY <2>1, <2>2, VarTree
  <2>4. w.ast = ast
    BY <1>11, <2>1 DEF RecordOf
  <2> QED  BY <1>2, <2>3, <2>4
<1>13. d \in {2, 4, 8}
  BY <1>2, Widths1
<1>14. h.taken = 4 /\ h.change = -d /\ h.vsp = Plus(Reg(vspOf), h.change) /\ h.d = d
  BY <1>5 DEF Made
<1>15. PICK delta \in Deltas(data) : delta[1] = 4 /\ delta[2] = -d
  BY <1>13, <1>14, DeltaThere
<1>16. TryMatchVmPushVsp(data) # {}
  <2>1. Abs(delta[1]) = 4 /\ delta[2] \in -8..-1
    BY <1>13, <1>15 DEF Abs
  <2>2. w.addr = data.vsp.start + delta[2]
    BY <1>7, <1>9, <1>11, <1>13, <1>15, StackFacts DEF RecordOf
  <2>3. w.addr \in {data.vsp.start + x[2] :
                      x \in {y \in Deltas(data) : Abs(y[1]) = 4 /\ y[2] \in -8..-1}}
    BY <2>1, <2>2
  <2> QED  BY <1>12, <2>3 DEF TryMatchVmPushVsp
<1>17. ASSUME NEW m \in TryMatchVmPushVsp(data) PROVE Sized(data, m, h.d)
  <2>1. PICK x \in data.logicWrites : m = Found(data, "PushVsp", x.size)
    BY <1>17 DEF TryMatchVmPushVsp
  <2>2. x.size = h.d
    BY <1>7, <1>10, <1>14 DEF RecordOf
  <2> QED  BY <2>1, <2>2, FoundSized
<1> QED  BY <1>16, <1>17

LEMMA NopFound ==
  ASSUME LoopInv, OnItsStack, inside, NEW h \in Nops,
         NEW S, NEW data, NEW view, Seen(h, S, data, view)
  PROVE  /\ TryMatchVmDispatch(data) # {}
         /\ \A m \in TryMatchVmDispatch(data) : Sized(data, m, h.d)
<1>1. h = Native("Dispatch", 8, <<>>, 4, 0)
  BY DEF Nops
<1>2. Made(h, "Dispatch", 8, <<>>, 4, 0)
  BY <1>1, NativeMade
<1>3. h.d = 8 /\ h.taken = 4 /\ h.vsp = Plus(Reg(vspOf), 0)
  BY <1>2 DEF Made
<1>4. /\ NameOf(view, Reg(vspOf)) = VSP /\ NameOf(view, Reg(vipOf)) = VIP
      /\ data.vspAst = {AstOf(view, h.vsp)}
      /\ data.vipAst = {AstOf(view, Plus(Reg(vipOf), h.taken))}
  BY DEF Seen, WholeSeen
<1>5. PICK vsp, vip : vsp = AstOf(view, h.vsp) /\ vip = AstOf(view, Plus(Reg(vipOf), 4))
  OBVIOUS
<1>6. IsVariable(vsp, VSP)
  <2>1. h.vsp = Copy(Reg(vspOf))
    BY <1>3 DEF Plus
  <2>2. AstOf(view, Copy(Reg(vspOf))) = Variable(VSP)
    BY <1>4, CopyTree, NamesDiffer
  <2> QED  BY <1>5, <2>1, <2>2 DEF IsVariable
<1>7. GetAddImmediate(vip, VIP) = {4}
  BY <1>4, <1>5, SumTree, NamesDiffer
<1>8. TryMatchVmDispatch(data) # {}
  <2>1. vsp \in data.vspAst /\ vip \in data.vipAst
    BY <1>3, <1>4, <1>5
  <2>2. GetAddImmediate(vip, VIP) \cap {-4, 4} # {}
    BY <1>7
  <2> QED  BY <1>6, <2>1, <2>2 DEF TryMatchVmDispatch
<1>9. ASSUME NEW m \in TryMatchVmDispatch(data) PROVE Sized(data, m, h.d)
  <2>1. m = Found(data, "Dispatch", 8)
    BY <1>9 DEF TryMatchVmDispatch
  <2> QED  BY <1>3, <2>1, FoundSized
<1> QED  BY <1>8, <1>9

LEMMA PopVspFound ==
  ASSUME LoopInv, OnItsStack, inside, top < ImageBase, NEW h \in PopVsps,
         NEW S, NEW data, NEW view, Seen(h, S, data, view),
         h.moved # 0 => data.systemReads >= 256
  PROVE  /\ h.moved # 0 => TryMatchVmPopVsp(data) # {}
         /\ \A m \in TryMatchVmPopVsp(data) : Sized(data, m, h.d)
<1>1. PICK moved \in {0, 256} :
        h = [Native("PopVsp", 8, <<Load(1, Vsp, 8, Vsp + 16)>>, 4, 16)
               EXCEPT !.vsp = Copy(Mem(1)), !.moved = moved]
  BY DEF PopVsps
<1>2. PICK load, g :
        /\ load = Load(1, Vsp, 8, Vsp + 16)
        /\ g = Native("PopVsp", 8, <<load>>, 4, 16)
        /\ h = [g EXCEPT !.vsp = Copy(Mem(1)), !.moved = moved]
  BY <1>1
<1>3. PICK fetch : fetch = Fetch(2, vipOf)
  OBVIOUS
<1>4. Made(g, "PopVsp", 8, <<load>>, 4, 16)
  BY <1>2, NativeMade
<1>5. Len(g.accesses) = 2 /\ g.accesses[1] = load
  <2>1. PICK op, d, taken, change : Made(g, op, d, <<load>>, taken, change)
    BY <1>4
  <2>3. fetch = Fetch(2, vipOf)
    BY <1>3
  <2>2. OneThen(g.accesses, load, fetch)
    BY <2>3, <2>1, OnePlaced
  <2> QED  BY <2>2 DEF OneThen
<1>6. h.accesses = g.accesses /\ h.d = g.d /\ h.vsp = Copy(Mem(1)) /\ h.moved = moved
  <2>3. PICK copy : copy = Copy(Mem(1))
    OBVIOUS
  <2>1. g = [op |-> g.op, d |-> g.d, accesses |-> g.accesses, taken |-> g.taken, change |-> g.change,
             vsp |-> g.vsp, moved |-> g.moved, a |-> g.a, b |-> g.b]
    BY <1>2 DEF Native
  <2>2. h = [g EXCEPT !.vsp = copy, !.moved = moved]
    BY <1>2, <2>3
  <2> QED  BY <2>1, <2>2, <2>3
<1>7. h.d = 8
  BY <1>4, <1>6 DEF Made
<1>8. load.addr = Vsp
  <2>1. load = Load(1, Vsp, 8, Vsp + 16)
    BY <1>2
  <2> QED  BY <2>1, LoadFields
<1>9. /\ view.vsp = Vsp /\ view.rsp = Rsp /\ view.accesses = h.accesses
      /\ data.vspAst = {AstOf(view, h.vsp)} /\ data.vipAst # {}
  BY DEF Seen, WholeSeen
<1>10. AstOf(view, Copy(Mem(1))) = Variable(StackArg(0))
  <2>1. view.accesses[1].addr = Vsp
    BY <1>5, <1>6, <1>8, <1>9
  <2>2. NameOf(view, Mem(1)) = StackArg(0)
    BY <1>9, <2>1, TopName
  <2> QED  BY <2>2, CopyTree, NamesDiffer
<1>11. h.moved # 0 => TryMatchVmPopVsp(data) # {}
  <2>1. PICK ast \in data.vspAst : IsVariable(ast, StackArg(0))
    BY <1>2, <1>6, <1>9, <1>10 DEF IsVariable
  <2> QED  BY <1>7, <1>9, <2>1 DEF TryMatchVmPopVsp
<1>12. ASSUME NEW m \in TryMatchVmPopVsp(data) PROVE Sized(data, m, h.d)
  <2>1. m = Found(data, "PopVsp", 8)
    BY <1>12 DEF TryMatchVmPopVsp
  <2> QED  BY <1>7, <2>1, FoundSized
<1> QED  BY <1>11, <1>12

LEMMA ReadMemSizes ==
  ASSUME NEW data, NEW m \in TryMatchVmReadMem(data)
  PROVE  \E p, r \in data.logicReads : /\ Sized(data, m, r.size)
                                       /\ p.addr = data.vsp.start /\ p.size = 8
                                       /\ r.addr = p.value
<1> DEFINE change == data.vsp.end - data.vsp.start
           pointers == {p \in At(data.logicReads, data.vsp.start) :
                          p.size = 8 /\ data.vipAst # {} /\ data.vspAst # {}}
           reads == UNION {At(data.logicReads, p.value) : p \in pointers}
           Good(x) == /\ change = 8 - x.size \/ (x.size = 1 /\ change = 6)
                      /\ \E v \in At(data.logicWrites, data.vsp.end) : v.value = x.value
<1>1. TryMatchVmReadMem(data) = {Found(data, "ReadMem", x.size) : x \in {y \in reads : Good(y)}}
  BY Zenon DEF TryMatchVmReadMem
<1>2. PICK r \in reads : m = Found(data, "ReadMem", r.size)
  <2> HIDE DEF reads, Good
  <2> QED  BY <1>1
<1>3. PICK p \in pointers : r \in At(data.logicReads, p.value)
  <2> HIDE DEF pointers
  <2> QED  BY <1>2
<1>4. Sized(data, m, r.size)
  BY <1>2, FoundSized, Zenon
<1>5. p \in data.logicReads /\ p.addr = data.vsp.start /\ p.size = 8
  BY DEF At
<1>6. r \in data.logicReads /\ r.addr = p.value
  BY <1>3 DEF At
<1> QED  BY <1>4, <1>5, <1>6

LEMMA ReadMemShown ==
  ASSUME NEW data, data.vipAst # {}, data.vspAst # {},
         NEW p \in data.logicReads, p.addr = data.vsp.start, p.size = 8,
         NEW r \in data.logicReads, r.addr = p.value,
         \/ data.vsp.end - data.vsp.start = 8 - r.size
         \/ r.size = 1 /\ data.vsp.end - data.vsp.start = 6,
         NEW w \in data.logicWrites, w.addr = data.vsp.end, w.value = r.value
  PROVE  TryMatchVmReadMem(data) # {}
<1> DEFINE change == data.vsp.end - data.vsp.start
           pointers == {q \in At(data.logicReads, data.vsp.start) :
                          q.size = 8 /\ data.vipAst # {} /\ data.vspAst # {}}
           reads == UNION {At(data.logicReads, q.value) : q \in pointers}
           Good(x) == /\ change = 8 - x.size \/ (x.size = 1 /\ change = 6)
                      /\ \E v \in At(data.logicWrites, data.vsp.end) : v.value = x.value
<1>1. TryMatchVmReadMem(data) = {Found(data, "ReadMem", x.size) : x \in {y \in reads : Good(y)}}
  BY Zenon DEF TryMatchVmReadMem
<1>2. p \in pointers
  BY DEF At
<1>3. r \in At(data.logicReads, p.value)
  BY DEF At
<1>4. r \in reads
  <2> HIDE DEF pointers
  <2> QED  BY <1>2, <1>3
<1>5. Good(r)
  <2>1. w \in At(data.logicWrites, data.vsp.end)
    BY DEF At
  <2> QED  BY <2>1
<1> HIDE DEF reads, Good
<1> QED  BY <1>1, <1>4, <1>5

LEMMA ReadMemFound ==
  ASSUME LoopInv, OnItsStack, inside, NEW h \in ReadMems, h.a # Vsp \/ h.d = 8, h.a # Bytecode \/ h.d = 4,
         NEW data, NEW view, WholeSeen(h, data, view, Len(h.accesses))
  PROVE  /\ TryMatchVmReadMem(data) # {}
         /\ \A m \in TryMatchVmReadMem(data) : Sized(data, m, h.d)
<1>1. PICK d, a, pointer, load, store : ReadMemParts(h, d, a, pointer, load, store)
  BY ReadMemMade
<1>2. Made(h, "ReadMem", d, <<pointer, load, store>>, 4, 8 - StackSize(d)) /\ a \in Operands(8)
      /\ d \in Widths /\ h.a = a
  BY <1>1 DEF ReadMemParts
<1>3. PICK n : /\ n = StackSize(d) /\ d \in {1, 2, 4, 8} /\ n \in {2, 4, 8}
               /\ (d # 1 => n = d) /\ (d = 1 => n = 2) /\ h.change = 8 - n /\ h.d = d
  BY <1>2, Widths1 DEF Made, StackSize
<1>4. PICK value, wrap :
        /\ value = IF a # Vsp THEN 1 ELSE IF d > 2 THEN a ELSE a % 256^d
        /\ pointer = Load(1, Vsp, 8, a)
        /\ load = Load(2, a, d, value)
        /\ store = Store(Vsp + 8 - StackSize(d), StackSize(d), value,
                         From(wrap, "var", 0, <<Mem(2)>>))
  BY <1>1 DEF ReadMemParts
<1>5. a = Vsp => value = a /\ d = 8
  <2>1. a = Vsp => d = 8
    BY <1>2, <1>3
  <2>2. value = IF a # Vsp THEN 1 ELSE IF d > 2 THEN a ELSE a % 256^d
    BY <1>4
  <2> QED  BY <2>1, <2>2
<1>6. pointer.kind = "read" /\ pointer.addr = Vsp /\ pointer.size = 8 /\ pointer.value = a
  <2>1. pointer = Load(1, Vsp, 8, a)
    BY <1>4
  <2> QED  BY <2>1, LoadFields
<1>7. load.kind = "read" /\ load.addr = a /\ load.size = d /\ load.value = value
  <2>1. load = Load(2, a, d, value)
    BY <1>4
  <2> QED  BY <2>1, LoadFields
<1>8. store.kind = "write" /\ store.addr = Vsp + 8 - n /\ store.value = value
  <2>1. PICK src, at : src = From(wrap, "var", 0, <<Mem(2)>>) /\ at = Vsp + 8 - StackSize(d)
    OBVIOUS
  <2>2. store = Store(at, StackSize(d), value, src)
    BY <1>4, <2>1
  <2>3. store.kind = "write" /\ store.addr = at /\ store.value = value
    BY <2>2, StoreFields
  <2> QED  BY <1>3, <2>1, <2>3
<1>9. PICK fetch : fetch = Fetch(4, vipOf)
  OBVIOUS
<1>10. fetch.kind = "read" /\ fetch.addr = Bytecode /\ fetch.size = 4 /\ fetch.value = 1
  BY <1>9, FetchFields
<1>11. /\ Len(h.accesses) = 4
       /\ h.accesses[1] = pointer /\ h.accesses[2] = load /\ h.accesses[3] = store
       /\ h.accesses[4] = fetch
  <2>1. PICK op, change : op = "ReadMem" /\ change = 8 - StackSize(d)
    OBVIOUS
  <2>2. Made(h, op, d, <<pointer, load, store>>, 4, change)
    BY <1>2, <2>1
  <2>3. ThreeThen(h.accesses, pointer, load, store, fetch)
    BY <1>9, <2>2, ThreePlaced, Zenon
  <2> QED  BY <2>3 DEF ThreeThen
<1>12. PICK v, c, b : /\ v = Vsp /\ c = Context /\ b = Bytecode
                      /\ v \in Int /\ c \in Int /\ b \in Int
                      /\ c >= 1024 /\ v >= c + 128 /\ b >= 1000 /\ (b < c - 8 \/ b > v + 16)
  BY StackPlaces
<1>13. v # b
  BY <1>12
<1>14. a = b => d = 4 /\ value = 1
  <2>1. a = b => d = 4
    BY <1>2, <1>3, <1>12
  <2> QED  BY <1>4, <1>12, <1>13, <2>1
<1>15. view.accesses = h.accesses
  BY DEF WholeSeen
<1>16. PICK r \in Recorded(view, "read", 4) : r.addr = a /\ r.size = d /\ r.value = value
  <2>1. CASE a # b
    <3>1. \A l \in 1..4 : l > 2 /\ view.accesses[l].kind = "read"
                            => view.accesses[l].addr # view.accesses[2].addr
      BY <1>7, <1>8, <1>10, <1>11, <1>12, <1>15, <2>1
    <3>2. 2 \in 1..4 /\ view.accesses[2].kind = "read"
      BY <1>7, <1>11, <1>15
    <3>3. \E x \in Recorded(view, "read", 4) : RecordOf(view, "read", view.accesses[2], x)
      BY <3>1, <3>2, RecordedLast
    <3> QED  BY <1>7, <1>11, <1>15, <3>3 DEF RecordOf
  <2>2. CASE a = b
    <3>1. \A l \in 1..4 : l > 4 /\ view.accesses[l].kind = "read"
                            => view.accesses[l].addr # view.accesses[4].addr
      OBVIOUS
    <3>2. 4 \in 1..4 /\ view.accesses[4].kind = "read"
      BY <1>10, <1>11, <1>15
    <3>3. \E x \in Recorded(view, "read", 4) : RecordOf(view, "read", view.accesses[4], x)
      BY <3>1, <3>2, RecordedLast
    <3> QED  BY <1>10, <1>11, <1>12, <1>14, <1>15, <2>2, <3>3 DEF RecordOf
  <2> QED  BY <2>1, <2>2
<1>17. PICK w \in Recorded(view, "write", 4) : w.addr = v + 8 - n /\ w.value = value
  <2>1. WritesOnly(view, 4, 3, store)
    BY <1>6, <1>7, <1>8, <1>10, <1>11, <1>15 DEF WritesOnly
  <2>2. Written(view, Recorded(view, "write", 4), store)
    BY <2>1, SoleWrite
  <2> QED  BY <1>8, <1>12, <2>2 DEF Written, RecordOf
<1>18. PICK p \in Recorded(view, "read", 4) : p.addr = v /\ p.size = 8 /\ p.value = a
  <2>1. CASE a = v
    BY <1>5, <1>12, <1>16, <2>1
  <2>2. CASE a # v
    <3>1. \A l \in 1..4 : l > 1 /\ view.accesses[l].kind = "read"
                            => view.accesses[l].addr # view.accesses[1].addr
      BY <1>6, <1>7, <1>8, <1>10, <1>11, <1>12, <1>13, <1>15, <2>2
    <3>2. 1 \in 1..4 /\ view.accesses[1].kind = "read"
      BY <1>6, <1>11, <1>15
    <3>3. \E x \in Recorded(view, "read", 4) : RecordOf(view, "read", view.accesses[1], x)
      BY <3>1, <3>2, RecordedLast
    <3> QED  BY <1>6, <1>11, <1>12, <1>15, <3>3 DEF RecordOf
  <2> QED  BY <2>1, <2>2
<1>19. /\ data.logicReads = Recorded(view, "read", 4)
       /\ data.logicWrites = Recorded(view, "write", 4)
       /\ data.vsp.start = v /\ data.vsp.end = v + 8 - n
       /\ data.vipAst # {} /\ data.vspAst # {}
  <2>1. data.vsp.end = v + (8 - n)
    BY <1>3, <1>12 DEF WholeSeen
  <2>2. data.vsp.end = v + 8 - n
    BY <1>3, <1>12, <2>1
  <2> QED  BY <1>11, <1>12, <2>2 DEF WholeSeen
<1>20. TryMatchVmReadMem(data) # {}
  <2>1. /\ p \in data.logicReads /\ p.addr = data.vsp.start /\ p.size = 8
        /\ r \in data.logicReads /\ r.addr = p.value
        /\ w \in data.logicWrites /\ w.addr = data.vsp.end /\ w.value = r.value
    BY <1>16, <1>17, <1>18, <1>19
  <2>2. \/ data.vsp.end - data.vsp.start = 8 - r.size
        \/ r.size = 1 /\ data.vsp.end - data.vsp.start = 6
    BY <1>3, <1>12, <1>16, <1>19
  <2> QED  BY <1>19, <2>1, <2>2, ReadMemShown
<1>21. ASSUME NEW x \in data.logicReads
       PROVE  \E y \in {pointer, load, fetch} :
                x.addr = y.addr /\ x.size = y.size /\ x.value = y.value
  <2>1. PICK kind : kind = "read"
    OBVIOUS
  <2>2. x \in Recorded(view, kind, 4)
    BY <1>19, <1>21, <2>1
  <2>3. PICK l \in 1..4 : RecordOf(view, kind, view.accesses[l], x)
    BY <2>2, RecordedAt
  <2>4. PICK y \in {pointer, load, store, fetch} :
          y.kind = kind /\ x.addr = y.addr /\ x.size = y.size /\ x.value = y.value
    BY <1>11, <1>15, <2>3 DEF RecordOf
  <2>5. y # store
    BY <1>8, <2>1, <2>4
  <2> QED  BY <2>4, <2>5
<1>22. ASSUME NEW m \in TryMatchVmReadMem(data) PROVE Sized(data, m, h.d)
  <2>1. PICK q \in data.logicReads, x \in data.logicReads :
          Sized(data, m, x.size) /\ q.addr = v /\ q.size = 8 /\ x.addr = q.value
    BY <1>19, <1>22, ReadMemSizes
  <2>2. q.value = a
    <3>1. PICK y \in {pointer, load, fetch} :
            q.addr = y.addr /\ q.size = y.size /\ q.value = y.value
      BY <1>21
    <3>2. y # fetch
      BY <1>10, <2>1, <3>1
    <3>3. CASE y = pointer
      BY <1>6, <3>1, <3>3
    <3>4. CASE y = load
      BY <1>5, <1>7, <1>12, <2>1, <3>1, <3>4
    <3> QED  BY <3>1, <3>2, <3>3, <3>4
  <2>3. x.size = d
    <3>1. PICK y \in {pointer, load, fetch} :
            x.addr = y.addr /\ x.size = y.size /\ x.value = y.value
      BY <1>21
    <3>2. CASE y = fetch
      BY <1>10, <1>12, <1>14, <2>1, <2>2, <3>1, <3>2
    <3>3. CASE y = pointer
      BY <1>5, <1>6, <2>1, <2>2, <3>1, <3>3
    <3>4. CASE y = load
      BY <1>7, <3>1, <3>4
    <3> QED  BY <3>1, <3>2, <3>3, <3>4
  <2> QED  BY <1>3, <2>1, <2>3
<1> QED  BY <1>20, <1>22

LEMMA WriteMemSizes ==
  ASSUME NEW data, NEW m \in TryMatchVmWriteMem(data)
  PROVE  \E w \in data.logicWrites : Sized(data, m, w.size)
<1> DEFINE moves == \E delta \in Deltas(data) : Abs(delta[1]) = 4 /\ delta[2] >= 9
           pointers == {p \in At(data.logicReads, data.vsp.start) : p.size = 8 /\ moves}
           writes == UNION {At(data.logicWrites, p.value) : p \in pointers}
           Low(size, value) == IF size <= 2 THEN value % 256^size ELSE value
           Good(x) == \E r \in At(data.logicReads, data.vsp.start + 8) :
                        Low(x.size, r.value) = Low(x.size, x.value)
<1>1. TryMatchVmWriteMem(data) = {Found(data, "WriteMem", w.size) : w \in {x \in writes : Good(x)}}
  BY Zenon DEF TryMatchVmWriteMem
<1> HIDE DEF Good, Low
<1>2. PICK w \in writes : m = Found(data, "WriteMem", w.size)
  <2> HIDE DEF writes
  <2> QED  BY <1>1
<1>3. PICK p \in pointers : w \in At(data.logicWrites, p.value)
  <2> HIDE DEF pointers
  <2> QED  BY <1>2
<1>4. w \in data.logicWrites
  <2> HIDE DEF pointers
  <2> QED  BY <1>3 DEF At
<1>5. Sized(data, m, w.size)
  BY <1>2, FoundSized, Zenon
<1> QED  BY <1>4, <1>5

LEMMA WriteMemShown ==
  ASSUME NEW data, NEW delta \in Deltas(data), Abs(delta[1]) = 4, delta[2] >= 9,
         NEW p \in data.logicReads, p.addr = data.vsp.start, p.size = 8,
         NEW w \in data.logicWrites, w.addr = p.value,
         NEW r \in data.logicReads, r.addr = data.vsp.start + 8, r.value = w.value
  PROVE  TryMatchVmWriteMem(data) # {}
<1> DEFINE moves == \E x \in Deltas(data) : Abs(x[1]) = 4 /\ x[2] >= 9
           pointers == {q \in At(data.logicReads, data.vsp.start) : q.size = 8 /\ moves}
           writes == UNION {At(data.logicWrites, q.value) : q \in pointers}
           Low(size, value) == IF size <= 2 THEN value % 256^size ELSE value
           Good(x) == \E y \in At(data.logicReads, data.vsp.start + 8) :
                        Low(x.size, y.value) = Low(x.size, x.value)
<1>1. TryMatchVmWriteMem(data) = {Found(data, "WriteMem", x.size) : x \in {y \in writes : Good(y)}}
  BY Zenon DEF TryMatchVmWriteMem
<1>2. moves
  OBVIOUS
<1>3. p \in pointers
  <2> HIDE DEF moves
  <2> QED  BY <1>2 DEF At
<1>4. w \in writes
  <2>1. w \in At(data.logicWrites, p.value)
    BY DEF At
  <2> HIDE DEF pointers
  <2> QED  BY <1>3, <2>1
<1>5. Good(w)
  <2>1. r \in At(data.logicReads, data.vsp.start + 8)
    BY DEF At
  <2> HIDE DEF Low
  <2> QED  BY <2>1
<1> HIDE DEF writes, Good
<1> QED  BY <1>1, <1>4, <1>5

LEMMA WriteMemFound ==
  ASSUME LoopInv, OnItsStack, inside, NEW h \in WriteMems,
         NEW S, NEW data, NEW view, Seen(h, S, data, view)
  PROVE  /\ TryMatchVmWriteMem(data) # {}
         /\ \A m \in TryMatchVmWriteMem(data) : Sized(data, m, h.d)
<1>1. PICK ab \in UNION {{d} \X Operands(8) \X SecondOperands(d) : d \in Widths} :
        h = [Native("WriteMem", ab[1],
               <<Load(1, Vsp, 8, ab[2]), Load(2, Vsp + 8, StackSize(ab[1]), ab[3]),
                 Store(ab[2], ab[1], ab[3],
                       From(IF ab[1] = 1 THEN "extract" ELSE "", "var", 0, <<Mem(2)>>))>>,
               4, 8 + StackSize(ab[1])) EXCEPT !.a = ab[2], !.b = ab[3]]
  BY DEF WriteMems
<1>2. PICK d, a, b : /\ d \in Widths /\ a \in Operands(8)
                     /\ d = ab[1] /\ a = ab[2] /\ b = ab[3]
  OBVIOUS
<1>3. PICK pointer, load, store, n, above :
        /\ n = StackSize(d) /\ above = Vsp + 8
        /\ pointer = Load(1, Vsp, 8, a) /\ load = Load(2, above, n, b)
        /\ store = Store(a, d, b, From(IF d = 1 THEN "extract" ELSE "", "var", 0, <<Mem(2)>>))
  OBVIOUS
<1>4. PICK g : g = Native("WriteMem", d, <<pointer, load, store>>, 4, 8 + n)
  OBVIOUS
<1>5. PICK k : k = [g EXCEPT !.a = a] /\ h = [k EXCEPT !.b = b]
  BY <1>1, <1>2, <1>3, <1>4
<1>6. Made(h, "WriteMem", d, <<pointer, load, store>>, 4, 8 + n)
  <2>1. PICK op, accesses, taken, change :
          /\ op = "WriteMem" /\ accesses = <<pointer, load, store>> /\ taken = 4
          /\ change = 8 + n
    OBVIOUS
  <2>2. g = Native(op, d, accesses, taken, change)
    BY <1>4, <2>1, Zenon
  <2>3. Made(h, op, d, accesses, taken, change)
    BY <1>5, <2>2, OperandsMade, ZenonT(60)
  <2> QED  BY <2>1, <2>3
<1>7. PICK fetch : fetch = Fetch(4, vipOf)
  OBVIOUS
<1>8. /\ Len(h.accesses) = 4
      /\ h.accesses[1] = pointer /\ h.accesses[2] = load /\ h.accesses[3] = store
      /\ h.accesses[4] = fetch
  <2>1. PICK op, change : op = "WriteMem" /\ change = 8 + n
    OBVIOUS
  <2>2. Made(h, op, d, <<pointer, load, store>>, 4, change)
    BY <1>6, <2>1
  <2>3. ThreeThen(h.accesses, pointer, load, store, fetch)
    BY <1>7, <2>2, ThreePlaced, Zenon
  <2> QED  BY <2>3 DEF ThreeThen
<1>9. pointer.kind = "read" /\ pointer.addr = Vsp /\ pointer.size = 8 /\ pointer.value = a
  <2>1. pointer = Load(1, Vsp, 8, a)
    BY <1>3
  <2> QED  BY <2>1, LoadFields
<1>10. load.kind = "read" /\ load.addr = above /\ load.value = b
  <2>1. load = Load(2, above, n, b)
    BY <1>3
  <2> QED  BY <2>1, LoadFields
<1>11. store.kind = "write" /\ store.addr = a /\ store.size = d /\ store.value = b
  <2>1. PICK wrap : wrap = IF d = 1 THEN "extract" ELSE ""
    OBVIOUS
  <2>2. store = Store(a, d, b, From(wrap, "var", 0, <<Mem(2)>>))
    BY <1>3, <2>1
  <2> QED  BY <2>2, StoreFields
<1>12. fetch.kind = "read" /\ fetch.addr = Bytecode
  BY <1>7, FetchFields
<1>13. PICK v, c, e : /\ v = Vsp /\ c = Context /\ e = Bytecode
                      /\ v \in Int /\ c \in Int /\ e \in Int
                      /\ c >= 1024 /\ v >= c + 128 /\ e >= 1000 /\ (e < c - 8 \/ e > v + 16)
  BY StackPlaces
<1>14. above = v + 8 /\ e # v /\ e # v + 8
  <2>1. above = Vsp + 8
    BY <1>3
  <2> QED  BY <1>13, <2>1
<1>15. WholeSeen(h, data, view, Len(h.accesses))
  BY DEF Seen
<1>16. /\ view.accesses = h.accesses
       /\ data.logicReads = Recorded(view, "read", 4)
       /\ data.logicWrites = Recorded(view, "write", 4)
       /\ data.vsp.start = v
  BY <1>8, <1>13, <1>15 DEF WholeSeen
<1>17. PICK p \in data.logicReads : p.addr = v /\ p.size = 8 /\ p.value = a
  <2>1. \A l \in 1..4 : l > 1 /\ view.accesses[l].kind = "read"
                          => view.accesses[l].addr # view.accesses[1].addr
    BY <1>8, <1>9, <1>10, <1>11, <1>12, <1>13, <1>14, <1>16
  <2>2. 1 \in 1..4 /\ view.accesses[1].kind = "read"
    BY <1>8, <1>9, <1>16
  <2>3. \E x \in Recorded(view, "read", 4) : RecordOf(view, "read", view.accesses[1], x)
    BY <2>1, <2>2, RecordedLast
  <2> QED  BY <1>8, <1>9, <1>13, <1>16, <2>3 DEF RecordOf
<1>18. PICK r \in data.logicReads : r.addr = v + 8 /\ r.value = b
  <2>1. \A l \in 1..4 : l > 2 /\ view.accesses[l].kind = "read"
                          => view.accesses[l].addr # view.accesses[2].addr
    BY <1>8, <1>10, <1>11, <1>12, <1>13, <1>14, <1>16
  <2>2. 2 \in 1..4 /\ view.accesses[2].kind = "read"
    BY <1>8, <1>10, <1>16
  <2>3. \E x \in Recorded(view, "read", 4) : RecordOf(view, "read", view.accesses[2], x)
    BY <2>1, <2>2, RecordedLast
  <2> QED  BY <1>8, <1>10, <1>14, <1>16, <2>3 DEF RecordOf
<1>19. /\ \E w \in data.logicWrites : RecordOf(view, "write", store, w)
       /\ \A w \in data.logicWrites : RecordOf(view, "write", store, w)
  <2>1. WritesOnly(view, 4, 3, store)
    BY <1>8, <1>9, <1>10, <1>11, <1>12, <1>16 DEF WritesOnly
  <2>2. Written(view, data.logicWrites, store)
    BY <1>16, <2>1, SoleWrite
  <2> QED  BY <2>2 DEF Written
<1>20. PICK delta \in Deltas(data) : Abs(delta[1]) = 4 /\ delta[2] >= 9
  <2>1. n \in {2, 4, 8}
    BY <1>2, <1>3, Widths1
  <2>2. h.taken = 4 /\ h.change = 8 + n /\ h.vsp = Plus(Reg(vspOf), h.change)
    BY <1>6 DEF Made
  <2> QED  BY <2>1, <2>2, DeltaThere DEF Abs
<1>21. TryMatchVmWriteMem(data) # {}
  <2>1. PICK w \in data.logicWrites : w.addr = a /\ w.value = b
    BY <1>11, <1>19 DEF RecordOf
  <2>2. /\ p.addr = data.vsp.start /\ p.size = 8 /\ w.addr = p.value
        /\ r.addr = data.vsp.start + 8 /\ r.value = w.value
    BY <1>16, <1>17, <1>18, <2>1
  <2> QED  BY <1>20, <2>2, WriteMemShown
<1>22. ASSUME NEW m \in TryMatchVmWriteMem(data) PROVE Sized(data, m, h.d)
  <2>1. PICK w \in data.logicWrites : Sized(data, m, w.size)
    BY <1>22, WriteMemSizes
  <2>2. w.size = d
    BY <1>11, <1>19 DEF RecordOf
  <2>3. h.d = d
    BY <1>6 DEF Made
  <2> QED  BY <2>1, <2>2, <2>3
<1> QED  BY <1>21, <1>22

(* Of the writes of an arithmetic handler the result alone shows the       *)
(* operation.                                                              *)
ResultOf(view, writes, result) ==
  /\ \E w \in writes : RecordOf(view, "write", result, w)
  /\ \A w \in writes : \/ RecordOf(view, "write", result, w)
                       \/ w.ast.node \in {"concat", "var", "bv"}

LEMMA ResultRecorded ==
  ASSUME NEW h, NEW L, NEW loads \in Seq(L), \A x \in L : x.kind = "read",
         NEW op, NEW d, NEW n, NEW at \in Int, NEW node, NEW of,
         NEW result, NEW push, NEW pull, NEW flags, NEW fetch,
         FlagParts(op, d, n, at, node, of, result, push, pull, flags), fetch.kind = "read",
         Ending(h, L, loads, result, push, pull, flags, fetch),
         Rsp \in Int, at + 8 # Rsp - 8,
         NEW view, view.accesses = h.accesses,
         NEW writes, writes = Recorded(view, "write", Len(h.accesses))
  PROVE  ResultOf(view, writes, result)
<1>1. PICK k : k = Len(loads) /\ k \in Nat
  OBVIOUS
<1>2. PICK c : c = Rsp - 8 /\ c \in Int /\ at + 8 # c /\ at + 8 # at
  OBVIOUS
<1>3. /\ result.kind = "write" /\ result.addr = at + 8
      /\ push.kind = "write" /\ push.addr = c
      /\ pull.kind = "read"
      /\ flags.kind = "write" /\ flags.addr = at /\ flags.from = Copy(<<"flags", 0>>)
  BY <1>2, ZenonT(60) DEF FlagParts
<1>4. /\ h.accesses \in Seq(L \cup {result, push, pull, flags, fetch})
      /\ Len(h.accesses) = k + 5
      /\ \A i \in 1..k : h.accesses[i] = loads[i]
      /\ h.accesses[k + 1] = result
      /\ h.accesses[k + 2] = push
      /\ h.accesses[k + 3] = pull
      /\ h.accesses[k + 4] = flags
      /\ h.accesses[k + 5] = fetch
  BY <1>1 DEF Ending
<1>5. \E z \in writes : RecordOf(view, "write", result, z)
  <2>1. ASSUME NEW l \in 1..(k + 5), l > k + 1, view.accesses[l].kind = "write"
        PROVE  view.accesses[l].addr # view.accesses[k + 1].addr
    <3>1. l \in {k + 2, k + 3, k + 4, k + 5}
      BY <1>1, <2>1
    <3>2. view.accesses[l] \in {push, pull, flags, fetch}
      BY <1>4, <3>1
    <3>3. "read" # "write"
      OBVIOUS
    <3>4. view.accesses[l] \in {push, flags}
      BY <1>3, <2>1, <3>2, <3>3, Zenon
    <3>5. view.accesses[l].addr \in {c, at}
      BY <1>3, <3>4
    <3> QED  BY <1>2, <1>3, <1>4, <3>5
  <2>2. k + 1 \in 1..(k + 5) /\ view.accesses[k + 1].kind = "write"
    BY <1>1, <1>3, <1>4
  <2>3. PICK i, m : i = k + 1 /\ m = k + 5
    OBVIOUS
  <2>4. \E z \in Recorded(view, "write", m) : RecordOf(view, "write", view.accesses[i], z)
    BY <2>1, <2>2, <2>3, RecordedLast
  <2> QED  BY <1>4, <2>3, <2>4
<1>6. ASSUME NEW z \in writes
      PROVE  RecordOf(view, "write", result, z) \/ z.ast.node \in {"concat", "var", "bv"}
  <2>1. PICK kind, S : kind = "write" /\ S = L \cup {result, push, pull, flags, fetch}
    OBVIOUS
  <2>2. z \in Recorded(view, kind, Len(view.accesses)) /\ view.accesses \in Seq(S)
    BY <1>4, <1>6, <2>1
  <2>3. \E g \in S : RecordOf(view, kind, g, z)
    BY <2>2, RecordedIn, Zenon
  <2>4. PICK g \in S : RecordOf(view, kind, g, z)
    BY <2>3
  <2>8. g.kind = kind /\ z.ast = AstOf(view, g.from)
    BY <2>4 DEF RecordOf
  <2>5. g \in {result, push, flags}
    <3>1. "read" # kind
      BY <2>1
    <3>2. g \in L \/ g \in {result, push, pull, flags, fetch}
      BY <2>1
    <3> QED  BY <1>3, <2>8, <3>1, <3>2, Zenon
  <2>6. CASE g = result
    BY <2>1, <2>4, <2>6
  <2>7. CASE g = push \/ g = flags
    <3>1. z.ast.node \in {g.from.node, "bv"}
      BY <2>8, ShownOperation
    <3>2. push.from.node = "concat"
      <4>1. PICK bare : push.from = From(bare, "concat", 0, of)
        BY DEF FlagParts
      <4> QED  BY <4>1, Sources
    <3>3. flags.from.node = "var"
      BY <1>3, Sources
    <3> QED  BY <2>7, <3>1, <3>2, <3>3
  <2> QED  BY <2>5, <2>6, <2>7
<1> QED  BY <1>5, <1>6 DEF ResultOf

LEMMA AluSizes ==
  ASSUME NEW data, NEW m \in TryMatchGenericVmAlu(data)
  PROVE  \E w \in data.logicWrites : /\ DetectAluOperation(w.ast) # "Unknown"
                                     /\ Sized(data, m, ResultSize(w))
<1> DEFINE results == {v \in data.logicWrites :
                         DetectAluOperation(v.ast) # "Unknown" /\ DependsOnStack(v.ast)}
<1>1. TryMatchGenericVmAlu(data) =
        {Found(data, DetectAluOperation(v.ast), ResultSize(v)) : v \in Lowest(results)}
  BY Zenon DEF TryMatchGenericVmAlu
<1>2. PICK w \in Lowest(results) : m = Found(data, DetectAluOperation(w.ast), ResultSize(w))
  <2> HIDE DEF results
  <2> QED  BY <1>1
<1>3. w \in results
  <2> HIDE DEF results
  <2> QED  BY <1>2 DEF Lowest
<1>4. Sized(data, m, ResultSize(w))
  BY <1>2, FoundSized, Zenon
<1> QED  BY <1>3, <1>4

Operates(node) == \A ast : ast.node = node => DetectAluOperation(ast) # "Unknown"
LEMMA AluFound ==
  ASSUME NEW data, NEW view, NEW result, ResultOf(view, data.logicWrites, result),
         NEW d, NEW n, d # 1 => n = d, result.size = n, result.addr \in Int,
         NEW node, Operates(node),
         NEW s, NEW t, NameOf(view, s) = StackArg(0),
         NEW wrap, wrap = WrapIn(d, "zx"), result.from = From(wrap, node, 0, <<s, t>>)
  PROVE  /\ TryMatchGenericVmAlu(data) # {}
         /\ \A m \in TryMatchGenericVmAlu(data) : Sized(data, m, d)
<1>1. PICK ast, of, names : ast = AstOf(view, result.from) /\ of = <<s, t>> /\ names = NamesOf(view, of)
  OBVIOUS
<1>2. ast.node = node /\ ast.wrap = wrap /\ DependsOnStack(ast)
  <2>1. NameOf(view, s) # NoName
    BY DEF StackArg, NoName
  <2>3. 1 \in DOMAIN names /\ names[1] = StackArg(0)
    BY <1>1, <2>1, NamesBegin
  <2>4. PICK from : from = result.from /\ from = From(wrap, node, 0, of)
    BY <1>1
  <2>5. from.of = of /\ from.node = node /\ from.wrap = wrap /\ from.k = 0
    BY <2>4 DEF From
  <2>6. names # <<>>
    BY <2>3
  <2>7. ast = Tree(wrap, node, names, 0)
    BY <1>1, <2>4, <2>5, <2>6 DEF AstOf
  <2>8. ast.node = node /\ ast.vars = names /\ ast.wrap = wrap
    BY <2>7 DEF Tree
  <2>9. StackArg(0)[1] = "StackArg"
    BY DEF StackArg
  <2> QED  BY <2>3, <2>8, <2>9 DEF DependsOnStack
<1>3. DetectAluOperation(ast) # "Unknown"
  BY <1>2 DEF Operates
<1>4. PICK w \in data.logicWrites : w.addr = result.addr /\ w.ast = ast
  BY <1>1 DEF ResultOf, RecordOf
<1>5. ASSUME NEW z \in data.logicWrites, DetectAluOperation(z.ast) # "Unknown"
      PROVE  z.addr = result.addr /\ z.size = n /\ z.ast = ast
  <2>1. z.ast.node \notin {"concat", "var", "bv"}
    BY <1>5 DEF DetectAluOperation
  <2>2. RecordOf(view, "write", result, z)
    BY <2>1 DEF ResultOf
  <2> QED  BY <1>1, <2>2 DEF RecordOf
<1>6. TryMatchGenericVmAlu(data) # {}
  BY <1>2, <1>3, <1>4, <1>5, AluShown
<1>7. ASSUME NEW m \in TryMatchGenericVmAlu(data) PROVE Sized(data, m, d)
  <2>1. PICK z \in data.logicWrites : /\ DetectAluOperation(z.ast) # "Unknown"
                                      /\ Sized(data, m, ResultSize(z))
    BY <1>7, AluSizes
  <2>2. z.size = n /\ z.ast.wrap = wrap
    BY <1>2, <1>5, <2>1
  <2>3. ResultSize(z) = d
    <3>1. CASE d = 1
      <4>1. wrap = "zx"
        BY <3>1 DEF WrapIn
      <4> QED  BY <2>2, <3>1, <4>1 DEF ResultSize
    <3>2. CASE d # 1
      <4>1. z.ast.wrap # "zx"
        BY <2>2, <3>2, WrapFacts
      <4> QED  BY <2>2, <3>2, <4>1 DEF ResultSize
    <3> QED  BY <3>1, <3>2
  <2> QED  BY <2>1, <2>3
<1> QED  BY <1>6, <1>7

LEMMA OperatesSo ==
  /\ \A op \in BinaryOps : Operates(op[2])
  /\ \A op \in ShiftOps : Operates(op[2])
<1>1. ASSUME NEW op \in BinaryOps PROVE Operates(op[2])
  <2>1. op[2] \in {"bvadd", "not or", "not and"}
    BY OpNames
  <2> QED  BY <2>1 DEF Operates, DetectAluOperation
<1>2. ASSUME NEW op \in ShiftOps PROVE Operates(op[2])
  <2>1. op[2] \in {"bvshl", "bvlshr", "bvrol", "bvror"}
    BY DEF ShiftOps
  <2> QED  BY <2>1 DEF Operates, DetectAluOperation
<1> QED  BY <1>1, <1>2

(* An arithmetic handler of two operands, the first of them on the top.    *)
TwoOperands(h, d, name, node, x, y, popped) ==
  /\ d \in Widths /\ Operates(node)
  /\ x.kind = "read" /\ x.addr = Vsp /\ y.kind = "read"
  /\ popped \in Int /\ popped >= StackSize(d)
  /\ \E a, b, loads : /\ loads = <<x, y>>
                      /\ h = WithFlags(name, d, loads, node, <<Mem(1), Mem(2)>>, popped, a, b)

LEMMA TwoOperandsFound ==
  ASSUME LoopInv, OnItsStack, inside, top < ImageBase,
         NEW h, NEW d, NEW name, NEW node, NEW x, NEW y, NEW popped,
         TwoOperands(h, d, name, node, x, y, popped),
         NEW data, NEW view, WholeSeen(h, data, view, Len(h.accesses))
  PROVE  /\ TryMatchGenericVmAlu(data) # {}
         /\ \A m \in TryMatchGenericVmAlu(data) : Sized(data, m, h.d)
<1>1. PICK a, b, loads, s, t, of, n, at :
        /\ loads = <<x, y>> /\ s = Mem(1) /\ t = Mem(2) /\ of = <<s, t>>
        /\ n = StackSize(d) /\ at = Vsp + popped - n - 8
        /\ h = WithFlags(name, d, loads, node, of, popped, a, b)
  BY DEF TwoOperands
<1>2. PICK result, push, pull, flags :
        /\ FlagParts(name, d, n, at, node, of, result, push, pull, flags)
        /\ Made(h, name, d, loads \o <<result, push, pull, flags>>, 4, popped - n - 8)
  <2>1. h = WithFlags(name, d, loads, node, of, popped, a, b) /\ n = StackSize(d)
    BY <1>1
  <2>2. at = Vsp + popped - n - 8
    BY <1>1
  <2>3. IsFlagged(h, name, d, loads, node, of, popped, a, b, n, at)
    BY <2>1, <2>2, WithFlagsMade, Zenon
  <2> QED  BY <2>3 DEF IsFlagged
<1>3. PICK L : L = {x, y}
  OBVIOUS
<1>4. loads \in Seq(L) /\ \A z \in L : z.kind = "read"
  BY <1>1, <1>3 DEF TwoOperands
<1>5. PICK fetch : /\ fetch.kind = "read"
                   /\ Ending(h, L, loads, result, push, pull, flags, fetch)
  <2>1. HasEnding(h, L, loads, result, push, pull, flags)
    BY <1>2, <1>4, MadeEnding, Zenon
  <2> QED  BY <2>1 DEF HasEnding
<1>6. at \in Int /\ Rsp \in Int /\ at + 8 # Rsp - 8
  <2>1. PICK v, c : /\ v = Vsp /\ c = Context /\ Rsp = c
                    /\ v \in Int /\ c \in Int /\ v >= c + 128
    BY StackPlaces
  <2>2. n \in {2, 4, 8}
    BY <1>1, Widths1 DEF TwoOperands
  <2>3. at = v + popped - n - 8 /\ popped \in Int /\ popped >= n
    <3>1. at = Vsp + popped - n - 8
      BY <1>1
    <3> QED  BY <1>1, <2>1, <3>1 DEF TwoOperands
  <2> QED  BY <2>1, <2>2, <2>3
<1>7. /\ view.accesses = h.accesses /\ view.vsp = Vsp /\ view.rsp = Rsp
      /\ data.logicWrites = Recorded(view, "write", Len(h.accesses))
  BY DEF WholeSeen
<1>8. ResultOf(view, data.logicWrites, result)
  BY <1>2, <1>4, <1>5, <1>6, <1>7, ResultRecorded
<1>9. NameOf(view, s) = StackArg(0)
  <2>1. Len(loads) = 2 /\ loads[1] = x
    BY <1>1
  <2>2. h.accesses[1] = x
    BY <1>5, <2>1 DEF Ending
  <2>3. view.accesses[1].addr = Vsp
    BY <1>7, <2>2 DEF TwoOperands
  <2> QED  BY <1>1, <1>7, <2>3, TopName
<1>10. PICK wrap : wrap = WrapIn(d, "zx") /\ result.from = From(wrap, node, 0, of)
  BY <1>2 DEF FlagParts
<1>11. result.size = n /\ result.addr \in Int
  <2>1. result.size = n /\ result.addr = at + 8
    BY <1>2 DEF FlagParts
  <2> QED  BY <1>6, <2>1
<1>12. (d # 1 => n = d) /\ Operates(node) /\ h.d = d
  <2>1. h.d = d
    BY <1>2 DEF Made
  <2> QED  BY <1>1, <2>1, Widths1 DEF TwoOperands
<1>13. result.from = From(wrap, node, 0, <<s, t>>)
  BY <1>1, <1>10
<1> QED  BY <1>8, <1>9, <1>10, <1>11, <1>12, <1>13, AluFound

LEMMA BinariesFound ==
  ASSUME LoopInv, OnItsStack, inside, top < ImageBase, NEW h \in Binaries,
         NEW data, NEW view, WholeSeen(h, data, view, Len(h.accesses))
  PROVE  /\ TryMatchGenericVmAlu(data) # {}
         /\ \A m \in TryMatchGenericVmAlu(data) : Sized(data, m, h.d)
<1>1. PICK d \in Widths, op \in BinaryOps : \E a \in Operands(d), b \in SecondOperands(d) :
        h = WithFlags(op[1], d,
                      <<Load(1, Vsp, StackSize(d), a),
                        Load(2, Vsp + StackSize(d), StackSize(d), b)>>,
                      op[2], <<Mem(1), Mem(2)>>, 2 * StackSize(d), a, b)
  BY DEF Binaries
<1>2. PICK n, name, node, popped :
        n = StackSize(d) /\ name = op[1] /\ node = op[2] /\ popped = 2 * n
  OBVIOUS
<1>3. PICK a, b, x, y, loads :
        /\ x = Load(1, Vsp, n, a) /\ y = Load(2, Vsp + n, n, b)
        /\ loads = <<x, y>>
        /\ h = WithFlags(name, d, loads, node, <<Mem(1), Mem(2)>>, popped, a, b)
  BY <1>1, <1>2
<1>4. x.kind = "read" /\ x.addr = Vsp /\ y.kind = "read"
  <2>1. x = Load(1, Vsp, n, a) /\ y = Load(2, Vsp + n, n, b)
    BY <1>3
  <2> QED  BY <2>1, LoadFields
<1>5. popped \in Int /\ popped >= StackSize(d)
  BY <1>2, Widths1
<1>6. Operates(node)
  BY <1>2, OperatesSo
<1>7. TwoOperands(h, d, name, node, x, y, popped)
  BY <1>3, <1>4, <1>5, <1>6 DEF TwoOperands
<1> QED  BY <1>7, TwoOperandsFound

LEMMA ShiftsFound ==
  ASSUME LoopInv, OnItsStack, inside, top < ImageBase, NEW h \in Shifts,
         NEW data, NEW view, WholeSeen(h, data, view, Len(h.accesses))
  PROVE  /\ TryMatchGenericVmAlu(data) # {}
         /\ \A m \in TryMatchGenericVmAlu(data) : Sized(data, m, h.d)
<1>1. PICK d \in Widths, op \in ShiftOps :
        h = WithFlags(op[1], d,
                      <<Load(1, Vsp, StackSize(d), 7), Load(2, Vsp + StackSize(d), 1, 1)>>,
                      op[2], <<Mem(1), Mem(2)>>, StackSize(d) + 2, 7, 1)
  BY DEF Shifts
<1>2. PICK n, name, node, popped, a, b :
        /\ n = StackSize(d) /\ name = op[1] /\ node = op[2] /\ popped = n + 2
        /\ a = 7 /\ b = 1
  OBVIOUS
<1>3. PICK x, y, loads :
        /\ x = Load(1, Vsp, n, 7) /\ y = Load(2, Vsp + n, 1, 1)
        /\ loads = <<x, y>>
        /\ h = WithFlags(name, d, loads, node, <<Mem(1), Mem(2)>>, popped, a, b)
  BY <1>1, <1>2
<1>4. x.kind = "read" /\ x.addr = Vsp /\ y.kind = "read"
  <2>1. x = Load(1, Vsp, n, 7) /\ y = Load(2, Vsp + n, 1, 1)
    BY <1>3
  <2> QED  BY <2>1, LoadFields
<1>5. popped \in Int /\ popped >= StackSize(d)
  BY <1>2, Widths1
<1>6. Operates(node)
  BY <1>2, OperatesSo
<1>7. TwoOperands(h, d, name, node, x, y, popped)
  BY <1>3, <1>4, <1>5, <1>6 DEF TwoOperands
<1> QED  BY <1>7, TwoOperandsFound

LEMMA NamesOfBoth ==
  ASSUME NEW view, NEW s, NEW t, NameOf(view, s) # NoName, NameOf(view, t) # NoName
  PROVE  Len(NamesOf(view, <<s, t>>)) = 2
<1> DEFINE of == <<s, t>>
           named == {i \in DOMAIN of : NameOf(view, of[i]) # NoName}
           which(k) == CHOOSE i \in named : Cardinality({j \in named : j <= i}) = k
<1>1. DOMAIN of = {1, 2} /\ of[1] = s /\ of[2] = t
  OBVIOUS
<1>2. named = 1..2
  BY <1>1
<1>3. Cardinality(named) = 2
  BY <1>2, IntervalSize
<1>4. NamesOf(view, of) = [k \in 1..Cardinality(named) |-> NameOf(view, of[which(k)])]
  BY DEF NamesOf
<1> HIDE DEF named, which
<1>5. NamesOf(view, of) = [k \in 1..2 |-> NameOf(view, of[which(k)])]
  BY <1>3, <1>4
<1> QED  BY <1>5

LEMMA AboveName ==
  ASSUME LoopInv, OnItsStack, inside, top < ImageBase, Vsp + 8 <= top,
         NEW view, view.vsp = Vsp, view.rsp = Rsp,
         NEW d \in 1..8, NEW i, view.accesses[i].addr = Vsp + d
  PROVE  NameOf(view, Mem(i)) = StackArg(d)
<1>1. PICK v, c, t : /\ v = Vsp /\ c = Context /\ t = top /\ Rsp = c
                     /\ v \in Int /\ c \in Int /\ t \in Int
                     /\ c >= 1024 /\ v >= c + 128 /\ v + 8 <= t /\ t < ImageBase
  BY StackPlaces
<1>2. NameOf(view, Mem(i)) = SymbolOf(v + d, v, c)
  <2>1. Mem(i)[1] = "mem" /\ Mem(i)[2] = i
    BY DEF Mem
  <2>2. NameOf(view, Mem(i)) = SymbolOf(view.accesses[i].addr, view.vsp, view.rsp)
    BY <2>1 DEF NameOf
  <2> QED  BY <1>1, <2>2
<1>3. SymbolOf(v + d, v, c) = StackArg((v + d) - v)
  <2>1. /\ ~(v + d >= ImageBase) /\ v # 0 /\ ~(v < 8 \/ v + d < v - 8)
        /\ v + d \in v..(v + 255)
    BY <1>1, RegsAssumption
  <2> QED  BY <2>1 DEF SymbolOf
<1>4. (v + d) - v = d
  BY <1>1
<1> QED  BY <1>2, <1>3, <1>4

LEMMA NoDoubleShift ==
  ASSUME NEW run, NEW op, NEW n, QuietRun(run, op, n), NEW complete \in BOOLEAN,
         op \notin {"Shld", "Shrd"}
  PROVE  TryMatchVmDoubleShift(DataOf(run, n, complete)) = {}
<1> SUFFICES ASSUME NEW m \in TryMatchVmDoubleShift(DataOf(run, n, complete)) PROVE FALSE
  OBVIOUS
<1> DEFINE view == ViewOf(run)
<1>1. PICK w \in DataOf(run, n, complete).logicWrites : w.ast.node = "or of shifts"
  BY DoubleShiftTypes
<1>2. PICK a : /\ Quiet(a, op) /\ a.kind = "write"
               /\ w.ast = AstOf(view, a.from)
  BY WrittenFrom
<1>3. a.from.node = "or of shifts"
  <2>1. w.ast.node \in {a.from.node, "bv"}
    BY <1>2, ShownOperation
  <2> QED  BY <1>1, <2>1
<1> QED  BY <1>2, <1>3 DEF Quiet

(* A disjunction of shifts of two values that both have names is taken for *)
(* a double shift, the sort of which the top of the stack tells.           *)
LEMMA DoubleShiftShown ==
  ASSUME NEW data, NEW w \in data.logicWrites, w.addr \in Int,
         w.ast.wrap = "", w.ast.node = "or of shifts", Len(w.ast.vars) = 2,
         StackArg(0) \in {w.ast.vars[1], w.ast.vars[2]},
         \A v \in data.logicWrites : v.ast.node = "or of shifts" =>
            v.addr = w.addr /\ v.size = w.size /\ v.ast = w.ast
  PROVE  /\ TryMatchVmDoubleShift(data) # {}
         /\ \A m \in TryMatchVmDoubleShift(data) : Sized(data, m, w.size) /\ m.type # "Unknown"
<1> DEFINE results == {v \in data.logicWrites :
                         v.ast.wrap = "" /\ v.ast.node = "or of shifts" /\ Len(v.ast.vars) = 2}
           Type(ast) == IF ast.vars[1] = StackArg(0) THEN "Shld"
                        ELSE IF ast.vars[2] = StackArg(0) THEN "Shrd" ELSE "Unknown"
<1>1. TryMatchVmDoubleShift(data) = {Found(data, Type(v.ast), v.size) : v \in Lowest(results)}
  BY Zenon DEF TryMatchVmDoubleShift
<1>2. w \in results
  OBVIOUS
<1>3. \A v \in results : v.addr = w.addr /\ v.size = w.size /\ v.ast = w.ast
  OBVIOUS
<1>4. Type(w.ast) # "Unknown"
  OBVIOUS
<1> HIDE DEF results, Type
<1>5. w \in Lowest(results)
  BY <1>2, <1>3, LowestOfOne
<1>6. TryMatchVmDoubleShift(data) # {}
  BY <1>1, <1>5
<1>7. ASSUME NEW m \in TryMatchVmDoubleShift(data)
      PROVE  Sized(data, m, w.size) /\ m.type # "Unknown"
  <2>1. PICK v \in Lowest(results) : m = Found(data, Type(v.ast), v.size)
    BY <1>1
  <2>2. v \in results
    BY DEF Lowest
  <2>3. v.size = w.size /\ v.ast = w.ast
    BY <1>3, <2>2
  <2>4. m = Found(data, Type(w.ast), w.size)
    BY <2>1, <2>3
  <2>5. m.type = Type(w.ast)
    <3>1. PICK type, size : type = Type(w.ast) /\ size = w.size
      OBVIOUS
    <3>2. m = Found(data, type, size)
      BY <2>4, <3>1, Zenon
    <3>3. Found(data, type, size).type = type
      BY DEF Found, NoMatch
    <3> QED  BY <3>1, <3>2, <3>3, Zenon
  <2>6. Sized(data, m, w.size)
    BY <2>4, FoundSized, Zenon
  <2> QED  BY <1>4, <2>5, <2>6
<1> QED  BY <1>6, <1>7

ShiftPairs == {<<"Shld", <<Mem(1), Mem(2)>>>>, <<"Shrd", <<Mem(2), Mem(1)>>>>}
DoubleShiftOf(op, d) ==
  WithFlags(op[1], d,
            <<Load(1, Vsp, d, 7), Load(2, Vsp + d, d, 7), Load(3, Vsp + 2 * d, 1, 1)>>,
            "or of shifts", op[2], 2 * d + 2, 7, 7)
LEMMA DoubleShiftsBuilt ==
  DoubleShifts = {DoubleShiftOf(op, d) : op \in ShiftPairs, d \in Widths \ {1}}
<1> DEFINE Ops == {<<"Shld", <<Mem(1), Mem(2)>>>>, <<"Shrd", <<Mem(2), Mem(1)>>>>}
           Built(op, d) ==
             WithFlags(op[1], d,
                       <<Load(1, Vsp, d, 7), Load(2, Vsp + d, d, 7), Load(3, Vsp + 2 * d, 1, 1)>>,
                       "or of shifts", op[2], 2 * d + 2, 7, 7)
<1>1. DoubleShifts = {Built(op, d) : op \in Ops, d \in Widths \ {1}}
  BY DEF DoubleShifts
<1>2. Ops = ShiftPairs
  BY DEF ShiftPairs
<1>3. \A op, d : Built(op, d) = DoubleShiftOf(op, d)
  BY DEF DoubleShiftOf
<1> HIDE DEF Built, Ops
<1> QED  BY <1>1, <1>2, <1>3

LEMMA DoubleShiftsFound ==
  ASSUME LoopInv, OnItsStack, inside, top < ImageBase, Vsp + 8 <= top, NEW h \in DoubleShifts,
         NEW data, NEW view, WholeSeen(h, data, view, Len(h.accesses))
  PROVE  /\ TryMatchVmDoubleShift(data) # {}
         /\ \A m \in TryMatchVmDoubleShift(data) : Sized(data, m, h.d) /\ m.type # "Unknown"
<1>01. PICK op \in ShiftPairs, d \in Widths \ {1} : h = DoubleShiftOf(op, d)
  BY DoubleShiftsBuilt
<1>1. h = WithFlags(op[1], d,
                    <<Load(1, Vsp, d, 7), Load(2, Vsp + d, d, 7), Load(3, Vsp + 2 * d, 1, 1)>>,
                    "or of shifts", op[2], 2 * d + 2, 7, 7)
  BY <1>01 DEF DoubleShiftOf
<1>2. PICK name, node, of, popped, a :
        /\ name = op[1] /\ node = "or of shifts" /\ of = op[2]
        /\ popped = 2 * d + 2 /\ a = 7
  OBVIOUS
<1>4. PICK x, y, z, loads :
        /\ x = Load(1, Vsp, d, 7) /\ y = Load(2, Vsp + d, d, 7) /\ z = Load(3, Vsp + 2 * d, 1, 1)
        /\ loads = <<x, y, z>>
        /\ h = WithFlags(name, d, loads, node, of, popped, a, a)
  BY <1>1, <1>2
<1>3. d = StackSize(d) /\ d \in {2, 4, 8}
  BY Widths1
<1>5. PICK at : at = Vsp + popped - d - 8
  OBVIOUS
<1>6. PICK result, push, pull, flags :
        /\ FlagParts(name, d, d, at, node, of, result, push, pull, flags)
        /\ Made(h, name, d, loads \o <<result, push, pull, flags>>, 4, popped - d - 8)
  <2>1. h = WithFlags(name, d, loads, node, of, popped, a, a)
    BY <1>4
  <2>2. d = StackSize(d)
    BY <1>3
  <2>3. IsFlagged(h, name, d, loads, node, of, popped, a, a, d, at)
    BY <1>5, <2>1, <2>2, WithFlagsMade, Zenon
  <2> QED  BY <2>3 DEF IsFlagged
<1>7. PICK L : L = {x, y, z}
  OBVIOUS
<1>8. x.kind = "read" /\ x.addr = Vsp /\ y.kind = "read" /\ y.addr = Vsp + d /\ z.kind = "read"
  <2>1. x = Load(1, Vsp, d, 7) /\ y = Load(2, Vsp + d, d, 7) /\ z = Load(3, Vsp + 2 * d, 1, 1)
    BY <1>4
  <2> QED  BY <2>1, LoadFields
<1>9. loads \in Seq(L) /\ \A u \in L : u.kind = "read"
  BY <1>4, <1>7, <1>8
<1>10. PICK fetch : /\ fetch.kind = "read"
                    /\ Ending(h, L, loads, result, push, pull, flags, fetch)
  <2>1. HasEnding(h, L, loads, result, push, pull, flags)
    BY <1>6, <1>9, MadeEnding, Zenon
  <2> QED  BY <2>1 DEF HasEnding
<1>11. at \in Int /\ Rsp \in Int /\ at + 8 # Rsp - 8
  <2>1. PICK v, c : /\ v = Vsp /\ c = Context /\ Rsp = c
                    /\ v \in Int /\ c \in Int /\ v >= c + 128
    BY StackPlaces
  <2>2. at = v + popped - d - 8 /\ popped = 2 * d + 2
    <3>1. at = Vsp + popped - d - 8
      BY <1>5
    <3>2. popped = 2 * d + 2
      BY <1>2
    <3> QED  BY <2>1, <3>1, <3>2
  <2> QED  BY <1>3, <2>1, <2>2
<1>12. /\ view.accesses = h.accesses /\ view.vsp = Vsp /\ view.rsp = Rsp
       /\ data.logicWrites = Recorded(view, "write", Len(h.accesses))
  BY DEF WholeSeen
<1>13. ResultOf(view, data.logicWrites, result)
  BY <1>6, <1>9, <1>10, <1>11, <1>12, ResultRecorded
<1>14. NameOf(view, Mem(1)) = StackArg(0) /\ NameOf(view, Mem(2)) = StackArg(d)
  <2>1. Len(loads) = 3 /\ loads[1] = x /\ loads[2] = y
    BY <1>4
  <2>2. h.accesses[1] = x /\ h.accesses[2] = y
    BY <1>10, <2>1 DEF Ending
  <2>3. view.accesses[1].addr = Vsp /\ view.accesses[2].addr = Vsp + d
    BY <1>8, <1>12, <2>2
  <2>4. d \in 1..8
    BY <1>3
  <2> QED  BY <1>12, <2>3, <2>4, TopName, AboveName
<1>15. PICK s, t : /\ of = <<s, t>>
                   /\ NameOf(view, s) # NoName /\ NameOf(view, t) # NoName
                   /\ StackArg(0) \in {NameOf(view, s), NameOf(view, t)}
  <2>1. op[2] = <<Mem(1), Mem(2)>> \/ op[2] = <<Mem(2), Mem(1)>>
    BY DEF ShiftPairs
  <2> QED  BY <1>2, <1>14, <2>1, NamesDiffer
<1>16. PICK names, ast : names = NamesOf(view, of) /\ ast = AstOf(view, result.from)
  OBVIOUS
<1>17. Len(names) = 2 /\ StackArg(0) \in {names[1], names[2]}
  <2>1. Len(names) = 2
    BY <1>15, <1>16, NamesOfBoth
  <2>2. names[1] = NameOf(view, s) /\ names[2] = NameOf(view, t)
    BY <1>15, <1>16, <2>1, NamesOfTwo
  <2> QED  BY <1>15, <2>1, <2>2
<1>18. ast.wrap = "" /\ ast.node = "or of shifts" /\ ast.vars = names
  <2>1. PICK wrap : wrap = WrapIn(d, "zx") /\ result.from = From(wrap, node, 0, of)
    BY <1>6 DEF FlagParts
  <2>2. PICK from : from = result.from /\ from = From(wrap, node, 0, of)
    BY <2>1
  <2>3. from.of = of /\ from.node = node /\ from.wrap = wrap /\ from.k = 0
    BY <2>2 DEF From
  <2>4. names # <<>>
    <3>1. 1 \in DOMAIN names
      BY <1>15, <1>16, NamesBegin
    <3> QED  BY <3>1
  <2>5. ast = Tree(wrap, node, names, 0)
    BY <1>16, <2>2, <2>3, <2>4 DEF AstOf
  <2>6. ast.node = node /\ ast.vars = names /\ ast.wrap = wrap
    BY <2>5 DEF Tree
  <2>7. wrap = ""
    BY <2>1 DEF WrapIn
  <2> QED  BY <1>2, <2>6, <2>7
<1>19. PICK w \in data.logicWrites : w.addr = result.addr /\ w.size = result.size /\ w.ast = ast
  BY <1>13, <1>16 DEF ResultOf, RecordOf
<1>20. ASSUME NEW v \in data.logicWrites, v.ast.node = "or of shifts"
       PROVE  v.addr = w.addr /\ v.size = w.size /\ v.ast = w.ast
  <2>1. RecordOf(view, "write", result, v)
    BY <1>13, <1>20 DEF ResultOf
  <2> QED  BY <1>16, <1>19, <2>1 DEF RecordOf
<1>21. w.addr \in Int /\ w.size = d /\ h.d = d
  <2>1. result.size = d /\ result.addr = at + 8
    BY <1>6 DEF FlagParts
  <2>2. h.d = d
    BY <1>6 DEF Made
  <2> QED  BY <1>11, <1>19, <2>1, <2>2
<1>22. /\ w.ast.wrap = "" /\ w.ast.node = "or of shifts" /\ Len(w.ast.vars) = 2
       /\ StackArg(0) \in {w.ast.vars[1], w.ast.vars[2]}
  BY <1>17, <1>18, <1>19
<1>23. /\ TryMatchVmDoubleShift(data) # {}
       /\ \A m \in TryMatchVmDoubleShift(data) : Sized(data, m, w.size) /\ m.type # "Unknown"
  BY <1>20, <1>21, <1>22, DoubleShiftShown
<1> QED  BY <1>21, <1>23

-----------------------------------------------------------------------------
LEMMA StraightNamed ==
  ASSUME LoopInv, OnItsStack, inside, RightRegisters, NEW h \in Straight,
         NEW left, left[vipOf] = Kept,
         NEW run, run = RunOf(h, vipOf, vspOf, Plus(Reg(vipOf), h.taken), h.vsp, left, Rsp),
         NEW n, n = Len(h.accesses),
         NEW m, m = MatchVmHandler(DataOf(run, n, TRUE))
  PROVE  Named(h, m)
<1>1. PICK data, view : data = DataOf(run, n, TRUE) /\ view = ViewOf(run)
  OBVIOUS
<1>2. PICK S : Seen(h, S, data, view)
  BY <1>1, WholeSeenSo, Zenon
<1>3. WholeSeen(h, data, view, Len(h.accesses))
  BY <1>2 DEF Seen
<1>4. /\ Vsp \in Int /\ Rsp \in Int /\ StartOf(vspReg) \in Int /\ ImageBase \in Int /\ top \in Int
  BY StackFacts, RegsAssumption DEF LoopInv
<1>5. Ordinary(h)
  BY <1>4, StraightOrdinary
<1>6. QuietRun(run, h.op, n)
  <2>1. run.accesses = h.accesses
    BY DEF RunOf
  <2> QED  BY <1>5, <2>1 DEF QuietRun, QuietSeq, Ordinary
<1>7. m.type \notin Control
  <2>1. \A i \in 1..n : i \in 1..Len(h.accesses)
    OBVIOUS
  <2> QED  BY <2>1, StraightVerdict
<1>8. m = MatchVmHandler(data)
  BY <1>1
<1>0. top >= ImageBase \/ top < ImageBase
  BY <1>4
<1>9. CASE m \in TryMatchVmPopReg(data)
  BY <1>2, <1>9, PopTaken DEF Named
<1>10. CASE m \in TryMatchVmPushConst(data)
  <2>1. /\ m.type = "PushConst"
        /\ \/ h.op = "PushConst"
           \/ /\ h.op = "PushReg" /\ h.change = -2
              /\ \E w \in data.logicWrites : GetUnderlyingVariable(w.ast) = {}
    BY <1>2, <1>10, PushConstTaken
  <2>2. CASE h.op = "PushConst"
    BY <2>1, <2>2 DEF Named
  <2>3. CASE h.op = "PushReg" /\ h.change = -2 /\ top >= ImageBase
    BY <2>1, <2>3 DEF Named
  <2>4. CASE h.op = "PushReg" /\ top < ImageBase
    <3>1. h \in PushRegs
      BY <2>4, Kinds
    <3>2. view.vsp = Vsp /\ view.rsp = Rsp /\ view.accesses = h.accesses
      BY <1>3 DEF WholeSeen
    <3>3. \A w \in Recorded(view, "write", Len(view.accesses)) : GetUnderlyingVariable(w.ast) # {}
      BY <2>4, <3>1, <3>2, PushRegNamed
    <3>4. data.logicWrites = Recorded(view, "write", Len(view.accesses))
      BY <1>3, <3>2 DEF WholeSeen
    <3>5. h.op # "PushConst"
      BY <2>4
    <3> QED  BY <2>1, <3>3, <3>4, <3>5
  <2> QED  BY <1>0, <2>1, <2>2, <2>3, <2>4, Zenon
<1>11. CASE m \in TryMatchVmPushReg(data)
  BY <1>2, <1>11, PushRegTaken DEF Named
<1>12. CASE m \in TryMatchVmPushVsp(data)
  BY <1>2, <1>12, PushVspTaken DEF Named
<1>13. CASE m \in TryMatchVmPopVsp(data)
  BY <1>2, <1>13, PopVspTaken DEF Named
<1>14. CASE m \in TryMatchVmReadMem(data)
  BY <1>2, <1>4, <1>14, ReadMemTaken DEF Named
<1>15. CASE m \in TryMatchVmWriteMem(data)
  BY <1>2, <1>15, WriteMemTaken DEF Named
<1>16. CASE m \in TryMatchVmDispatch(data)
  <2>1. /\ m.type = "Dispatch"
        /\ h.op = "Dispatch" \/ (h.change = 0 /\ h.d = 8 /\ h.op \in {"ReadMem"} \cup Flagged)
    BY <1>2, <1>16, DispatchTaken
  <2>2. TryMatchVmReadMem(data) = {} /\ TryMatchGenericVmAlu(data) = {}
    BY <1>8, <2>1, DispatchLate
  <2>3. h.op = "ReadMem" /\ h.d = 8 => h.a = Bytecode
    BY <1>3, <2>2, Kinds, ReadMemFound
  <2>4. top < ImageBase => ~(h.op \in Flagged /\ h.d = 8)
    BY <1>3, <2>2, Kinds, BinariesFound
  <2>5. CASE h.op = "Dispatch"
    BY <2>1, <2>5 DEF Named
  <2>6. CASE h.op = "ReadMem" /\ h.d = 8
    BY <2>1, <2>3, <2>6 DEF Named, ReadsNext
  <2>7. CASE h.op \in Flagged /\ h.d = 8 /\ h.change = 0
    <3>1. top >= ImageBase
      BY <1>0, <2>4, <2>7
    <3> QED  BY <2>1, <2>7, <3>1 DEF Named
  <2> QED  BY <2>1, <2>5, <2>6, <2>7
<1>17. CASE m \in TryMatchGenericVmAlu(data) \cup TryMatchVmDoubleShift(data)
  <2>1. h.op \in {"Shld", "Shrd"} => PairAt(run.accesses)
    <3>1. run.accesses = h.accesses
      BY DEF RunOf
    <3> QED  BY <1>5, <3>1 DEF Ordinary
  <2>2. PICK complete, op : complete \in BOOLEAN /\ complete = TRUE /\ op = h.op
    OBVIOUS
  <2>3. data = DataOf(run, n, complete)
    BY <1>1, <2>2
  <2>4. QuietRun(run, op, n) /\ (op \in {"Shld", "Shrd"} => PairAt(run.accesses))
    BY <1>6, <2>1, <2>2
  <2>5. m.type \in {op, "Unknown"}
    BY <1>17, <2>2, <2>3, <2>4, ArithmeticNamed
  <2> QED  BY <2>2, <2>5 DEF Named
<1>18. CASE m = NoMatch
  BY <1>18, ControlTypes DEF Named
<1>19. m \in Plain(data) \cup TryMatchGenericVmAlu(data) \cup TryMatchVmDoubleShift(data)
               \cup {NoMatch}
  <2>1. m \in TryMatchVmEntry(data) \cup Plain(data) \cup TryMatchGenericVmAlu(data)
               \cup TryMatchVmDoubleShift(data) \cup TryMatchVmJmpIndirectRemap(data)
               \cup TryMatchVmExit(data) \cup {NoMatch}
    BY <1>8, MatchFacts
  <2>2. /\ m \notin TryMatchVmEntry(data)
        /\ m \notin TryMatchVmJmpIndirectRemap(data)
        /\ m \notin TryMatchVmExit(data)
    BY <1>7, ControlTypes, ControlNames
  <2> QED  BY <2>1, <2>2
<1> QED
  BY <1>9, <1>10, <1>11, <1>12, <1>13, <1>14, <1>15, <1>16, <1>17, <1>18, <1>19 DEF Plain

-----------------------------------------------------------------------------
(* A run that enters, leaves or jumps: VIP is not moved by an integer, and *)
(* VSP is not popped.                                                      *)
LEMMA NothingPlain ==
  ASSUME NEW data, \A ast \in data.vipAst : GetAddImmediate(ast, VIP) = {},
         \A ast \in data.vspAst : ~IsVariable(ast, StackArg(0)),
         TryMatchVmReadMem(data) = {}
  PROVE  Plain(data) = {}
<1>1. Deltas(data) = {}
  <2> SUFFICES ASSUME NEW delta \in Deltas(data) PROVE FALSE
    OBVIOUS
  <2>1. delta \in UNION {GetAddImmediate(vip, VIP) \X GetAddImmediate(vsp, VSP) :
                           vip \in data.vipAst, vsp \in data.vspAst}
    BY DEF Deltas
  <2>2. PICK vip \in data.vipAst, vsp \in data.vspAst :
          delta \in GetAddImmediate(vip, VIP) \X GetAddImmediate(vsp, VSP)
    BY <2>1
  <2>3. delta \in {} \X GetAddImmediate(vsp, VSP)
    BY <2>2
  <2> QED  BY <2>3
<1>2. TryMatchVmPopReg(data) = {}
  BY <1>1, PopRegSeen
<1>3. TryMatchVmPushConst(data) = {}
  BY <1>1, PushConstSeen
<1>4. TryMatchVmPushReg(data) = {}
  BY <1>1, PushRegSeen
<1>5. TryMatchVmPushVsp(data) = {}
  <2> SUFFICES ASSUME NEW m \in TryMatchVmPushVsp(data) PROVE FALSE
    OBVIOUS
  <2>1. \E x \in data.logicWrites : x.addr \in {data.vsp.start + delta[2] :
                 delta \in {x2 \in Deltas(data) : Abs(x2[1]) = 4 /\ x2[2] \in -8..-1}}
    BY DEF TryMatchVmPushVsp
  <2> QED  BY <1>1, <2>1
<1>6. TryMatchVmPopVsp(data) = {}
  BY PopVspSeen
<1>7. TryMatchVmWriteMem(data) = {}
  BY <1>1, WriteMemSeen
<1>8. TryMatchVmDispatch(data) = {}
  BY DispatchSeen
<1> QED  BY <1>2, <1>3, <1>4, <1>5, <1>6, <1>7, <1>8 DEF Plain

LEMMA Finals ==
  ASSUME NEW run, NEW n
  PROVE  /\ \A ast \in DataOf(run, n, TRUE).vipAst :
              vipReg # NoReg /\ ast = AstOf(ViewOf(run), run.final[vipReg])
         /\ \A ast \in DataOf(run, n, TRUE).vspAst :
              vspReg # NoReg /\ ast = AstOf(ViewOf(run), run.final[vspReg])
BY DEF DataOf, Emulate, ViewOf, StartOf

LEMMA NoWriteNoRead ==
  ASSUME NEW data, data.logicWrites = {} PROVE TryMatchVmReadMem(data) = {}
BY ReadMemSeen

(* What the match of such a run can be.                                    *)
LEMMA ControlNamed ==
  ASSUME LoopInv, NEW run, NEW op, NEW n, QuietRun(run, op, n), op \notin {"Shld", "Shrd"},
         NEW data, data = DataOf(run, n, TRUE), Plain(data) = {},
         NEW m, m = MatchVmHandler(data), m.type \in Control => m.type = op
  PROVE  m.type \in {op, "Unknown"}
<1>1. m \in TryMatchVmEntry(data) \cup Plain(data) \cup TryMatchGenericVmAlu(data)
              \cup TryMatchVmDoubleShift(data) \cup TryMatchVmJmpIndirectRemap(data)
              \cup TryMatchVmExit(data) \cup {NoMatch}
  BY MatchFacts
<1>2. CASE m \in TryMatchVmEntry(data) \cup TryMatchVmJmpIndirectRemap(data) \cup TryMatchVmExit(data)
  BY <1>2, ControlTypes, ControlNames
<1>3. CASE m \in TryMatchGenericVmAlu(data) \cup TryMatchVmDoubleShift(data)
  <2>1. PICK complete \in BOOLEAN : complete = TRUE
    OBVIOUS
  <2>2. data = DataOf(run, n, complete)
    BY <2>1
  <2>3. op \in {"Shld", "Shrd"} => PairAt(run.accesses)
    OBVIOUS
  <2> QED  BY <1>3, <2>2, <2>3, ArithmeticNamed
<1>4. CASE m = NoMatch
  BY <1>4, ControlTypes
<1> QED  BY <1>1, <1>2, <1>3, <1>4

(* A final value by which neither VIP moves nor VSP is popped.             *)
Inert(view, from) ==
  /\ GetAddImmediate(AstOf(view, from), VIP) = {}
  /\ ~IsVariable(AstOf(view, from), StackArg(0))

LEMMA InertOf ==
  ASSUME NEW view, NEW from, NEW source, from.of = <<source>>,
         from.node = "bvadd" => NameOf(view, source) # VIP,
         from.node = "var" => NameOf(view, source) # StackArg(0)
  PROVE  Inert(view, from)
<1>1. GetAddImmediate(AstOf(view, from), VIP) = {}
  <2> SUFFICES ASSUME NEW k \in GetAddImmediate(AstOf(view, from), VIP) PROVE FALSE
    OBVIOUS
  <2>1. from.node = "bvadd" /\ NameOf(view, source) = VIP
    BY AddedTo
  <2> QED  BY <2>1
<1>2. ~IsVariable(AstOf(view, from), StackArg(0))
  <2> SUFFICES ASSUME IsVariable(AstOf(view, from), StackArg(0)) PROVE FALSE
    OBVIOUS
  <2>1. from.node = "var" /\ StackArg(0) = NameOf(view, source)
    BY VariableShown
  <2> QED  BY <2>1
<1> QED  BY <1>1, <1>2 DEF Inert

LEMMA InertKnown ==
  ASSUME NEW view PROVE Inert(view, Known)
<1>1. GetAddImmediate(AstOf(view, Known), VIP) = {}
  BY NothingAddedToKnown
<1>2. ~IsVariable(AstOf(view, Known), StackArg(0))
  <2> SUFFICES ASSUME IsVariable(AstOf(view, Known), StackArg(0)) PROVE FALSE
    OBVIOUS
  <2>1. PICK from : from = Known
    OBVIOUS
  <2>2. from.node = "var"
    BY <2>1, VariableShown
  <2> QED  BY <2>1, <2>2, Sources
<1> QED  BY <1>1, <1>2 DEF Inert

LEMMA InertCopy ==
  ASSUME NEW run, NEW q PROVE Inert(ViewOf(run), Copy(Reg(q)))
<1>1. PICK from, source, view : from = Copy(source) /\ source = Reg(q) /\ view = ViewOf(run)
  OBVIOUS
<1>2. from.of = <<source>> /\ from.node = "var"
  BY <1>1, Sources
<1>3. NameOf(view, source) # StackArg(0)
  <2>1. NameOf(ViewOf(run), Reg(q)) \in {VSP, VIP, NoName}
    BY SourceNames
  <2> QED  BY <1>1, <2>1, SourceNames
<1>4. Inert(view, from)
  BY <1>2, <1>3, InertOf
<1> QED  BY <1>1, <1>4

LEMMA InertData ==
  ASSUME NEW run, NEW n, NEW data, data = DataOf(run, n, TRUE),
         vipReg # NoReg => Inert(ViewOf(run), run.final[vipReg]),
         vspReg # NoReg => Inert(ViewOf(run), run.final[vspReg]),
         TryMatchVmReadMem(data) = {}
  PROVE  Plain(data) = {}
<1>1. ASSUME NEW ast \in data.vipAst PROVE GetAddImmediate(ast, VIP) = {}
  <2>1. vipReg # NoReg /\ ast = AstOf(ViewOf(run), run.final[vipReg])
    BY <1>1, Finals
  <2> QED  BY <2>1 DEF Inert
<1>2. ASSUME NEW ast \in data.vspAst PROVE ~IsVariable(ast, StackArg(0))
  <2>1. vspReg # NoReg /\ ast = AstOf(ViewOf(run), run.final[vspReg])
    BY <1>2, Finals
  <2> QED  BY <2>1 DEF Inert
<1> QED  BY <1>1, <1>2, NothingPlain

LEMMA MovedBy ==
  \A source, k : k # 0 => Plus(source, k).node = "bvadd"
BY DEF Plus, Copy, From

LEMMA ExitNamed ==
  ASSUME LoopInv, inside, RightRegisters, NEW left \in [Regs -> Junks], NEW rspEnd,
         NEW run, run = RunOf(Exits, NoReg, NoReg, Known, Known, left, rspEnd),
         NEW n, n = Len(Exits.accesses),
         NEW m, m = MatchVmHandler(DataOf(run, n, TRUE))
  PROVE  m.type \in {Exits.op, "Unknown"}
<1>1. Vsp \in Int
  BY StackFacts
<1>2. /\ run.accesses = Exits.accesses
      /\ \A r \in Regs : run.final[r] = Known
  <2>1. \A r \in Regs : left[r] # CopyOfVsp /\ left[r] # Kept /\ r # NoReg
    BY RegsAssumption DEF Junks, CopyOfVsp, Kept, NoReg
  <2> QED  BY <2>1 DEF RunOf
<1>3. n = 17
  BY <1>1, ExitAccesses
<1>4. PICK data : data = DataOf(run, n, TRUE)
  OBVIOUS
<1>5. data.logicWrites = {}
  <2> SUFFICES ASSUME NEW w \in data.logicWrites PROVE FALSE
    OBVIOUS
  <2>1. PICK view, kind : view = ViewOf(run) /\ kind = "write"
    OBVIOUS
  <2>2. w \in Recorded(view, kind, n)
    BY <1>4, <2>1, DataAccesses
  <2>3. PICK i \in 1..n : view.accesses[i].kind = kind
    BY <2>2, RecordedFacts
  <2>4. view.accesses = Exits.accesses
    BY <1>2, <2>1 DEF ViewOf
  <2> QED  BY <1>1, <1>3, <2>1, <2>3, <2>4, ExitAccesses
<1>6. vipReg \in Regs /\ vspReg \in Regs
  BY DEF LoopInv, RightRegisters
<1>7. Plain(data) = {}
  <2>1. TryMatchVmReadMem(data) = {}
    BY <1>5, NoWriteNoRead
  <2>2. Inert(ViewOf(run), run.final[vipReg]) /\ Inert(ViewOf(run), run.final[vspReg])
    BY <1>2, <1>6, InertKnown
  <2> QED  BY <1>4, <2>1, <2>2, InertData
<1>8. m \in TryMatchVmEntry(data) \cup Plain(data) \cup TryMatchGenericVmAlu(data)
              \cup TryMatchVmDoubleShift(data) \cup TryMatchVmJmpIndirectRemap(data)
              \cup TryMatchVmExit(data) \cup {NoMatch}
  BY <1>4, MatchFacts, Zenon
<1>9. m \notin TryMatchGenericVmAlu(data) /\ m \notin TryMatchVmDoubleShift(data)
  BY <1>5, AluTypes, DoubleShiftTypes
<1>10. m.type \in Control => m.type = "Exit"
  <2>1. \A i \in 1..n : i \in 1..17
    BY <1>3
  <2>2. PICK complete \in BOOLEAN : complete = TRUE
    OBVIOUS
  <2>3. n \in Int /\ m = MatchVmHandler(DataOf(run, n, complete))
    BY <1>3, <2>2
  <2>4. m.type \in Control => m.type = "Exit" \/ (m.type = "Crash" /\ ~complete)
    BY <2>1, <2>3, ExitVerdict
  <2> QED  BY <2>2, <2>4
<1>11. CASE m = NoMatch
  BY <1>11, ControlTypes
<1>12. CASE m \in TryMatchVmEntry(data) \cup TryMatchVmJmpIndirectRemap(data) \cup TryMatchVmExit(data)
  <2>1. m.type \in Control
    BY <1>12, ControlTypes, ControlNames
  <2>2. Exits.op = "Exit"
    BY <1>1, ExitAccesses
  <2> QED  BY <1>10, <2>1, <2>2
<1> QED  BY <1>7, <1>8, <1>9, <1>11, <1>12

LEMMA JumpNamed ==
  ASSUME LoopInv, inside, RightRegisters,
         NEW newVip \in Regs, NEW newVsp \in Regs, newVip # newVsp,
         NEW left, left[newVsp] = Kept, left[newVip] = Kept,
         NEW h, h = Jumps(newVip),
         NEW run, run = RunOf(h, newVip, newVsp, Plus(Mem(1), 4), Plus(Reg(vspOf), 8), left, Rsp),
         NEW n, \A i \in 1..n : i \in 1..Len(h.accesses), NEW complete \in BOOLEAN, complete,
         NEW m, m = MatchVmHandler(DataOf(run, n, complete)), m.type \in Control => m.type = "Jmp"
  PROVE  m.type \in {h.op, "Unknown"}
<1>1. h.op = "Jmp" /\ h.change = 8 /\ QuietSeq(h.accesses, "Jmp")
  BY JumpAccesses
<1>2. run.accesses = h.accesses
  BY DEF RunOf
<1>3. QuietRun(run, "Jmp", n)
  BY <1>1, <1>2 DEF QuietRun, QuietSeq
<1>4. PICK data, view : /\ data = DataOf(run, n, TRUE) /\ view = ViewOf(run)
                        /\ m = MatchVmHandler(data)
  <2>1. complete = TRUE
    OBVIOUS
  <2> QED  BY <2>1
<1>5. /\ vipReg \in Regs /\ vspReg \in Regs /\ vipReg = vipOf /\ vspReg = vspOf
      /\ vipReg # vspReg
  BY DEF LoopInv, RightRegisters
<1>6. NameOf(view, Reg(vspOf)) # VIP
  <2>1. view.vspReg = vspOf
    BY <1>4, <1>5 DEF ViewOf
  <2>2. Reg(vspOf)[1] = "reg" /\ Reg(vspOf)[2] = vspOf
    BY DEF Reg
  <2>3. NameOf(view, Reg(vspOf)) = VSP
    BY <2>1, <2>2 DEF NameOf
  <2> QED  BY <2>3, SourceNames
<1>7. NameOf(view, Mem(1)) # VIP
  <2>1. Mem(1)[1] = "mem" /\ Mem(1)[2] = 1
    BY DEF Mem
  <2>2. NameOf(view, Mem(1)) = SymbolOf(view.accesses[1].addr, view.vsp, view.rsp)
    BY <2>1 DEF NameOf
  <2>3. \A k : VmReg(k) # VIP /\ StackArg(k) # VIP
    BY DEF VmReg, StackArg, VIP
  <2>4. NoName # VIP
    BY DEF NoName, VIP
  <2>5. PICK addr, vsp, rsp : /\ addr = view.accesses[1].addr /\ vsp = view.vsp /\ rsp = view.rsp
    OBVIOUS
  <2>6. SymbolOf(addr, vsp, rsp) # VIP
    BY <2>3, <2>4 DEF SymbolOf
  <2> QED  BY <2>2, <2>5, <2>6
<1>8. ASSUME NEW r \in Regs PROVE Inert(view, run.final[r])
  <2>1. run.final[r] \in {Plus(Reg(vspOf), 8), Plus(Mem(1), 4), Copy(Reg(r)), Known}
    BY DEF RunOf
  <2>2. CASE run.final[r] = Plus(Reg(vspOf), 8)
    <3>1. run.final[r].of = <<Reg(vspOf)>> /\ run.final[r].node = "bvadd"
      BY <2>2, MovedBy, Sources
    <3> QED  BY <1>6, <3>1, InertOf
  <2>3. CASE run.final[r] = Plus(Mem(1), 4)
    <3>1. run.final[r].of = <<Mem(1)>> /\ run.final[r].node = "bvadd"
      BY <2>3, MovedBy, Sources
    <3> QED  BY <1>7, <3>1, InertOf
  <2>4. Inert(view, Copy(Reg(r))) /\ Inert(view, Known)
    BY <1>4, InertCopy, InertKnown
  <2> QED  BY <2>1, <2>2, <2>3, <2>4
<1>9. data.logicWrites = {}
  <2> SUFFICES ASSUME NEW w \in data.logicWrites PROVE FALSE
    OBVIOUS
  <2>1. PICK kind : kind = "write"
    OBVIOUS
  <2>2. w \in Recorded(view, kind, n)
    BY <1>4, <2>1, DataAccesses
  <2>3. PICK i \in 1..n : view.accesses[i].kind = kind
    BY <2>2, RecordedFacts
  <2>4. view.accesses = h.accesses
    BY <1>2, <1>4 DEF ViewOf
  <2>5. PICK x, y : x = Load(1, Vsp, 8, Bytecode) /\ y = Fetch(2, newVip) /\ h.accesses = <<x, y>>
    BY DEF Jumps
  <2>6. x.kind = "read" /\ y.kind = "read"
    BY <2>5, LoadFields, FetchFields
  <2>7. h.accesses[i] \in {x, y}
    BY <2>5
  <2> QED  BY <2>1, <2>3, <2>4, <2>6, <2>7
<1>10. Plain(data) = {}
  <2>1. TryMatchVmReadMem(data) = {}
    BY <1>9, NoWriteNoRead
  <2>2. Inert(ViewOf(run), run.final[vipReg]) /\ Inert(ViewOf(run), run.final[vspReg])
    BY <1>4, <1>5, <1>8
  <2> QED  BY <1>4, <2>1, <2>2, InertData
<1>11. PICK op : op = "Jmp"
  OBVIOUS
<1>12. m.type \in {op, "Unknown"}
  <2>1. QuietRun(run, op, n) /\ op \notin {"Shld", "Shrd"} /\ (m.type \in Control => m.type = op)
    BY <1>3, <1>11
  <2>2. m = MatchVmHandler(data)
    BY <1>4
  <2> QED  BY <1>4, <1>10, <2>1, <2>2, ControlNamed
<1> QED  BY <1>1, <1>11, <1>12

(* An entry reads the bytecode and, if it ends with one, what it returns to.*)
EntryRead(a) ==
  a.kind = "read" => \/ a.size = 4 /\ a.addr = Bytecode
                     \/ a.size = 8 /\ a.addr = Context - 8 /\ a.value = 1

LEMMA EntryReads ==
  ASSUME NEW newVip, NEW viaRet \in BOOLEAN, NEW h, h = Entries(newVip, viaRet)
  PROVE  \A i \in 1..Len(h.accesses) : EntryRead(h.accesses[i])
<1> DEFINE Instruction(i) == CASE i = 1 -> "push imm" [] i = 2 -> "call imm"
                               [] i = EntryPushes - 1 -> "pushfq" [] OTHER -> "push"
           Push(i) == By(Store(top - 8 * i, 8, i, Known), Instruction(i))
<1>1. PICK pushes, fetch, store, load, tail :
        /\ pushes = [i \in 1..EntryPushes |-> Push(i)]
        /\ fetch = Fetch(EntryPushes + 1, newVip)
        /\ store = By(Store(Context - 8, 8, 1, Known), "push")
        /\ load = By(Load(EntryPushes + 3, Context - 8, 8, 1), "ret")
        /\ tail = IF viaRet THEN <<store, load>> ELSE <<>>
  OBVIOUS
<1>2. h.accesses = pushes \o <<fetch>> \o tail
  BY <1>1 DEF Entries
<1>3. \A addr, size, value, instruction :
        EntryRead(By(Store(addr, size, value, Known), instruction))
  <2> SUFFICES ASSUME NEW addr, NEW size, NEW value, NEW instruction
               PROVE  EntryRead(By(Store(addr, size, value, Known), instruction))
    OBVIOUS
  <2>1. PICK a : a = By(Store(addr, size, value, Known), instruction)
    OBVIOUS
  <2>2. a.kind = "write"
    BY <2>1, PushedFields
  <2> QED  BY <2>1, <2>2 DEF EntryRead
<1>4. \A i \in 1..EntryPushes : EntryRead(Push(i))
  BY <1>3
<1>5. EntryRead(store)
  BY <1>1, <1>3
<1>6. EntryRead(fetch)
  <2>1. fetch.size = 4 /\ fetch.addr = Bytecode
    BY <1>1, FetchFields
  <2> QED  BY <2>1 DEF EntryRead
<1>7. EntryRead(load)
  <2>1. PICK a : a = Load(EntryPushes + 3, Context - 8, 8, 1)
    OBVIOUS
  <2>2. a.size = 8 /\ a.addr = Context - 8 /\ a.value = 1
    BY <2>1, LoadFields
  <2>3. load.size = a.size /\ load.addr = a.addr /\ load.value = a.value
    BY <1>1, <2>1 DEF By, Load, Access
  <2> QED  BY <2>2, <2>3 DEF EntryRead
<1>8. PICK S : S = {Push(i) : i \in 1..EntryPushes} \cup {fetch, store, load}
  OBVIOUS
<1>9. \A a \in S : EntryRead(a)
  <2> HIDE DEF Push
  <2> QED  BY <1>4, <1>5, <1>6, <1>7, <1>8
<1>10. h.accesses \in Seq(S)
  <2>1. pushes \in [1..EntryPushes -> S] /\ EntryPushes \in Nat
    <3> HIDE DEF Push
    <3> QED  BY <1>1, <1>8 DEF EntryPushes
  <2>2. pushes \in Seq(S)
    BY <2>1, SeqDef
  <2>3. <<fetch>> \in Seq(S) /\ tail \in Seq(S)
    <3>1. fetch \in S /\ store \in S /\ load \in S
      BY <1>8
    <3> HIDE DEF Push
    <3> QED  BY <1>1, <3>1
  <2>4. pushes \o <<fetch>> \in Seq(S)
    BY <2>2, <2>3, ConcatProperties
  <2>5. pushes \o <<fetch>> \o tail \in Seq(S)
    BY <2>3, <2>4, ConcatProperties
  <2> QED  BY <1>2, <2>5
<1> QED  BY <1>9, <1>10, ElementOfSeq

LEMMA EntryNamed ==
  ASSUME LoopInv, OnItsStack, RightRegisters, NEW newVip, NEW newVsp, NEW left,
         NEW h, h.op = "Entry", \A i \in 1..Len(h.accesses) : Quiet(h.accesses[i], "Entry"),
         \A i \in 1..Len(h.accesses) : EntryRead(h.accesses[i]),
         NEW rspEnd,
         NEW run, run = RunOf(h, newVip, newVsp, Known, Plus(<<"rsp", 0>>, h.change), left, rspEnd),
         NEW n, \A i \in 1..n : i \in 1..Len(h.accesses), NEW complete \in BOOLEAN, complete,
         NEW m, m = MatchVmHandler(DataOf(run, n, complete)), m.type \in Control => m.type = "Entry"
  PROVE  m.type \in {h.op, "Unknown"}
<1>1. run.accesses = h.accesses
  BY DEF RunOf
<1>2. QuietRun(run, "Entry", n)
  BY <1>1 DEF QuietRun
<1>3. PICK data, view : /\ data = DataOf(run, n, TRUE) /\ view = ViewOf(run)
                        /\ m = MatchVmHandler(data)
  <2>1. complete = TRUE
    OBVIOUS
  <2> QED  BY <2>1
<1>4. vipReg \in Regs \cup {NoReg} /\ vspReg \in Regs \cup {NoReg}
  BY DEF LoopInv, RightRegisters
<1>5. ASSUME NEW r \in Regs PROVE Inert(view, run.final[r])
  <2>1. run.final[r] \in {Plus(<<"rsp", 0>>, h.change), Copy(Reg(r)), Known}
    BY DEF RunOf
  <2>2. CASE run.final[r] = Plus(<<"rsp", 0>>, h.change)
    <3>1. run.final[r].of = <<<<"rsp", 0>>>>
      BY <2>2, Sources
    <3>2. NameOf(view, <<"rsp", 0>>) \notin {VIP, StackArg(0)}
      BY <1>3, SourceNames
    <3> QED  BY <3>1, <3>2, InertOf
  <2>3. Inert(view, Copy(Reg(r))) /\ Inert(view, Known)
    BY <1>3, InertCopy, InertKnown
  <2> QED  BY <2>1, <2>2, <2>3
<1>6. TryMatchVmReadMem(data) = {}
  <2> SUFFICES ASSUME TryMatchVmReadMem(data) # {} PROVE FALSE
    OBVIOUS
  <2>1. PICK p \in data.logicReads, r \in data.logicReads : p.size = 8 /\ r.addr = p.value
    BY ReadMemSeen
  <2>2. \A x \in data.logicReads : /\ x.size = 4 \/ (x.size = 8 /\ x.value = 1)
                                   /\ x.addr = Bytecode \/ x.addr = Context - 8
    <3> SUFFICES ASSUME NEW x \in data.logicReads
                 PROVE  /\ x.size = 4 \/ (x.size = 8 /\ x.value = 1)
                        /\ x.addr = Bytecode \/ x.addr = Context - 8
      OBVIOUS
    <3>1. PICK kind : kind = "read"
      OBVIOUS
    <3>2. x \in Recorded(view, kind, n)
      BY <1>3, <3>1, DataAccesses
    <3>3. PICK i \in 1..n : LET a == view.accesses[i]
                            IN a.kind = kind /\ x.addr = a.addr /\ x.size = a.size /\ x.value = a.value
      BY <3>2 DEF Recorded
    <3>4. view.accesses = h.accesses
      BY <1>1, <1>3 DEF ViewOf
    <3>5. EntryRead(h.accesses[i])
      OBVIOUS
    <3> QED  BY <3>1, <3>3, <3>4, <3>5 DEF EntryRead
  <2>3. r.addr = 1
    BY <2>1, <2>2
  <2>4. Context \in Int /\ Context >= 1024 /\ Bytecode >= 1000 /\ Bytecode \in Int
    BY StackFacts, RegsAssumption DEF OnItsStack, Bytecode
  <2> QED  BY <2>2, <2>3, <2>4
<1>7. Plain(data) = {}
  <2>1. /\ vipReg # NoReg => Inert(ViewOf(run), run.final[vipReg])
        /\ vspReg # NoReg => Inert(ViewOf(run), run.final[vspReg])
    BY <1>3, <1>4, <1>5
  <2> QED  BY <1>3, <1>6, <2>1, InertData
<1>8. PICK op : op = "Entry"
  OBVIOUS
<1>9. m.type \in {op, "Unknown"}
  <2>1. QuietRun(run, op, n) /\ op \notin {"Shld", "Shrd"} /\ (m.type \in Control => m.type = op)
    BY <1>2, <1>8
  <2> QED  BY <1>3, <1>7, <2>1, ControlNamed, ZenonT(60)
<1> QED  BY <1>8, <1>9

-----------------------------------------------------------------------------
(* A step of main, of which only a whole emulation counts.                 *)
MatchedWhole(h, run, m) ==
  /\ m = MatchVmHandler(DataOf(run, Len(h.accesses), TRUE))
  /\ last'.op = h.op /\ last'.d = h.d /\ last'.change = h.change
  /\ last'.a = h.a /\ last'.b = h.b /\ last'.vsp = Vsp
  /\ last'.type = m.type /\ last'.depth = m.depth
  /\ last'.moved = h.moved /\ last'.recorded = m.vspAfter - m.vspBefore
  /\ RightRegisters

LEMMA WholeRound ==
  ASSUME NEW h, NEW run, Rounds(h, run), Whole'
  PROVE  \E m : MatchedWhole(h, run, m)
<1>1. PICK n, complete :
        /\ MatchBlock(h, run, n, complete)
        /\ complete = FALSE \/ (complete = TRUE /\ n = Len(h.accesses))
  <2>1. CASE MatchBlock(h, run, Len(h.accesses), TRUE)
    BY <2>1
  <2>2. CASE \E n \in Cuts(Len(h.accesses)) : MatchBlock(h, run, n, FALSE)
    BY <2>2
  <2> QED  BY <2>1, <2>2 DEF Rounds
<1>2. PICK m : m = MatchVmHandler(DataOf(run, n, complete))
  OBVIOUS
<1>3. /\ last'.op = h.op /\ last'.d = h.d /\ last'.change = h.change
      /\ last'.a = h.a /\ last'.b = h.b /\ last'.vsp = Vsp
      /\ last'.type = m.type /\ last'.depth = m.depth
      /\ last'.moved = h.moved /\ last'.recorded = m.vspAfter - m.vspBefore
      /\ last'.complete = complete /\ last'.right = RightRegisters
  BY <1>1, <1>2 DEF MatchBlock, DataOf
<1>4. last'.complete /\ last'.right
  BY DEF Whole
<1>5. complete = TRUE /\ n = Len(h.accesses)
  BY <1>1, <1>3, <1>4
<1>6. RightRegisters
  BY <1>3, <1>4
<1> QED  BY <1>2, <1>3, <1>5, <1>6 DEF MatchedWhole

-----------------------------------------------------------------------------
(* One of the recognisers finds the handler, and one that finds it by its  *)
(* name finds its operand size.                                            *)
Fits(data, op, d) ==
  /\ Tries(data) # {}
  /\ \A m : TypeTells(data, m) /\ m.type = op => Sized(data, m, d)

LEMMA SystemReads ==
  ASSUME NEW run, NEW n
  PROVE  DataOf(run, n, TRUE).systemReads = run.moved
BY DEF DataOf, Emulate

LEMMA PopVspMoved ==
  \A h \in PopVsps : h.moved \in {0, 256}
<1> SUFFICES ASSUME NEW h \in PopVsps PROVE h.moved \in {0, 256}
  OBVIOUS
<1>1. PICK moved \in {0, 256} :
        h = [Native("PopVsp", 8, <<Load(1, Vsp, 8, Vsp + 16)>>, 4, 16)
               EXCEPT !.vsp = Copy(Mem(1)), !.moved = moved]
  BY DEF PopVsps
<1>2. PICK g : g = Native("PopVsp", 8, <<Load(1, Vsp, 8, Vsp + 16)>>, 4, 16)
  OBVIOUS
<1>3. PICK k, from : from = Copy(Mem(1)) /\ k = [g EXCEPT !.vsp = from] /\ h = [k EXCEPT !.moved = moved]
  BY <1>1, <1>2
<1>4. "moved" \in DOMAIN k
  BY <1>2, <1>3 DEF Native
<1> QED  BY <1>3, <1>4

(* What is left out: a read of the next opcode, a narrow read of the slot  *)
(* that holds the address, a change of VSP that does not move the context. *)
Telling(h) ==
  /\ ~(ReadsNext(h) /\ h.d # 4)
  /\ ~(h.op = "ReadMem" /\ h.a = Vsp /\ h.d < 8)
  /\ ~(h.op = "PopVsp" /\ h.moved = 0)

LEMMA StraightFits ==
  ASSUME LoopInv, OnItsStack, inside, top < ImageBase, Vsp + 8 <= top,
         NEW h \in Straight, Telling(h),
         NEW S, NEW data, NEW view, Seen(h, S, data, view), data.systemReads = h.moved
  PROVE  Fits(data, h.op, h.d)
<1>1. WholeSeen(h, data, view, Len(h.accesses))
  BY DEF Seen
<1>2. CASE h \in Pops
  <2>1. h.op = "Pop"
    BY <1>2, PopDistinct, Zenon
  <2>2. TryMatchVmPopReg(data) # {} /\ \A m \in TryMatchVmPopReg(data) : Sized(data, m, h.d)
    BY <1>2, PopFound, Zenon
  <2> QED  BY <2>1, <2>2, Zenon DEF Fits, Tries, Plain, TypeTells
<1>3. CASE h \in PushRegs
  <2>1. h.op = "PushReg"
    BY <1>3, PushRegDistinct, Zenon
  <2>2. TryMatchVmPushReg(data) # {} /\ \A m \in TryMatchVmPushReg(data) : Sized(data, m, h.d)
    BY <1>3, PushRegFound, Zenon
  <2> QED  BY <2>1, <2>2, Zenon DEF Fits, Tries, Plain, TypeTells
<1>4. CASE h \in PushConsts
  <2>1. h.op = "PushConst"
    BY <1>4, PushConstDistinct, Zenon
  <2>2. TryMatchVmPushConst(data) # {} /\ \A m \in TryMatchVmPushConst(data) : Sized(data, m, h.d)
    BY <1>4, PushConstFound, Zenon
  <2> QED  BY <2>1, <2>2, Zenon DEF Fits, Tries, Plain, TypeTells
<1>5. CASE h \in PushVsps
  <2>1. h.op = "PushVsp"
    BY <1>5, PushVspDistinct, Zenon
  <2>2. TryMatchVmPushVsp(data) # {} /\ \A m \in TryMatchVmPushVsp(data) : Sized(data, m, h.d)
    BY <1>5, PushVspFound, Zenon
  <2> QED  BY <2>1, <2>2, Zenon DEF Fits, Tries, Plain, TypeTells
<1>6. CASE h \in PopVsps
  <2>1. h.op = "PopVsp"
    BY <1>6, PopVspDistinct, Zenon
  <2>2. h.moved = 256
    BY <1>6, <2>1, PopVspMoved DEF Telling
  <2>3. h.moved # 0 /\ data.systemReads >= 256
    BY <2>2
  <2>4. TryMatchVmPopVsp(data) # {} /\ \A m \in TryMatchVmPopVsp(data) : Sized(data, m, h.d)
    BY <1>6, <2>3, PopVspFound
  <2> QED  BY <2>1, <2>4, Zenon DEF Fits, Tries, Plain, TypeTells
<1>7. CASE h \in Nops
  <2>1. h.op = "Dispatch"
    BY <1>7, NopDistinct, Zenon
  <2>2. TryMatchVmDispatch(data) # {} /\ \A m \in TryMatchVmDispatch(data) : Sized(data, m, h.d)
    BY <1>7, NopFound, Zenon
  <2> QED  BY <2>1, <2>2, Zenon DEF Fits, Tries, Plain, TypeTells
<1>8. CASE h \in ReadMems
  <2>1. h.op = "ReadMem"
    BY <1>8, ReadMemDistinct, Zenon
  <2>4. h.a # Bytecode \/ h.d = 4
    BY <2>1 DEF Telling, ReadsNext
  <2>3. h.a # Vsp \/ h.d = 8
    <3>1. PICK d, a, pointer, load, store : ReadMemParts(h, d, a, pointer, load, store)
      BY <1>8, ReadMemMade
    <3>2. d \in Widths /\ Made(h, "ReadMem", d, <<pointer, load, store>>, 4, 8 - StackSize(d))
      BY <3>1 DEF ReadMemParts
    <3>3. h.d \in {1, 2, 4, 8}
      BY <3>2, Widths1 DEF Made
    <3> QED  BY <2>1, <3>3 DEF Telling
  <2>2. TryMatchVmReadMem(data) # {} /\ \A m \in TryMatchVmReadMem(data) : Sized(data, m, h.d)
    BY <1>1, <1>8, <2>3, <2>4, ReadMemFound
  <2> QED  BY <2>1, <2>2, Zenon DEF Fits, Tries, Plain, TypeTells
<1>9. CASE h \in WriteMems
  <2>1. h.op = "WriteMem"
    BY <1>9, WriteMemDistinct, Zenon
  <2>2. TryMatchVmWriteMem(data) # {} /\ \A m \in TryMatchVmWriteMem(data) : Sized(data, m, h.d)
    BY <1>9, WriteMemFound, Zenon
  <2> QED  BY <2>1, <2>2, Zenon DEF Fits, Tries, Plain, TypeTells
<1>10. CASE h \in Binaries \cup Shifts
  <2>1. h.op \in {"Add", "Shr", "Shl", "Rol", "Ror", "Nor", "Nand"}
    <3>1. CASE h \in Binaries
      <4>1. h.op \in {"Add", "Nor", "Nand"}
        BY <3>1, BinaryDistinct, OpNames
      <4> QED  BY <4>1
    <3>2. CASE h \in Shifts
      BY <3>2, ShiftDistinct
    <3> QED  BY <1>10, <3>1, <3>2
  <2>2. TryMatchGenericVmAlu(data) # {} /\ \A m \in TryMatchGenericVmAlu(data) : Sized(data, m, h.d)
    BY <1>1, <1>10, BinariesFound, ShiftsFound
  <2> QED  BY <2>1, <2>2, Zenon DEF Fits, Tries, TypeTells
<1>11. CASE h \in DoubleShifts
  <2>1. h.op \in {"Shld", "Shrd"}
    BY <1>11, DoubleShiftDistinct, Zenon
  <2>2. TryMatchVmDoubleShift(data) # {} /\ \A m \in TryMatchVmDoubleShift(data) : Sized(data, m, h.d)
    BY <1>1, <1>11, DoubleShiftsFound
  <2> QED  BY <2>1, <2>2, Zenon DEF Fits, Tries, TypeTells
<1> QED
  BY <1>2, <1>3, <1>4, <1>5, <1>6, <1>7, <1>8, <1>9, <1>10, <1>11, Zenon DEF Straight

(* How main records what it emulated: as what it is, with its operand size *)
(* and its change of VSP.                                                  *)
Recognised(h, m) ==
  m.type = h.op /\ m.depth = h.d /\ m.vspAfter - m.vspBefore = h.change

LEMMA FitsRecognised ==
  ASSUME NEW data, NEW h, h.change \in Int, Fits(data, h.op, h.d),
         data.vsp.start \in Int, data.vsp.end = data.vsp.start + h.change,
         \A t \in TryMatchVmDoubleShift(data) : t.type # "Unknown",
         NEW m, m = MatchVmHandler(data), m.type \in {h.op, "Unknown"}
  PROVE  Recognised(h, m)
<1>1. m \in Tries(data)
  BY TriesFound DEF Fits
<1>2. TypeTells(data, m) /\ m.type # "Unknown"
  BY <1>1, TypesTell
<1>3. m.type = h.op
  BY <1>2
<1>4. Sized(data, m, h.d)
  BY <1>2, <1>3 DEF Fits
<1> QED  BY <1>3, <1>4 DEF Sized, Recognised

LEMMA StraightRecognised ==
  ASSUME LoopInv, OnItsStack, inside, RightRegisters, top < ImageBase, Vsp + 8 <= top,
         NEW h \in Straight, Telling(h), ~LooksSo(h),
         NEW left, left[vipOf] = Kept,
         NEW run, run = RunOf(h, vipOf, vspOf, Plus(Reg(vipOf), h.taken), h.vsp, left, Rsp),
         NEW n, n = Len(h.accesses),
         NEW m, m = MatchVmHandler(DataOf(run, n, TRUE))
  PROVE  Recognised(h, m)
<1>1. PICK data, view : data = DataOf(run, n, TRUE) /\ view = ViewOf(run)
  OBVIOUS
<1>2. PICK S : Seen(h, S, data, view)
  BY <1>1, WholeSeenSo, Zenon
<1>3. WholeSeen(h, data, view, Len(h.accesses)) /\ h.change \in Int
  BY <1>2 DEF Seen
<1>4. Vsp \in Int /\ top \in Int /\ ImageBase \in Int
  BY StackFacts, RegsAssumption DEF LoopInv
<1>5. data.systemReads = h.moved
  <2>1. run.moved = h.moved
    BY DEF RunOf
  <2> QED  BY <1>1, <2>1, SystemReads
<1>6. Fits(data, h.op, h.d)
  BY <1>2, <1>5, StraightFits
<1>7. m.type \in {h.op, "Unknown"}
  <2>1. Named(h, m)
    BY StraightNamed, Zenon
  <2>2. ~(top >= ImageBase)
    BY <1>4
  <2>3. ~(ReadsNext(h) /\ h.d = 8)
    <3>1. h.d = 8 => h.d # 4
      OBVIOUS
    <3> QED  BY <3>1 DEF Telling
  <2> QED  BY <2>1, <2>2, <2>3, Zenon DEF Named
<1>8. ASSUME NEW t \in TryMatchVmDoubleShift(data) PROVE t.type # "Unknown"
  <2>1. CASE h.op \in {"Shld", "Shrd"}
    <3>1. h \in DoubleShifts
      <4>1. \A k \in {"Pop", "PushReg", "PushConst", "PushVsp", "Dispatch", "PopVsp", "ReadMem",
                      "WriteMem", "Add", "Nor", "Nand", "Shl", "Shr", "Rol", "Ror"} :
              k \notin {"Shld", "Shrd"}
        OBVIOUS
      <4>2. h \notin Pops \cup PushRegs \cup PushConsts \cup PushVsps \cup Nops \cup PopVsps
                   \cup ReadMems \cup WriteMems
        BY <2>1, <4>1, PopDistinct, PushRegDistinct, PushConstDistinct, PushVspDistinct,
           NopDistinct, PopVspDistinct, ReadMemDistinct, WriteMemDistinct
      <4>3. h \notin Binaries
        BY <2>1, <4>1, BinaryDistinct, OpNames
      <4>4. h \notin Shifts
        BY <2>1, <4>1, ShiftDistinct
      <4> QED  BY <4>2, <4>3, <4>4 DEF Straight
    <3> QED  BY <1>3, <1>8, <3>1, DoubleShiftsFound
  <2>2. CASE h.op \notin {"Shld", "Shrd"}
    <3>1. Ordinary(h)
      BY <1>4, StraightOrdinary
    <3>2. QuietRun(run, h.op, n)
      <4>1. run.accesses = h.accesses
        BY DEF RunOf
      <4> QED  BY <3>1, <4>1 DEF QuietRun, QuietSeq, Ordinary
    <3>3. PICK complete, op : complete \in BOOLEAN /\ complete = TRUE /\ op = h.op
      OBVIOUS
    <3>4. data = DataOf(run, n, complete) /\ QuietRun(run, op, n) /\ op \notin {"Shld", "Shrd"}
      BY <1>1, <2>2, <3>2, <3>3
    <3> QED  BY <1>8, <3>3, <3>4, NoDoubleShift
  <2> QED  BY <2>1, <2>2
<1>9. data.vsp.start \in Int /\ data.vsp.end = data.vsp.start + h.change
  BY <1>3, <1>4 DEF WholeSeen
<1>10. m = MatchVmHandler(data)
  BY <1>1
<1> QED  BY <1>3, <1>6, <1>7, <1>8, <1>9, <1>10, FitsRecognised

-----------------------------------------------------------------------------
(* How many accesses are recorded: one for each address.                   *)
LEMMA RecordedOnce ==
  ASSUME NEW view, NEW kind, NEW n \in Int,
         NEW x \in Recorded(view, kind, n), NEW y \in Recorded(view, kind, n), x.addr = y.addr
  PROVE  x = y
<1> DEFINE of == {i \in 1..n : view.accesses[i].kind = kind}
           RecordAt(i) == [addr |-> view.accesses[i].addr, size |-> view.accesses[i].size,
                           value |-> view.accesses[i].value, base |-> view.accesses[i].base,
                           instruction |-> view.accesses[i].instruction,
                           ast |-> AstOf(view, view.accesses[i].from)]
           kept == {j \in of : \A l \in of : l > j => view.accesses[l].addr # view.accesses[j].addr}
<1>1. Recorded(view, kind, n) = {RecordAt(i) : i \in kept}
  BY Zenon DEF Recorded
<1>2. PICK i \in kept, j \in kept : x = RecordAt(i) /\ y = RecordAt(j)
  <2> HIDE DEF RecordAt, kept
  <2> QED  BY <1>1
<1>3. view.accesses[i].addr = view.accesses[j].addr
  BY <1>2
<1>4. i \in of /\ j \in of /\ i \in Int /\ j \in Int
  OBVIOUS
<1>5. ~(i > j) /\ ~(j > i)
  BY <1>3, <1>4, Zenon
<1>6. i = j
  BY <1>4, <1>5
<1> HIDE DEF RecordAt
<1> QED  BY <1>2, <1>6

(* A set has n elements if it has one for each of n things.                *)
OneForEach(S, n, at) ==
  /\ \A i \in 1..n : \A j \in 1..n : at[i] = at[j] => i = j
  /\ \A x \in S : \E i \in 1..n : x.addr = at[i]
  /\ \A i \in 1..n : \E x \in S : x.addr = at[i]
  /\ \A x \in S : \A y \in S : x.addr = y.addr => x = y

LEMMA Counted ==
  ASSUME NEW S, NEW n \in Nat, NEW at, OneForEach(S, n, at)
  PROVE  IsFiniteSet(S) /\ Cardinality(S) = n
<1> USE DEF OneForEach
<1> DEFINE f == [i \in 1..n |-> CHOOSE x \in S : x.addr = at[i]]
<1>1. \A i \in 1..n : f[i] \in S /\ f[i].addr = at[i]
  <2> SUFFICES ASSUME NEW i \in 1..n PROVE f[i] \in S /\ f[i].addr = at[i]
    OBVIOUS
  <2>1. \E x \in S : x.addr = at[i]
    OBVIOUS
  <2>2. f[i] = CHOOSE x \in S : x.addr = at[i]
    OBVIOUS
  <2> HIDE DEF f
  <2> QED  BY <2>1, <2>2
<1>2. f \in [1..n -> S]
  BY <1>1
<1>3. DOMAIN f = 1..n
  OBVIOUS
<1> HIDE DEF f
<1>4. ASSUME NEW i \in 1..n, NEW j \in 1..n, f[i] = f[j] PROVE i = j
  <2>1. f[i].addr = at[i] /\ f[j].addr = at[j]
    BY <1>1
  <2> QED  BY <1>4, <2>1
<1>5. ASSUME NEW x \in S PROVE \E i \in 1..n : f[i] = x
  <2>1. PICK i \in 1..n : x.addr = at[i]
    OBVIOUS
  <2>2. f[i] \in S /\ f[i].addr = x.addr
    BY <1>1, <2>1
  <2> QED  BY <2>2
<1>6. f \in Injection(1..n, S)
  BY <1>2, <1>3, <1>4, Zenon DEF Injection, IsInjective
<1>7. f \in Surjection(1..n, S)
  BY <1>2, <1>5, Zenon DEF Surjection
<1>8. ExistsBijection(1..n, S)
  BY <1>6, <1>7, Zenon DEF ExistsBijection, Bijection
<1>9. IsFiniteSet(1..n) /\ Cardinality(1..n) = n
  BY IntervalSize
<1> QED  BY <1>8, <1>9, FS_Bijection

(* Each access to an address of its own is recorded.                       *)
LEMMA RecordedThere ==
  ASSUME NEW view, NEW kind, NEW n \in Int, NEW i \in 1..n, view.accesses[i].kind = kind
  PROVE  \E x \in Recorded(view, kind, n) : x.addr = view.accesses[i].addr
<1> DEFINE same == {l \in 1..n : view.accesses[l].kind = kind
                                   /\ view.accesses[l].addr = view.accesses[i].addr}
           T == {n - l : l \in same}
<1>1. T \subseteq Nat /\ T # {}
  OBVIOUS
<1>2. PICK k \in T : \A l \in T : k <= l
  <2> HIDE DEF T
  <2> QED  BY <1>1, LeastNumber
<1>3. PICK j \in same : k = n - j
  OBVIOUS
<1>4. \A l \in same : l <= j
  BY <1>2, <1>3
<1>5. \A l \in 1..n : l > j /\ view.accesses[l].kind = kind
                         => view.accesses[l].addr # view.accesses[j].addr
  BY <1>4
<1>6. \E x \in Recorded(view, kind, n) : RecordOf(view, kind, view.accesses[j], x)
  BY <1>5, RecordedLast
<1> QED  BY <1>6 DEF RecordOf

(* What one recogniser finds and the others do not mistake is recognised.  *)
TakenAsOrNot(data, op) ==
  /\ MatchVmHandler(data).type \in {op, "Unknown"}
  /\ \A t \in TryMatchVmDoubleShift(data) : t.type # "Unknown"
TakenAs(data, op) ==
  TypeTells(data, MatchVmHandler(data)) /\ MatchVmHandler(data).type = op

LEMMA FoundNamed ==
  ASSUME NEW data, NEW op, TakenAsOrNot(data, op), Tries(data) # {}
  PROVE  TakenAs(data, op)
<1> USE DEF TakenAsOrNot, TakenAs
<1>1. PICK m : m = MatchVmHandler(data)
  OBVIOUS
<1>2. m \in Tries(data)
  BY <1>1, TriesFound
<1>3. TypeTells(data, m) /\ m.type # "Unknown"
  BY <1>2, TypesTell
<1> QED  BY <1>1, <1>3

(* While the right registers are in use inside the machine.                *)
LEMMA StartsAtVsp ==
  ASSUME LoopInv, inside, RightRegisters, NEW run, NEW n
  PROVE  /\ DataOf(run, n, TRUE).vsp.start = Vsp
         /\ ViewOf(run).vsp = Vsp /\ ViewOf(run).rsp = Rsp
         /\ ViewOf(run).accesses = run.accesses
         /\ vipReg \in Regs /\ vspReg \in Regs
<1>1. vspReg = vspOf /\ vspOf \in Regs /\ vipReg \in Regs
  BY DEF LoopInv, RightRegisters
<1>2. vspOf # NoReg
  BY <1>1, RegsAssumption DEF NoReg
<1>3. StartOf(vspReg) = Vsp
  BY <1>1, <1>2 DEF StartOf, Vsp
<1>4. DataOf(run, n, TRUE).vsp.start = Vsp
  BY <1>3, DataFacts, ZenonT(60)
<1> QED  BY <1>1, <1>3, <1>4 DEF ViewOf

-----------------------------------------------------------------------------
(* An exit is found by the number of its reads and pops.                   *)
Pop17(S) == IsFiniteSet(S) /\ Cardinality(S) = 17
Pop16(S) == IsFiniteSet(S) /\ Cardinality(S) = 16
Popped(data) == {r \in data.logicReads : r.instruction \in {"pop", "popfq"}}

LEMMA ExitReads ==
  ASSUME Vsp \in Int, NEW view, view.accesses = Exits.accesses,
         NEW data, data.logicReads = Recorded(view, "read", 17)
  PROVE  Pop17(data.logicReads) /\ Pop16(Popped(data))
<1>1. PICK reads : reads = data.logicReads
  OBVIOUS
<1>2. PICK at : at = [i \in 1..17 |-> Vsp + 8 * (i - 1)]
  OBVIOUS
<1>3. \A i \in 1..17 : \A j \in 1..17 : at[i] = at[j] => i = j
  BY <1>2
<1>4. PICK accesses : accesses = Exits.accesses
  OBVIOUS
<1>5. \A i \in 1..17 : /\ accesses[i].kind = "read" /\ accesses[i].addr = at[i]
                       /\ accesses[i].instruction = IF i = 17 THEN "ret"
                                                    ELSE IF i = 16 THEN "popfq" ELSE "pop"
  BY <1>2, <1>4, ExitAccesses
<1>6. PICK kind : kind = "read"
  OBVIOUS
<1>7. reads = Recorded(view, kind, 17) /\ view.accesses = accesses
  BY <1>1, <1>4, <1>6
<1>8. ASSUME NEW x \in reads
      PROVE  \E i \in 1..17 : x.addr = at[i] /\ x.instruction = accesses[i].instruction
  <2>1. PICK i \in 1..17 : x.addr = accesses[i].addr /\ x.instruction = accesses[i].instruction
    BY <1>7, RecordedFacts
  <2> QED  BY <1>5, <2>1
<1>9. ASSUME NEW i \in 1..17 PROVE \E x \in reads : x.addr = at[i]
  <2>0. view.accesses[i].kind = kind /\ 17 \in Int
    BY <1>5, <1>6, <1>7
  <2>1. \E x \in Recorded(view, kind, 17) : x.addr = view.accesses[i].addr
    BY <2>0, RecordedThere
  <2> QED  BY <1>5, <1>7, <2>1
<1>10. \A x \in reads : \A y \in reads : x.addr = y.addr => x = y
  BY <1>7, RecordedOnce
<1>11. Pop17(reads)
  <2>1. PICK n \in Nat : n = 17
    OBVIOUS
  <2>2. IsFiniteSet(reads) /\ Cardinality(reads) = n
    <3>1. \A i \in 1..n : \A j \in 1..n : at[i] = at[j] => i = j
      BY <1>3, <2>1
    <3>2. \A x \in reads : \E i \in 1..n : x.addr = at[i]
      BY <1>8, <2>1
    <3>3. \A i \in 1..n : \E x \in reads : x.addr = at[i]
      BY <1>9, <2>1
    <3>4. OneForEach(reads, n, at)
      BY <1>10, <3>1, <3>2, <3>3 DEF OneForEach
    <3> QED  BY <3>4, Counted
  <2> QED  BY <2>1, <2>2 DEF Pop17
<1>12. PICK pops : pops = {r \in reads : r.instruction \in {"pop", "popfq"}}
  OBVIOUS
<1>13. Pop16(pops)
  <2>1. PICK n \in Nat : n = 16
    OBVIOUS
  <2>2. \A i \in 1..n : \A j \in 1..n : at[i] = at[j] => i = j
    <3>1. \A i \in 1..n : i \in 1..17
      BY <2>1
    <3> QED  BY <1>3, <3>1
  <2>3. ASSUME NEW x \in pops PROVE \E i \in 1..n : x.addr = at[i]
    <3>1. x \in reads /\ x.instruction \in {"pop", "popfq"}
      BY <1>12
    <3>2. PICK i \in 1..17 : x.addr = at[i] /\ x.instruction = accesses[i].instruction
      BY <1>8, <3>1
    <3>3. i # 17
      BY <1>5, <3>1, <3>2
    <3>4. i \in 1..n
      BY <2>1, <3>3
    <3> QED  BY <3>2, <3>4
  <2>4. ASSUME NEW i \in 1..n PROVE \E x \in pops : x.addr = at[i]
    <3>1. i \in 1..17 /\ i # 17
      BY <2>1
    <3>2. PICK x \in reads : x.addr = at[i]
      BY <1>9, <3>1
    <3>3. PICK j \in 1..17 : x.addr = at[j] /\ x.instruction = accesses[j].instruction
      BY <1>8
    <3>4. j = i
      BY <1>3, <3>1, <3>2, <3>3
    <3>5. x.instruction \in {"pop", "popfq"}
      BY <1>5, <3>1, <3>3, <3>4
    <3> QED  BY <1>12, <3>2, <3>5
  <2>5. \A x \in pops : \A y \in pops : x.addr = y.addr => x = y
    BY <1>10, <1>12
  <2>6. IsFiniteSet(pops) /\ Cardinality(pops) = n
    <3>1. OneForEach(pops, n, at)
      BY <2>2, <2>3, <2>4, <2>5 DEF OneForEach
    <3> QED  BY <3>1, Counted
  <2> QED  BY <2>1, <2>6 DEF Pop16
<1> QED  BY <1>1, <1>11, <1>12, <1>13 DEF Popped

LEMMA ExitShown ==
  ASSUME NEW data, data.context, Pop17(data.logicReads), Pop16(Popped(data))
  PROVE  TryMatchVmExit(data) = {[Found(data, "Exit", 8) EXCEPT !.vspAfter = data.rsp.end]}
<1>1. PICK c, p : c = Cardinality(data.logicReads) /\ p = Cardinality(Popped(data))
  OBVIOUS
<1>2. c = 17 /\ p = 16
  BY <1>1 DEF Pop17, Pop16
<1>3. PlausibleCount(c) /\ AllButOne(p, c)
  BY <1>2 DEF PlausibleCount, AllButOne
<1>4. PlausibleCount(Cardinality(data.logicReads))
      /\ AllButOne(Cardinality({r \in data.logicReads : r.instruction \in {"pop", "popfq"}}),
                   Cardinality(data.logicReads))
  BY <1>1, <1>3 DEF Popped
<1> QED  BY <1>4, Zenon DEF TryMatchVmExit

LEMMA FoundUpTo ==
  ASSUME NEW data, NEW type, NEW depth, NEW after
  PROVE  LET m == [Found(data, type, depth) EXCEPT !.vspAfter = after]
         IN m.depth = depth /\ m.vspAfter = after /\ m.vspBefore = data.vsp.start
BY DEF Found, NoMatch

LEMMA ExitFrom ==
  ASSUME NEW data, data.context, Pop17(data.logicReads), Pop16(Popped(data)),
         TakenAsOrNot(data, "Exit"), NEW h, h.op = "Exit", h.d = 8, h.change \in Int,
         data.vsp.start \in Int, data.rsp.end = data.vsp.start + h.change
  PROVE  Recognised(h, MatchVmHandler(data))
<1>1. TryMatchVmExit(data) = {[Found(data, "Exit", 8) EXCEPT !.vspAfter = data.rsp.end]}
  BY ExitShown
<1>2. PICK m : m = MatchVmHandler(data)
  OBVIOUS
<1>3. Tries(data) # {}
  BY <1>1 DEF Tries
<1>4. TypeTells(data, m) /\ m.type = "Exit"
  <2>1. TakenAs(data, "Exit")
    BY <1>3, FoundNamed
  <2> QED  BY <1>2, <2>1 DEF TakenAs
<1>5. m \in TryMatchVmExit(data)
  BY <1>4 DEF TypeTells
<1>6. m = [Found(data, "Exit", 8) EXCEPT !.vspAfter = data.rsp.end]
  BY <1>1, <1>5
<1>7. m.depth = 8 /\ m.vspAfter = data.rsp.end /\ m.vspBefore = data.vsp.start
  BY <1>6, FoundUpTo
<1> QED  BY <1>2, <1>4, <1>7 DEF Recognised

LEMMA ExitRecognised ==
  ASSUME LoopInv, inside, RightRegisters, NEW left \in [Regs -> Junks],
         NEW run, run = RunOf(Exits, NoReg, NoReg, Known, Known, left, Vsp + Exits.change),
         NEW n, n = Len(Exits.accesses),
         NEW m, m = MatchVmHandler(DataOf(run, n, TRUE))
  PROVE  Recognised(Exits, m)
<1>1. Vsp \in Int
  BY StackFacts
<1>2. run.accesses = Exits.accesses /\ run.rspEnd = Vsp + Exits.change
  BY DEF RunOf
<1>3. Exits.op = "Exit" /\ Exits.change = 136 /\ Exits.d = 8 /\ n = 17
  <2>1. Exits.d = 8
    BY DEF Exits
  <2> QED  BY <1>1, <2>1, ExitAccesses
<1>4. PICK data, view : data = DataOf(run, n, TRUE) /\ view = ViewOf(run)
  OBVIOUS
<1>5. data.vsp.start = Vsp /\ view.accesses = Exits.accesses
  BY <1>2, <1>4, StartsAtVsp
<1>6. data.rsp.end = Vsp + Exits.change /\ data.context = TRUE
  BY <1>2, <1>4 DEF DataOf, Emulate
<1>7. PICK kind : kind = "read"
  OBVIOUS
<1>8. data.logicReads = Recorded(view, kind, n)
  BY <1>4, <1>7, DataAccesses
<1>9. Pop17(data.logicReads) /\ Pop16(Popped(data))
  BY <1>1, <1>3, <1>5, <1>7, <1>8, ExitReads
<1>10. TryMatchVmDoubleShift(data) = {}
  <2> SUFFICES ASSUME NEW t \in TryMatchVmDoubleShift(data) PROVE FALSE
    OBVIOUS
  <2>1. PICK w \in data.logicWrites : TRUE
    BY DoubleShiftTypes
  <2>2. PICK write : write = "write"
    OBVIOUS
  <2>3. w \in Recorded(view, write, n)
    BY <1>4, <2>1, <2>2, DataAccesses
  <2>4. PICK i \in 1..n : view.accesses[i].kind = write
    BY <2>3, RecordedFacts
  <2> QED  BY <1>1, <1>3, <1>5, <2>2, <2>4, ExitAccesses
<1>11. MatchVmHandler(data).type \in {"Exit", "Unknown"}
  <2>1. m.type \in {Exits.op, "Unknown"}
    BY ExitNamed
  <2> QED  BY <1>3, <1>4, <2>1
<1>12. PICK h : h = Exits
  OBVIOUS
<1>13. /\ h.op = "Exit" /\ h.d = 8 /\ h.change \in Int
       /\ data.vsp.start \in Int /\ data.rsp.end = data.vsp.start + h.change
  BY <1>1, <1>3, <1>5, <1>6, <1>12
<1>14. TakenAsOrNot(data, "Exit")
  BY <1>10, <1>11 DEF TakenAsOrNot
<1>15. Recognised(h, MatchVmHandler(data))
  BY <1>6, <1>9, <1>13, <1>14, ExitFrom
<1> QED  BY <1>4, <1>12, <1>15

-----------------------------------------------------------------------------
(* A jump is found if a register holds the moved VSP and one the new VIP.  *)
LEMMA LeastThere ==
  ASSUME NEW S, S \subseteq Nat, S # {} PROVE Least(S) # {}
BY LeastNumber DEF Least

LEMMA CandidateThere ==
  ASSUME NEW S, S \subseteq Nat, S # {}, NEW current
  PROVE  Candidate(S, current) # {}
<1>1. CASE Cardinality(S) = 1
  BY <1>1 DEF Candidate
<1>2. CASE Cardinality(S) # 1
  <2>1. S \ {current} # {}
    <3> SUFFICES ASSUME S \ {current} = {} PROVE FALSE
      OBVIOUS
    <3>1. S = {current}
      OBVIOUS
    <3>2. Cardinality({current}) = 1
      BY FS_Singleton
    <3> QED  BY <1>2, <3>1, <3>2
  <2>2. Least(S \ {current}) # {}
    BY <2>1, LeastThere
  <2> QED  BY <1>2, <2>2 DEF Candidate
<1> QED  BY <1>1, <1>2

LEMMA FoundJump ==
  ASSUME NEW data, NEW after, NEW vsp, NEW vip
  PROVE  LET m == [Found(data, "Jmp", 8) EXCEPT !.vspAfter = after, !.vspReg = vsp, !.vipReg = vip]
         IN m.depth = 8 /\ m.vspBefore = data.vsp.start /\ m.vspAfter = after
BY DEF Found, NoMatch

Holds(data, reg, name, change) ==
  reg \in DOMAIN data.registerAst /\ GetAddImmediate(data.registerAst[reg], name) = {change}

LEMMA JumpShown ==
  ASSUME NEW data, DOMAIN data.registerAst \subseteq Nat,
         NEW newVsp, Holds(data, newVsp, VSP, 8), NEW newVip, Holds(data, newVip, StackArg(0), 4),
         At(data.logicReads, data.vsp.start) # {}
  PROVE  /\ TryMatchVmJmpIndirectRemap(data) # {}
         /\ \A m \in TryMatchVmJmpIndirectRemap(data) :
              m.depth = 8 /\ m.vspBefore = data.vsp.start /\ m.vspAfter = data.vsp.start + 8
<1> DEFINE vspCandidats == {reg \in DOMAIN data.registerAst :
                              GetAddImmediate(data.registerAst[reg], VSP) \cap {8} # {}}
           vipCandidats == {reg \in DOMAIN data.registerAst :
                              GetAddImmediate(data.registerAst[reg], StackArg(0)) \cap {-4, 4} # {}}
           vips == {r \in Candidate(vipCandidats, data.vipReg) :
                      At(data.logicReads, data.vsp.start) # {}}
           Built(vsp, vip) == [Found(data, "Jmp", 8) EXCEPT !.vspAfter = data.vsp.start + 8,
                                                           !.vspReg = vsp, !.vipReg = vip]
<1>1. TryMatchVmJmpIndirectRemap(data) =
        {Built(vsp, vip) : vsp \in Candidate(vspCandidats, data.vspReg), vip \in vips}
  BY DEF TryMatchVmJmpIndirectRemap
<1>2. \A vsp, vip : /\ Built(vsp, vip).depth = 8 /\ Built(vsp, vip).vspBefore = data.vsp.start
                    /\ Built(vsp, vip).vspAfter = data.vsp.start + 8
  BY FoundJump
<1>3. newVsp \in vspCandidats /\ vspCandidats \subseteq Nat
  BY DEF Holds
<1>4. newVip \in vipCandidats /\ vipCandidats \subseteq Nat
  BY DEF Holds
<1>5. Candidate(vspCandidats, data.vspReg) # {}
  <2> HIDE DEF vspCandidats
  <2> QED  BY <1>3, CandidateThere
<1>6. vips # {}
  <2>1. Candidate(vipCandidats, data.vipReg) # {}
    <3> HIDE DEF vipCandidats
    <3> QED  BY <1>4, CandidateThere
  <2> HIDE DEF vipCandidats
  <2> QED  BY <2>1
<1> HIDE DEF vspCandidats, vipCandidats, vips, Built
<1>7. TryMatchVmJmpIndirectRemap(data) # {}
  <2>1. PICK vsp, vip : vsp \in Candidate(vspCandidats, data.vspReg) /\ vip \in vips
    BY <1>5, <1>6
  <2>2. PICK m : m = Built(vsp, vip)
    OBVIOUS
  <2>3. m \in TryMatchVmJmpIndirectRemap(data)
    BY <1>1, <2>1, <2>2
  <2> QED  BY <2>3
<1>8. ASSUME NEW m \in TryMatchVmJmpIndirectRemap(data)
      PROVE  \E vsp, vip : m = Built(vsp, vip)
  BY <1>1, <1>8
<1> QED  BY <1>2, <1>7, <1>8

LEMMA JumpFrom ==
  ASSUME NEW data, DOMAIN data.registerAst \subseteq Nat,
         NEW newVsp, Holds(data, newVsp, VSP, 8), NEW newVip, Holds(data, newVip, StackArg(0), 4),
         At(data.logicReads, data.vsp.start) # {},
         TakenAsOrNot(data, "Jmp"), data.vsp.start \in Int,
         NEW h, h.op = "Jmp", h.d = 8, h.change = 8
  PROVE  Recognised(h, MatchVmHandler(data))
<1>1. /\ TryMatchVmJmpIndirectRemap(data) # {}
      /\ \A m \in TryMatchVmJmpIndirectRemap(data) :
           m.depth = 8 /\ m.vspBefore = data.vsp.start /\ m.vspAfter = data.vsp.start + 8
  BY JumpShown
<1>2. PICK m : m = MatchVmHandler(data)
  OBVIOUS
<1>3. Tries(data) # {}
  BY <1>1 DEF Tries
<1>4. TypeTells(data, m) /\ m.type = "Jmp"
  <2>1. TakenAs(data, "Jmp")
    BY <1>3, FoundNamed
  <2> QED  BY <1>2, <2>1 DEF TakenAs
<1>5. m \in TryMatchVmJmpIndirectRemap(data)
  BY <1>4 DEF TypeTells
<1>6. m.depth = 8 /\ m.vspBefore = data.vsp.start /\ m.vspAfter = data.vsp.start + 8
  BY <1>1, <1>5
<1> QED  BY <1>2, <1>4, <1>6 DEF Recognised

(* The expressions that the registers end up with.                        *)
AstsOf(data, view, run) == DOMAIN data.registerAst = Regs
  /\ \A r \in Regs : data.registerAst[r] = AstOf(view, run.final[r])
LEMMA AllAsts ==
  ASSUME NEW run, NEW n, NEW data, NEW view, data = DataOf(run, n, TRUE), view = ViewOf(run)
  PROVE  AstsOf(data, view, run)
<1>1. data.registerAst = [reg \in Regs |-> AstOf(ViewOf(run), run.final[reg])]
  BY DataFacts, ZenonT(60)
<1> QED  BY <1>1 DEF AstsOf

LEMMA JumpRecognised ==
  ASSUME LoopInv, OnItsStack, inside, RightRegisters, top < ImageBase,
         NEW newVip \in Regs, NEW newVsp \in Regs, newVip # newVsp,
         NEW left, left[newVsp] = Kept, left[newVip] = Kept,
         NEW h, h = Jumps(newVip),
         NEW run, run = RunOf(h, newVip, newVsp, Plus(Mem(1), 4), Plus(Reg(vspOf), 8), left, Rsp),
         NEW n, n = Len(h.accesses),
         NEW m, m = MatchVmHandler(DataOf(run, n, TRUE)), m.type \in {h.op, "Unknown"}
  PROVE  Recognised(h, m)
<1>1. Vsp \in Int
  BY StackFacts
<1>2. /\ run.accesses = h.accesses
      /\ run.final[newVsp] = Plus(Reg(vspOf), 8) /\ run.final[newVip] = Plus(Mem(1), 4)
  <2>1. left[newVip] # CopyOfVsp
    BY DEF Kept, CopyOfVsp
  <2> QED  BY <2>1 DEF RunOf
<1>3. PICK load, fetch : load = Load(1, Vsp, 8, Bytecode) /\ fetch = Fetch(2, newVip)
  OBVIOUS
<1>4. h.op = "Jmp" /\ h.d = 8 /\ h.change = 8 /\ h.accesses = <<load, fetch>>
  BY <1>3 DEF Jumps
<1>5. load.kind = "read" /\ load.addr = Vsp
  BY <1>3, LoadFields
<1>6. PICK data, view : data = DataOf(run, n, TRUE) /\ view = ViewOf(run)
  OBVIOUS
<1>7. /\ data.vsp.start = Vsp /\ view.vsp = Vsp /\ view.rsp = Rsp
      /\ view.accesses = h.accesses
  BY <1>2, <1>6, StartsAtVsp
<1>8. view.accesses[1] = load /\ n = 2
  BY <1>4, <1>7
<1>9. NameOf(view, Mem(1)) = StackArg(0)
  <2>1. view.accesses[1].addr = Vsp
    BY <1>5, <1>8
  <2> QED  BY <1>7, <2>1, TopName
<1>10. NameOf(view, Reg(vspOf)) = VSP
  <2>1. view.vspReg = vspOf
    BY <1>6 DEF ViewOf, RightRegisters
  <2>2. Reg(vspOf)[1] = "reg" /\ Reg(vspOf)[2] = vspOf
    BY DEF Reg
  <2> QED  BY <2>1, <2>2 DEF NameOf
<1>11. DOMAIN data.registerAst = Regs
       /\ \A r \in Regs : data.registerAst[r] = AstOf(view, run.final[r])
  <2>1. AstsOf(data, view, run)
    BY <1>6, AllAsts
  <2> QED  BY <2>1 DEF AstsOf
<1>12. Holds(data, newVsp, VSP, 8)
  <2>1. GetAddImmediate(AstOf(view, Plus(Reg(vspOf), 8)), VSP) = {8}
    BY <1>10, SumTree, NamesDiffer
  <2> QED  BY <1>2, <1>11, <2>1 DEF Holds
<1>13. Holds(data, newVip, StackArg(0), 4)
  <2>1. GetAddImmediate(AstOf(view, Plus(Mem(1), 4)), StackArg(0)) = {4}
    BY <1>9, SumTree, NamesDiffer
  <2> QED  BY <1>2, <1>11, <2>1 DEF Holds
<1>14. At(data.logicReads, data.vsp.start) # {}
  <2>1. PICK kind : kind = "read"
    OBVIOUS
  <2>2. data.logicReads = Recorded(view, kind, n)
    BY <1>6, <2>1, DataAccesses
  <2>3. 1 \in 1..n /\ n \in Int /\ view.accesses[1].kind = kind
    BY <1>5, <1>8, <2>1
  <2>4. \E x \in Recorded(view, kind, n) : x.addr = view.accesses[1].addr
    BY <2>3, RecordedThere
  <2> QED  BY <1>5, <1>7, <1>8, <2>2, <2>4 DEF At
<1>15. TakenAsOrNot(data, "Jmp")
  <2>1. QuietSeq(h.accesses, "Jmp")
    BY JumpAccesses
  <2>2. QuietRun(run, "Jmp", n)
    BY <1>2, <2>1 DEF QuietRun, QuietSeq
  <2>3. PICK complete \in BOOLEAN : complete = TRUE
    OBVIOUS
  <2>4. "Jmp" \notin {"Shld", "Shrd"}
    OBVIOUS
  <2>5. TryMatchVmDoubleShift(DataOf(run, n, complete)) = {}
    BY <2>2, <2>4, NoDoubleShift
  <2>6. TryMatchVmDoubleShift(data) = {}
    BY <1>6, <2>3, <2>5
  <2>7. MatchVmHandler(data).type \in {"Jmp", "Unknown"}
    BY <1>4, <1>6
  <2> QED  BY <2>6, <2>7 DEF TakenAsOrNot
<1>16. DOMAIN data.registerAst \subseteq Nat /\ data.vsp.start \in Int
  BY <1>1, <1>7, <1>11, RegsAssumption
<1>17. Recognised(h, MatchVmHandler(data))
  BY <1>4, <1>12, <1>13, <1>14, <1>15, <1>16, JumpFrom
<1> QED  BY <1>6, <1>17

-----------------------------------------------------------------------------
(* Accesses that go from higher to lower addresses, and parts of them.     *)
Descending(S, n, at) ==
  /\ n \in Nat /\ OneForEach(S, n, at)
  /\ \A i \in 1..n : at[i] \in Int
  /\ \A i \in 1..n : \A j \in 1..n : i < j => at[i] > at[j]

LEMMA DescendingSize ==
  ASSUME NEW S, NEW n, NEW at, Descending(S, n, at)
  PROVE  IsFiniteSet(S) /\ Cardinality(S) = n
BY Counted DEF Descending

Slice(S, n, at, T, low, high) ==
  /\ T \subseteq S
  /\ low \in 0..n /\ high \in low..n
  /\ \A x \in S : \A i \in 1..n : x.addr = at[i] => (x \in T <=> low < i /\ i <= high)

LEMMA SliceDescends ==
  ASSUME NEW S, NEW n, NEW at, Descending(S, n, at),
         NEW T, NEW low, NEW high, Slice(S, n, at, T, low, high),
         NEW k, k = high - low, NEW bt, bt = [i \in 1..k |-> at[i + low]]
  PROVE  Descending(T, k, bt)
<1>1. n \in Nat /\ low \in 0..n /\ high \in low..n /\ k \in Nat /\ high = low + k
  BY DEF Descending, Slice
<1>2. \A i \in 1..k : i + low \in 1..n /\ low < i + low /\ i + low <= high /\ bt[i] = at[i + low]
  BY <1>1
<1>3. \A i \in 1..n : at[i] \in Int
  BY DEF Descending
<1>4. ASSUME NEW i \in 1..k, NEW j \in 1..k, i < j PROVE bt[i] > bt[j]
  <2>1. i + low < j + low /\ i + low \in 1..n /\ j + low \in 1..n
    BY <1>1, <1>2, <1>4
  <2>2. at[i + low] > at[j + low]
    BY <2>1 DEF Descending
  <2> QED  BY <1>2, <2>2
<1>5. ASSUME NEW i \in 1..k, NEW j \in 1..k, bt[i] = bt[j] PROVE i = j
  <2>1. i + low \in 1..n /\ j + low \in 1..n /\ at[i + low] = at[j + low]
    BY <1>2, <1>5
  <2>2. i + low = j + low
    BY <2>1 DEF Descending, OneForEach
  <2> QED  BY <1>1, <2>2
<1>6. ASSUME NEW x \in T PROVE \E i \in 1..k : x.addr = bt[i]
  <2>1. PICK i \in 1..n : x.addr = at[i]
    BY DEF Descending, OneForEach, Slice
  <2>2. low < i /\ i <= high
    BY <2>1 DEF Slice
  <2>3. i - low \in 1..k /\ (i - low) + low = i
    BY <1>1, <2>2
  <2>4. bt[i - low] = at[i]
    BY <1>2, <2>3
  <2> QED  BY <2>1, <2>3, <2>4
<1>7. ASSUME NEW i \in 1..k PROVE \E x \in T : x.addr = bt[i]
  <2>1. i + low \in 1..n /\ low < i + low /\ i + low <= high /\ bt[i] = at[i + low]
    BY <1>2
  <2>2. PICK x \in S : x.addr = at[i + low]
    BY <2>1 DEF Descending, OneForEach
  <2>3. x \in T
    BY <2>1, <2>2 DEF Slice
  <2> QED  BY <2>1, <2>2, <2>3
<1>8. \A x \in T : \A y \in T : x.addr = y.addr => x = y
  BY DEF Descending, OneForEach, Slice
<1>9. OneForEach(T, k, bt)
  BY <1>5, <1>6, <1>7, <1>8 DEF OneForEach
<1>10. \A i \in 1..k : bt[i] \in Int
  BY <1>2, <1>3
<1> QED  BY <1>1, <1>4, <1>9, <1>10 DEF Descending

LEMMA AboveIs ==
  ASSUME NEW S, NEW n, NEW at, Descending(S, n, at),
         NEW k \in 1..n, NEW w \in S, w.addr = at[k]
  PROVE  Cardinality({x \in S : x.addr > w.addr}) = k - 1
<1>1. PICK T : T = {x \in S : x.addr > w.addr}
  OBVIOUS
<1>2. n \in Nat /\ k \in Int /\ 0 \in 0..n /\ k - 1 \in 0..n
  BY DEF Descending
<1>3. ASSUME NEW x \in S, NEW i \in 1..n, x.addr = at[i]
      PROVE  x \in T <=> 0 < i /\ i <= k - 1
  <2>1. at[i] \in Int /\ at[k] \in Int /\ i \in Int
    BY DEF Descending
  <2>2. CASE i < k
    <3>1. at[i] > at[k]
      BY <2>2 DEF Descending
    <3> QED  BY <1>1, <1>2, <1>3, <2>1, <2>2, <3>1
  <2>3. CASE i = k
    BY <1>1, <1>2, <1>3, <2>1, <2>3
  <2>4. CASE k < i
    <3>1. at[k] > at[i]
      BY <2>4 DEF Descending
    <3> QED  BY <1>1, <1>2, <1>3, <2>1, <2>4, <3>1
  <2> QED  BY <1>2, <2>1, <2>2, <2>3, <2>4
<1>4. Slice(S, n, at, T, 0, k - 1)
  BY <1>1, <1>2, <1>3 DEF Slice
<1>5. PICK c, bt : c = k - 1 /\ bt = [i \in 1..c |-> at[i + 0]]
  OBVIOUS
<1>6. c = (k - 1) - 0
  BY <1>2, <1>5
<1>7. Descending(T, c, bt)
  BY <1>4, <1>5, <1>6, SliceDescends
<1> QED  BY <1>1, <1>5, <1>7, DescendingSize

(* What an entry has pushed, one below the other, the return address of a  *)
(* final ret the last.                                                     *)
Pushed(writes, n, at, viaRet) ==
  /\ n = IF viaRet THEN 20 ELSE 19
  /\ Descending(writes, n, at)
  /\ \A x \in writes : \A i \in 1..n : x.addr = at[i] =>
       /\ i = 1 => x.instruction = "push imm"
       /\ i = 2 => x.instruction = "call imm"
       /\ i > 2 => x.instruction \in {"push", "pushfq"}

(* What an entry has read: the first opcode, and what it returns to.       *)
EntryReadsAre(reads, viaRet) ==
  /\ viaRet <=> \E r \in reads : r.instruction = "ret"
  /\ \E r \in reads : r.addr >= ImageBase /\ r.size = 4 /\ r.instruction = "fetch"
  /\ \A r \in reads : r.instruction = "fetch" => r.addr = Bytecode

EntersAt(data, start) ==
  /\ TryMatchVmEntry(data) # {}
  /\ \A m \in TryMatchVmEntry(data) :
       m.depth = 8 /\ m.vspBefore = start /\ m.vspAfter = start - 152
LEMMA EntryShown ==
  ASSUME NEW data, NEW viaRet \in BOOLEAN, NEW n, NEW at, Pushed(data.logicWrites, n, at, viaRet),
         EntryReadsAre(data.logicReads, viaRet),
         NEW start, start = data.rsp.start, start \in Int,
         data.rsp.end \in Int, data.rsp.end - start < -16,
         DOMAIN data.registerAst \subseteq Nat,
         NEW newVsp, Holds(data, newVsp, VM_CONTEXT, -152)
  PROVE  EntersAt(data, start)
<1> SUFFICES ASSUME viaRet <=> \E r \in data.logicReads : r.instruction = "ret",
                    \E r \in data.logicReads :
                      r.addr >= ImageBase /\ r.size = 4 /\ r.instruction = "fetch",
                    \A r \in data.logicReads : r.instruction = "fetch" => r.addr = Bytecode
             PROVE  /\ TryMatchVmEntry(data) # {}
                    /\ \A m \in TryMatchVmEntry(data) :
                         m.depth = 8 /\ m.vspBefore = start /\ m.vspAfter = start - 152
  BY DEF EntryReadsAre, EntersAt
<1> DEFINE writes == data.logicWrites
           Above(w) == Cardinality({x \in writes : x.addr > w.addr})
           hasPrologue == /\ \E w \in writes : w.instruction = "push imm" /\ Above(w) = 0
                          /\ \E w \in writes : w.instruction = "call imm" /\ Above(w) = 1
           hasRet == \E r \in data.logicReads : r.instruction = "ret"
           pushes == {w \in writes : /\ w.instruction \in {"push imm", "push", "pushfq"}
                                     /\ hasPrologue => Above(w) > 1
                                     /\ hasRet => Above(w) < Cardinality(writes) - 1}
           popedRegs == {w \in pushes : /\ w.instruction # "push imm"
                                        /\ Cardinality({x \in pushes : x.addr > w.addr}) # 16}
           change == -8 * (Cardinality(pushes) + IF hasPrologue THEN 2 ELSE 0)
           none == \/ data.rsp.end - data.rsp.start >= -16
                   \/ Cardinality(writes) < 8
                   \/ Cardinality(popedRegs) < 8
           fetches == {r \in data.logicReads :
                         r.addr >= ImageBase /\ r.size = 4 /\ r.instruction = "fetch"}
           copies == {reg \in DOMAIN data.registerAst :
                        change \in GetAddImmediate(data.registerAst[reg], VM_CONTEXT)}
           Built(reg, fetch) ==
             [NoMatch EXCEPT !.type = "Entry", !.vspBefore = data.rsp.start,
                             !.vspAfter = data.rsp.start + change,
                             !.vipReg = fetch.base, !.vspReg = reg]
<1>1. TryMatchVmEntry(data) =
        IF none THEN {}
        ELSE {Built(reg, fetch) : reg \in Least(copies), fetch \in Lowest(fetches)}
  BY DEF TryMatchVmEntry
<1>2. Descending(writes, n, at) /\ n \in {19, 20} /\ (viaRet => n = 20) /\ (~viaRet => n = 19)
  BY DEF Pushed
<1>0. n \in Int /\ n >= 19 /\ n <= 20 /\ 1 \in 1..n /\ 2 \in 1..n
  BY <1>2
<1>3. ASSUME NEW w \in writes
      PROVE  \E i \in 1..n : /\ w.addr = at[i] /\ Above(w) = i - 1
                             /\ i = 1 => w.instruction = "push imm"
                             /\ i = 2 => w.instruction = "call imm"
                             /\ i > 2 => w.instruction \in {"push", "pushfq"}
  <2>1. PICK i \in 1..n : w.addr = at[i]
    BY <1>2 DEF Descending, OneForEach
  <2>2. Above(w) = i - 1
    BY <1>2, <2>1, AboveIs
  <2>3. /\ i = 1 => w.instruction = "push imm"
        /\ i = 2 => w.instruction = "call imm"
        /\ i > 2 => w.instruction \in {"push", "pushfq"}
    BY <2>1 DEF Pushed
  <2> HIDE DEF Above, writes
  <2> QED  BY <2>1, <2>2, <2>3
<1>4. ASSUME NEW i \in 1..n PROVE \E w \in writes : w.addr = at[i]
  BY <1>2 DEF Descending, OneForEach
<1>5. \A i \in 1..n : \A j \in 1..n : at[i] = at[j] => i = j
  BY <1>2 DEF Descending, OneForEach
<1>6. hasRet <=> viaRet
  OBVIOUS
<1>7. Cardinality(writes) = n
  BY <1>2, DescendingSize
<1> HIDE DEF writes, Above, hasRet
<1>8. hasPrologue
  <2>1. \E w \in writes : w.instruction = "push imm" /\ Above(w) = 0
    <3>1. PICK w \in writes : w.addr = at[1]
      BY <1>0, <1>4
    <3>2. PICK i \in 1..n : /\ w.addr = at[i] /\ Above(w) = i - 1
                            /\ i = 1 => w.instruction = "push imm"
      BY <1>3
    <3>3. at[i] = at[1]
      BY <3>1, <3>2
    <3>4. i = 1
      BY <1>0, <1>5, <3>3
    <3>5. PICK c : c = Above(w)
      OBVIOUS
    <3>6. c = 1 - 1
      BY <3>2, <3>4, <3>5
    <3>7. w.instruction = "push imm"
      BY <3>2, <3>4
    <3>8. c = 0 /\ Above(w) = c
      BY <3>5, <3>6
    <3> QED  BY <3>1, <3>7, <3>8
  <2>2. \E w \in writes : w.instruction = "call imm" /\ Above(w) = 1
    <3>1. PICK w \in writes : w.addr = at[2]
      BY <1>0, <1>4
    <3>2. PICK i \in 1..n : /\ w.addr = at[i] /\ Above(w) = i - 1
                            /\ i = 2 => w.instruction = "call imm"
      BY <1>3
    <3>3. at[i] = at[2]
      BY <3>1, <3>2
    <3>4. i = 2
      BY <1>0, <1>5, <3>3
    <3>5. PICK c : c = Above(w)
      OBVIOUS
    <3>6. c = 2 - 1
      BY <3>2, <3>4, <3>5
    <3>7. w.instruction = "call imm"
      BY <3>2, <3>4
    <3>8. c = 1 /\ Above(w) = c
      BY <3>5, <3>6
    <3> QED  BY <3>1, <3>7, <3>8
  <2> QED  BY <2>1, <2>2
<1> HIDE DEF hasPrologue
<1>9. ASSUME NEW w \in writes, NEW i \in 1..n, w.addr = at[i]
      PROVE  w \in pushes <=> 2 < i /\ i <= 19
  <2>1. PICK j \in 1..n : /\ w.addr = at[j] /\ Above(w) = j - 1
                          /\ j = 1 => w.instruction = "push imm"
                          /\ j = 2 => w.instruction = "call imm"
                          /\ j > 2 => w.instruction \in {"push", "pushfq"}
    BY <1>3
  <2>2. i = j /\ i \in Int /\ i >= 1 /\ i <= n
    <3>1. at[i] = at[j]
      BY <1>9, <2>1
    <3>2. i = j
      BY <1>5, <3>1
    <3> QED  BY <1>0, <3>2
  <2>3. PICK c : c = Above(w) /\ c = i - 1
    BY <2>1, <2>2
  <2>4. w \in pushes <=> /\ w.instruction \in {"push imm", "push", "pushfq"}
                         /\ c > 1
                         /\ viaRet => c < n - 1
    BY <1>6, <1>7, <1>8, <2>3
  <2>5. i > 2 => w.instruction \in {"push imm", "push", "pushfq"}
    BY <2>1, <2>2
  <2>6. c > 1 <=> 2 < i
    BY <2>2, <2>3
  <2>7. i <= 19 <=> (viaRet => c < n - 1)
    BY <1>0, <1>2, <2>2, <2>3
  <2> HIDE DEF pushes
  <2> QED  BY <2>2, <2>4, <2>5, <2>6, <2>7
<1>10. pushes \subseteq writes
  OBVIOUS
<1>11. PICK bt : bt = [i \in 1..17 |-> at[i + 2]]
  OBVIOUS
<1>12. Descending(pushes, 17, bt)
  <2> HIDE DEF pushes
  <2>1. Slice(writes, n, at, pushes, 2, 19)
    BY <1>2, <1>9, <1>10 DEF Slice
  <2>2. 17 = 19 - 2
    OBVIOUS
  <2> QED  BY <1>2, <1>11, <2>1, <2>2, SliceDescends
<1>13. Cardinality(pushes) = 17
  BY <1>12, DescendingSize
<1>14. change = -152
  <2> HIDE DEF pushes
  <2> QED  BY <1>8, <1>13
<1>15. Cardinality(popedRegs) = 16
  <2>1. \A w \in writes : \A i \in 1..n : w.addr = at[i] /\ i > 2 => w.instruction \in {"push", "pushfq"}
    BY DEF Pushed, writes
  <2> HIDE DEF pushes
  <2>2. popedRegs \subseteq pushes
    OBVIOUS
  <2>3. \A w \in pushes : w \in popedRegs <=>
          w.instruction # "push imm" /\ Cardinality({x \in pushes : x.addr > w.addr}) # 16
    OBVIOUS
  <2> HIDE DEF popedRegs
  <2>4. ASSUME NEW w \in pushes, NEW i \in 1..17, w.addr = bt[i]
        PROVE  w \in popedRegs <=> 0 < i /\ i <= 16
    <3>1. i \in Int /\ i >= 1 /\ i <= 17
      OBVIOUS
    <3>2. PICK c : c = Cardinality({x \in pushes : x.addr > w.addr})
      OBVIOUS
    <3>3. c = i - 1
      BY <1>12, <2>4, <3>2, AboveIs
    <3>4. w.instruction # "push imm"
      <4>1. w \in writes
        BY <1>10
      <4>2. i + 2 \in 1..n /\ i + 2 > 2
        BY <1>0, <3>1
      <4>3. bt[i] = at[i + 2]
        BY <1>11
      <4>4. w.instruction \in {"push", "pushfq"}
        BY <2>1, <2>4, <4>1, <4>2, <4>3
      <4> QED  BY <4>4
    <3>5. w \in popedRegs <=> c # 16
      BY <2>3, <3>2, <3>4
    <3> QED  BY <3>1, <3>3, <3>5
  <2>5. Slice(pushes, 17, bt, popedRegs, 0, 16)
    BY <2>2, <2>4 DEF Slice
  <2>6. PICK ct : ct = [i \in 1..16 |-> bt[i + 0]]
    OBVIOUS
  <2>7. 16 = 16 - 0
    OBVIOUS
  <2>8. Descending(popedRegs, 16, ct)
    BY <1>12, <2>5, <2>6, <2>7, SliceDescends
  <2> QED  BY <2>8, DescendingSize
<1> HIDE DEF pushes, popedRegs, change
<1>16. ~none
  <2>1. ~(data.rsp.end - data.rsp.start >= -16)
    OBVIOUS
  <2>2. ~(Cardinality(writes) < 8)
    BY <1>2, <1>7
  <2>3. ~(Cardinality(popedRegs) < 8)
    BY <1>15
  <2> QED  BY <2>1, <2>2, <2>3
<1>17. Least(copies) # {}
  <2>1. newVsp \in copies /\ copies \subseteq Nat
    BY <1>14 DEF Holds
  <2> HIDE DEF copies
  <2> QED  BY <2>1, LeastThere
<1>18. Lowest(fetches) # {}
  <2>1. fetches # {} /\ \A r \in fetches : r.addr = Bytecode
    OBVIOUS
  <2>2. Bytecode \in Int
    BY RegsAssumption DEF Bytecode
  <2> HIDE DEF fetches
  <2> QED  BY <2>1, <2>2, LowestOfOne
<1>19. \A reg, fetch : /\ Built(reg, fetch).depth = 8
                       /\ Built(reg, fetch).vspBefore = start
                       /\ Built(reg, fetch).vspAfter = start + change
  BY DEF NoMatch
<1> HIDE DEF none, copies, fetches, Built
<1>20. TryMatchVmEntry(data) # {}
  <2>1. PICK reg, fetch : reg \in Least(copies) /\ fetch \in Lowest(fetches)
    BY <1>17, <1>18
  <2>2. PICK m : m = Built(reg, fetch)
    OBVIOUS
  <2>3. m \in TryMatchVmEntry(data)
    BY <1>1, <1>16, <2>1, <2>2
  <2> QED  BY <2>3
<1>21. ASSUME NEW m \in TryMatchVmEntry(data)
       PROVE  m.depth = 8 /\ m.vspBefore = start /\ m.vspAfter = start - 152
  <2>1. PICK reg, fetch : m = Built(reg, fetch)
    BY <1>1, <1>16
  <2>2. m.depth = 8 /\ m.vspBefore = start /\ m.vspAfter = start + change
    BY <1>19, <2>1
  <2> QED  BY <1>14, <2>2
<1> QED  BY <1>20, <1>21

PushedAt(a, i) ==
  /\ a.kind = "write" /\ a.addr = top - 8 * i
  /\ i = 1 => a.instruction = "push imm"
  /\ i = 2 => a.instruction = "call imm"
  /\ i > 2 => a.instruction \in {"push", "pushfq"}
FetchedAt(a) == a.kind = "read" /\ a.addr = Bytecode /\ a.size = 4 /\ a.instruction = "fetch"
EntryShape(accesses, viaRet) ==
  /\ Len(accesses) = IF viaRet THEN 22 ELSE 20
  /\ \A i \in 1..19 : PushedAt(accesses[i], i)
  /\ FetchedAt(accesses[20])
  /\ viaRet => /\ accesses[21].kind = "write" /\ accesses[21].addr = Context - 8
               /\ accesses[21].instruction = "push"
               /\ accesses[22].kind = "read" /\ accesses[22].addr = Context - 8
               /\ accesses[22].instruction = "ret"

Joined(all, S, p, f, t) ==
  /\ p \in Seq(S) /\ Len(p) = 19 /\ f \in S /\ t \in Seq(S)
  /\ all = p \o <<f>> \o t

LEMMA ConcatShape ==
  ASSUME NEW S, NEW p, NEW f, NEW t, NEW all, Joined(all, S, p, f, t)
  PROVE  /\ Len(all) = 20 + Len(t)
         /\ \A i \in 1..19 : all[i] = p[i]
         /\ all[20] = f
         /\ \A i \in 1..Len(t) : all[20 + i] = t[i]
<1> USE DEF Joined
<1>1. PICK o : o = <<f>>
  OBVIOUS
<1>2. o \in Seq(S) /\ Len(o) = 1 /\ o[1] = f
  BY <1>1
<1>3. PICK q : q = p \o o
  OBVIOUS
<1>4. /\ q \in Seq(S) /\ Len(q) = 20
      /\ \A i \in 1..20 : q[i] = IF i <= 19 THEN p[i] ELSE o[i - 19]
  <2>1. /\ p \o o \in Seq(S) /\ Len(p \o o) = Len(p) + Len(o)
        /\ \A i \in 1..Len(p) + Len(o) :
             (p \o o)[i] = IF i <= Len(p) THEN p[i] ELSE o[i - Len(p)]
    BY <1>2, ConcatProperties
  <2>2. Len(q) = 19 + 1 /\ \A i \in 1..19 + 1 : q[i] = IF i <= 19 THEN p[i] ELSE o[i - 19]
    BY <1>2, <1>3, <2>1, Zenon
  <2>3. 19 + 1 = 20
    OBVIOUS
  <2>4. q \in Seq(S)
    BY <1>3, <2>1
  <2> QED  BY <2>2, <2>3, <2>4, Zenon
<1>5. PICK k \in Nat : k = Len(t)
  BY LenProperties
<1>6. /\ Len(all) = 20 + k
      /\ \A i \in 1..20 + k : all[i] = IF i <= 20 THEN q[i] ELSE t[i - 20]
  <2>1. /\ q \o t \in Seq(S) /\ Len(q \o t) = Len(q) + Len(t)
        /\ \A i \in 1..Len(q) + Len(t) :
             (q \o t)[i] = IF i <= Len(q) THEN q[i] ELSE t[i - Len(q)]
    BY <1>4, ConcatProperties, ZenonT(60)
  <2>2. all = q \o t
    BY <1>1, <1>3
  <2> QED  BY <1>4, <1>5, <2>1, <2>2
<1>7. \A i \in 1..19 : all[i] = p[i]
  <2> SUFFICES ASSUME NEW i \in 1..19 PROVE all[i] = p[i]
    OBVIOUS
  <2>1. i \in 1..20 /\ i \in 1..20 + k /\ i <= 19 /\ i <= 20
    BY <1>5
  <2> QED  BY <1>4, <1>6, <2>1
<1>8. all[20] = f
  <2>1. PICK c : c = 20
    OBVIOUS
  <2>2. c \in 1..20 /\ c \in 1..20 + k /\ c <= 20 /\ ~(c <= 19) /\ c - 19 = 1
    BY <1>5, <2>1
  <2>3. all[c] = q[c]
    BY <1>6, <2>2
  <2>4. q[c] = o[c - 19]
    BY <1>4, <2>2
  <2>5. all[c] = o[1]
    BY <2>2, <2>3, <2>4
  <2> QED  BY <1>2, <2>1, <2>5
<1>9. ASSUME NEW i \in 1..k PROVE all[20 + i] = t[i]
  <2>1. 20 + i \in 1..20 + k /\ ~(20 + i <= 20) /\ (20 + i) - 20 = i
    BY <1>5
  <2> QED  BY <1>6, <2>1
<1> QED  BY <1>5, <1>6, <1>7, <1>8, <1>9

LEMMA FunctionSeq ==
  ASSUME NEW S, NEW k \in Nat, NEW f \in [1..k -> S] PROVE f \in Seq(S) /\ Len(f) = k
BY SeqDef

LEMMA ByFields ==
  ASSUME NEW kind, NEW addr, NEW size, NEW value, NEW from, NEW instruction,
         NEW a, a = By(Access(kind, addr, size, value, from), instruction)
  PROVE  a.kind = kind /\ a.addr = addr /\ a.size = size /\ a.instruction = instruction
BY DEF By, Access

LEMMA FetchIs ==
  ASSUME NEW i, NEW reg PROVE FetchedAt(Fetch(i, reg))
BY DEF FetchedAt, Fetch, Load, Access

LEMMA EntryShaped ==
  ASSUME NEW newVip, NEW viaRet \in BOOLEAN, NEW h, h = Entries(newVip, viaRet)
  PROVE  h.op = "Entry" /\ h.d = 8 /\ h.change = -152 /\ EntryShape(h.accesses, viaRet)
<1> DEFINE Instruction(i) == CASE i = 1 -> "push imm" [] i = 2 -> "call imm"
                               [] i = EntryPushes - 1 -> "pushfq" [] OTHER -> "push"
           Push(i) == By(Store(top - 8 * i, 8, i, Known), Instruction(i))
<1>1. PICK pushes, fetch, store, load, tail :
        /\ pushes = [i \in 1..EntryPushes |-> Push(i)]
        /\ fetch = Fetch(EntryPushes + 1, newVip)
        /\ store = By(Store(Context - 8, 8, 1, Known), "push")
        /\ load = By(Load(EntryPushes + 3, Context - 8, 8, 1), "ret")
        /\ tail = IF viaRet THEN <<store, load>> ELSE <<>>
  OBVIOUS
<1>2. h.op = "Entry" /\ h.d = 8 /\ h.change = -152 /\ h.accesses = pushes \o <<fetch>> \o tail
  <2>1. h.op = "Entry" /\ h.d = 8 /\ h.accesses = pushes \o <<fetch>> \o tail
    BY <1>1 DEF Entries
  <2>2. h.change = -8 * EntryPushes
    BY DEF Entries
  <2>3. h.change = -152
    BY <2>2 DEF EntryPushes
  <2> QED  BY <2>1, <2>3
<1>3. ASSUME NEW i \in 1..19 PROVE PushedAt(Push(i), i)
  <2>1. PICK a, instruction : instruction = Instruction(i)
                              /\ a = By(Store(top - 8 * i, 8, i, Known), instruction)
    OBVIOUS
  <2>2. a = By(Access("write", top - 8 * i, 8, i, Known), instruction)
    BY <2>1 DEF Store
  <2>3. a.kind = "write" /\ a.addr = top - 8 * i /\ a.instruction = instruction
    BY <2>2, ByFields
  <2>4. /\ i = 1 => instruction = "push imm"
        /\ i = 2 => instruction = "call imm"
        /\ i > 2 => instruction \in {"push", "pushfq"}
    <3>1. i \in Int /\ EntryPushes - 1 = 18
      BY DEF EntryPushes
    <3>2. i = 1 => Instruction(i) = "push imm"
      BY <3>1
    <3>3. i = 2 => Instruction(i) = "call imm"
      BY <3>1
    <3>4. i > 2 => Instruction(i) \in {"push", "pushfq"}
      BY <3>1
    <3> HIDE DEF Instruction
    <3> QED  BY <2>1, <3>2, <3>3, <3>4
  <2>5. PushedAt(a, i)
    BY <2>3, <2>4 DEF PushedAt
  <2> QED  BY <2>1, <2>5
<1>4. FetchedAt(fetch)
  BY <1>1, FetchIs
<1>5. store.kind = "write" /\ store.addr = Context - 8 /\ store.instruction = "push"
  <2>1. store = By(Access("write", Context - 8, 8, 1, Known), "push")
    BY <1>1 DEF Store
  <2> QED  BY <2>1, ByFields
<1>6. load.kind = "read" /\ load.addr = Context - 8 /\ load.instruction = "ret"
  <2>1. PICK k, from : k = EntryPushes + 3 /\ from = Copy(Mem(k))
    OBVIOUS
  <2>2. load = By(Access("read", Context - 8, 8, 1, from), "ret")
    BY <1>1, <2>1 DEF Load
  <2> QED  BY <2>2, ByFields
<1>7. PICK S : S = {Push(i) : i \in 1..19} \cup {fetch, store, load}
  OBVIOUS
<1> HIDE DEF Push
<1>8. /\ pushes \in Seq(S) /\ Len(pushes) = 19 /\ \A i \in 1..19 : pushes[i] = Push(i)
      /\ fetch \in S /\ tail \in Seq(S)
  <2>1. pushes = [i \in 1..19 |-> Push(i)]
    BY <1>1 DEF EntryPushes
  <2>2. pushes \in [1..19 -> S]
    BY <1>7, <2>1
  <2>3. pushes \in Seq(S) /\ Len(pushes) = 19
    <3>1. PICK n : n = 19 /\ n \in Nat /\ pushes \in [1..n -> S]
      BY <2>2
    <3>2. pushes \in Seq(S) /\ Len(pushes) = n
      BY <3>1, FunctionSeq
    <3> QED  BY <3>1, <3>2
  <2>4. fetch \in S /\ store \in S /\ load \in S
    BY <1>7
  <2>5. tail \in Seq(S)
    BY <1>1, <2>4
  <2> QED  BY <2>1, <2>3, <2>4, <2>5
<1>9. PICK all : all = h.accesses /\ all = pushes \o <<fetch>> \o tail
  BY <1>2
<1>10. /\ Len(all) = 20 + Len(tail)
       /\ \A i \in 1..19 : all[i] = pushes[i]
       /\ all[20] = fetch
       /\ \A i \in 1..Len(tail) : all[20 + i] = tail[i]
  <2>1. pushes \in Seq(S) /\ Len(pushes) = 19 /\ fetch \in S /\ tail \in Seq(S)
    BY <1>8
  <2>2. Joined(all, S, pushes, fetch, tail)
    BY <1>9, <2>1 DEF Joined
  <2> QED  BY <2>2, ConcatShape
<1>11. Len(all) = IF viaRet THEN 22 ELSE 20
  BY <1>1, <1>10
<1>12. \A i \in 1..19 : PushedAt(all[i], i)
  BY <1>3, <1>8, <1>10
<1>13. viaRet => all[21] = store /\ all[22] = load
  <2> SUFFICES ASSUME viaRet PROVE all[21] = store /\ all[22] = load
    OBVIOUS
  <2>1. Len(tail) = 2 /\ tail[1] = store /\ tail[2] = load
    BY <1>1
  <2>2. all[20 + 1] = tail[1] /\ all[20 + 2] = tail[2]
    BY <1>10, <2>1
  <2> QED  BY <2>1, <2>2
<1>14. EntryShape(all, viaRet)
  BY <1>4, <1>5, <1>6, <1>10, <1>11, <1>12, <1>13 DEF EntryShape
<1> QED  BY <1>2, <1>9, <1>14

LEMMA EntryPushed ==
  ASSUME top \in Int, NEW viaRet \in BOOLEAN, NEW view, EntryShape(view.accesses, viaRet),
         NEW len, len = Len(view.accesses),
         NEW writes, writes = Recorded(view, "write", len)
  PROVE  \E n, at : Pushed(writes, n, at, viaRet)
<1>1. PICK n, accesses, kind, t, low :
        /\ n = (IF viaRet THEN 20 ELSE 19) /\ accesses = view.accesses /\ kind = "write"
        /\ t = top /\ low = Context - 8
  OBVIOUS
<1>2. PICK at : at = [i \in 1..n |-> IF i <= 19 THEN t - 8 * i ELSE low]
  OBVIOUS
<1>3. /\ n \in Nat /\ n >= 19 /\ n <= 20 /\ t \in Int /\ low = t - 544
      /\ len \in Int /\ (viaRet => len = 22 /\ n = 20) /\ (~viaRet => len = 20 /\ n = 19)
  BY <1>1 DEF EntryShape, Context, EntryPushes, ContextBelow
<1>4. \A i \in 1..n : at[i] = IF i <= 19 THEN t - 8 * i ELSE low
  BY <1>2
<1>5. ASSUME NEW i \in 1..n
      PROVE  i \in Int /\ i >= 1 /\ i <= n /\ at[i] \in Int /\ (i <= 19 => at[i] = t - 8 * i)
             /\ (i > 19 => at[i] = t - 544)
  BY <1>3, <1>4
<1>6. ASSUME NEW i \in 1..n, NEW j \in 1..n, i < j PROVE at[i] > at[j]
  <2>1. i \in Int /\ i <= 19 /\ at[i] = t - 8 * i
    BY <1>3, <1>5, <1>6
  <2>2. CASE j <= 19
    <3>1. j \in Int /\ at[j] = t - 8 * j
      BY <1>5, <2>2
    <3> QED  BY <1>3, <1>6, <2>1, <3>1
  <2>3. CASE j > 19
    <3>1. at[j] = t - 544
      BY <1>5, <2>3
    <3> QED  BY <1>3, <2>1, <3>1
  <2>4. j \in Int
    BY <1>5
  <2> QED  BY <2>2, <2>3, <2>4
<1>7. ASSUME NEW i \in 1..n, NEW j \in 1..n, at[i] = at[j] PROVE i = j
  <2>1. ~(i < j) /\ ~(j < i)
    <3>1. at[i] \in Int /\ at[j] \in Int
      BY <1>5
    <3> QED  BY <1>6, <1>7, <3>1
  <2>2. i \in Int /\ j \in Int
    BY <1>5
  <2> QED  BY <2>1, <2>2
<1>8. \A j \in 1..19 : PushedAt(accesses[j], j)
  BY <1>1 DEF EntryShape
<1>9. /\ FetchedAt(accesses[20])
      /\ viaRet => /\ accesses[21].kind = kind /\ accesses[21].addr = low
                   /\ accesses[21].instruction = "push"
                   /\ accesses[22].kind = "read"
  BY <1>1 DEF EntryShape
<1>10. ASSUME NEW x \in writes
       PROVE  \E i \in 1..n : /\ x.addr = at[i]
                              /\ i = 1 => x.instruction = "push imm"
                              /\ i = 2 => x.instruction = "call imm"
                              /\ i > 2 => x.instruction \in {"push", "pushfq"}
  <2>1. PICK j \in 1..len : /\ accesses[j].kind = kind /\ x.addr = accesses[j].addr
                            /\ x.instruction = accesses[j].instruction
    BY <1>1, RecordedFacts
  <2>2. CASE j <= 19
    <3>1. j \in 1..19 /\ j \in 1..n
      BY <1>3, <2>2
    <3>2. PushedAt(accesses[j], j)
      BY <1>8, <3>1
    <3>3. x.addr = at[j]
      BY <1>1, <1>5, <2>1, <2>2, <3>1, <3>2 DEF PushedAt
    <3>4. /\ j = 1 => x.instruction = "push imm"
          /\ j = 2 => x.instruction = "call imm"
          /\ j > 2 => x.instruction \in {"push", "pushfq"}
      BY <2>1, <3>2 DEF PushedAt
    <3> QED  BY <3>1, <3>3, <3>4
  <2>3. CASE j > 19
    <3>1. j # 20
      BY <1>1, <1>9, <2>1 DEF FetchedAt
    <3>2. j \in Int /\ j <= len
      BY <1>3
    <3>3. viaRet
      <4> SUFFICES ASSUME ~viaRet PROVE FALSE
        OBVIOUS
      <4>1. len = 20
        BY <1>3
      <4> QED  BY <2>3, <3>1, <3>2, <4>1
    <3>4. j # 22
      BY <1>1, <1>9, <2>1, <3>3
    <3>5. j = 21
      <4>1. len = 22
        BY <1>3, <3>3
      <4> QED  BY <2>3, <3>1, <3>2, <3>4, <4>1
    <3>6. PICK i \in 1..n : i = 20
      BY <1>3, <3>3
    <3>7. at[i] = low
      BY <1>3, <1>5, <3>6
    <3>8. x.addr = low /\ x.instruction = "push"
      BY <1>9, <2>1, <3>3, <3>5
    <3> QED  BY <3>6, <3>7, <3>8
  <2>4. j <= 19 \/ j > 19
    <3>1. j \in Int
      BY <1>3
    <3> QED  BY <3>1
  <2> QED  BY <2>2, <2>3, <2>4
<1>11. ASSUME NEW i \in 1..n PROVE \E x \in writes : x.addr = at[i]
  <2>1. \E j \in 1..len : accesses[j].kind = kind /\ accesses[j].addr = at[i]
    <3>1. CASE i <= 19
      <4>1. i \in 1..19 /\ i \in 1..len
        <5>1. i \in Int /\ i >= 1
          BY <1>5
        <5>2. len \in Int /\ len >= 20
          <6>1. CASE viaRet
            <7>1. len = 22
              BY <1>3, <6>1
            <7> QED  BY <7>1
          <6>2. CASE ~viaRet
            <7>1. len = 20
              BY <1>3, <6>2
            <7> QED  BY <7>1
          <6> QED  BY <6>1, <6>2
        <5> QED  BY <3>1, <5>1, <5>2
      <4>2. PushedAt(accesses[i], i)
        BY <1>8, <4>1
      <4>3. accesses[i].kind = kind /\ accesses[i].addr = at[i]
        BY <1>1, <1>5, <3>1, <4>2 DEF PushedAt
      <4> QED  BY <4>1, <4>3
    <3>2. CASE i > 19
      <4>1. i = 20 /\ viaRet
        BY <1>3, <1>5, <3>2
      <4>2. PICK j \in 1..len : j = 21
        <5>1. len = 22
          BY <1>3, <4>1
        <5> QED  BY <5>1
      <4>3. at[i] = low
        BY <1>3, <1>5, <3>2
      <4> QED  BY <1>9, <4>1, <4>2, <4>3
    <3>3. i \in Int
      BY <1>5
    <3> QED  BY <3>1, <3>2, <3>3
  <2>2. PICK j \in 1..len : accesses[j].kind = kind /\ accesses[j].addr = at[i]
    BY <2>1
  <2>3. view.accesses[j].kind = kind
    BY <1>1, <2>2
  <2>4. \E x \in Recorded(view, kind, len) : x.addr = view.accesses[j].addr
    <3>1. len \in Int
      BY <1>3
    <3> QED  BY <2>3, <3>1, RecordedThere
  <2> QED  BY <1>1, <2>2, <2>4
<1>12. \A x \in writes : \A y \in writes : x.addr = y.addr => x = y
  BY <1>1, <1>3, RecordedOnce
<1>13. Descending(writes, n, at)
  <2>1. \A x \in writes : \E i \in 1..n : x.addr = at[i]
    BY <1>10
  <2>2. OneForEach(writes, n, at)
    BY <1>7, <1>11, <1>12, <2>1 DEF OneForEach
  <2>3. \A i \in 1..n : at[i] \in Int
    BY <1>5
  <2> QED  BY <1>3, <1>6, <2>2, <2>3 DEF Descending
<1>14. ASSUME NEW x \in writes, NEW i \in 1..n, x.addr = at[i]
       PROVE  /\ i = 1 => x.instruction = "push imm"
              /\ i = 2 => x.instruction = "call imm"
              /\ i > 2 => x.instruction \in {"push", "pushfq"}
  <2>1. PICK j \in 1..n : /\ x.addr = at[j]
                          /\ j = 1 => x.instruction = "push imm"
                          /\ j = 2 => x.instruction = "call imm"
                          /\ j > 2 => x.instruction \in {"push", "pushfq"}
    BY <1>10
  <2>2. i = j
    BY <1>7, <1>14, <2>1
  <2> QED  BY <2>1, <2>2
<1>15. Pushed(writes, n, at, viaRet)
  BY <1>1, <1>13, <1>14 DEF Pushed
<1> QED  BY <1>15

LEMMA EntryReadsThere ==
  ASSUME LoopInv, OnItsStack, NEW viaRet \in BOOLEAN, NEW view, EntryShape(view.accesses, viaRet),
         NEW len, len = Len(view.accesses),
         NEW reads, reads = Recorded(view, "read", len)
  PROVE  EntryReadsAre(reads, viaRet)
<1>1. PICK accesses, kind : accesses = view.accesses /\ kind = "read"
  OBVIOUS
<1>2. (viaRet => len = 22) /\ (~viaRet => len = 20) /\ len \in Int
  BY DEF EntryShape
<1>3. \A j \in 1..19 : PushedAt(accesses[j], j)
  BY <1>1 DEF EntryShape
<1>4. FetchedAt(accesses[20])
  BY <1>1 DEF EntryShape
<1>5. viaRet => /\ accesses[21].kind = "write"
                /\ accesses[22].kind = "read" /\ accesses[22].addr = Context - 8
                /\ accesses[22].instruction = "ret"
  BY <1>1 DEF EntryShape
<1>6. ASSUME NEW x \in reads
      PROVE  \/ /\ x.addr = Bytecode /\ x.size = 4 /\ x.instruction = "fetch"
             \/ viaRet /\ x.addr = Context - 8 /\ x.instruction = "ret"
  <2>1. PICK j \in 1..len : /\ accesses[j].kind = kind /\ x.addr = accesses[j].addr
                            /\ x.size = accesses[j].size
                            /\ x.instruction = accesses[j].instruction
    BY <1>1, RecordedFacts
  <2>2. j \in Int /\ j >= 1 /\ j <= len
    BY <1>2
  <2>3. ~(j <= 19)
    <3> SUFFICES ASSUME j <= 19 PROVE FALSE
      OBVIOUS
    <3>1. j \in 1..19
      BY <2>2
    <3>2. accesses[j].kind = "write"
      BY <1>3, <3>1 DEF PushedAt
    <3> QED  BY <1>1, <2>1, <3>2
  <2>4. CASE j = 20
    BY <1>4, <2>1, <2>4 DEF FetchedAt
  <2>5. CASE j # 20
    <3>1. viaRet
      <4> SUFFICES ASSUME ~viaRet PROVE FALSE
        OBVIOUS
      <4>1. len = 20
        BY <1>2
      <4> QED  BY <2>2, <2>3, <2>5, <4>1
    <3>2. j # 21
      BY <1>1, <1>5, <2>1, <3>1
    <3>3. j = 22
      <4>1. len = 22
        BY <1>2, <3>1
      <4> QED  BY <2>2, <2>3, <2>5, <3>2, <4>1
    <3> QED  BY <1>5, <2>1, <3>1, <3>3
  <2> QED  BY <2>4, <2>5
<1>7. \A j \in 1..len : accesses[j].kind = kind => \E x \in reads : x.addr = accesses[j].addr
  <2> SUFFICES ASSUME NEW j \in 1..len, accesses[j].kind = kind
               PROVE  \E x \in reads : x.addr = accesses[j].addr
    OBVIOUS
  <2>1. view.accesses[j].kind = kind
    BY <1>1
  <2>2. \E x \in Recorded(view, kind, len) : x.addr = view.accesses[j].addr
    BY <1>2, <2>1, RecordedThere
  <2> QED  BY <1>1, <2>2
<1>8. Bytecode # Context - 8
  <2>1. PICK c, t, b : c = Context /\ t = top /\ b = Bytecode
    OBVIOUS
  <2>2. c \in Int /\ t \in Int /\ c = t - 536
    BY <2>1 DEF LoopInv, Context, EntryPushes, ContextBelow
  <2>3. b \notin (c - 8)..(t + 16)
    BY <2>1 DEF OnItsStack
  <2>4. b # c - 8
    BY <2>2, <2>3
  <2> QED  BY <2>1, <2>4
<1>9. \E r \in reads : r.addr >= ImageBase /\ r.size = 4 /\ r.instruction = "fetch"
  <2>1. PICK j \in 1..len : j = 20
    <3>1. CASE viaRet
      <4>1. len = 22
        BY <1>2, <3>1
      <4> QED  BY <4>1
    <3>2. CASE ~viaRet
      <4>1. len = 20
        BY <1>2, <3>2
      <4> QED  BY <4>1
    <3> QED  BY <3>1, <3>2
  <2>2. accesses[j].kind = kind /\ accesses[j].addr = Bytecode
    BY <1>1, <1>4, <2>1 DEF FetchedAt
  <2>3. PICK x \in reads : x.addr = Bytecode
    BY <1>7, <2>2
  <2>4. x.size = 4 /\ x.instruction = "fetch"
    BY <1>6, <1>8, <2>3
  <2>5. Bytecode >= ImageBase
    BY RegsAssumption DEF Bytecode
  <2> QED  BY <2>3, <2>4, <2>5
<1>10. viaRet => \E r \in reads : r.instruction = "ret"
  <2> SUFFICES ASSUME viaRet PROVE \E r \in reads : r.instruction = "ret"
    OBVIOUS
  <2>1. PICK j \in 1..len : j = 22
    <3>1. len = 22
      BY <1>2
    <3> QED  BY <3>1
  <2>2. accesses[j].kind = kind /\ accesses[j].addr = Context - 8
    BY <1>1, <1>5, <2>1
  <2>3. PICK x \in reads : x.addr = Context - 8
    BY <1>7, <2>2
  <2> QED  BY <1>6, <1>8, <2>3
<1> QED  BY <1>6, <1>9, <1>10 DEF EntryReadsAre

LEMMA EntryFrom ==
  ASSUME NEW data, NEW viaRet \in BOOLEAN, NEW n, NEW at, Pushed(data.logicWrites, n, at, viaRet),
         EntryReadsAre(data.logicReads, viaRet),
         data.rsp.start \in Int, data.rsp.end \in Int, data.rsp.end - data.rsp.start < -16,
         DOMAIN data.registerAst \subseteq Nat,
         NEW newVsp, Holds(data, newVsp, VM_CONTEXT, -152),
         TakenAsOrNot(data, "Entry"),
         NEW h, h.op = "Entry", h.d = 8, h.change = -152
  PROVE  Recognised(h, MatchVmHandler(data))
<1>1. PICK start : start = data.rsp.start
  OBVIOUS
<1>2. /\ TryMatchVmEntry(data) # {}
      /\ \A m \in TryMatchVmEntry(data) :
           m.depth = 8 /\ m.vspBefore = start /\ m.vspAfter = start - 152
  <2>1. start \in Int /\ data.rsp.end - start < -16
    BY <1>1
  <2>2. EntersAt(data, start)
    BY <1>1, <2>1, EntryShown
  <2> QED  BY <2>2 DEF EntersAt
<1>3. PICK m : m = MatchVmHandler(data)
  OBVIOUS
<1>4. Tries(data) # {}
  BY <1>2 DEF Tries
<1>5. TypeTells(data, m) /\ m.type = "Entry"
  <2>1. TakenAs(data, "Entry")
    BY <1>4, FoundNamed
  <2> QED  BY <1>3, <2>1 DEF TakenAs
<1>6. m \in TryMatchVmEntry(data)
  BY <1>5 DEF TypeTells
<1>7. m.depth = 8 /\ m.vspBefore = start /\ m.vspAfter = start - 152
  BY <1>2, <1>6
<1> QED  BY <1>1, <1>3, <1>5, <1>7 DEF Recognised

LEMMA EntryRecognised ==
  ASSUME LoopInv, OnItsStack, ~inside, NEW newVip, NEW newVsp \in Regs,
         NEW left, NEW viaRet \in BOOLEAN, NEW h, h = Entries(newVip, viaRet),
         NEW run, run = RunOf(h, newVip, newVsp, Known, Plus(<<"rsp", 0>>, h.change), left, Context),
         NEW n, n = Len(h.accesses),
         NEW m, m = MatchVmHandler(DataOf(run, n, TRUE)), m.type \in {h.op, "Unknown"}
  PROVE  Recognised(h, m)
<1>1. h.op = "Entry" /\ h.d = 8 /\ h.change = -152 /\ EntryShape(h.accesses, viaRet)
  BY EntryShaped
<1>2. /\ run.accesses = h.accesses /\ run.rspEnd = Context
      /\ run.final[newVsp] = Plus(<<"rsp", 0>>, -152)
  BY <1>1 DEF RunOf
<1>3. PICK data, view : data = DataOf(run, n, TRUE) /\ view = ViewOf(run)
  OBVIOUS
<1>4. view.accesses = h.accesses
  BY <1>2, <1>3 DEF ViewOf
<1>5. data.rsp.start = top /\ data.rsp.end = Context
  <2>1. Rsp = top
    BY DEF Rsp
  <2> QED  BY <1>2, <1>3, <2>1 DEF DataOf, Emulate
<1>6. top \in Int /\ Context \in Int /\ Context - top = -536
  BY DEF LoopInv, Context, EntryPushes, ContextBelow
<1>7. PICK write, read : write = "write" /\ read = "read"
  OBVIOUS
<1>8. data.logicWrites = Recorded(view, write, n) /\ data.logicReads = Recorded(view, read, n)
  BY <1>3, <1>7, DataAccesses
<1>9. PICK c, at : Pushed(data.logicWrites, c, at, viaRet)
  BY <1>1, <1>4, <1>6, <1>7, <1>8, EntryPushed
<1>10. EntryReadsAre(data.logicReads, viaRet)
  BY <1>1, <1>4, <1>7, <1>8, EntryReadsThere
<1>11. DOMAIN data.registerAst = Regs
       /\ \A r \in Regs : data.registerAst[r] = AstOf(view, run.final[r])
  <2>1. AstsOf(data, view, run)
    BY <1>3, AllAsts
  <2> QED  BY <2>1 DEF AstsOf
<1>12. Holds(data, newVsp, VM_CONTEXT, -152)
  <2>1. NameOf(view, <<"rsp", 0>>) = VM_CONTEXT
    BY <1>3, SourceNames
  <2>2. PICK k \in Int : k = -152 /\ k # 0
    OBVIOUS
  <2>3. GetAddImmediate(AstOf(view, Plus(<<"rsp", 0>>, k)), VM_CONTEXT) = {k}
    BY <2>1, <2>2, SumTree, NamesDiffer
  <2> QED  BY <1>2, <1>11, <2>2, <2>3 DEF Holds
<1>13. TakenAsOrNot(data, "Entry")
  <2>1. EntersWith(h, newVip)
    BY EntryAccesses
  <2>2. QuietRun(run, "Entry", n)
    BY <1>2, <2>1 DEF QuietRun, EntersWith
  <2>3. PICK complete \in BOOLEAN : complete = TRUE
    OBVIOUS
  <2>4. "Entry" \notin {"Shld", "Shrd"}
    OBVIOUS
  <2>5. TryMatchVmDoubleShift(DataOf(run, n, complete)) = {}
    BY <2>2, <2>4, NoDoubleShift
  <2>6. TryMatchVmDoubleShift(data) = {}
    BY <1>3, <2>3, <2>5
  <2>7. MatchVmHandler(data).type \in {"Entry", "Unknown"}
    BY <1>1, <1>3
  <2> QED  BY <2>6, <2>7 DEF TakenAsOrNot
<1>14. /\ DOMAIN data.registerAst \subseteq Nat
       /\ data.rsp.start \in Int /\ data.rsp.end \in Int /\ data.rsp.end - data.rsp.start < -16
  BY <1>5, <1>6, <1>11, RegsAssumption
<1>15. Recognised(h, MatchVmHandler(data))
  BY <1>1, <1>9, <1>10, <1>12, <1>13, <1>14, EntryFrom
<1> QED  BY <1>3, <1>15

-----------------------------------------------------------------------------
LEMMA NamedSo ==
  ASSUME NEW h, NEW m, Named(h, m), NEW run, MatchedWhole(h, run, m), top' = top
  PROVE  NeverMistaken'
<1>1. /\ last'.op = h.op /\ last'.d = h.d /\ last'.change = h.change
      /\ last'.a = h.a /\ last'.b = h.b /\ last'.vsp = Vsp
      /\ last'.type = m.type
  BY DEF MatchedWhole
<1>2. CASE m.type \in {h.op, "Unknown"}
  BY <1>1, <1>2 DEF NeverMistaken
<1>3. CASE LooksSo(h) /\ m.type = "ReadMem"
  <2>1. LooksLikeRead'
    BY <1>1, <1>3 DEF LooksSo, LooksLikeRead, Context
  <2> QED  BY <1>1, <1>3, <2>1 DEF NeverMistaken
<1>5. CASE ReadsNext(h) /\ h.d = 8 /\ m.type = "Dispatch"
  <2>1. ReadsNextOpcode'
    BY <1>1, <1>5 DEF ReadsNext, ReadsNextOpcode
  <2> QED  BY <1>1, <1>5, <2>1 DEF NeverMistaken
<1>4. CASE /\ top >= ImageBase
           /\ \/ h.op = "PushReg" /\ h.change = -2 /\ m.type = "PushConst"
              \/ h.op \in Flagged /\ h.change = 0 /\ m.type = "Dispatch"
  BY <1>1, <1>4 DEF NeverMistaken
<1> QED  BY <1>2, <1>3, <1>4, <1>5 DEF Named

(* What the recognisers of memory accesses need besides OnItsStack: the    *)
(* virtual stack holds a value while the machine runs.                     *)
HoldsValue == inside => Vsp + 8 <= top

LEMMA RecognisedSo ==
  ASSUME NEW h, NEW m, NEW run, MatchedWhole(h, run, m), top' = top,
         \/ Recognised(h, m) \/ LooksSo(h) \/ ~Telling(h) \/ ~(top < ImageBase)
  PROVE  RecognisedWhole'
<1>1. /\ last'.op = h.op /\ last'.d = h.d /\ last'.change = h.change
      /\ last'.a = h.a /\ last'.b = h.b /\ last'.vsp = Vsp
      /\ last'.type = m.type /\ last'.depth = m.depth
      /\ last'.moved = h.moved /\ last'.recorded = m.vspAfter - m.vspBefore
  BY DEF MatchedWhole
<1>2. CASE Recognised(h, m)
  <2>1. m.type = h.op /\ m.depth = h.d /\ m.vspAfter - m.vspBefore = h.change
    BY <1>2 DEF Recognised
  <2>2. last'.type = last'.op /\ last'.depth = last'.d /\ last'.recorded = last'.change
    BY <1>1, <2>1
  <2> QED  BY <2>2 DEF RecognisedWhole
<1>3. CASE LooksSo(h)
  <2>1. LooksLikeRead'
    BY <1>1, <1>3 DEF LooksSo, LooksLikeRead, Context
  <2> QED  BY <2>1 DEF RecognisedWhole
<1>4. CASE ~Telling(h)
  BY <1>1, <1>4 DEF Telling, ReadsNext, ReadsNextOpcode, RecognisedWhole
<1>5. CASE ~(top < ImageBase)
  BY <1>5 DEF RecognisedWhole
<1> QED  BY <1>2, <1>3, <1>4, <1>5

LEMMA HandlerNamed ==
  ASSUME LoopInv, OnItsStack, RunHandler PROVE NeverMistaken'
<1> SUFFICES ASSUME Whole' PROVE NeverMistaken'
  BY DEF NeverMistaken
<1>1. PICK h \in Straight, left \in [Regs -> {Kept} \cup Junks] :
        /\ left[vspOf] = Kept /\ left[vipOf] = Kept
        /\ Rounds(h, RunOf(h, vipOf, vspOf, Plus(Reg(vipOf), h.taken), h.vsp, left, Rsp))
  BY DEF RunHandler
<1>2. PICK run : run = RunOf(h, vipOf, vspOf, Plus(Reg(vipOf), h.taken), h.vsp, left, Rsp)
  OBVIOUS
<1>3. inside /\ top' = top
  BY DEF RunHandler
<1>4. PICK m : MatchedWhole(h, run, m)
  <2>1. Rounds(h, run)
    BY <1>1, <1>2
  <2> QED  BY <2>1, WholeRound
<1>5. PICK n : n = Len(h.accesses) /\ m = MatchVmHandler(DataOf(run, n, TRUE)) /\ RightRegisters
  BY <1>4 DEF MatchedWhole
<1>6. Named(h, m)
  BY <1>1, <1>2, <1>3, <1>5, StraightNamed
<1> QED  BY <1>3, <1>4, <1>6, NamedSo

LEMMA HandlerRecognised ==
  ASSUME LoopInv, OnItsStack, HoldsValue, RunHandler PROVE RecognisedWhole'
<1> SUFFICES ASSUME Whole' PROVE RecognisedWhole'
  BY DEF RecognisedWhole
<1>1. PICK h \in Straight, left \in [Regs -> {Kept} \cup Junks] :
        /\ left[vspOf] = Kept /\ left[vipOf] = Kept
        /\ Rounds(h, RunOf(h, vipOf, vspOf, Plus(Reg(vipOf), h.taken), h.vsp, left, Rsp))
  BY DEF RunHandler
<1>2. PICK run : run = RunOf(h, vipOf, vspOf, Plus(Reg(vipOf), h.taken), h.vsp, left, Rsp)
  OBVIOUS
<1>3. inside /\ top' = top
  BY DEF RunHandler
<1>4. PICK m : MatchedWhole(h, run, m)
  <2>1. Rounds(h, run)
    BY <1>1, <1>2
  <2> QED  BY <2>1, WholeRound
<1>5. PICK n : n = Len(h.accesses) /\ m = MatchVmHandler(DataOf(run, n, TRUE)) /\ RightRegisters
  BY <1>4 DEF MatchedWhole
<1>6. Vsp + 8 <= top
  BY <1>3 DEF HoldsValue
<1>7. top < ImageBase /\ Telling(h) /\ ~LooksSo(h) => Recognised(h, m)
  <2> SUFFICES ASSUME top < ImageBase, Telling(h), ~LooksSo(h) PROVE Recognised(h, m)
    OBVIOUS
  <2> QED  BY <1>1, <1>2, <1>3, <1>5, <1>6, StraightRecognised
<1> QED  BY <1>3, <1>4, <1>7, RecognisedSo

LEMMA JumpJudged ==
  ASSUME LoopInv, OnItsStack, RunJump PROVE NeverMistaken' /\ RecognisedWhole'
<1> SUFFICES ASSUME Whole' PROVE NeverMistaken' /\ RecognisedWhole'
  BY DEF NeverMistaken, RecognisedWhole
<1>1. PICK newVip \in Regs, newVsp \in Regs, left \in [Regs -> Leftovers] :
        /\ newVip # newVsp
        /\ left[newVsp] = Kept /\ left[newVip] = Kept
        /\ Rounds(Jumps(newVip),
                  RunOf(Jumps(newVip), newVip, newVsp, Plus(Mem(1), 4), Plus(Reg(vspOf), 8),
                        left, Rsp))
  BY DEF RunJump
<1>2. PICK h, run :
        /\ h = Jumps(newVip)
        /\ run = RunOf(h, newVip, newVsp, Plus(Mem(1), 4), Plus(Reg(vspOf), 8), left, Rsp)
  OBVIOUS
<1>3. inside /\ top' = top
  BY DEF RunJump
<1>4. PICK m : MatchedWhole(h, run, m)
  BY <1>1, <1>2, WholeRound
<1>5. PICK n, complete : /\ n = Len(h.accesses) /\ complete = TRUE
                         /\ m = MatchVmHandler(DataOf(run, n, complete)) /\ RightRegisters
  BY <1>4 DEF MatchedWhole
<1>6. /\ \A i \in 1..n : i \in 1..Len(h.accesses)
      /\ complete \in BOOLEAN /\ complete
      /\ m = MatchVmHandler(DataOf(run, n, complete))
  BY <1>5
<1>7. /\ newVip \in Regs /\ newVsp \in Regs /\ newVip # newVsp
      /\ left[newVsp] = Kept /\ left[newVip] = Kept
  BY <1>1
<1>8. m.type \in Control => m.type = "Jmp"
  <2>1. JumpTaken(run, newVip, complete, m)
    BY <1>2, <1>6, <1>7, JumpVerdict
  <2> QED  BY <2>1 DEF JumpTaken
<1>9. RightRegisters
  BY <1>5
<1>10. m.type \in {h.op, "Unknown"}
  BY <1>2, <1>3, <1>6, <1>7, <1>8, <1>9, JumpNamed, Zenon
<1>11. top < ImageBase => Recognised(h, m)
  <2> SUFFICES ASSUME top < ImageBase PROVE Recognised(h, m)
    OBVIOUS
  <2>1. n = Len(h.accesses) /\ m = MatchVmHandler(DataOf(run, n, TRUE))
    BY <1>5
  <2> QED  BY <1>2, <1>3, <1>7, <1>9, <1>10, <2>1, JumpRecognised
<1>12. Named(h, m)
  BY <1>10 DEF Named
<1> QED  BY <1>3, <1>4, <1>11, <1>12, NamedSo, RecognisedSo

LEMMA EntryJudged ==
  ASSUME LoopInv, OnItsStack, RunEntry PROVE NeverMistaken' /\ RecognisedWhole'
<1> SUFFICES ASSUME Whole' PROVE NeverMistaken' /\ RecognisedWhole'
  BY DEF NeverMistaken, RecognisedWhole
<1>1. PICK newVip \in Regs, newVsp \in Regs, left \in [Regs -> Leftovers], viaRet \in BOOLEAN :
        /\ newVip # newVsp
        /\ left[newVsp] = Kept /\ left[newVip] = Kept
        /\ Rounds(Entries(newVip, viaRet),
                  RunOf(Entries(newVip, viaRet), newVip, newVsp, Known,
                        Plus(<<"rsp", 0>>, Entries(newVip, viaRet).change), left, Context))
  BY DEF RunEntry
<1>2. PICK h, rspEnd, run :
        /\ h = Entries(newVip, viaRet) /\ rspEnd = Context
        /\ run = RunOf(h, newVip, newVsp, Known, Plus(<<"rsp", 0>>, h.change), left, rspEnd)
  OBVIOUS
<1>3. top' = top /\ ~inside
  BY DEF RunEntry
<1>4. PICK m : MatchedWhole(h, run, m)
  BY <1>1, <1>2, WholeRound
<1>5. PICK n, complete : /\ n = Len(h.accesses) /\ complete = TRUE
                         /\ m = MatchVmHandler(DataOf(run, n, complete)) /\ RightRegisters
  BY <1>4 DEF MatchedWhole
<1>6. /\ \A i \in 1..n : i \in 1..Len(h.accesses)
      /\ complete \in BOOLEAN /\ complete
      /\ m = MatchVmHandler(DataOf(run, n, complete))
  BY <1>5
<1>7. EntersWith(h, newVip) /\ \A i \in 1..Len(h.accesses) : EntryRead(h.accesses[i])
  BY <1>2, EntryAccesses, EntryReads
<1>8. m.type \in Control => m.type = "Entry"
  <2>1. /\ newVip \in Regs /\ newVsp \in Regs /\ newVip # newVsp
        /\ left[newVsp] = Kept /\ left[newVip] = Kept
    BY <1>1
  <2>2. EntryTaken(h, run, newVip, complete, m)
    BY <1>2, <1>6, <1>7, <2>1, EntryVerdict
  <2> QED  BY <2>2 DEF EntryTaken
<1>9. /\ h.op = "Entry" /\ \A i \in 1..Len(h.accesses) : Quiet(h.accesses[i], "Entry")
      /\ \A i \in 1..Len(h.accesses) : EntryRead(h.accesses[i])
  BY <1>7 DEF EntersWith
<1>10. RightRegisters
  BY <1>5
<1>11. m.type \in {h.op, "Unknown"}
  BY <1>2, <1>6, <1>8, <1>9, <1>10, EntryNamed, Zenon
<1>12. Recognised(h, m)
  <2>1. n = Len(h.accesses) /\ m = MatchVmHandler(DataOf(run, n, TRUE))
    BY <1>5
  <2>2. /\ h = Entries(newVip, viaRet)
        /\ run = RunOf(h, newVip, newVsp, Known, Plus(<<"rsp", 0>>, h.change), left, Context)
    BY <1>2
  <2> QED  BY <1>1, <1>3, <1>11, <2>1, <2>2, EntryRecognised
<1>13. Named(h, m)
  BY <1>11 DEF Named
<1> QED  BY <1>3, <1>4, <1>12, <1>13, NamedSo, RecognisedSo

LEMMA ExitJudged ==
  ASSUME LoopInv, RunExit PROVE NeverMistaken' /\ RecognisedWhole'
<1> SUFFICES ASSUME Whole' PROVE NeverMistaken' /\ RecognisedWhole'
  BY DEF NeverMistaken, RecognisedWhole
<1>1. PICK left \in [Regs -> Junks] :
        Rounds(Exits, RunOf(Exits, NoReg, NoReg, Known, Known, left, Vsp + Exits.change))
  BY DEF RunExit
<1>2. PICK run : run = RunOf(Exits, NoReg, NoReg, Known, Known, left, Vsp + Exits.change)
  OBVIOUS
<1>3. inside /\ top' = top
  BY DEF RunExit
<1>4. PICK m : MatchedWhole(Exits, run, m)
  <2>1. Rounds(Exits, run)
    BY <1>1, <1>2
  <2> QED  BY <2>1, WholeRound
<1>5. PICK n : /\ n = Len(Exits.accesses)
               /\ m = MatchVmHandler(DataOf(run, n, TRUE)) /\ RightRegisters
  BY <1>4 DEF MatchedWhole
<1>6. Recognised(Exits, m)
  BY <1>1, <1>2, <1>3, <1>5, ExitRecognised
<1>7. Named(Exits, m)
  BY <1>6 DEF Named, Recognised
<1> QED  BY <1>3, <1>4, <1>6, <1>7, NamedSo, RecognisedSo

LEMMA NextNamed ==
  ASSUME LoopInv, OnItsStack, Next PROVE NeverMistaken'
BY HandlerNamed, JumpJudged, EntryJudged, ExitJudged DEF Next

LEMMA NextRecognised ==
  ASSUME LoopInv, OnItsStack, HoldsValue, Next PROVE RecognisedWhole'
BY HandlerRecognised, JumpJudged, EntryJudged, ExitJudged DEF Next

LEMMA NamedStays ==
  ASSUME UNCHANGED vars
  PROVE  (NeverMistaken => NeverMistaken') /\ (RecognisedWhole => RecognisedWhole')
<1>1. top' = top /\ last' = last
  BY DEF vars
<1> QED
  BY <1>1 DEF NeverMistaken, RecognisedWhole, Whole, Judged, LooksLikeRead, ReadsNextOpcode, Context

(* The order of the recognisers in MatchVmHandler, for one handler: if the *)
(* stack is in its place when a handler begins, whatever has been run      *)
(* before and whether or not the stack was in its place then, the handler, *)
(* emulated to its end with the right registers, is taken for what it is   *)
(* or for nothing, but as NeverMistaken says: arithmetic with the operands *)
(* of LooksLikeRead, a read of the next opcode, and, above                 *)
(* defaultImageBase, where no read is named, two kinds of handlers.        *)
THEOREM NeverMistakenOnStack == Spec => [][OnItsStack => NeverMistaken']_vars
<1>1. LoopInv /\ [Next]_vars => [OnItsStack => NeverMistaken']_vars
  BY NextNamed
<1>2. Spec => []LoopInv
  BY LoopVerdict, PTL
<1> QED  BY <1>1, <1>2, PTL DEF Spec

(* The recognisers against the handlers, for one handler: if the stack is  *)
(* in its place when it begins, holds the value that it works on and lies  *)
(* below defaultImageBase, it is taken for what it is, with its operand    *)
(* size and with its change of VSP, but for the handlers that              *)
(* RecognisedWhole names.                                                  *)
THEOREM RecognisedWholeOnStack ==
  Spec => [][OnItsStack /\ HoldsValue => RecognisedWhole']_vars
<1>1. LoopInv /\ [Next]_vars => [OnItsStack /\ HoldsValue => RecognisedWhole']_vars
  BY NextRecognised
<1>2. Spec => []LoopInv
  BY LoopVerdict, PTL
<1> QED  BY <1>1, <1>2, PTL DEF Spec

(* Of a program that keeps its stack in its place no handler is mistaken   *)
(* for another, but as NeverMistaken says.                                 *)
THEOREM NeverMistakenAlways == Spec /\ []OnItsStack => []NeverMistaken
<1>1. Init => NeverMistaken
  BY DEF Init, NeverMistaken, Whole, Judged
<1>2. NeverMistaken /\ [Next]_vars /\ [OnItsStack => NeverMistaken']_vars /\ OnItsStack
        => NeverMistaken'
  BY NamedStays
<1> QED  BY <1>1, <1>2, NeverMistakenOnStack, PTL DEF Spec

(* Of a program that keeps its stack in its place and never pops it empty  *)
(* every handler is recognised whole, but as RecognisedWhole says.         *)
THEOREM RecognisedWholeAlways ==
  Spec /\ []OnItsStack /\ []HoldsValue => []RecognisedWhole
<1>1. Init => RecognisedWhole
  BY DEF Init, RecognisedWhole, Whole, Judged
<1>2. RecognisedWhole /\ [Next]_vars /\ [OnItsStack /\ HoldsValue => RecognisedWhole']_vars
        /\ OnItsStack /\ HoldsValue => RecognisedWhole'
  BY NamedStays
<1> QED  BY <1>1, <1>2, RecognisedWholeOnStack, PTL DEF Spec
=============================================================================
