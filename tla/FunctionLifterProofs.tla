------------------------- MODULE FunctionLifterProofs -------------------------
(***************************************************************************)
(* LLVMFunctionLifter for any block of any length that is Regular.  First  *)
(* the shadow stack: the widths of the values, and that only a pop that    *)
(* cuts a slot can make a later instruction impossible.  Then, from the    *)
(* line of bytes on, the values: as long as no slot was cut, the code of   *)
(* the function does what the virtual machine does.                        *)
(***************************************************************************)
EXTENDS FunctionLifter, Induction

-----------------------------------------------------------------------------
(* Values and slots.  A slot has some of the bytes of its value, and all   *)
(* of them when it is exact.                                               *)
Widths == {2, 4, 6, 8}
IsWide(v, n) == Len(v) = n /\ \E S : v \in Seq(S)
Wide(v) == Len(v) \in Widths /\ \E S : v \in Seq(S)
GoodSlot(s, exact) ==
  /\ Wide(s.value)
  /\ s.depth \in Widths /\ s.depth <= Len(s.value)
  /\ exact => Len(s.value) = s.depth
GoodStack(sh, exact) == \E S : sh \in Seq(S) /\ \A s \in S : GoodSlot(s, exact)

(* A function on 1..n is a sequence of n elements.                         *)
LEMMA FunctionWide ==
  ASSUME NEW n \in Nat, NEW f, f = [k \in 1..n |-> f[k]]
  PROVE  IsWide(f, n)
<1>1. PICK S : S = {f[k] : k \in 1..n}
  OBVIOUS
<1>2. \A k \in 1..n : f[k] \in S
  BY <1>1
<1>3. f \in [1..n -> S]
  BY <1>2
<1>4. f \in Seq(S) /\ Len(f) = n
  BY <1>3
<1> QED  BY <1>4 DEF IsWide

LEMMA WordWide == ASSUME NEW kind, NEW id, NEW n \in Nat PROVE IsWide(Word(kind, id, n), n)
<1>1. PICK f : f = Word(kind, id, n)
  OBVIOUS
<1>2. f = [k \in 1..n |-> f[k]]
  BY <1>1 DEF Word
<1> QED  BY <1>1, <1>2, FunctionWide

LEMMA LoadWide == ASSUME NEW vsp, NEW n \in Nat PROVE IsWide(Load(vsp, n), n)
<1>1. PICK f : f = Load(vsp, n)
  OBVIOUS
<1>2. f = [k \in 1..n |-> f[k]]
  BY <1>1 DEF Load
<1> QED  BY <1>1, <1>2, FunctionWide

LEMMA MergedWide ==
  ASSUME NEW parts, NEW place, NEW d \in Nat
  PROVE  IsWide(Merged(parts, place, d), d)
<1>1. Merged(parts, place, d) = [k \in 1..d |-> Merged(parts, place, d)[k]]
  BY SMTT(30) DEF Merged
<1>2. PICK f : f = Merged(parts, place, d) /\ f = [k \in 1..d |-> f[k]]
  BY <1>1
<1> QED  BY <1>2, FunctionWide

LEMMA StoreWide ==
  ASSUME NEW c, NEW n \in Nat, IsWide(c, n), NEW at, NEW v
  PROVE  IsWide(Store(c, at, v), n)
<1>1. PICK S : c \in Seq(S) /\ Len(c) = n
  BY DEF IsWide
<1>2. DOMAIN c = 1..n
  BY <1>1
<1>3. PICK f : f = Store(c, at, v)
  OBVIOUS
<1>4. f = [k \in 1..n |-> f[k]]
  BY <1>2, <1>3 DEF Store
<1> QED  BY <1>3, <1>4, FunctionWide

(* A part of a value.                                                      *)
LEMMA PartWide ==
  ASSUME NEW v, NEW l \in Nat, IsWide(v, l), NEW a \in Nat, NEW b \in Nat, a <= b, b <= l
  PROVE  IsWide(SubSeq(v, a + 1, b), b - a)
<1>1. PICK S : v \in Seq(S) /\ Len(v) = l
  BY DEF IsWide
<1>2. \A i \in (a + 1)..b : v[i] \in S
  BY <1>1, ElementOfSeq
<1>3. PICK r : r = SubSeq(v, a + 1, b)
  OBVIOUS
<1>4. r \in Seq(S) /\ Len(r) = IF a + 1 <= b THEN b - (a + 1) + 1 ELSE 0
  BY <1>2, <1>3, SubSeqProperties
<1>5. Len(r) = b - a
  BY <1>4
<1> QED  BY <1>3, <1>4, <1>5 DEF IsWide

LEMMA TruncWide ==
  ASSUME NEW v, NEW l \in Nat, IsWide(v, l), NEW n \in Nat, n <= l
  PROVE  IsWide(Trunc(v, n), n)
<1>1. IsWide(SubSeq(v, 0 + 1, n), n - 0)
  BY PartWide
<1>2. 0 + 1 = 1 /\ n - 0 = n
  OBVIOUS
<1> QED  BY <1>1, <1>2 DEF Trunc

LEMMA ExtendWide ==
  ASSUME NEW v, NEW l \in Nat, IsWide(v, l), NEW n \in Nat, l <= n
  PROVE  IsWide(ZeroExtend(v, n), n)
<1>1. PICK S : v \in Seq(S) /\ Len(v) = l
  BY DEF IsWide
<1>2. PICK w : w = Word("zero", 0, n - l)
  OBVIOUS
<1>3. PICK T : w \in Seq(T) /\ Len(w) = n - l
  BY <1>2, WordWide DEF IsWide
<1>4. v \in Seq(S \cup T) /\ w \in Seq(S \cup T)
  BY <1>1, <1>3, SeqMonotonic
<1>5. v \o w \in Seq(S \cup T) /\ Len(v \o w) = l + (n - l)
  BY <1>1, <1>3, <1>4, ConcatProperties
<1>6. ZeroExtend(v, n) = v \o w
  BY <1>1, <1>2 DEF ZeroExtend
<1>7. l + (n - l) = n
  OBVIOUS
<1> QED  BY <1>5, <1>6, <1>7 DEF IsWide

LEMMA WideIs == ASSUME NEW v, NEW n \in Widths, IsWide(v, n) PROVE Wide(v)
  BY DEF IsWide, Wide

LEMMA IsWideOf == ASSUME NEW v, Wide(v) PROVE IsWide(v, Len(v)) /\ Len(v) \in Nat
  BY DEF IsWide, Wide, Widths

-----------------------------------------------------------------------------
(* Shadow stacks.                                                          *)
LEMMA SeqGood ==
  ASSUME NEW S, NEW sh \in Seq(S), NEW exact, \A s \in S : GoodSlot(s, exact)
  PROVE  GoodStack(sh, exact)
  BY DEF GoodStack

LEMMA SlotGood ==
  ASSUME NEW sh, NEW exact, GoodStack(sh, exact)
  PROVE  Len(sh) \in Nat /\ DOMAIN sh = 1..Len(sh) /\ (sh # <<>> => Len(sh) > 0)
         /\ \A i \in 1..Len(sh) : GoodSlot(sh[i], exact)
<1>1. PICK S : sh \in Seq(S) /\ \A s \in S : GoodSlot(s, exact)
  BY DEF GoodStack
<1>2. Len(sh) \in Nat /\ DOMAIN sh = 1..Len(sh) /\ (sh # <<>> => Len(sh) > 0)
  BY <1>1, LenProperties, EmptySeq
<1>3. \A i \in 1..Len(sh) : sh[i] \in S
  BY <1>1, ElementOfSeq
<1> QED  BY <1>1, <1>2, <1>3

(* Slots that are exact are slots.                                         *)
LEMMA GoodWeaker ==
  ASSUME NEW sh, NEW exact, GoodStack(sh, exact), NEW less, less => exact
  PROVE  GoodStack(sh, less)
<1>1. PICK S : sh \in Seq(S) /\ \A s \in S : GoodSlot(s, exact)
  BY DEF GoodStack
<1>2. \A s \in S : GoodSlot(s, less)
  BY <1>1 DEF GoodSlot
<1> QED  BY <1>1, <1>2, SeqGood

LEMMA AppendGood ==
  ASSUME NEW sh, NEW exact, GoodStack(sh, exact), NEW s, GoodSlot(s, exact)
  PROVE  GoodStack(Append(sh, s), exact)
<1>1. PICK S : sh \in Seq(S) /\ \A x \in S : GoodSlot(x, exact)
  BY DEF GoodStack
<1>2. sh \in Seq(S \cup {s}) /\ s \in S \cup {s}
  BY <1>1, SeqMonotonic
<1>3. Append(sh, s) \in Seq(S \cup {s})
  BY <1>2
<1> QED  BY <1>1, <1>3 DEF GoodStack

LEMMA ConcatGood ==
  ASSUME NEW exact, NEW sh, GoodStack(sh, exact), NEW top, GoodStack(top, exact)
  PROVE  GoodStack(sh \o top, exact)
<1>1. PICK S : sh \in Seq(S) /\ \A x \in S : GoodSlot(x, exact)
  BY DEF GoodStack
<1>2. PICK T : top \in Seq(T) /\ \A x \in T : GoodSlot(x, exact)
  BY DEF GoodStack
<1>3. sh \in Seq(S \cup T) /\ top \in Seq(S \cup T)
  BY <1>1, <1>2, SeqMonotonic
<1>4. sh \o top \in Seq(S \cup T)
  BY <1>3, ConcatProperties
<1> QED  BY <1>1, <1>2, <1>4 DEF GoodStack

LEMMA PairGood ==
  ASSUME NEW exact, NEW s, GoodSlot(s, exact), NEW t, GoodSlot(t, exact)
  PROVE  GoodStack(<<s>>, exact) /\ GoodStack(<<s, t>>, exact)
<1>1. PICK T : T = {s, t}
  OBVIOUS
<1>2. <<s>> \in Seq(T) /\ <<s, t>> \in Seq(T)
  BY <1>1
<1>3. \A x \in T : GoodSlot(x, exact)
  BY <1>1
<1>4. \A S, sh : sh \in Seq(S) /\ (\A x \in S : GoodSlot(x, exact)) => GoodStack(sh, exact)
  BY SeqGood
<1> QED  BY <1>2, <1>3, <1>4, Zenon

LEMMA PrefixGood ==
  ASSUME NEW sh, NEW exact, GoodStack(sh, exact), NEW m \in Int, m <= Len(sh)
  PROVE  GoodStack(SubSeq(sh, 1, m), exact)
<1>1. PICK S : sh \in Seq(S) /\ \A x \in S : GoodSlot(x, exact)
  BY DEF GoodStack
<1>2. \A i \in 1..m : sh[i] \in S
  BY <1>1, ElementOfSeq, LenProperties
<1>3. SubSeq(sh, 1, m) \in Seq(S)
  BY <1>2, SubSeqProperties
<1> QED  BY <1>1, <1>3 DEF GoodStack

LEMMA EmptyGood == \A exact : GoodStack(<<>>, exact)
<1> TAKE exact
<1>1. <<>> \in Seq({})
  BY EmptySeq
<1>2. \A S : <<>> \in Seq(S) /\ (\A s \in S : GoodSlot(s, exact)) => GoodStack(<<>>, exact)
  BY SeqGood
<1> QED  BY <1>1, <1>2

-----------------------------------------------------------------------------
(* The bytes of the n topmost slots.                                       *)
LEMMA TopIs ==
  ASSUME NEW sh, Len(sh) \in Nat
  PROVE  /\ TopDepth(sh)[0] = 0
         /\ \A n \in 1..Len(sh) : TopDepth(sh)[n] = TopDepth(sh)[n - 1] + FromTop(sh, n).depth
<1>1. PICK m \in Nat : m = Len(sh)
  OBVIOUS
<1> DEFINE c == [n \in 1..m |-> FromTop(sh, n).depth]
           IsSum(f) == f = [n \in 0..m |-> IF n = 0 THEN 0 ELSE f[n - 1] + FromTop(sh, n).depth]
<1>2. \E f : IsSum(f)
  <2>1. PICK f : f = [n \in 0..m |-> IF n = 0 THEN 0 ELSE f[n - 1] + c[n]]
    <3> HIDE DEF c
    <3> QED  BY <1>1, SumsExist
  <2>2. \A n \in 0..m : n # 0 => c[n] = FromTop(sh, n).depth
    BY <1>1
  <2>3. IsSum(f)
    BY <2>1, <2>2
  <2> QED  BY <2>3
<1>3. TopDepth(sh) = CHOOSE f : IsSum(f)
  BY <1>1 DEF TopDepth
<1>4. IsSum(TopDepth(sh))
  <2> HIDE DEF IsSum
  <2> QED  BY <1>2, <1>3
<1>5. PICK f : f = TopDepth(sh)
  OBVIOUS
<1>6. f = [n \in 0..m |-> IF n = 0 THEN 0 ELSE f[n - 1] + FromTop(sh, n).depth]
  BY <1>4, <1>5
<1>7. f[0] = 0 /\ \A n \in 1..m : f[n] = f[n - 1] + FromTop(sh, n).depth
  BY <1>6
<1> QED  BY <1>1, <1>5, <1>7

LEMMA FromTopGood ==
  ASSUME NEW sh, NEW exact, GoodStack(sh, exact), NEW i \in 1..Len(sh)
  PROVE  GoodSlot(FromTop(sh, i), exact) /\ FromTop(sh, i).depth \in Widths
<1>1. Len(sh) + 1 - i \in 1..Len(sh)
  BY SlotGood
<1>2. GoodSlot(sh[Len(sh) + 1 - i], exact)
  BY <1>1, SlotGood
<1> QED  BY <1>2 DEF FromTop, GoodSlot

(* They are an even number, and more with every slot.                      *)
Even == {n \in Nat : n % 2 = 0}
LEMMA TopGrows ==
  ASSUME NEW sh, NEW exact, GoodStack(sh, exact), NEW m \in 0..Len(sh)
  PROVE  TopDepth(sh)[m] \in Even /\ \A n \in 0..m : TopDepth(sh)[n] <= TopDepth(sh)[m]
<1>1. PICK l : l = Len(sh) /\ l \in Nat
  BY SlotGood
<1>2. PICK top : top = TopDepth(sh)
  OBVIOUS
<1>3. top[0] = 0 /\ \A n \in 1..l : top[n] = top[n - 1] + FromTop(sh, n).depth
  BY <1>1, <1>2, TopIs
<1> DEFINE Right(k) == top[k] \in Even /\ \A n \in 0..k : top[n] <= top[k]
           T == {k \in 0..l : ~Right(k)}
<1>4. T = {}
  <2> SUFFICES ASSUME T # {} PROVE FALSE
    OBVIOUS
  <2>1. PICK k \in T : \A j \in T : k <= j
    <3> HIDE DEF T
    <3>1. T \subseteq Nat
      BY <1>1 DEF T
    <3> QED  BY <3>1, LeastNumber
  <2>2. k \in 0..l /\ ~Right(k)
    OBVIOUS
  <2>3. k # 0
    <3>1. Right(0)
      <4>1. top[0] \in Even
        BY <1>3 DEF Even
      <4>2. \A n \in 0..0 : n = 0
        OBVIOUS
      <4> QED  BY <1>3, <4>1, <4>2
    <3> QED  BY <2>2, <3>1
  <2>4. PICK j : j \in 0..l /\ j = k - 1 /\ k \in 1..l
    BY <1>1, <2>2, <2>3
  <2>5. Right(j)
    <3>1. ~(k <= j)
      BY <1>1, <2>2, <2>4
    <3>2. j \notin T
      <4> HIDE DEF T
      <4> QED  BY <2>1, <3>1
    <3> QED  BY <2>4, <3>2
  <2>6. PICK d : d = FromTop(sh, k).depth /\ d \in Widths
    BY <1>1, <2>4, FromTopGood
  <2>7. top[k] = top[j] + d
    BY <1>3, <2>4, <2>6
  <2>8. top[j] \in Nat /\ top[j] % 2 = 0 /\ \A n \in 0..j : top[n] <= top[j]
    BY <2>5 DEF Even
  <2>9. top[k] \in Even /\ top[j] <= top[k]
    <3>1. \A x \in Nat : x % 2 = 0 => \A w \in Widths : (x + w) % 2 = 0 /\ x + w \in Nat /\ x <= x + w
      BY DEF Widths
    <3>2. top[k] % 2 = 0 /\ top[k] \in Nat /\ top[j] <= top[k]
      BY <2>6, <2>7, <2>8, <3>1
    <3> QED  BY <3>2 DEF Even
  <2>10. \A n \in 0..k : top[n] <= top[k]
    <3> TAKE n \in 0..k
    <3>1. CASE n = k
      BY <2>9, <3>1 DEF Even
    <3>2. CASE n # k
      <4>1. n \in 0..j
        BY <1>1, <2>4, <3>2
      <4>2. top[n] <= top[j] /\ \E r \in Nat : top[k] = top[j] + r
        BY <2>6, <2>7, <2>8, <4>1 DEF Widths
      <4>3. top[n] \in Nat
        <5>1. n \in 0..l
          BY <1>1, <2>4, <4>1
        <5>2. ~(k <= n) /\ n \notin T
          <6>1. ~(k <= n)
            BY <1>1, <2>4, <4>1
          <6> HIDE DEF T
          <6> QED  BY <2>1, <6>1
        <5>3. Right(n)
          BY <5>1, <5>2
        <5> QED  BY <5>3 DEF Even
      <4> QED  BY <2>8, <2>9, <4>2, <4>3, SMTT(30) DEF Even
    <3> QED  BY <3>1, <3>2
  <2> QED  BY <2>2, <2>9, <2>10
<1>5. m \notin T
  <2> HIDE DEF T
  <2> QED  BY <1>4
<1> QED  BY <1>1, <1>2, <1>5

(* The slots that a pop of d bytes takes whole: as many as there are in d. *)
LEMMA WholeSlotsIs ==
  ASSUME NEW sh, NEW exact, GoodStack(sh, exact), NEW d \in Nat
  PROVE  /\ WholeSlots(sh, d) \in 0..Len(sh)
         /\ TopDepth(sh)[WholeSlots(sh, d)] <= d
         /\ WholeSlots(sh, d) < Len(sh) => d < TopDepth(sh)[WholeSlots(sh, d) + 1]
<1>1. PICK l : l = Len(sh) /\ l \in Nat
  BY SlotGood
<1>2. PICK top : top = TopDepth(sh)
  OBVIOUS
<1>3. /\ \A n \in 0..l : top[n] \in Nat
      /\ \A m \in 0..l : \A n \in 0..m : top[n] <= top[m]
      /\ top[0] = 0
  BY <1>1, <1>2, TopGrows, TopIs DEF Even
<1> DEFINE T == {n \in 0..l : n # l => d < top[n + 1]}
<1>4. PICK w \in T : \A k \in T : w <= k
  <2>1. T \subseteq Nat /\ T # {}
    <3>1. l \in T
      BY <1>1
    <3> QED  BY <3>1
  <2> HIDE DEF T
  <2> QED  BY <2>1, LeastNumber
<1>5. w \in 0..l /\ (w < l => d < top[w + 1])
  BY <1>4
<1>6. ASSUME NEW k \in 1..l
      PROVE  (top[k] <= d) <=> (k \in 1..w)
  <2>1. CASE k <= w
    <3>1. k - 1 \in 0..l /\ k - 1 < w /\ k - 1 # l /\ (k - 1) + 1 = k /\ k \in 0..l
      BY <1>1, <1>5, <2>1
    <3>2. k - 1 \notin T
      <4> HIDE DEF T
      <4> QED  BY <1>4, <1>5, <3>1
    <3>3. ~(d < top[k])
      BY <3>1, <3>2
    <3>4. top[k] \in Nat
      BY <1>3, <3>1
    <3> QED  BY <2>1, <3>3, <3>4
  <2>2. CASE ~(k <= w)
    <3>1. w < l /\ w + 1 \in 0..l /\ w + 1 \in 0..k /\ k \in 0..l
      BY <1>1, <1>5, <2>2
    <3>2. d < top[w + 1] /\ top[w + 1] <= top[k] /\ top[w + 1] \in Nat /\ top[k] \in Nat
      BY <1>3, <1>5, <3>1
    <3> QED  BY <1>5, <2>2, <3>2
  <2> QED  BY <2>1, <2>2
<1>7. {k \in 1..Len(sh) : TopDepth(sh)[k] <= d} = 1..w
  <2>1. \A k \in 1..w : k \in 1..l
    BY <1>1, <1>5
  <2> HIDE DEF T
  <2> QED  BY <1>1, <1>2, <1>6, <2>1
<1>8. WholeSlots(sh, d) = w
  <2>1. w \in Nat
    BY <1>1, <1>5
  <2>2. Cardinality(1..w) = w
    BY <2>1, IntervalSize
  <2> QED  BY <1>7, <2>2 DEF WholeSlots
<1>9. top[w] <= d
  <2>1. CASE w = 0
    BY <1>3, <2>1
  <2>2. CASE w # 0
    <3>1. w \in 1..l /\ w \in 1..w
      BY <1>1, <1>5, <2>2
    <3> QED  BY <1>6, <3>1
  <2> QED  BY <2>1, <2>2
<1> QED  BY <1>1, <1>2, <1>5, <1>8, <1>9

-----------------------------------------------------------------------------
(* What a pop of d bytes returns and leaves.  Until a slot is cut, exact   *)
(* slots stay exact and the value has d bytes.                             *)
PopDepths == {2, 4, 8}
GoodPop(p, d, exact) ==
  /\ p.cuts \in BOOLEAN
  /\ GoodStack(p.sh, exact /\ ~p.cuts)
  /\ Wide(p.value) /\ d <= Len(p.value)
  /\ exact /\ ~p.cuts => p.ok /\ Len(p.value) = d

(* What stays of a slot after some of its bytes were popped.               *)
LEMMA RemainderGood ==
  ASSUME NEW s, GoodSlot(s, FALSE), NEW need \in Even, need > 0, need < s.depth
  PROVE  GoodSlot(Remainder(s, need), FALSE)
<1>1. PICK v, l, d : v = s.value /\ l = Len(v) /\ d = s.depth
  OBVIOUS
<1>2. IsWide(v, l) /\ l \in Nat /\ l \in Widths /\ d \in Widths /\ d <= l
  BY <1>1, IsWideOf DEF GoodSlot, Wide
<1>3. need \in Nat /\ need <= l /\ need % 2 = 0
  BY <1>1, <1>2 DEF Even, Widths
<1>4. PICK left : left = SubSeq(v, need + 1, l)
  OBVIOUS
<1>5. IsWide(left, l - need)
  BY <1>2, <1>3, <1>4, PartWide
<1>6. PICK w : w = ZeroExtend(left, l)
  OBVIOUS
<1>7. IsWide(w, l)
  <2>1. l - need \in Nat /\ l - need <= l
    BY <1>2, <1>3
  <2> QED  BY <1>2, <1>5, <1>6, <2>1, ExtendWide
<1>8. Wide(w) /\ Len(w) = l
  BY <1>2, <1>7, WideIs DEF IsWide
<1>9. d - need \in Widths /\ d - need <= l
  <2>1. need \in {2, 4, 6}
    BY <1>1, <1>2, <1>3 DEF Widths
  <2> QED  BY <1>1, <1>2, <2>1 DEF Widths
<1>10. Remainder(s, need) = [value |-> w, depth |-> d - need]
  BY <1>1, <1>4, <1>6 DEF Remainder, Slot
<1> QED  BY <1>8, <1>9, <1>10 DEF GoodSlot

(* Whole slots that are exact fit their places.                            *)
LEMMA ExactFits ==
  ASSUME NEW sh, GoodStack(sh, TRUE), NEW d \in Nat, sh = <<>> \/ FromTop(sh, 1).depth # d,
         NEW whole \in 0..Len(sh), TopDepth(sh)[whole] <= d,
         NEW place, place = [i \in 1..(whole + 1) |-> TopDepth(sh)[i - 1]],
         NEW i \in 1..whole
  PROVE  PartFits(sh, place, d, i)
<1>1. PICK l : l = Len(sh) /\ l \in Nat
  BY SlotGood
<1>2. PICK top : top = TopDepth(sh)
  OBVIOUS
<1>3. i \in 1..l /\ i \in 0..l /\ i - 1 \in 0..i /\ i \in 0..whole /\ whole \in 0..l /\ i \in 1..(whole + 1)
      /\ i + 1 \in 1..(whole + 1) /\ i - 1 \in 0..l /\ (i + 1) - 1 = i
  BY <1>1
<1>4. top[0] = 0 /\ top[i] = top[i - 1] + FromTop(sh, i).depth
  BY <1>1, <1>2, <1>3, TopIs
<1>5. top[i] \in Nat /\ top[i - 1] \in Nat /\ top[i] <= top[whole] /\ top[whole] \in Nat /\ top[whole] <= d
  BY <1>1, <1>2, <1>3, TopGrows DEF Even
<1>6. Len(FromTop(sh, i).value) = FromTop(sh, i).depth /\ FromTop(sh, i).depth \in Nat
  <2>1. GoodSlot(FromTop(sh, i), TRUE)
    BY <1>1, <1>3, FromTopGood
  <2> QED  BY <2>1 DEF GoodSlot, Widths
<1>7. place[i] = top[i - 1] /\ place[i + 1] = top[i]
  BY <1>2, <1>3
<1>8. CASE top[i] # d
  <2>1. Len(FromTop(sh, i).value) <= d - top[i - 1]
    BY <1>4, <1>5, <1>6, SMTT(30)
  <2> QED  BY <1>7, <1>8, <2>1 DEF PartFits
<1>9. CASE top[i] = d
  <2>1. i # 1
    <3>1. sh # <<>>
      BY <1>1, <1>3, EmptySeq
    <3> QED  BY <1>4, <1>6, <1>9, <3>1
  <2>2. PICK j : j = i - 1 /\ j \in 1..(whole + 1) /\ j - 1 \in 0..j /\ j \in 0..l
    BY <1>1, <1>3, <2>1
  <2>3. top[j - 1] <= top[j]
    BY <1>1, <1>2, <2>2, TopGrows
  <2>4. place[j] = top[j - 1] /\ j - 1 \in 0..l
    BY <1>1, <1>2, <2>2
  <2>5. top[j - 1] \in Nat
    BY <1>1, <1>2, <2>4, TopGrows DEF Even
  <2>6. PICK x, y, z : x = top[j - 1] /\ y = top[j] /\ z = Len(FromTop(sh, i).value)
    OBVIOUS
  <2>7. x \in Nat /\ y \in Nat /\ z \in Nat /\ x <= y /\ d = y + z
    BY <1>4, <1>5, <1>6, <1>9, <2>2, <2>3, <2>5, <2>6
  <2>8. z <= d - x
    BY <2>7
  <2>9. Len(FromTop(sh, i).value) <= d - place[j]
    BY <2>4, <2>6, <2>8
  <2> QED  BY <1>7, <1>9, <2>2, <2>9 DEF PartFits
<1> QED  BY <1>8, <1>9

LEMMA ShadowPopGood ==
  ASSUME NEW exact \in BOOLEAN, NEW sh, GoodStack(sh, exact), NEW vsp, NEW d \in PopDepths
  PROVE  GoodPop(ShadowPop(sh, vsp, d), d, exact)
<1>1. PICK l : l = Len(sh) /\ l \in Nat /\ (sh # <<>> => l > 0)
  BY SlotGood
<1>2. d \in Nat /\ d \in Even /\ d \in Widths
  BY DEF PopDepths, Even, Widths
<1>3. CASE sh # <<>> /\ sh[l].depth = d
  <2>1. ShadowPop(sh, vsp, d) = [value |-> sh[l].value, sh |-> SubSeq(sh, 1, l - 1), vsp |-> vsp,
                                 ok |-> TRUE, cuts |-> FALSE]
    BY <1>1, <1>3 DEF ShadowPop
  <2>2. GoodSlot(sh[l], exact)
    BY <1>1, <1>3, SlotGood
  <2>3. GoodStack(SubSeq(sh, 1, l - 1), exact)
    BY <1>1, PrefixGood
  <2>4. GoodStack(SubSeq(sh, 1, l - 1), exact /\ ~FALSE)
    BY <2>3, GoodWeaker
  <2> QED  BY <1>3, <2>1, <2>2, <2>4 DEF GoodPop, GoodSlot
<1>4. CASE ~(sh # <<>> /\ sh[l].depth = d)
  <2>1. PICK w : /\ w = WholeSlots(sh, d) /\ w \in 0..l /\ TopDepth(sh)[w] <= d
                 /\ w < l => d < TopDepth(sh)[w + 1]
    BY <1>1, <1>2, WholeSlotsIs
  <2>2. PICK top : top = TopDepth(sh)[w] /\ top \in Even
    BY <1>1, <2>1, TopGrows
  <2>3. PICK need : need = d - top /\ need \in Even
    <3>1. \A x \in Even : x <= d => d - x \in Even
      BY <1>2 DEF Even
    <3> QED  BY <2>1, <2>2, <3>1
  <2>4. PICK n : n = l - w /\ n \in 0..l
    BY <1>1, <2>1
  <2>5. PICK cuts : cuts = (need > 0 /\ n > 0) /\ cuts \in BOOLEAN
    OBVIOUS
  <2>6. PICK place : place = [i \in 1..(w + 1) |-> TopDepth(sh)[i - 1]]
    OBVIOUS
  <2>7. PICK p : p = ShadowPop(sh, vsp, d)
    OBVIOUS
  <2>8. p = PopParts(sh, vsp, d, w, need)
    BY <1>1, <1>4, <2>1, <2>2, <2>3, <2>7 DEF ShadowPop
  <2>9. /\ p.cuts = cuts
        /\ p.sh = IF cuts THEN Append(SubSeq(sh, 1, n - 1), Remainder(sh[n], need)) ELSE SubSeq(sh, 1, n)
        /\ p.ok = \A i \in 1..w : PartFits(sh, place, d, i)
        /\ \E parts : p.value = Merged(parts, place, d)
    BY <1>1, <2>4, <2>5, <2>6, <2>8 DEF PopParts
  <2>10. Wide(p.value) /\ Len(p.value) = d
    <3>1. IsWide(p.value, d)
      BY <1>2, <2>9, MergedWide
    <3> QED  BY <1>2, <3>1, WideIs DEF IsWide
  <2>11. GoodStack(p.sh, exact /\ ~cuts)
    <3>1. CASE cuts
      <4>0. need > 0 /\ n > 0
        BY <2>5, <3>1
      <4>1. n \in 1..l /\ w < l /\ l + 1 - (w + 1) = n /\ w + 1 \in 1..l /\ (w + 1) - 1 = w /\ need > 0
        BY <1>1, <2>1, <2>4, <4>0
      <4>2. FromTop(sh, w + 1) = sh[n]
        BY <1>1, <4>1 DEF FromTop
      <4>3. TopDepth(sh)[w + 1] = top + sh[n].depth
        BY <1>1, <2>2, <4>1, <4>2, TopIs
      <4>4. GoodSlot(sh[n], FALSE) /\ sh[n].depth \in Nat
        <5>1. GoodSlot(sh[n], exact)
          BY <1>1, <4>1, SlotGood
        <5> QED  BY <5>1 DEF GoodSlot, Widths
      <4>5. need < sh[n].depth
        BY <1>2, <2>1, <2>2, <2>3, <4>1, <4>3, <4>4 DEF Even
      <4>6. GoodSlot(Remainder(sh[n], need), FALSE)
        BY <2>3, <4>1, <4>4, <4>5, RemainderGood
      <4>7. GoodStack(SubSeq(sh, 1, n - 1), exact)
        BY <1>1, <4>1, PrefixGood
      <4>8. GoodStack(SubSeq(sh, 1, n - 1), FALSE)
        BY <4>7, GoodWeaker
      <4>9. GoodStack(p.sh, FALSE)
        BY <2>9, <3>1, <4>6, <4>8, AppendGood
      <4> QED  BY <3>1, <4>9, GoodWeaker
    <3>2. CASE ~cuts
      <4>1. GoodStack(SubSeq(sh, 1, n), exact)
        BY <1>1, <2>4, PrefixGood
      <4> QED  BY <2>9, <3>2, <4>1, GoodWeaker
    <3> QED  BY <3>1, <3>2
  <2>12. ASSUME exact
         PROVE  p.ok
    <3>1. GoodStack(sh, TRUE)
      BY <2>12, GoodWeaker
    <3>2. sh = <<>> \/ FromTop(sh, 1).depth # d
      BY <1>1, <1>4 DEF FromTop
    <3> QED  BY <1>1, <1>2, <2>1, <2>6, <2>9, <3>1, <3>2, ExactFits
  <2> QED  BY <1>2, <2>5, <2>7, <2>9, <2>10, <2>11, <2>12 DEF GoodPop
<1> QED  BY <1>3, <1>4

-----------------------------------------------------------------------------
(* The pops of a handler, one after the other.                             *)
NoPop ==
  [values |-> <<>>, taken |-> 0, sh |-> shadowStack, vsp |-> vspLocal, ok |-> TRUE, cuts |-> FALSE]
PopNext(p, d) ==
  LET q == ShadowPop(p.sh, p.vsp, d)
  IN [values |-> Append(p.values, q.value), taken |-> p.taken + d,
      sh |-> q.sh, vsp |-> q.vsp, ok |-> p.ok /\ q.ok, cuts |-> p.cuts \/ q.cuts]
PopsFrom(f, depths, m) ==
  f = [n \in 0..m |-> IF n = 0 THEN NoPop ELSE PopNext(f[n - 1], depths[n])]

LEMMA PopsExist ==
  ASSUME NEW depths, NEW m \in Nat
  PROVE  \E f : PopsFrom(f, depths, m)
<1> DEFINE T == {k \in Nat : ~\E f : PopsFrom(f, depths, k)}
<1>1. SUFFICES ASSUME T # {} PROVE FALSE
  BY Zenon
<1>2. PICK k \in T : \A j \in T : k <= j
  <2> HIDE DEF T
  <2>1. T \subseteq Nat
    BY DEF T
  <2> QED  BY <1>1, <2>1, LeastNumber
<1>3. k # 0
  <2>1. PopsFrom([n \in 0..0 |-> NoPop], depths, 0)
    BY DEF PopsFrom
  <2> QED  BY <2>1
<1>4. PICK j \in Nat : k = j + 1
  BY <1>3
<1>5. PICK f : PopsFrom(f, depths, j)
  <2>1. j \notin T
    <3> HIDE DEF T
    <3> QED  BY <1>2, <1>4
  <2> QED  BY <2>1
<1> DEFINE g == [n \in 0..k |-> IF n = k THEN PopNext(f[j], depths[k]) ELSE f[n]]
<1>6. PopsFrom(g, depths, k)
  <2>1. f[0] = NoPop /\ \A n \in 1..j : f[n] = PopNext(f[n - 1], depths[n])
    BY <1>5 DEF PopsFrom
  <2>2. \A n \in 0..k : g[n] = IF n = 0 THEN NoPop ELSE PopNext(g[n - 1], depths[n])
    <3> TAKE n \in 0..k
    <3>1. CASE n = 0
      BY <1>4, <2>1, <3>1
    <3>2. CASE n = k
      <4>1. k - 1 = j /\ j \in 0..k /\ j # k /\ k - 1 \in 0..k
        BY <1>4
      <4>2. g[k - 1] = f[j]
        BY <4>1
      <4> QED  BY <1>3, <3>2, <4>2
    <3>3. CASE n # 0 /\ n # k
      <4>1. n \in 1..j /\ n - 1 \in 0..k /\ n - 1 # k
        BY <1>4, <3>3
      <4>2. g[n - 1] = f[n - 1] /\ g[n] = f[n]
        BY <3>3, <4>1
      <4> QED  BY <2>1, <3>3, <4>1, <4>2
    <3> QED  BY <3>1, <3>2, <3>3
  <2> QED  BY <2>2 DEF PopsFrom
<1> QED  BY <1>6

LEMMA PopAllIs ==
  ASSUME NEW depths, Len(depths) \in Nat
  PROVE  \E f : /\ f[0] = NoPop
                /\ \A n \in 1..Len(depths) : f[n] = PopNext(f[n - 1], depths[n])
                /\ PopAll(depths) = f[Len(depths)]
<1>1. PICK m \in Nat : m = Len(depths)
  OBVIOUS
<1>2. PICK f : f = (CHOOSE g : PopsFrom(g, depths, m))
  OBVIOUS
<1>3. PopsFrom(f, depths, m)
  BY <1>2, PopsExist
<1>4. PopAll(depths) = f[m]
  BY <1>1, <1>2 DEF PopAll, PopsFrom, NoPop, PopNext
<1>5. f[0] = NoPop /\ \A n \in 1..m : f[n] = PopNext(f[n - 1], depths[n])
  BY <1>3 DEF PopsFrom
<1> QED  BY <1>1, <1>4, <1>5

(* After n pops, as after one: the values are as wide as was asked for and *)
(* the slots are exact, or a slot was cut.                                 *)
GoodPops(p, depths, n) ==
  /\ p.cuts \in BOOLEAN
  /\ GoodStack(p.sh, ~cut /\ ~p.cuts)
  /\ Len(p.values) = n /\ DOMAIN p.values = 1..n
  /\ \A i \in 1..n : Wide(p.values[i]) /\ depths[i] <= Len(p.values[i])
  /\ ~cut /\ ~p.cuts => p.ok /\ \A i \in 1..n : Len(p.values[i]) = depths[i]

LEMMA PopNextGood ==
  ASSUME cut \in BOOLEAN, NEW depths, NEW n \in Nat, NEW p, GoodPops(p, depths, n),
         \E S : p.values \in Seq(S), depths[n + 1] \in PopDepths
  PROVE  /\ GoodPops(PopNext(p, depths[n + 1]), depths, n + 1)
         /\ \E S : PopNext(p, depths[n + 1]).values \in Seq(S)
<1>1. PICK d : d = depths[n + 1] /\ d \in PopDepths
  OBVIOUS
<1>2. PICK q : q = ShadowPop(p.sh, p.vsp, d)
  OBVIOUS
<1>3. PICK exact \in BOOLEAN : exact = (~cut /\ ~p.cuts)
  OBVIOUS
<1>4. GoodPop(q, d, exact)
  BY <1>1, <1>2, <1>3, ShadowPopGood DEF GoodPops
<1>5. PICK r : r = PopNext(p, d)
  OBVIOUS
<1>6. /\ r.values = Append(p.values, q.value) /\ r.sh = q.sh
      /\ r.ok = (p.ok /\ q.ok) /\ r.cuts = (p.cuts \/ q.cuts)
  BY <1>2, <1>5 DEF PopNext
<1>7. PICK S : p.values \in Seq(S)
  OBVIOUS
<1>8. Len(p.values) = n
  BY DEF GoodPops
<1>9. PICK U : U = S \cup {q.value}
  OBVIOUS
<1>10. p.values \in Seq(U) /\ q.value \in U
  BY <1>7, <1>9, SeqMonotonic
<1>11. /\ r.values \in Seq(U) /\ Len(r.values) = n + 1
       /\ \A i \in 1..n : r.values[i] = p.values[i]
       /\ r.values[n + 1] = q.value
  BY <1>6, <1>8, <1>10, AppendProperties
<1>12. DOMAIN r.values = 1..(n + 1)
  BY <1>11
<1>13. GoodStack(r.sh, ~cut /\ ~r.cuts)
  <2>1. GoodStack(q.sh, exact /\ ~q.cuts)
    BY <1>4 DEF GoodPop
  <2>2. ~cut /\ ~r.cuts => exact /\ ~q.cuts
    BY <1>3, <1>6
  <2> QED  BY <1>6, <2>1, <2>2, GoodWeaker
<1>14. \A i \in 1..(n + 1) : Wide(r.values[i]) /\ depths[i] <= Len(r.values[i])
  <2> TAKE i \in 1..(n + 1)
  <2>1. CASE i = n + 1
    BY <1>1, <1>4, <1>11, <2>1 DEF GoodPop
  <2>2. CASE i # n + 1
    <3>1. i \in 1..n
      BY <2>2
    <3> QED  BY <1>11, <3>1 DEF GoodPops
  <2> QED  BY <2>1, <2>2
<1>15. ASSUME ~cut, ~r.cuts
       PROVE  r.ok /\ \A i \in 1..(n + 1) : Len(r.values[i]) = depths[i]
  <2>1. exact /\ ~q.cuts /\ ~p.cuts
    BY <1>3, <1>6, <1>15
  <2>2. r.ok /\ Len(q.value) = d
    BY <1>4, <1>6, <1>15, <2>1 DEF GoodPops, GoodPop
  <2>3. \A i \in 1..(n + 1) : Len(r.values[i]) = depths[i]
    <3> TAKE i \in 1..(n + 1)
    <3>1. CASE i = n + 1
      BY <1>1, <1>11, <2>2, <3>1
    <3>2. CASE i # n + 1
      <4>1. i \in 1..n
        BY <3>2
      <4> QED  BY <1>11, <1>15, <2>1, <4>1 DEF GoodPops
    <3> QED  BY <3>1, <3>2
  <2> QED  BY <2>2, <2>3
<1>16. r.cuts \in BOOLEAN
  BY <1>4, <1>6 DEF GoodPops, GoodPop
<1>17. GoodPops(r, depths, n + 1)
  BY <1>11, <1>12, <1>13, <1>14, <1>15, <1>16 DEF GoodPops
<1> QED  BY <1>1, <1>5, <1>11, <1>17

LEMMA PopAllGood ==
  ASSUME cut \in BOOLEAN, GoodStack(shadowStack, ~cut), NEW depths \in Seq(PopDepths)
  PROVE  GoodPops(PopAll(depths), depths, Len(depths))
<1>1. PICK m : m = Len(depths) /\ m \in Nat
  BY LenProperties
<1>2. PICK f : /\ f[0] = NoPop
               /\ \A n \in 1..m : f[n] = PopNext(f[n - 1], depths[n])
               /\ PopAll(depths) = f[m]
  BY <1>1, PopAllIs
<1> DEFINE Right(n) == GoodPops(f[n], depths, n) /\ \E S : f[n].values \in Seq(S)
           T == {n \in 0..m : ~Right(n)}
<1>3. T = {}
  <2> SUFFICES ASSUME T # {} PROVE FALSE
    OBVIOUS
  <2>1. PICK n \in T : \A k \in T : n <= k
    <3> HIDE DEF T
    <3>1. T \subseteq Nat
      BY <1>1 DEF T
    <3> QED  BY <3>1, LeastNumber
  <2>2. n \in 0..m /\ ~Right(n)
    OBVIOUS
  <2>3. CASE n = 0
    <3>1. NoPop.values = <<>> /\ NoPop.sh = shadowStack /\ NoPop.cuts = FALSE /\ NoPop.ok = TRUE
      BY DEF NoPop
    <3>2. NoPop.values \in Seq({}) /\ Len(NoPop.values) = 0 /\ DOMAIN NoPop.values = 1..0
      BY <3>1
    <3>3. GoodStack(NoPop.sh, ~cut /\ ~NoPop.cuts)
      BY <3>1, GoodWeaker
    <3>4. GoodPops(NoPop, depths, 0)
      <4>1. PICK r : r = NoPop
        OBVIOUS
      <4>2. \A i \in 1..0 : FALSE
        OBVIOUS
      <4>3. /\ r.cuts \in BOOLEAN /\ r.ok /\ GoodStack(r.sh, ~cut /\ ~r.cuts)
            /\ Len(r.values) = 0 /\ DOMAIN r.values = 1..0
        BY <3>1, <3>2, <3>3, <4>1
      <4>4. GoodPops(r, depths, 0)
        BY <4>2, <4>3, Zenon DEF GoodPops
      <4> QED  BY <4>1, <4>4
    <3> QED  BY <1>2, <2>2, <2>3, <3>2, <3>4
  <2>4. CASE n # 0
    <3>1. PICK k : k = n - 1 /\ k \in 0..m /\ k \in Nat /\ n = k + 1 /\ n \in 1..m
      BY <1>1, <2>2, <2>4
    <3>2. Right(k)
      <4>1. k \notin T
        <5> HIDE DEF T
        <5> QED  BY <2>1, <3>1
      <4> QED  BY <3>1, <4>1
    <3>3. f[n] = PopNext(f[k], depths[k + 1])
      BY <1>2, <3>1
    <3>4. depths[k + 1] \in PopDepths
      BY <1>1, <3>1, ElementOfSeq
    <3>5. Right(n)
      BY <3>1, <3>2, <3>3, <3>4, PopNextGood
    <3> QED  BY <2>2, <3>5
  <2> QED  BY <2>3, <2>4
<1>4. m \notin T
  <2> HIDE DEF T
  <2> QED  BY <1>3
<1> QED  BY <1>1, <1>2, <1>4

-----------------------------------------------------------------------------
(* What a handler pops.                                                    *)
LEMMA OpsAre ==
  ASSUME NEW h \in Handlers
  PROVE  /\ h.op \in Ops /\ h.d \in {1, 2, 4, 8} /\ StackDepth(h.d) \in PopDepths
         /\ h.d # 1 => StackDepth(h.d) = h.d
  BY HandlersAssumption DEF Handler, StackDepth, PopDepths

LEMMA PopsOfIs ==
  ASSUME NEW h \in Handlers
  PROVE  /\ PopsOf(h) \in Seq(PopDepths)
         /\ h.op \in Binary => PopsOf(h) = <<StackDepth(h.d), StackDepth(h.d)>>
         /\ h.op \in Shift => PopsOf(h) = <<StackDepth(h.d), 2>>
         /\ h.op \in DoubleShift => PopsOf(h) = <<StackDepth(h.d), StackDepth(h.d), 2>>
         /\ h.op = "Pop" => PopsOf(h) = <<StackDepth(h.d)>>
<1>1. PICK n : n = StackDepth(h.d) /\ n \in PopDepths
  BY OpsAre
<1>2. 2 \in PopDepths /\ 8 \in PopDepths /\ PtrSize = 8
  BY DEF PopDepths, PtrSize
<1>3. /\ <<n>> \in Seq(PopDepths) /\ <<8>> \in Seq(PopDepths) /\ <<8, n>> \in Seq(PopDepths)
      /\ <<n, n>> \in Seq(PopDepths) /\ <<n, 2>> \in Seq(PopDepths) /\ <<n, n, 2>> \in Seq(PopDepths)
      /\ <<>> \in Seq(PopDepths)
  BY <1>1, <1>2
<1>4. [i \in 1..(Len(ExitRegs) + 2) |-> 8] \in Seq(PopDepths)
  <2>1. Len(ExitRegs) + 2 \in Nat
    BY RegsAssumption, LenProperties
  <2> QED  BY <1>2, <2>1
<1>5. h.op \in Ops
  BY OpsAre
<1>6. CASE h.op \in Binary
  BY <1>1, <1>3, <1>6 DEF PopsOf, Binary, Shift, DoubleShift
<1>7. CASE h.op \in Shift
  BY <1>1, <1>3, <1>7 DEF PopsOf, Binary, Shift, DoubleShift
<1>8. CASE h.op \in DoubleShift
  BY <1>1, <1>3, <1>8 DEF PopsOf, Binary, Shift, DoubleShift
<1>9. CASE h.op \in {"Pop", "PopVsp", "ReadMem", "Jmp", "WriteMem"}
  BY <1>1, <1>2, <1>3, <1>9 DEF PopsOf, Binary, Shift, DoubleShift
<1>10. CASE h.op = "Exit"
  BY <1>2, <1>4, <1>10 DEF PopsOf, Binary, Shift, DoubleShift
<1>11. CASE h.op \in {"PushReg", "PushConst", "PushVsp", "Entry"}
  BY <1>3, <1>11 DEF PopsOf, Binary, Shift, DoubleShift
<1> QED  BY <1>5, <1>6, <1>7, <1>8, <1>9, <1>10, <1>11 DEF Ops, Alu

-----------------------------------------------------------------------------
(* The inductive invariant: the three properties, and that the shadow      *)
(* stack and the virtual context are sequences.                            *)
FInv ==
  /\ cut \in BOOLEAN
  /\ GoodStack(shadowStack, ~cut)
  /\ IsWide(virtualContext, ContextSize)
  /\ status = "badIR" => cut

(* Whatever a handler pops, and without a cut, the instruction is made.    *)
LEMMA PopsGood ==
  ASSUME FInv, NEW h \in Handlers
  PROVE  GoodPops(PopAll(PopsOf(h)), PopsOf(h), Len(PopsOf(h)))
  BY PopsOfIs, PopAllGood DEF FInv

LEMMA ExactLifts ==
  ASSUME FInv, NEW h \in Handlers, ~cut, ~PopAll(PopsOf(h)).cuts
  PROVE  Lifts(h, PopAll(PopsOf(h)))
<1>1. PICK p : p = PopAll(PopsOf(h))
  OBVIOUS
<1>2. PICK depths : depths = PopsOf(h)
  OBVIOUS
<1>3. p.ok /\ \A i \in 1..Len(depths) : Len(p.values[i]) = depths[i]
  BY <1>1, <1>2, PopsGood DEF GoodPops
<1>4. h.d \in {1, 2, 4, 8} /\ (h.d # 1 => StackDepth(h.d) = h.d)
  BY OpsAre
<1>5. SameWidth(h, p)
  <2> SUFFICES ASSUME h.op \in Binary PROVE Len(p.values[1]) = Len(p.values[2])
    BY DEF SameWidth
  <2>1. depths = <<StackDepth(h.d), StackDepth(h.d)>>
    BY <1>2, PopsOfIs
  <2>2. Len(depths) = 2 /\ depths[1] = depths[2]
    BY <2>1
  <2> QED  BY <1>3, <2>2
<1>6. FitsWidth(h, p)
  <2>1. ASSUME h.op \in Shift, h.d # 1
        PROVE  Len(p.values[1]) = h.d /\ Len(p.values[2]) <= h.d
    <3>1. depths = <<StackDepth(h.d), 2>>
      BY <1>2, <2>1, PopsOfIs
    <3>2. Len(depths) = 2 /\ depths[1] = h.d /\ depths[2] = 2
      BY <1>4, <2>1, <3>1
    <3> QED  BY <1>3, <1>4, <2>1, <3>2
  <2>2. ASSUME h.op \in DoubleShift, h.d # 1
        PROVE  Len(p.values[1]) = h.d /\ Len(p.values[2]) = h.d
    <3>1. depths = <<StackDepth(h.d), StackDepth(h.d), 2>>
      BY <1>2, <2>2, PopsOfIs
    <3>2. Len(depths) = 3 /\ depths[1] = h.d /\ depths[2] = h.d
      BY <1>4, <2>2, <3>1
    <3> QED  BY <1>3, <3>2
  <2> QED  BY <2>1, <2>2 DEF FitsWidth
<1> QED  BY <1>1, <1>3, <1>5, <1>6 DEF Lifts

-----------------------------------------------------------------------------
(* The steps.  A handler that goes on leaves the slots that it names.      *)
LEMMA InitFInv == Init => FInv
<1> SUFFICES ASSUME Init PROVE FInv
  OBVIOUS
<1>1. GoodStack(shadowStack, ~cut)
  BY EmptyGood DEF Init
<1>2. IsWide(virtualContext, ContextSize)
  BY SizesAssumption, WordWide DEF Init
<1> QED  BY <1>1, <1>2 DEF FInv, Init

LEMMA EmitFInv ==
  ASSUME FInv, NEW h, NEW p, p.cuts \in BOOLEAN, NEW sh, GoodStack(sh, ~cut /\ ~p.cuts),
         NEW consumed, Emit(h, p, sh, consumed),
         IsWide(virtualContext, ContextSize)', status' # "badIR"
  PROVE  FInv'
<1>1. shadowStack' = sh /\ cut' = (cut \/ p.cuts)
  BY DEF Emit
<1>2. GoodStack(sh, ~cut')
  <2>1. ~cut' => ~cut /\ ~p.cuts
    BY <1>1
  <2> QED  BY <2>1, GoodWeaker
<1>3. GoodStack(shadowStack, ~cut)'
  BY <1>1, <1>2 DEF GoodStack, GoodSlot, Wide
<1> QED  BY <1>1, <1>3 DEF FInv

LEMMA SameContext == FInv /\ UNCHANGED virtualContext => IsWide(virtualContext, ContextSize)'
  BY DEF FInv, IsWide

LEMMA CannotLiftFInv == ASSUME FInv, NEW h \in Handlers, CannotLift(h) PROVE FInv'
<1>1. PICK p : p = PopAll(PopsOf(h)) /\ p.cuts \in BOOLEAN
  BY PopsGood DEF GoodPops
<1>2. cut' = (cut \/ p.cuts) /\ shadowStack' = shadowStack /\ ~Lifts(h, p)
  BY <1>1 DEF CannotLift
<1>3. cut' = TRUE
  BY <1>1, <1>2, ExactLifts DEF FInv
<1>4. GoodStack(shadowStack, FALSE)
  BY GoodWeaker DEF FInv
<1>5. GoodStack(shadowStack, ~cut)'
  BY <1>2, <1>3, <1>4 DEF GoodStack, GoodSlot, Wide
<1>6. UNCHANGED virtualContext
  BY DEF CannotLift
<1> QED  BY <1>3, <1>5, <1>6, SameContext DEF FInv

LEMMA PopFInv == ASSUME FInv, NEW h \in Handlers, LiftVmPop(h) PROVE FInv'
<1>1. PICK p : p = PopAll(PopsOf(h)) /\ p.cuts \in BOOLEAN /\ GoodStack(p.sh, ~cut /\ ~p.cuts)
  BY PopsGood DEF GoodPops
<1>2. \E at, v : virtualContext' = Store(virtualContext, at, v) /\ Emit(h, p, p.sh, <<v>>)
  BY <1>1, Zenon DEF LiftVmPop
<1>3. PICK v : Emit(h, p, p.sh, <<v>>)
  BY <1>2
<1>4. PICK c : c = virtualContext' /\ IsWide(c, ContextSize)
  BY <1>2, SizesAssumption, StoreWide DEF FInv
<1>5. IsWide(virtualContext, ContextSize)'
  BY <1>4 DEF IsWide
<1>6. status' # "badIR"
  BY DEF LiftVmPop, Starts
<1> QED  BY <1>1, <1>3, <1>5, <1>6, EmitFInv

(* What is pushed.                                                         *)
LEMMA ExtendedGood ==
  ASSUME NEW d \in {1, 2, 4, 8}, NEW v, NEW exact,
         IF d = 1 THEN IsWide(v, 1) ELSE Wide(v) /\ d <= Len(v) /\ (exact => Len(v) = d)
  PROVE  GoodSlot(Extended(v, d), exact)
<1>1. CASE d = 1
  <2>1. PICK w : w = ZeroExtend(v, 2) /\ IsWide(w, 2)
    <3>1. IsWide(v, 1)
      BY <1>1
    <3> QED  BY <3>1, ExtendWide
  <2>2. Wide(w) /\ Len(w) = 2
    BY <2>1 DEF IsWide, Wide, Widths
  <2>3. Extended(v, d) = [value |-> w, depth |-> 2]
    BY <1>1, <2>1 DEF Extended, Slot, StackDepth
  <2> QED  BY <2>2, <2>3 DEF GoodSlot, Widths
<1>2. CASE d # 1
  <2>1. Extended(v, d) = [value |-> v, depth |-> d]
    BY <1>2 DEF Extended, Slot, StackDepth
  <2> QED  BY <1>2, <2>1 DEF GoodSlot, Widths
<1> QED  BY <1>1, <1>2

(* A value as wide as the handler says.                                    *)
LEMMA ExtendedExact ==
  ASSUME NEW d \in {1, 2, 4, 8}, NEW v, IsWide(v, d), NEW exact
  PROVE  GoodSlot(Extended(v, d), exact)
<1>1. CASE d = 1
  BY <1>1, ExtendedGood
<1>2. CASE d # 1
  <2>1. Wide(v) /\ Len(v) = d
    BY <1>2 DEF IsWide, Wide, Widths
  <2>2. d <= Len(v)
    BY <2>1
  <2>3. IF d = 1 THEN IsWide(v, 1) ELSE Wide(v) /\ d <= Len(v) /\ (exact => Len(v) = d)
    BY <1>2, <2>1, <2>2
  <2> QED  BY <2>3, ExtendedGood
<1> QED  BY <1>1, <1>2

LEMMA WordSlotGood ==
  ASSUME NEW kind, NEW id, NEW exact
  PROVE  GoodSlot(Slot(Word(kind, id, PtrSize), PtrSize), exact)
<1>1. PICK w : w = Word(kind, id, 8) /\ IsWide(w, 8)
  BY WordWide
<1>2. Wide(w) /\ Len(w) = 8
  BY <1>1 DEF IsWide, Wide, Widths
<1>3. PICK s : s = Slot(Word(kind, id, PtrSize), PtrSize)
  OBVIOUS
<1>4. s.value = w /\ s.depth = 8
  BY <1>1, <1>3 DEF Slot, PtrSize
<1>5. Wide(s.value) /\ Len(s.value) = 8
  BY <1>2, <1>4
<1>6. s.depth \in Widths /\ s.depth <= Len(s.value) /\ Len(s.value) = s.depth
  BY <1>4, <1>5 DEF Widths
<1>7. GoodSlot(s, exact)
  BY <1>5, <1>6, Zenon DEF GoodSlot
<1> QED  BY <1>3, <1>7

LEMMA NoPopGood == FInv => PopAll(<<>>).cuts \in BOOLEAN
<1> SUFFICES ASSUME FInv PROVE PopAll(<<>>).cuts \in BOOLEAN
  OBVIOUS
<1>1. <<>> \in Seq(PopDepths)
  OBVIOUS
<1>2. PICK none : none = <<>> /\ none \in Seq(PopDepths)
  BY <1>1
<1>3. GoodPops(PopAll(none), none, Len(none))
  BY <1>2, PopAllGood DEF FInv
<1> QED  BY <1>2, <1>3 DEF GoodPops

LEMMA PushFInv ==
  ASSUME FInv, NEW h \in Handlers, NEW v, IsWide(v, h.d), NEW consumed, Push(h, v, consumed),
         status # "badIR"
  PROVE  FInv'
<1>1. PICK p : p = PopAll(<<>>) /\ p.cuts \in BOOLEAN
  BY NoPopGood
<1>2. PICK sh : sh = Append(shadowStack, Extended(v, h.d))
  OBVIOUS
<1>3. GoodStack(sh, ~cut)
  <2>1. GoodSlot(Extended(v, h.d), ~cut)
    BY OpsAre, ExtendedExact
  <2> QED  BY <1>2, <2>1, AppendGood DEF FInv
<1>4. GoodStack(sh, ~cut /\ ~p.cuts)
  BY <1>3, GoodWeaker
<1>5. Emit(h, p, sh, consumed)
  BY <1>1, <1>2 DEF Push
<1>6. UNCHANGED virtualContext /\ UNCHANGED status
  BY DEF Push
<1> QED  BY <1>1, <1>4, <1>5, <1>6, SameContext, EmitFInv

LEMMA PushRegFInv == ASSUME Regular, FInv, NEW h \in Handlers, LiftVmPushReg(h) PROVE FInv'
<1>1. PICK v : v = SubSeq(virtualContext, h.arg + 1, h.arg + h.d)
  OBVIOUS
<1>2. IsWide(v, h.d)
  <2>1. h.arg >= 0 /\ h.arg + h.d <= ContextSize /\ h.op = "PushReg"
    BY DEF Regular, WholeWords, LiftVmPushReg
  <2>2. h.arg \in Int /\ h.d \in {1, 2, 4, 8}
    BY HandlersAssumption DEF Handler
  <2>3. PICK a, b : a = h.arg /\ b = h.arg + h.d /\ a \in Nat /\ b \in Nat /\ a <= b /\ b - a = h.d
    BY <2>1, <2>2
  <2>4. IsWide(SubSeq(virtualContext, a + 1, b), b - a)
    BY <2>1, <2>3, SizesAssumption, PartWide DEF FInv
  <2> QED  BY <1>1, <2>3, <2>4
<1>3. Push(h, v, <<v>>) /\ status # "badIR"
  BY <1>1 DEF LiftVmPushReg, Starts
<1> QED  BY <1>2, <1>3, PushFInv

LEMMA PushConstFInv == ASSUME FInv, NEW h \in Handlers, LiftVmPushConst(h) PROVE FInv'
<1>1. PICK v : v = Word("cst", h.arg, h.d)
  OBVIOUS
<1>2. IsWide(v, h.d)
  <2>1. h.d \in Nat
    BY OpsAre
  <2> QED  BY <1>1, <2>1, WordWide
<1>3. Push(h, v, <<>>) /\ status # "badIR"
  BY <1>1 DEF LiftVmPushConst, Starts
<1> QED  BY <1>2, <1>3, PushFInv

LEMMA PushVspFInv == ASSUME Regular, FInv, NEW h \in Handlers, LiftVmPushVsp(h) PROVE FInv'
<1>1. PICK p : p = PopAll(<<>>) /\ p.cuts \in BOOLEAN
  BY NoPopGood
<1>2. h.d \in {2, 4, 8}
  BY OpsAre DEF Regular, WholeWords, LiftVmPushVsp
<1>3. PICK vsp : Emit(h, p, <<Slot(Trunc(StackAddress(vsp), h.d), h.d)>>, <<>>)
  BY <1>1, Zenon DEF LiftVmPushVsp
<1>4. PICK v : v = Trunc(StackAddress(vsp), h.d)
  OBVIOUS
<1>5. IsWide(v, h.d)
  <2>1. IsWide(StackAddress(vsp), 8)
    BY WordWide DEF StackAddress, PtrSize
  <2>2. h.d \in Nat /\ h.d <= 8
    BY <1>2
  <2> QED  BY <1>4, <2>1, <2>2, TruncWide
<1>6. PICK s : s = Slot(v, h.d) /\ GoodSlot(s, ~cut /\ ~p.cuts)
  <2>1. Wide(v) /\ Len(v) = h.d
    BY <1>2, <1>5 DEF IsWide, Wide, Widths
  <2>2. Slot(v, h.d) = [value |-> v, depth |-> h.d]
    BY DEF Slot
  <2> QED  BY <1>2, <2>1, <2>2 DEF GoodSlot, Widths
<1>7. GoodStack(<<s>>, ~cut /\ ~p.cuts)
  BY <1>6, PairGood
<1>8. Emit(h, p, <<s>>, <<>>)
  BY <1>3, <1>4, <1>6
<1>9. UNCHANGED virtualContext /\ status' # "badIR"
  BY DEF LiftVmPushVsp, Starts
<1> QED  BY <1>1, <1>7, <1>8, <1>9, SameContext, EmitFInv

LEMMA PopVspFInv == ASSUME FInv, NEW h \in Handlers, LiftVmPopVsp(h) PROVE FInv'
<1>1. PICK p : p = PopAll(PopsOf(h)) /\ p.cuts \in BOOLEAN /\ GoodStack(p.sh, ~cut /\ ~p.cuts)
  BY PopsGood DEF GoodPops
<1>2. Emit(h, p, p.sh, p.values)
  BY <1>1, Zenon DEF LiftVmPopVsp
<1>3. UNCHANGED virtualContext /\ status' # "badIR"
  BY DEF LiftVmPopVsp, Starts
<1> QED  BY <1>1, <1>2, <1>3, SameContext, EmitFInv

LEMMA ReadMemFInv == ASSUME FInv, NEW h \in Handlers, LiftVmReadMem(h) PROVE FInv'
<1>1. PICK p : p = PopAll(PopsOf(h)) /\ p.cuts \in BOOLEAN /\ GoodStack(p.sh, ~cut /\ ~p.cuts)
  BY PopsGood DEF GoodPops
<1>2. PICK a : a = p.values[1]
  OBVIOUS
<1>3. PICK v : v = IF IsStackAddress(a) THEN Load(OffsetOf(a), h.d) ELSE Word("res", pos + 1, h.d)
  OBVIOUS
<1>4. Emit(h, p, Append(p.sh, Extended(v, h.d)), <<a>>)
  BY <1>1, <1>2, <1>3 DEF LiftVmReadMem
<1>5. IsWide(v, h.d)
  <2>1. h.d \in Nat
    BY OpsAre
  <2> QED  BY <1>3, <2>1, WordWide, LoadWide
<1>6. PICK sh : sh = Append(p.sh, Extended(v, h.d)) /\ GoodStack(sh, ~cut /\ ~p.cuts)
  <2>1. GoodSlot(Extended(v, h.d), ~cut /\ ~p.cuts)
    BY <1>5, OpsAre, ExtendedExact
  <2> QED  BY <1>1, <2>1, AppendGood
<1>7. UNCHANGED virtualContext /\ status' # "badIR"
  BY DEF LiftVmReadMem, Starts
<1> QED  BY <1>1, <1>4, <1>6, <1>7, SameContext, EmitFInv

LEMMA WriteMemFInv == ASSUME FInv, NEW h \in Handlers, LiftVmWriteMem(h) PROVE FInv'
<1>1. PICK p : p = PopAll(PopsOf(h)) /\ p.cuts \in BOOLEAN /\ GoodStack(p.sh, ~cut /\ ~p.cuts)
  BY PopsGood DEF GoodPops
<1>2. \E consumed : Emit(h, p, p.sh, consumed)
  BY <1>1, Zenon DEF LiftVmWriteMem
<1>3. UNCHANGED virtualContext /\ status' # "badIR"
  BY DEF LiftVmWriteMem, Starts
<1> QED  BY <1>1, <1>2, <1>3, SameContext, EmitFInv

(* A result has the width of the operands.                                 *)
LEMMA SumLen ==
  ASSUME NEW a, NEW b, NEW l \in Nat, IsWide(a, l), IsWide(b, l), NEW n
  PROVE  IsWide(SumOf(a, b, n), l)
<1>1. CASE IsStackAddress(a) /\ IsConstant(b)
  <2>1. l = 8
    BY <1>1 DEF IsStackAddress, IsWide, PtrSize
  <2>2. SumOf(a, b, n) = Word("vsp", a[1][2] + b[1][2], 8)
    BY <1>1 DEF SumOf, StackAddress, PtrSize
  <2> QED  BY <2>1, <2>2, WordWide
<1>2. CASE ~(IsStackAddress(a) /\ IsConstant(b)) /\ IsStackAddress(b) /\ IsConstant(a)
  <2>1. l = 8
    BY <1>2 DEF IsStackAddress, IsWide, PtrSize
  <2>2. SumOf(a, b, n) = Word("vsp", b[1][2] + a[1][2], 8)
    BY <1>2 DEF SumOf, StackAddress, PtrSize
  <2> QED  BY <2>1, <2>2, WordWide
<1>3. CASE ~(IsStackAddress(a) /\ IsConstant(b)) /\ ~(IsStackAddress(b) /\ IsConstant(a))
  <2>1. SumOf(a, b, n) = Word("res", n, l)
    BY <1>3 DEF SumOf, IsWide
  <2> QED  BY <2>1, WordWide
<1> QED  BY <1>1, <1>2, <1>3

LEMMA OperandWide ==
  ASSUME NEW h \in Handlers, NEW v, Wide(v), StackDepth(h.d) <= Len(v)
  PROVE  /\ h.d = 1 => IsWide(Operand(h, v), 1)
         /\ h.d # 1 => Operand(h, v) = v
<1>1. IsWide(v, Len(v)) /\ Len(v) \in Nat /\ Len(v) \in Widths
  BY IsWideOf DEF Wide
<1>2. IsWide(Trunc(v, 1), 1)
  <2>1. \A l \in Widths : 1 <= l
    BY DEF Widths
  <2> QED  BY <1>1, <2>1, TruncWide
<1> QED  BY <1>2 DEF Operand

LEMMA AluFInv == ASSUME FInv, NEW h \in Handlers, LiftVmAlu(h) PROVE FInv'
<1>1. PICK p : /\ p = PopAll(PopsOf(h)) /\ p.cuts \in BOOLEAN /\ GoodStack(p.sh, ~cut /\ ~p.cuts)
  BY PopsGood DEF GoodPops
<1>2. PICK hasCount \in BOOLEAN : hasCount = (h.op \notin Binary)
  OBVIOUS
<1>3. PICK operands : operands = [i \in DOMAIN p.values |->
                                    IF hasCount /\ i = Len(p.values) THEN Trunc(p.values[i], 1)
                                    ELSE Operand(h, p.values[i])]
  OBVIOUS
<1>4. PICK result : result = IF h.op = "Add" THEN SumOf(operands[2], operands[1], pos + 1)
                             ELSE Word("res", pos + 1, Len(operands[1]))
  OBVIOUS
<1>5. /\ h.op \in Alu /\ status = "ok" /\ UNCHANGED virtualContext /\ UNCHANGED status
      /\ Lifts(h, p)
      /\ Emit(h, p, p.sh \o <<Extended(result, h.d), Slot(FlagsOf(pos + 1), PtrSize)>>, operands)
  BY <1>1, <1>2, <1>3, <1>4 DEF LiftVmAlu, Starts
<1>6. PICK n : n = StackDepth(h.d) /\ n \in PopDepths /\ (h.d # 1 => n = h.d) /\ h.d \in {1, 2, 4, 8}
  BY OpsAre
<1>7. PICK m : /\ m \in {2, 3} /\ Len(PopsOf(h)) = m /\ PopsOf(h)[1] = n
               /\ h.op \in Binary => m = 2 /\ PopsOf(h)[2] = n
  <2>1. CASE h.op \in Binary
    <3>1. PopsOf(h) = <<n, n>>
      BY <1>6, <2>1, PopsOfIs
    <3> QED  BY <3>1
  <2>2. CASE h.op \in Shift
    <3>1. PopsOf(h) = <<n, 2>> /\ h.op \notin Binary
      BY <1>6, <2>2, PopsOfIs DEF Shift, Binary
    <3> QED  BY <3>1
  <2>3. CASE h.op \in DoubleShift
    <3>1. PopsOf(h) = <<n, n, 2>> /\ h.op \notin Binary
      BY <1>6, <2>3, PopsOfIs DEF DoubleShift, Binary
    <3> QED  BY <3>1
  <2> QED  BY <1>5, <2>1, <2>2, <2>3 DEF Alu
<1>8. /\ Len(p.values) = m /\ DOMAIN p.values = 1..m
      /\ \A i \in 1..m : Wide(p.values[i]) /\ PopsOf(h)[i] <= Len(p.values[i])
      /\ ~cut /\ ~p.cuts => \A i \in 1..m : Len(p.values[i]) = PopsOf(h)[i]
  BY <1>1, <1>7, PopsGood DEF GoodPops
<1>9. PICK v : v = p.values[1]
  OBVIOUS
<1>10. /\ Wide(v) /\ n <= Len(v) /\ (~cut /\ ~p.cuts => Len(v) = n)
       /\ operands[1] = Operand(h, v)
  <2>1. 1 \in 1..m /\ 1 # m
    BY <1>7
  <2> QED  BY <1>3, <1>6, <1>7, <1>8, <1>9, <2>1
<1>11. PICK l : /\ l = (IF h.d = 1 THEN 1 ELSE Len(v)) /\ l \in Nat /\ IsWide(operands[1], l)
  <2>1. IsWide(v, Len(v)) /\ Len(v) \in Nat
    BY <1>10, IsWideOf
  <2> QED  BY <1>6, <1>10, <2>1, OperandWide
<1>12. IsWide(result, l)
  <2>1. CASE h.op = "Add"
    <3>0. h.op \in Binary
      BY <2>1 DEF Binary
    <3>6. ~hasCount
      BY <1>2, <3>0
    <3>7. m = 2 /\ PopsOf(h)[2] = n
      BY <1>7, <3>0
    <3>1. 2 \in 1..m /\ ~hasCount /\ m = 2 /\ PopsOf(h)[2] = n
      BY <3>6, <3>7
    <3>2. PICK w : w = p.values[2] /\ Wide(w) /\ n <= Len(w) /\ operands[2] = Operand(h, w)
      BY <1>3, <1>6, <1>8, <3>1
    <3>3. h.d # 1 => Len(v) = Len(w)
      BY <1>5, <1>9, <3>0, <3>2 DEF Lifts, SameWidth
    <3>4. IsWide(operands[2], l)
      <4>1. IsWide(w, Len(w))
        BY <3>2, IsWideOf
      <4> QED  BY <1>6, <1>11, <3>2, <3>3, <4>1, OperandWide
    <3>5. IsWide(SumOf(operands[2], operands[1], pos + 1), l)
      BY <1>11, <3>4, SumLen
    <3> QED  BY <1>4, <2>1, <3>5
  <2>2. CASE h.op # "Add"
    <3>1. result = Word("res", pos + 1, l)
      BY <1>4, <1>11, <2>2 DEF IsWide
    <3> QED  BY <1>11, <3>1, WordWide
  <2> QED  BY <2>1, <2>2
<1>13. PICK s : s = Extended(result, h.d) /\ GoodSlot(s, ~cut /\ ~p.cuts)
  <2>1. CASE h.d = 1
    <3>1. IsWide(result, 1)
      BY <1>11, <1>12, <2>1
    <3> QED  BY <1>6, <2>1, <3>1, ExtendedGood
  <2>2. CASE h.d # 1
    <3>1. Len(result) = Len(v) /\ Wide(result)
      BY <1>10, <1>11, <1>12, <2>2 DEF IsWide, Wide
    <3>2. h.d <= Len(result) /\ (~cut /\ ~p.cuts => Len(result) = h.d)
      BY <1>6, <1>10, <2>2, <3>1
    <3> QED  BY <1>6, <2>2, <3>1, <3>2, ExtendedGood
  <2> QED  BY <2>1, <2>2
<1>14. PICK f : f = Slot(FlagsOf(pos + 1), PtrSize) /\ GoodSlot(f, ~cut /\ ~p.cuts)
  BY WordSlotGood DEF FlagsOf
<1>15. PICK sh : sh = p.sh \o <<s, f>> /\ GoodStack(sh, ~cut /\ ~p.cuts)
  <2>1. GoodStack(<<s, f>>, ~cut /\ ~p.cuts)
    BY <1>13, <1>14, PairGood
  <2> QED  BY <1>1, <2>1, ConcatGood
<1>16. Emit(h, p, sh, operands)
  BY <1>5, <1>13, <1>14, <1>15
<1>17. status' # "badIR"
  BY <1>5
<1> QED  BY <1>1, <1>5, <1>15, <1>16, <1>17, SameContext, EmitFInv

(* The frame of an entry: words, those of the registers that are pushed.   *)
LEMMA EntryFInv == ASSUME FInv, NEW h \in Handlers, LiftVmEntry(h) PROVE FInv'
<1>1. PICK p : p = PopAll(<<>>) /\ p.cuts \in BOOLEAN
  BY NoPopGood
<1>2. PICK exact \in BOOLEAN : exact = (~cut /\ ~p.cuts)
  OBVIOUS
<1>3. PICK zero, dif : /\ zero = Slot(Word("cst", 0, PtrSize), PtrSize) /\ GoodSlot(zero, exact)
                       /\ dif = Slot(ImageBaseDif, PtrSize) /\ GoodSlot(dif, exact)
  BY WordSlotGood DEF ImageBaseDif
<1>4. GoodStack(<<zero, zero>>, exact) /\ GoodStack(<<dif>>, exact)
  BY <1>3, PairGood
<1>5. PICK n : n = Len(EntryRegs) /\ n \in Nat
  BY RegsAssumption
<1>6. PICK S : S = {Slot(NativeReg(EntryRegs[i]), PtrSize) : i \in 1..n}
  OBVIOUS
<1>7. PICK regs : regs = [i \in 1..n |-> IF EntryRegs[i] = -1 THEN <<>>
                                        ELSE <<Slot(NativeReg(EntryRegs[i]), PtrSize)>>]
  OBVIOUS
<1>8. PICK end : end = [i \in 0..n |-> IF i = 0 THEN 0 ELSE end[i - 1] + Len(regs[i])]
  <2>1. PICK c : c = [i \in 1..n |-> Len(regs[i])]
    OBVIOUS
  <2>2. PICK f : f = [i \in 0..n |-> IF i = 0 THEN 0 ELSE f[i - 1] + c[i]]
    BY <1>5, SumsExist
  <2>3. \A i \in 0..n : i # 0 => c[i] = Len(regs[i])
    BY <1>5, <2>1
  <2>4. f = [i \in 0..n |-> IF i = 0 THEN 0 ELSE f[i - 1] + Len(regs[i])]
    BY <2>2, <2>3
  <2> QED  BY <2>4
<1>9. Ends(S, regs, n, end)
  <2>1. \A i \in 1..n : regs[i] \in Seq(S)
    <3>1. <<>> \in Seq(S) /\ \A s \in S : <<s>> \in Seq(S)
      OBVIOUS
    <3>2. ASSUME NEW i \in 1..n
          PROVE  regs[i] = <<>> \/ \E s \in S : regs[i] = <<s>>
      <4>1. Slot(NativeReg(EntryRegs[i]), PtrSize) \in S
        BY <1>6
      <4> QED  BY <1>7, <4>1
    <3> QED  BY <3>1, <3>2
  <2>2. Len(regs) = n /\ (n = 0 => regs = <<>>)
    BY <1>5, <1>7
  <2>3. end[0] = 0 /\ \A i \in 1..n : end[i] = end[i - 1] + Len(regs[i])
    BY <1>5, <1>8
  <2> QED  BY <1>5, <2>1, <2>2, <2>3 DEF Ends
<1>10. GoodStack(FlattenSeq(regs), exact)
  <2>1. IsFlat(FlattenSeq(regs), S, regs, n, end)
    BY <1>9, FlattenIs
  <2>2. \A i : GoodSlot(Slot(NativeReg(i), PtrSize), exact)
    BY WordSlotGood DEF NativeReg
  <2>3. \A s \in S : GoodSlot(s, exact)
    BY <1>6, <2>2
  <2> QED  BY <2>1, <2>3, SeqGood DEF IsFlat
<1>11. PICK sh : sh = shadowStack \o <<zero, zero>> \o FlattenSeq(regs) \o <<dif>>
  OBVIOUS
<1>12. GoodStack(sh, exact)
  <2>1. GoodStack(shadowStack, exact)
    BY <1>2, GoodWeaker DEF FInv
  <2> QED  BY <1>4, <1>10, <1>11, <2>1, ConcatGood
<1>13. /\ Emit(h, p, sh, <<>>)
       /\ UNCHANGED virtualContext /\ status' # "badIR"
  BY <1>1, <1>3, <1>5, <1>7, <1>11 DEF LiftVmEntry, Starts
<1>14. GoodStack(sh, ~cut /\ ~p.cuts)
  BY <1>2, <1>12
<1> QED  BY <1>1, <1>13, <1>14, SameContext, EmitFInv

(* The function returns: nothing waits.                                    *)
LEMMA ReturnFInv ==
  ASSUME FInv, NEW h \in Handlers, LiftVmJmpIndirect(h) \/ LiftVmExit(h)
  PROVE  FInv'
<1>1. PICK p : p = PopAll(PopsOf(h)) /\ p.cuts \in BOOLEAN
  BY PopsGood DEF GoodPops
<1>2. Emit(h, p, <<>>, p.values) /\ Return(p.sh, p.vsp)
  BY <1>1, Zenon DEF LiftVmJmpIndirect, LiftVmExit
<1>3. UNCHANGED virtualContext /\ status' # "badIR"
  BY <1>2 DEF LiftVmJmpIndirect, LiftVmExit, Return
<1>4. GoodStack(<<>>, ~cut /\ ~p.cuts)
  BY EmptyGood
<1> QED  BY <1>1, <1>2, <1>3, <1>4, SameContext, EmitFInv

LEMMA EndFInv == FInv /\ EndFunction => FInv'
<1> SUFFICES ASSUME FInv, EndFunction PROVE FInv'
  OBVIOUS
<1>1. shadowStack' = <<>> /\ UNCHANGED <<cut, virtualContext>> /\ status' = "end"
  BY DEF EndFunction, Return
<1>2. GoodStack(<<>>, ~cut)
  BY EmptyGood
<1>3. GoodStack(shadowStack, ~cut)'
  BY <1>1, <1>2 DEF GoodStack, GoodSlot, Wide
<1>4. UNCHANGED virtualContext
  BY <1>1
<1> QED  BY <1>1, <1>3, <1>4, SameContext DEF FInv

LEMMA NextFInv == ASSUME Regular, FInv, [Next]_vars PROVE FInv'
<1>1. CASE EndFunction
  BY <1>1, EndFInv
<1>2. ASSUME NEW h \in Handlers, LiftHandler(h)
      PROVE  FInv'
  BY <1>2, CannotLiftFInv, PopFInv, PushRegFInv, PushConstFInv, PushVspFInv, PopVspFInv, ReadMemFInv,
     WriteMemFInv, AluFInv, EntryFInv, ReturnFInv DEF LiftHandler
<1>3. CASE UNCHANGED vars
  BY <1>3 DEF vars, FInv, GoodStack, GoodSlot, Wide, IsWide
<1> QED  BY <1>1, <1>2, <1>3 DEF Next

LEMMA SpecFInv == ASSUME Regular PROVE Spec => []FInv
<1>1. Init => FInv
  BY InitFInv
<1>2. FInv /\ [Next]_vars => FInv'
  BY NextFInv
<1> QED  BY <1>1, <1>2, PTL DEF Spec

(* ShadowStackSlot has no room for a value wider than its slot: as long as *)
(* no pop has cut one, each value that waits has the width of its slot, so *)
(* that FlushVspToMemory stores it without touching a neighbour.           *)
THEOREM SlotsStayExact == ASSUME Regular PROVE Spec => []SlotsExact
<1>1. FInv => SlotsExact
  <2> SUFFICES ASSUME FInv, ~cut, NEW i \in DOMAIN shadowStack
               PROVE  Len(shadowStack[i].value) = shadowStack[i].depth
    BY DEF SlotsExact
  <2>1. GoodStack(shadowStack, TRUE)
    BY GoodWeaker DEF FInv
  <2> QED  BY <2>1, SlotGood DEF GoodSlot
<1> QED  BY <1>1, SpecFInv, PTL

(* LLVM refuses an instruction over two widths: ShadowPop, LiftVmAdd and   *)
(* the shifts can only build one from what an earlier cut has left.        *)
THEOREM OnlyCutsStop == ASSUME Regular PROVE Spec => []StopsOnlyCut
<1>1. FInv => StopsOnlyCut
  BY DEF FInv, StopsOnlyCut
<1> QED  BY <1>1, SpecFInv, PTL

(* On every trace, cut slots or not, a slot of the shadow stack has a byte *)
(* and its value has all the bytes of the slot: a pop in ShadowPop never   *)
(* runs past the value it cuts.                                            *)
THEOREM SlotsStayCovered == ASSUME Regular PROVE Spec => []SlotsCovered
<1>1. FInv => SlotsCovered
  <2> SUFFICES ASSUME FInv, NEW i \in DOMAIN shadowStack
               PROVE  /\ shadowStack[i].depth \in Widths
                      /\ Len(shadowStack[i].value) \in Widths
                      /\ shadowStack[i].depth <= Len(shadowStack[i].value)
    BY DEF SlotsCovered, Widths
  <2>1. i \in 1..Len(shadowStack) /\ GoodSlot(shadowStack[i], ~cut)
    BY SlotGood DEF FInv
  <2> QED  BY <2>1 DEF GoodSlot, Wide
<1> QED  BY <1>1, SpecFInv, PTL

-----------------------------------------------------------------------------
(* The bytes of the stack, those that wait and those in memory, as one     *)
(* line of addresses: n bytes of it from u upwards, and the line after v   *)
(* has been put into it.                                                   *)
Line(L) == L = [x \in Int |-> L[x]]
View(L, u, n) == [k \in 1..n |-> L[u + k - 1]]
Put(L, at, v) == [x \in Int |-> IF x \in at..(at + Len(v) - 1) THEN v[x - at + 1] ELSE L[x]]

LEMMA WideSeq ==
  ASSUME NEW v, NEW n \in Nat, IsWide(v, n)
  PROVE  v = [k \in 1..n |-> v[k]] /\ Len(v) = n
<1>1. PICK S : v \in Seq(S) /\ Len(v) = n
  BY DEF IsWide
<1> QED  BY <1>1

LEMMA ViewWide ==
  ASSUME NEW L, NEW u, NEW n \in Nat
  PROVE  IsWide(View(L, u, n), n)
<1>1. PICK f : f = View(L, u, n)
  OBVIOUS
<1>2. f = [k \in 1..n |-> f[k]]
  BY <1>1 DEF View
<1> QED  BY <1>1, <1>2, FunctionWide

(* A value that has the bytes of the line.                                 *)
LEMMA SameView ==
  ASSUME NEW L, NEW u, NEW n \in Nat, NEW v, IsWide(v, n), \A k \in 1..n : v[k] = L[u + k - 1]
  PROVE  v = View(L, u, n)
<1>1. v = [k \in 1..n |-> v[k]]
  BY WideSeq
<1> QED  BY <1>1 DEF View

LEMMA PartOfView ==
  ASSUME NEW L, NEW u \in Int, NEW n \in Nat, NEW a \in Nat, NEW d \in Nat, a + d <= n
  PROVE  SubSeq(View(L, u, n), a + 1, a + d) = View(L, u + a, d)
<1>1. PICK v : v = View(L, u, n)
  OBVIOUS
<1>2. PICK S : v \in Seq(S) /\ Len(v) = n
  BY <1>1, ViewWide DEF IsWide
<1>3. \A i \in 1..n : v[i] = L[u + i - 1]
  BY <1>1 DEF View
<1>4. \A i \in (a + 1)..(a + d) : v[i] \in S
  BY <1>2, ElementOfSeq
<1>5. PICK r : r = SubSeq(v, a + 1, a + d)
  OBVIOUS
<1>6. /\ r \in Seq(S) /\ Len(r) = IF a + 1 <= a + d THEN (a + d) - (a + 1) + 1 ELSE 0
      /\ \A i \in 1..((a + d) - (a + 1) + 1) : r[i] = v[(a + 1) + i - 1]
  BY <1>4, <1>5, SubSeqProperties
<1>7. Len(r) = d
  BY <1>6
<1>8. \A k \in 1..d : r[k] = L[(u + a) + k - 1]
  <2> TAKE k \in 1..d
  <2>1. k \in 1..((a + d) - (a + 1) + 1) /\ (a + 1) + k - 1 = a + k /\ a + k \in 1..n
    OBVIOUS
  <2>2. r[k] = L[u + (a + k) - 1]
    BY <1>3, <1>6, <2>1
  <2>3. u + (a + k) - 1 = (u + a) + k - 1
    OBVIOUS
  <2> QED  BY <2>2, <2>3
<1>9. IsWide(r, d)
  BY <1>6, <1>7 DEF IsWide
<1>10. PICK b : b = u + a
  OBVIOUS
<1>11. \A k \in 1..d : r[k] = L[b + k - 1]
  BY <1>8, <1>10
<1>12. r = View(L, b, d)
  BY <1>9, <1>11, SameView
<1> QED  BY <1>1, <1>5, <1>10, <1>12

LEMMA TruncOfView ==
  ASSUME NEW L, NEW u \in Int, NEW n \in Nat, NEW d \in Nat, d <= n
  PROVE  Trunc(View(L, u, n), d) = View(L, u, d)
<1>1. SubSeq(View(L, u, n), 0 + 1, 0 + d) = View(L, u + 0, d)
  <2>1. 0 \in Nat /\ 0 + d <= n
    OBVIOUS
  <2> QED  BY <2>1, PartOfView, ZenonT(60)
<1>2. 0 + 1 = 1 /\ 0 + d = d /\ u + 0 = u
  OBVIOUS
<1> QED  BY <1>1, <1>2 DEF Trunc

(* A value put below the bytes of the line comes before them.              *)
LEMMA PutBelow ==
  ASSUME NEW L, NEW u \in Int, NEW n \in Nat, NEW m \in Nat, NEW v, IsWide(v, m)
  PROVE  v \o View(L, u, n) = View(Put(L, u - m, v), u - m, m + n)
<1>1. PICK w, T, U : /\ w = View(L, u, n)
                     /\ T = Put(L, u - m, v)
                     /\ U = {v[k] : k \in 1..m} \cup {w[k] : k \in 1..n}
  OBVIOUS
<1>2. /\ v = [k \in 1..m |-> v[k]] /\ Len(v) = m
      /\ w = [k \in 1..n |-> w[k]] /\ Len(w) = n
  BY <1>1, WideSeq, ViewWide
<1>3. v \in Seq(U) /\ w \in Seq(U)
  <2>1. v \in [1..m -> U] /\ w \in [1..n -> U]
    BY <1>1, <1>2
  <2> QED  BY <2>1
<1>4. PICK c : c = v \o w
  OBVIOUS
<1>5. /\ c \in Seq(U) /\ Len(c) = m + n
      /\ \A i \in 1..(m + n) : c[i] = IF i <= m THEN v[i] ELSE w[i - m]
  BY <1>2, <1>3, <1>4, ConcatProperties
<1>6. \A x \in Int : T[x] = IF x \in (u - m)..((u - m) + m - 1) THEN v[x - (u - m) + 1] ELSE L[x]
  BY <1>1, <1>2 DEF Put
<1>7. \A k \in 1..(m + n) : c[k] = T[(u - m) + k - 1]
  <2> TAKE k \in 1..(m + n)
  <2>1. PICK x : x = (u - m) + k - 1
    OBVIOUS
  <2>2. CASE k <= m
    <3>1. x \in Int /\ x \in (u - m)..((u - m) + m - 1) /\ x - (u - m) + 1 = k
      BY <2>1, <2>2
    <3> QED  BY <1>5, <1>6, <2>1, <2>2, <3>1
  <2>3. CASE ~(k <= m)
    <3>1. x \in Int /\ x \notin (u - m)..((u - m) + m - 1) /\ x = u + (k - m) - 1 /\ k - m \in 1..n
      BY <2>1, <2>3
    <3>2. w[k - m] = L[u + (k - m) - 1]
      BY <1>1, <3>1 DEF View
    <3> QED  BY <1>5, <1>6, <2>1, <2>3, <3>1, <3>2
  <2> QED  BY <2>2, <2>3
<1>8. IsWide(c, m + n) /\ m + n \in Nat
  BY <1>5 DEF IsWide
<1>9. PICK b, s : b = u - m /\ s = m + n
  OBVIOUS
<1>10. \A k \in 1..s : c[k] = T[b + k - 1]
  BY <1>7, <1>9
<1>11. IsWide(c, s) /\ s \in Nat
  BY <1>8, <1>9
<1>12. c = View(T, b, s)
  BY <1>10, <1>11, SameView
<1> QED  BY <1>1, <1>4, <1>9, <1>12

-----------------------------------------------------------------------------
(* The slots that wait hang below vsp, each below the one before: the i-th *)
(* from the bottom begins at e[i] and has the bytes of the line.           *)
Neat(sh) == GoodStack(sh, TRUE) /\ \A i \in 1..Len(sh) : sh[i].depth \in PopDepths
Stand(L, sh, vsp, e) ==
  /\ vsp \in Int /\ e[0] = vsp
  /\ \A i \in 1..Len(sh) :
       /\ e[i] \in Int /\ e[i - 1] = e[i] + sh[i].depth
       /\ \A k \in 1..sh[i].depth : sh[i].value[k] = L[e[i] + k - 1]
Memory(arr, x) == IF x \in DOMAIN arr THEN arr[x] ELSE Initially(x)
Held(L, sh, vsp, arr, u) ==
  /\ Line(L)
  /\ Neat(sh)
  /\ \E e : Stand(L, sh, vsp, e) /\ u = e[Len(sh)]
  /\ \A x \in Int : x >= vsp => L[x] = Memory(arr, x)

LEMMA NeatSlot ==
  ASSUME NEW sh, Neat(sh)
  PROVE  /\ Len(sh) \in Nat /\ DOMAIN sh = 1..Len(sh) /\ (sh # <<>> => Len(sh) > 0)
         /\ \A i \in 1..Len(sh) : /\ sh[i].depth \in PopDepths /\ sh[i].depth \in Nat
                                  /\ IsWide(sh[i].value, sh[i].depth)
                                  /\ AllocSize(sh[i].depth) = sh[i].depth
<1>1. Len(sh) \in Nat /\ DOMAIN sh = 1..Len(sh) /\ (sh # <<>> => Len(sh) > 0)
  BY SlotGood DEF Neat
<1>2. ASSUME NEW i \in 1..Len(sh)
      PROVE  /\ sh[i].depth \in PopDepths /\ sh[i].depth \in Nat
             /\ IsWide(sh[i].value, sh[i].depth)
             /\ AllocSize(sh[i].depth) = sh[i].depth
  <2>1. sh[i].depth \in PopDepths /\ GoodSlot(sh[i], TRUE)
    BY SlotGood DEF Neat
  <2>2. Wide(sh[i].value) /\ Len(sh[i].value) = sh[i].depth
    BY <2>1 DEF GoodSlot
  <2>3. IsWide(sh[i].value, sh[i].depth)
    BY <2>2, IsWideOf
  <2> QED  BY <2>1, <2>3 DEF PopDepths, AllocSize
<1> QED  BY <1>1, <1>2

LEMMA EmptyNeat == Neat(<<>>)
<1>1. GoodStack(<<>>, TRUE)
  BY EmptyGood
<1>2. Len(<<>>) = 0 /\ \A i \in 1..0 : FALSE
  OBVIOUS
<1> QED  BY <1>1, <1>2 DEF Neat

LEMMA PrefixIs ==
  ASSUME NEW sh, Neat(sh), NEW n \in 0..Len(sh)
  PROVE  /\ Neat(SubSeq(sh, 1, n)) /\ Len(SubSeq(sh, 1, n)) = n
         /\ \A i \in 1..n : SubSeq(sh, 1, n)[i] = sh[i]
<1>1. PICK S : sh \in Seq(S)
  BY DEF Neat, GoodStack
<1>2. Len(sh) \in Nat /\ n \in Int /\ n <= Len(sh)
  BY NeatSlot
<1>3. \A i \in 1..n : sh[i] \in S
  BY <1>1, <1>2, ElementOfSeq
<1>4. PICK r : r = SubSeq(sh, 1, n)
  OBVIOUS
<1>5. /\ r \in Seq(S) /\ Len(r) = IF 1 <= n THEN n - 1 + 1 ELSE 0
      /\ \A i \in 1..(n - 1 + 1) : r[i] = sh[1 + i - 1]
  BY <1>2, <1>3, <1>4, SubSeqProperties
<1>6. Len(r) = n
  BY <1>2, <1>5
<1>7. \A i \in 1..n : r[i] = sh[i]
  <2> TAKE i \in 1..n
  <2>1. i \in 1..(n - 1 + 1) /\ 1 + i - 1 = i
    BY <1>2
  <2> QED  BY <1>5, <2>1
<1>8. GoodStack(r, TRUE)
  BY <1>2, <1>4, PrefixGood DEF Neat
<1>9. \A i \in 1..n : r[i].depth \in PopDepths
  BY <1>2, <1>7 DEF Neat
<1> QED  BY <1>4, <1>6, <1>7, <1>8, <1>9 DEF Neat

LEMMA AppendIs ==
  ASSUME NEW sh, Neat(sh), NEW v, NEW d \in PopDepths, IsWide(v, d)
  PROVE  /\ Neat(Append(sh, Slot(v, d))) /\ Len(Append(sh, Slot(v, d))) = Len(sh) + 1
         /\ \A i \in 1..Len(sh) : Append(sh, Slot(v, d))[i] = sh[i]
         /\ Append(sh, Slot(v, d))[Len(sh) + 1] = Slot(v, d)
<1>1. PICK s : s = Slot(v, d)
  OBVIOUS
<1>2. PICK n : n = Len(sh) /\ n \in Nat
  BY NeatSlot
<1>3. s.value = v /\ s.depth = d
  BY <1>1 DEF Slot
<1>4. GoodSlot(s, TRUE)
  <2>1. d \in Widths /\ d \in Nat
    BY DEF PopDepths, Widths
  <2>2. Wide(v) /\ Len(v) = d
    BY <2>1, WideIs DEF IsWide
  <2> QED  BY <1>3, <2>1, <2>2 DEF GoodSlot
<1>5. PICK S : sh \in Seq(S)
  BY DEF Neat, GoodStack
<1>6. PICK U : U = S \cup {s}
  OBVIOUS
<1>7. sh \in Seq(U) /\ s \in U
  BY <1>5, <1>6, SeqMonotonic
<1>8. PICK r : r = Append(sh, s)
  OBVIOUS
<1>9. Len(r) = n + 1 /\ r[n + 1] = s /\ \A i \in 1..n : r[i] = sh[i]
  BY <1>2, <1>7, <1>8, AppendProperties
<1>10. GoodStack(r, TRUE)
  BY <1>4, <1>8, AppendGood DEF Neat
<1>11. \A i \in 1..(n + 1) : r[i].depth \in PopDepths
  <2> TAKE i \in 1..(n + 1)
  <2>1. i = n + 1 \/ i \in 1..n
    BY <1>2
  <2> QED  BY <1>2, <1>3, <1>9, <2>1 DEF Neat
<1> QED  BY <1>1, <1>2, <1>8, <1>9, <1>10, <1>11 DEF Neat

(* The bytes of the topmost slots, from where they begin.                  *)
LEMMA TopEnds ==
  ASSUME NEW L, NEW sh, Neat(sh), NEW vsp, NEW e, Stand(L, sh, vsp, e)
  PROVE  \A m \in 0..Len(sh) : TopDepth(sh)[m] = e[Len(sh) - m] - e[Len(sh)]
<1>1. PICK n : n = Len(sh) /\ n \in Nat
  BY NeatSlot
<1>2. PICK top : top = TopDepth(sh)
  OBVIOUS
<1>3. top[0] = 0 /\ \A m \in 1..n : top[m] = top[m - 1] + FromTop(sh, m).depth
  BY <1>1, <1>2, TopIs
<1>4. \A i \in 0..n : e[i] \in Int
  <2> TAKE i \in 0..n
  <2>1. i = 0 \/ i \in 1..n
    BY <1>1
  <2> QED  BY <1>1, <2>1 DEF Stand
<1> DEFINE Right(m) == top[m] = e[n - m] - e[n]
           T == {m \in 0..n : ~Right(m)}
<1>5. T = {}
  <2> SUFFICES ASSUME T # {} PROVE FALSE
    OBVIOUS
  <2>1. PICK m \in T : \A k \in T : m <= k
    <3> HIDE DEF T
    <3>1. T \subseteq Nat
      BY <1>1 DEF T
    <3> QED  BY <3>1, LeastNumber
  <2>2. m \in 0..n /\ ~Right(m)
    OBVIOUS
  <2>3. CASE m = 0
    <3>1. n - m = n /\ e[n] \in Int /\ e[n] - e[n] = 0
      BY <1>1, <1>4, <2>3
    <3> QED  BY <1>3, <2>2, <2>3, <3>1
  <2>4. CASE m # 0
    <3>1. PICK j : j = m - 1 /\ j \in 0..n /\ m \in 1..n /\ ~(m <= j)
      BY <1>1, <2>2, <2>4
    <3>2. Right(j)
      <4>1. j \notin T
        <5> HIDE DEF T
        <5> QED  BY <2>1, <3>1
      <4> QED  BY <3>1, <4>1
    <3>3. PICK i : i = n + 1 - m /\ i \in 1..n /\ i - 1 = n - m /\ i = n - j
      BY <1>1, <3>1
    <3>4. e[i - 1] = e[i] + sh[i].depth /\ e[i] \in Int /\ e[i - 1] \in Int /\ e[n] \in Int
      <4>1. i - 1 \in 0..n /\ i \in 0..n /\ n \in 0..n
        BY <1>1, <3>3
      <4> QED  BY <1>1, <1>4, <3>3, <4>1 DEF Stand
    <3>5. sh[i].depth \in Nat
      BY <1>1, <3>3, NeatSlot
    <3>6. top[m] = top[j] + sh[i].depth
      BY <1>1, <1>3, <3>1, <3>3 DEF FromTop
    <3>7. top[j] = e[i] - e[n]
      BY <3>2, <3>3
    <3>8. PICK a, b, c, d : a = e[i - 1] /\ b = e[i] /\ c = e[n] /\ d = sh[i].depth
      OBVIOUS
    <3>9. top[m] = a - c
      BY <3>4, <3>5, <3>6, <3>7, <3>8
    <3> QED  BY <2>2, <3>3, <3>8, <3>9
  <2> QED  BY <2>3, <2>4
<1> QED
  <2> HIDE DEF T
  <2>1. \A m \in 0..n : m \notin T
    BY <1>5
  <2>2. \A m \in 0..n : Right(m)
    BY <2>1 DEF T
  <2> QED  BY <1>1, <1>2, <2>2

LEMMA StandInt ==
  ASSUME NEW L, NEW sh, Neat(sh), NEW vsp, NEW e, Stand(L, sh, vsp, e)
  PROVE  /\ \A i \in 0..Len(sh) : e[i] \in Int
         /\ e[0] - e[Len(sh)] = DepthOf(sh) /\ e[0] = vsp
<1>1. PICK n : n = Len(sh) /\ n \in Nat
  BY NeatSlot
<1>2. \A i \in 0..n : e[i] \in Int
  <2> TAKE i \in 0..n
  <2>1. i = 0 \/ i \in 1..n
    BY <1>1
  <2> QED  BY <1>1, <2>1 DEF Stand
<1>3. n \in 0..n /\ n - n = 0
  BY <1>1
<1>4. TopDepth(sh)[n] = e[n - n] - e[n]
  <2>1. \A m \in 0..Len(sh) : TopDepth(sh)[m] = e[Len(sh) - m] - e[Len(sh)]
    BY TopEnds
  <2> QED  BY <1>1, <1>3, <2>1
<1> QED  BY <1>1, <1>2, <1>3, <1>4 DEF DepthOf, Stand

(* They end at vsp, and begin at u.                                        *)
LEMMA HeldAt ==
  ASSUME NEW L, NEW sh, NEW vsp, NEW arr, NEW u, Held(L, sh, vsp, arr, u)
  PROVE  u \in Int /\ vsp \in Int /\ DepthOf(sh) \in Int /\ u = vsp - DepthOf(sh)
<1>1. PICK e : Stand(L, sh, vsp, e) /\ u = e[Len(sh)] /\ Neat(sh)
  BY DEF Held
<1>2. Len(sh) \in 0..Len(sh) /\ 0 \in 0..Len(sh)
  BY <1>1, NeatSlot
<1>3. e[0] \in Int /\ u \in Int /\ e[0] - u = DepthOf(sh) /\ e[0] = vsp
  BY <1>1, <1>2, StandInt
<1> QED  BY <1>3

LEMMA EmptyHeld ==
  ASSUME NEW L, Line(L), NEW u \in Int, NEW arr, \A x \in Int : x >= u => L[x] = Memory(arr, x)
  PROVE  Held(L, <<>>, u, arr, u)
<1>1. PICK e : e = [i \in {0} |-> u]
  OBVIOUS
<1>2. e[0] = u
  BY <1>1
<1>3. Stand(L, <<>>, u, e) /\ u = e[Len(<<>>)]
  <2>1. Len(<<>>) = 0 /\ \A i \in 1..0 : FALSE
    OBVIOUS
  <2> QED  BY <1>2, <2>1 DEF Stand
<1> QED  BY <1>3, EmptyNeat DEF Held

(* The topmost slot is the lowest.                                         *)
LEMMA StandAbove ==
  ASSUME NEW L, NEW sh, Neat(sh), NEW vsp, NEW e, Stand(L, sh, vsp, e), NEW i \in 0..Len(sh)
  PROVE  e[Len(sh)] <= e[i] /\ e[i] \in Int /\ e[Len(sh)] \in Int
<1>1. PICK n : n = Len(sh) /\ n \in Nat
  BY NeatSlot
<1>2. e[i] \in Int /\ e[n] \in Int
  <2>1. \A j \in 0..Len(sh) : e[j] \in Int
    BY StandInt
  <2> QED  BY <1>1, <2>1
<1>3. PICK m : m = n - i /\ m \in 0..n /\ n - m = i
  BY <1>1
<1>4. TopDepth(sh)[m] \in Nat
  <2>1. GoodStack(sh, TRUE) /\ m \in 0..Len(sh)
    BY <1>1, <1>3 DEF Neat
  <2>2. TopDepth(sh)[m] \in Even
    BY <2>1, TopGrows
  <2> QED  BY <2>2 DEF Even
<1>5. TopDepth(sh)[m] = e[n - m] - e[n]
  <2>1. \A j \in 0..Len(sh) : TopDepth(sh)[j] = e[Len(sh) - j] - e[Len(sh)]
    BY TopEnds
  <2> QED  BY <1>1, <1>3, <2>1
<1>6. PICK a, b : a = e[i] /\ b = e[n] /\ a \in Int /\ b \in Int /\ a - b \in Nat
  BY <1>2, <1>3, <1>4, <1>5
<1>7. b <= a
  BY <1>6
<1> QED  BY <1>1, <1>6, <1>7

(* Without the topmost slots the others stand where they stood.            *)
LEMMA PrefixHeld ==
  ASSUME NEW L, NEW sh, NEW vsp, NEW arr, NEW e, Line(L), Neat(sh), Stand(L, sh, vsp, e),
         \A x \in Int : x >= vsp => L[x] = Memory(arr, x), NEW n \in 0..Len(sh)
  PROVE  Held(L, SubSeq(sh, 1, n), vsp, arr, e[n])
<1>1. PICK r : r = SubSeq(sh, 1, n)
  OBVIOUS
<1>2. Neat(r) /\ Len(r) = n /\ \A i \in 1..n : r[i] = sh[i]
  BY <1>1, PrefixIs
<1>3. n \in Nat /\ \A i \in 1..n : i \in 1..Len(sh)
  BY NeatSlot
<1>4. Stand(L, r, vsp, e)
  BY <1>2, <1>3 DEF Stand
<1> QED  BY <1>1, <1>2, <1>4 DEF Held

(* A value that is pushed comes below all of them.                         *)
LEMMA PushHeld ==
  ASSUME NEW L, NEW sh, NEW vsp, NEW arr, NEW u, Held(L, sh, vsp, arr, u),
         NEW d \in PopDepths, NEW v, IsWide(v, d)
  PROVE  Held(Put(L, u - d, v), Append(sh, Slot(v, d)), vsp, arr, u - d)
<1>1. PICK e : Stand(L, sh, vsp, e) /\ u = e[Len(sh)]
  BY DEF Held
<1>2. PICK n : n = Len(sh) /\ n \in Nat /\ Neat(sh)
  BY NeatSlot DEF Held
<1>3. u \in Int /\ vsp \in Int /\ \A i \in 0..n : u <= e[i] /\ e[i] \in Int
  BY <1>1, <1>2, HeldAt, StandAbove
<1>4. e[0] = vsp /\ u <= vsp
  <2>1. 0 \in 0..n
    BY <1>2
  <2> QED  BY <1>1, <1>3, <2>1 DEF Stand
<1>5. d \in Nat /\ d > 0
  BY DEF PopDepths
<1>6. PICK K : K = Put(L, u - d, v)
  OBVIOUS
<1>7. Len(v) = d
  BY DEF IsWide
<1>8. \A x \in Int : K[x] = IF x \in (u - d)..((u - d) + d - 1) THEN v[x - (u - d) + 1] ELSE L[x]
  BY <1>6, <1>7 DEF Put
<1>9. \A x \in Int : x >= u => K[x] = L[x]
  <2> SUFFICES ASSUME NEW x \in Int, x >= u PROVE K[x] = L[x]
    OBVIOUS
  <2>1. x \notin (u - d)..((u - d) + d - 1)
    BY <1>3, <1>5
  <2> QED  BY <1>8, <2>1
<1>10. \A k \in 1..d : K[(u - d) + k - 1] = v[k]
  <2> TAKE k \in 1..d
  <2>1. PICK x : x = (u - d) + k - 1
    OBVIOUS
  <2>2. x \in Int /\ x \in (u - d)..((u - d) + d - 1) /\ x - (u - d) + 1 = k
    BY <1>3, <1>5, <2>1
  <2> QED  BY <1>8, <2>1, <2>2
<1>11. PICK r : r = Append(sh, Slot(v, d))
  OBVIOUS
<1>12. /\ Neat(r) /\ Len(r) = n + 1 /\ r[n + 1].value = v /\ r[n + 1].depth = d
       /\ \A i \in 1..n : r[i] = sh[i]
  BY <1>2, <1>11, AppendIs DEF Slot
<1>13. PICK f : f = [i \in 0..(n + 1) |-> IF i = n + 1 THEN u - d ELSE e[i]]
  OBVIOUS
<1>14. f[n + 1] = u - d /\ \A i \in 0..n : f[i] = e[i]
  BY <1>2, <1>13
<1>15. Stand(K, r, vsp, f)
  <2>1. f[0] = vsp
    BY <1>2, <1>4, <1>14
  <2>2. ASSUME NEW i \in 1..(n + 1)
        PROVE  /\ f[i] \in Int /\ f[i - 1] = f[i] + r[i].depth
               /\ \A k \in 1..r[i].depth : r[i].value[k] = K[f[i] + k - 1]
    <3>1. CASE i = n + 1
      <4>1. f[i] = u - d /\ f[i - 1] = u /\ (u - d) + d = u
        <5>1. i - 1 = n /\ n \in 0..n
          BY <1>2, <3>1
        <5> QED  BY <1>1, <1>2, <1>3, <1>5, <1>14, <3>1, <5>1
      <4> QED  BY <1>3, <1>5, <1>10, <1>12, <3>1, <4>1
    <3>2. CASE i # n + 1
      <4>1. i \in 1..n /\ i \in 0..n /\ i - 1 \in 0..n
        BY <1>2, <3>2
      <4>2. f[i] = e[i] /\ f[i - 1] = e[i - 1] /\ r[i] = sh[i]
        BY <1>12, <1>14, <4>1
      <4>3. /\ e[i] \in Int /\ e[i - 1] = e[i] + sh[i].depth
            /\ \A k \in 1..sh[i].depth : sh[i].value[k] = L[e[i] + k - 1]
        BY <1>1, <1>2, <4>1 DEF Stand
      <4>4. sh[i].depth \in Nat
        BY <1>2, <4>1, NeatSlot
      <4>5. \A k \in 1..sh[i].depth : K[e[i] + k - 1] = L[e[i] + k - 1]
        <5> TAKE k \in 1..sh[i].depth
        <5>1. e[i] + k - 1 \in Int /\ e[i] + k - 1 >= u
          BY <1>3, <4>1, <4>3, <4>4
        <5> QED  BY <1>9, <5>1
      <4> QED  BY <4>2, <4>3, <4>5
    <3> QED  BY <3>1, <3>2
  <2> QED  BY <1>3, <1>12, <2>1, <2>2 DEF Stand
<1>16. \A x \in Int : x >= vsp => K[x] = Memory(arr, x)
  <2> SUFFICES ASSUME NEW x \in Int, x >= vsp PROVE K[x] = Memory(arr, x)
    OBVIOUS
  <2>1. x >= u
    BY <1>3, <1>4
  <2> QED  BY <1>9, <2>1 DEF Held
<1>17. Line(K)
  BY <1>6 DEF Line, Put
<1>18. f[Len(r)] = u - d
  BY <1>12, <1>14
<1>19. Held(K, r, vsp, arr, u - d)
  <2>1. PICK b : b = u - d
    OBVIOUS
  <2>2. b = f[Len(r)]
    BY <1>18, <2>1
  <2>3. Held(K, r, vsp, arr, b)
    BY <1>12, <1>15, <1>16, <1>17, <2>2, Zenon DEF Held
  <2> QED  BY <2>1, <2>3
<1> QED  BY <1>6, <1>11, <1>19

(* A place up to the end of the last part is in one of them.               *)
LEMMA InPart ==
  ASSUME NEW m \in Nat, NEW end, \A i \in 0..m : end[i] \in Int, end[0] = 0,
         NEW x \in Int, 1 <= x, x <= end[m]
  PROVE  \E i \in 1..m : end[i - 1] < x /\ x <= end[i]
<1> DEFINE T == {i \in 0..m : x <= end[i]}
<1>1. PICK i \in T : \A j \in T : i <= j
  <2>1. m \in T /\ T \subseteq Nat
    OBVIOUS
  <2> HIDE DEF T
  <2> QED  BY <2>1, LeastNumber
<1>2. i \in 0..m /\ x <= end[i]
  OBVIOUS
<1>3. i # 0
  BY <1>2
<1>4. i - 1 \in 0..m /\ ~(i <= i - 1) /\ i \in 1..m
  BY <1>2, <1>3
<1>5. i - 1 \notin T
  <2> HIDE DEF T
  <2> QED  BY <1>1, <1>4
<1>6. end[i - 1] < x
  <2>1. ~(x <= end[i - 1]) /\ end[i - 1] \in Int
    BY <1>4, <1>5
  <2> QED  BY <2>1
<1> QED  BY <1>2, <1>4, <1>6

-----------------------------------------------------------------------------
(* The live stack of a state is a part of the line.                        *)
LiveOf(sh, base, arr) ==
  FlattenSeq([i \in 1..Len(sh) |-> Trunc(FromTop(sh, i).value, FromTop(sh, i).depth)])
    \o [k \in 1..(Above - base) |-> Memory(arr, base + k - 1)]

LEMMA PutBack ==
  ASSUME NEW L, Line(L), NEW u \in Int, NEW m \in Nat
  PROVE  Put(L, u, View(L, u, m)) = L
<1>1. PICK v : v = View(L, u, m) /\ Len(v) = m
  BY ViewWide DEF IsWide
<1>2. \A k \in 1..m : v[k] = L[u + k - 1]
  BY <1>1 DEF View
<1>3. \A x \in Int : (IF x \in u..(u + Len(v) - 1) THEN v[x - u + 1] ELSE L[x]) = L[x]
  <2> TAKE x \in Int
  <2>1. CASE x \in u..(u + m - 1)
    <3>1. PICK k : k = x - u + 1 /\ k \in 1..m /\ u + k - 1 = x
      BY <2>1
    <3>2. v[k] = L[x]
      BY <1>2, <3>1
    <3> QED  BY <1>1, <3>1, <3>2
  <2>2. CASE x \notin u..(u + m - 1)
    BY <1>1, <2>2
  <2> QED  BY <2>1, <2>2
<1> QED  BY <1>1, <1>3, Zenon DEF Put, Line

LEMMA TruncWhole ==
  ASSUME NEW v, NEW n \in Nat, IsWide(v, n)
  PROVE  Trunc(v, n) = v
<1>1. PICK S : v \in Seq(S) /\ Len(v) = n
  BY DEF IsWide
<1>2. \A i \in 1..n : v[i] \in S
  BY <1>1, ElementOfSeq
<1>3. PICK r : r = SubSeq(v, 1, n)
  OBVIOUS
<1>4. /\ r \in Seq(S) /\ Len(r) = IF 1 <= n THEN n - 1 + 1 ELSE 0
      /\ \A i \in 1..(n - 1 + 1) : r[i] = v[1 + i - 1]
  BY <1>2, <1>3, SubSeqProperties
<1>5. Len(r) = n /\ \A i \in 1..Len(r) : r[i] = v[i]
  <2>1. Len(r) = n
    BY <1>4
  <2>2. \A i \in 1..n : i \in 1..(n - 1 + 1) /\ 1 + i - 1 = i
    OBVIOUS
  <2> QED  BY <1>4, <2>1, <2>2
<1>6. r = v
  BY <1>1, <1>4, <1>5, SeqEqual
<1> QED  BY <1>3, <1>6 DEF Trunc

LEMMA LiveIsView ==
  ASSUME NEW L, NEW sh, NEW base, NEW arr, NEW u, Held(L, sh, base, arr, u), base <= Above
  PROVE  LiveOf(sh, base, arr) = View(L, u, Above - u)
<1>1. PICK e : Stand(L, sh, base, e) /\ u = e[Len(sh)]
  BY DEF Held
<1>2. PICK n : n = Len(sh) /\ n \in Nat /\ Neat(sh) /\ (sh # <<>> => n > 0)
  BY NeatSlot DEF Held
<1>3. /\ u \in Int /\ base \in Int /\ \A i \in 0..n : u <= e[i] /\ e[i] \in Int
      /\ Above \in Nat
  BY <1>1, <1>2, HeldAt, StandAbove, SizesAssumption
<1>4. e[0] = base /\ u <= base
  <2>1. 0 \in 0..n
    BY <1>2
  <2> QED  BY <1>1, <1>3, <2>1 DEF Stand
<1>5. PICK parts : parts = [i \in 1..n |-> Trunc(FromTop(sh, i).value, FromTop(sh, i).depth)]
  OBVIOUS
<1>6. PICK end : end = [i \in 0..n |-> e[n - i] - u]
  OBVIOUS
<1>7. ASSUME NEW i \in 1..n
      PROVE  /\ IsWide(parts[i], end[i] - end[i - 1]) /\ end[i] - end[i - 1] \in Nat
             /\ end[i] \in Int /\ end[i - 1] \in Nat
             /\ \A k \in 1..(end[i] - end[i - 1]) : parts[i][k] = L[u + end[i - 1] + k - 1]
  <2>1. PICK j : j = n + 1 - i /\ j \in 1..n /\ j \in 0..n /\ j - 1 \in 0..n
                 /\ j - 1 = n - i /\ j = n - (i - 1) /\ i \in 0..n /\ i - 1 \in 0..n
    BY <1>2
  <2>2. PICK s : s = sh[j] /\ s.depth \in Nat /\ IsWide(s.value, s.depth)
    BY <1>2, <2>1, NeatSlot
  <2>3. parts[i] = s.value
    <3>1. FromTop(sh, i) = s
      BY <1>2, <2>1, <2>2 DEF FromTop
    <3>2. Trunc(s.value, s.depth) = s.value
      BY <2>2, TruncWhole
    <3> QED  BY <1>5, <3>1, <3>2
  <2>4. /\ e[j] \in Int /\ e[j - 1] = e[j] + s.depth
        /\ \A k \in 1..s.depth : s.value[k] = L[e[j] + k - 1]
    BY <1>1, <1>2, <2>1, <2>2 DEF Stand
  <2>5. end[i] = e[j - 1] - u /\ end[i - 1] = e[j] - u
    BY <1>6, <2>1
  <2>6. PICK a, b, d : a = e[j] /\ b = e[j - 1] /\ d = s.depth
    OBVIOUS
  <2>7. /\ a \in Int /\ b \in Int /\ d \in Nat /\ b = a + d /\ u <= a
        /\ end[i] = b - u /\ end[i - 1] = a - u
    BY <1>3, <2>1, <2>2, <2>4, <2>5, <2>6
  <2>8. end[i] - end[i - 1] = d /\ end[i] \in Int /\ end[i - 1] \in Nat /\ u + end[i - 1] = a
    BY <1>3, <2>7
  <2> QED  BY <2>2, <2>3, <2>4, <2>6, <2>8
<1>8. PICK S : S = {L[x] : x \in Int}
  OBVIOUS
<1>9. end[0] = 0 /\ end[n] = base - u
  <2>1. n - 0 = n /\ n - n = 0 /\ 0 \in 0..n /\ n \in 0..n
    BY <1>2
  <2> QED  BY <1>1, <1>2, <1>3, <1>4, <1>6, <2>1
<1>10. Ends(S, parts, n, end)
  <2>1. Len(parts) = n /\ (n = 0 => parts = <<>>)
    BY <1>2, <1>5
  <2>2. ASSUME NEW i \in 1..n
        PROVE  parts[i] \in Seq(S) /\ end[i] = end[i - 1] + Len(parts[i])
    <3>1. PICK d, a, v : d = end[i] - end[i - 1] /\ a = u + end[i - 1] /\ v = parts[i]
      OBVIOUS
    <3>2. /\ IsWide(v, d) /\ d \in Nat /\ a \in Int /\ end[i] \in Int /\ end[i - 1] \in Nat
          /\ \A k \in 1..d : v[k] = L[a + k - 1]
      BY <1>3, <1>7, <3>1
    <3>3. v = [k \in 1..d |-> v[k]] /\ Len(v) = d
      BY <3>2, WideSeq
    <3>4. \A k \in 1..d : v[k] \in S
      BY <1>8, <3>2
    <3>5. v \in Seq(S)
      <4>1. v \in [1..d -> S]
        BY <3>3, <3>4
      <4> QED  BY <3>2, <4>1
    <3> QED  BY <3>1, <3>2, <3>3, <3>5
  <2> QED  BY <1>2, <1>9, <2>1, <2>2 DEF Ends
<1>11. PICK flat : flat = FlattenSeq(parts)
  OBVIOUS
<1>12. /\ flat \in Seq(S) /\ Len(flat) = base - u
       /\ \A i \in 1..n : \A k \in 1..Len(parts[i]) : flat[end[i - 1] + k] = parts[i][k]
  <2>1. IsFlat(flat, S, parts, n, end)
    BY <1>10, <1>11, FlattenIs
  <2> QED  BY <1>9, <2>1 DEF IsFlat
<1>13. \A y \in 1..(base - u) : flat[y] = L[u + y - 1]
  <2> TAKE y \in 1..(base - u)
  <2>1. \A i \in 0..n : end[i] \in Int
    <3> TAKE i \in 0..n
    <3>1. i = 0 \/ i \in 1..n
      BY <1>2
    <3> QED  BY <1>7, <1>9, <3>1
  <2>2. y \in Int /\ 1 <= y /\ y <= end[n]
    BY <1>3, <1>9
  <2>3. PICK i \in 1..n : end[i - 1] < y /\ y <= end[i]
    BY <1>2, <1>9, <2>1, <2>2, InPart
  <2>4. PICK a, b : a = end[i - 1] /\ b = end[i] /\ a \in Nat /\ b \in Int
    BY <1>7
  <2>8. a < y /\ y <= b /\ a \in Int
    BY <2>3, <2>4
  <2>5. PICK k : k = y - a /\ k \in 1..(b - a) /\ a + k = y /\ u + a + k - 1 = u + y - 1
    <3>1. y - a \in 1..(b - a) /\ a + (y - a) = y /\ u + a + (y - a) - 1 = u + y - 1
      BY <1>3, <2>2, <2>4, <2>8
    <3> QED  BY <3>1
  <2>6. Len(parts[i]) = b - a /\ parts[i][k] = L[u + a + k - 1]
    BY <1>7, <2>4, <2>5 DEF IsWide
  <2>7. flat[a + k] = parts[i][k]
    BY <1>12, <2>4, <2>5, <2>6
  <2> QED  BY <2>5, <2>6, <2>7
<1>14. base - u \in Nat /\ Above - base \in Nat
  BY <1>3, <1>4
<1>15. flat = View(L, u, base - u)
  <2>1. IsWide(flat, base - u)
    BY <1>12, <1>14 DEF IsWide
  <2> QED  BY <1>13, <1>14, <2>1, SameView
<1>16. PICK mem : mem = [k \in 1..(Above - base) |-> Memory(arr, base + k - 1)]
  OBVIOUS
<1>17. mem = View(L, base, Above - base)
  <2>1. \A k \in 1..(Above - base) : Memory(arr, base + k - 1) = L[base + k - 1]
    <3> TAKE k \in 1..(Above - base)
    <3>1. base + k - 1 \in Int /\ base + k - 1 >= base
      BY <1>3
    <3> QED  BY <3>1 DEF Held
  <2> QED  BY <1>16, <2>1 DEF View
<1>18. flat \o mem = View(L, u, Above - u)
  <2>1. PICK m, r : m = base - u /\ r = Above - base /\ m \in Nat /\ r \in Nat
    BY <1>14
  <2>2. base - m = u /\ m + r = Above - u
    BY <1>3, <2>1
  <2>3. IsWide(flat, m)
    BY <1>15, <2>1, ViewWide
  <2>4. flat \o View(L, base, r) = View(Put(L, base - m, flat), base - m, m + r)
    BY <1>3, <2>1, <2>3, PutBelow
  <2>5. Put(L, u, View(L, u, m)) = L
    BY <1>3, <2>1, PutBack DEF Held
  <2> QED  BY <1>15, <1>17, <2>1, <2>2, <2>4, <2>5
<1> QED  BY <1>2, <1>5, <1>11, <1>16, <1>18 DEF LiveOf

-----------------------------------------------------------------------------
(* Parts of which just one has each byte, that of the line.                *)
OneEach(L, u, d, parts, place) ==
  \A k \in 1..d : \E i :
    /\ {j \in DOMAIN parts : k - place[j] \in 1..Len(parts[j])} = {i}
    /\ parts[i][k - place[i]] = L[u + k - 1]

LEMMA MergedIs ==
  ASSUME NEW L, NEW u, NEW d \in Nat, NEW parts, NEW place, OneEach(L, u, d, parts, place)
  PROVE  Merged(parts, place, d) = View(L, u, d)
<1>1. ASSUME NEW k \in 1..d
      PROVE  LET at == {i \in DOMAIN parts : k - place[i] \in 1..Len(parts[i])}
                 set == {i \in at : ~IsZero(parts[i][k - place[i]])}
                 i == CHOOSE i \in (IF set = {} THEN at ELSE set) : TRUE
             IN (IF Cardinality(set) > 1 THEN <<"mix", 0, k>> ELSE parts[i][k - place[i]])
                  = L[u + k - 1]
  <2> DEFINE at == {i \in DOMAIN parts : k - place[i] \in 1..Len(parts[i])}
             set == {i \in at : ~IsZero(parts[i][k - place[i]])}
             top == CHOOSE i \in (IF set = {} THEN at ELSE set) : TRUE
  <2>1. PICK i : at = {i} /\ parts[i][k - place[i]] = L[u + k - 1]
    BY DEF OneEach
  <2>2. set = {} \/ set = {i}
    BY <2>1
  <2>3. ~(Cardinality(set) > 1)
    <3> HIDE DEF set
    <3>1. Cardinality({}) = 0 /\ Cardinality({i}) = 1
      BY FS_EmptySet, FS_Singleton
    <3>2. PICK c : c = Cardinality(set) /\ (c = 0 \/ c = 1)
      <4>1. Cardinality(set) = 0 \/ Cardinality(set) = 1
        BY <2>2, <3>1, Zenon
      <4> QED  BY <4>1
    <3> QED  BY <3>2
  <2>4. top = i
    <3> HIDE DEF set, at
    <3>1. (IF set = {} THEN at ELSE set) = {i}
      BY <2>1, <2>2
    <3> QED  BY <3>1
  <2> QED  BY <2>1, <2>3, <2>4
<1> QED  BY <1>1 DEF Merged, View

LEMMA EndsGrow ==
  ASSUME NEW m \in Nat, NEW end, \A i \in 0..m : end[i] \in Int,
         \A i \in 1..m : end[i - 1] <= end[i]
  PROVE  \A j \in 0..m : \A i \in 0..j : end[i] <= end[j]
<1> DEFINE Right(j) == \A i \in 0..j : end[i] <= end[j]
           T == {j \in 0..m : ~Right(j)}
<1>1. T = {}
  <2> SUFFICES ASSUME T # {} PROVE FALSE
    OBVIOUS
  <2>1. PICK j \in T : \A k \in T : j <= k
    <3> HIDE DEF T
    <3>1. T \subseteq Nat
      BY DEF T
    <3> QED  BY <3>1, LeastNumber
  <2>2. j \in 0..m /\ ~Right(j)
    OBVIOUS
  <2>3. PICK i \in 0..j : ~(end[i] <= end[j])
    BY <2>2
  <2>4. end[i] \in Int /\ end[j] \in Int
    BY <2>2
  <2>5. i # j
    BY <2>3, <2>4
  <2>6. PICK k : k = j - 1 /\ k \in 0..m /\ ~(j <= k) /\ i \in 0..k /\ j \in 1..m
    BY <2>2, <2>5
  <2>7. Right(k)
    <3>1. k \notin T
      <4> HIDE DEF T
      <4> QED  BY <2>1, <2>6
    <3> QED  BY <2>6, <3>1
  <2>8. end[i] <= end[k] /\ end[k] <= end[j] /\ end[k] \in Int
    BY <2>6, <2>7
  <2> QED  BY <2>3, <2>4, <2>8
<1> QED
  <2> HIDE DEF T
  <2>1. \A j \in 0..m : j \notin T
    BY <1>1
  <2>2. \A j \in 0..m : Right(j)
    BY <2>1 DEF T
  <2> QED  BY <2>2

(* Parts side by side, each with the bytes of the line: together as well.  *)
SideBySide(L, u, parts, m, end) ==
  /\ DOMAIN parts = 1..m /\ end[0] = 0
  /\ \A i \in 1..m :
       /\ Len(parts[i]) \in Nat /\ end[i] \in Int /\ end[i] = end[i - 1] + Len(parts[i])
       /\ \A k \in 1..Len(parts[i]) : parts[i][k] = L[u + end[i - 1] + k - 1]

LEMMA SideMerged ==
  ASSUME NEW L, NEW u \in Int, NEW m \in Nat, NEW parts, NEW end,
         SideBySide(L, u, parts, m, end), NEW place, \A i \in 1..m : place[i] = end[i - 1],
         NEW d \in Nat, end[m] = d
  PROVE  Merged(parts, place, d) = View(L, u, d)
<1>1. \A i \in 0..m : end[i] \in Int
  <2> TAKE i \in 0..m
  <2>1. i = 0 \/ i \in 1..m
    OBVIOUS
  <2> QED  BY <2>1 DEF SideBySide
<1>2. \A i \in 1..m : end[i - 1] <= end[i]
  <2> TAKE i \in 1..m
  <2>1. PICK a, b, n : a = end[i - 1] /\ b = end[i] /\ n = Len(parts[i])
    OBVIOUS
  <2>2. n \in Nat /\ b = a + n /\ i - 1 \in 0..m
    BY <2>1 DEF SideBySide
  <2>3. a \in Int /\ a <= b
    BY <1>1, <2>1, <2>2
  <2> QED  BY <2>1, <2>3
<1>3. \A j \in 0..m : \A i \in 0..j : end[i] <= end[j]
  BY <1>1, <1>2, EndsGrow
<1>4. ASSUME NEW k \in 1..d
      PROVE  \E i : /\ {j \in DOMAIN parts : k - place[j] \in 1..Len(parts[j])} = {i}
                    /\ parts[i][k - place[i]] = L[u + k - 1]
  <2>1. k \in Int /\ 1 <= k /\ k <= end[m] /\ end[0] = 0
    BY DEF SideBySide
  <2>2. PICK i \in 1..m : end[i - 1] < k /\ k <= end[i]
    BY <1>1, <2>1, InPart
  <2>3. ASSUME NEW j \in 1..m
        PROVE  (k - place[j] \in 1..Len(parts[j])) <=> (end[j - 1] < k /\ k <= end[j])
    <3>1. PICK a, b, n : a = end[j - 1] /\ b = end[j] /\ n = Len(parts[j])
      OBVIOUS
    <3>2. n \in Nat /\ b \in Int /\ b = a + n /\ j - 1 \in 0..m /\ place[j] = a
      BY <3>1 DEF SideBySide
    <3>3. a \in Int
      BY <1>1, <3>1, <3>2
    <3>4. (k - a \in 1..n) <=> (a < k /\ k <= b)
      BY <2>1, <3>2, <3>3
    <3> QED  BY <3>1, <3>2, <3>4
  <2>4. ASSUME NEW j \in 1..m, end[j - 1] < k, k <= end[j]
        PROVE  j = i
    <3>1. CASE j < i
      <4>1. j \in 0..(i - 1) /\ i - 1 \in 0..m /\ j \in 0..m
        BY <3>1
      <4>2. end[j] <= end[i - 1] /\ end[j] \in Int /\ end[i - 1] \in Int
        BY <1>1, <1>3, <4>1
      <4> QED  BY <2>1, <2>2, <2>4, <4>2
    <3>2. CASE i < j
      <4>1. i \in 0..(j - 1) /\ j - 1 \in 0..m /\ i \in 0..m
        BY <3>2
      <4>2. end[i] <= end[j - 1] /\ end[i] \in Int /\ end[j - 1] \in Int
        BY <1>1, <1>3, <4>1
      <4> QED  BY <2>1, <2>2, <2>4, <4>2
    <3> QED  BY <3>1, <3>2
  <2>5. {j \in DOMAIN parts : k - place[j] \in 1..Len(parts[j])} = {i}
    <3>1. DOMAIN parts = 1..m
      BY DEF SideBySide
    <3> QED  BY <2>2, <2>3, <2>4, <3>1
  <2>6. parts[i][k - place[i]] = L[u + k - 1]
    <3>1. PICK a, q : a = end[i - 1] /\ q = k - a /\ place[i] = a
      OBVIOUS
    <3>2. i - 1 \in 0..m
      OBVIOUS
    <3>3. a \in Int /\ u + a + q - 1 = u + k - 1
      BY <1>1, <2>1, <3>1, <3>2
    <3>4. q \in 1..Len(parts[i])
      BY <2>2, <2>3, <3>1
    <3>5. parts[i][q] = L[u + a + q - 1]
      BY <3>1, <3>4 DEF SideBySide
    <3> QED  BY <3>1, <3>3, <3>5
  <2> QED  BY <2>5, <2>6
<1>5. OneEach(L, u, d, parts, place)
  BY <1>4 DEF OneEach
<1> QED  BY <1>5, MergedIs

-----------------------------------------------------------------------------
(* A pop takes the bytes of the line from u on, and the rest waits as it   *)
(* waited, until nothing waits and VSP is past what was popped: a pop of 8 *)
(* bytes that found 2 moves it by 8.                                       *)
Popped(L, p, d, arr, u) ==
  \/ p.value = View(L, u, d) /\ Held(L, p.sh, p.vsp, arr, u + d)
  \/ p.sh = <<>> /\ p.vsp \in Int /\ p.vsp > u + d

LEMMA TopPopped ==
  ASSUME NEW L, NEW sh, NEW vsp, NEW arr, NEW u, Held(L, sh, vsp, arr, u), NEW d \in PopDepths,
         sh # <<>>, sh[Len(sh)].depth = d
  PROVE  Popped(L, ShadowPop(sh, vsp, d), d, arr, u)
<1>1. PICK e : Stand(L, sh, vsp, e) /\ u = e[Len(sh)] /\ Neat(sh)
  BY DEF Held
<1>2. PICK n : n = Len(sh) /\ n \in Nat /\ n > 0
  BY <1>1, NeatSlot
<1>3. n \in 1..n /\ n \in 0..n /\ n - 1 \in 0..n
  BY <1>2
<1>4. PICK p : p = ShadowPop(sh, vsp, d)
  OBVIOUS
<1>5. p.value = sh[n].value /\ p.sh = SubSeq(sh, 1, n - 1) /\ p.vsp = vsp
  BY <1>2, <1>4 DEF ShadowPop
<1>6. IsWide(sh[n].value, d) /\ d \in Nat
  BY <1>1, <1>2, <1>3, NeatSlot
<1>7. e[n - 1] = u + d /\ \A k \in 1..d : sh[n].value[k] = L[u + k - 1]
  BY <1>1, <1>2, <1>3 DEF Stand
<1>8. sh[n].value = View(L, u, d)
  BY <1>6, <1>7, SameView
<1>9. Held(L, SubSeq(sh, 1, n - 1), vsp, arr, e[n - 1])
  <2>1. Line(L) /\ \A x \in Int : x >= vsp => L[x] = Memory(arr, x)
    BY DEF Held
  <2> QED  BY <1>1, <1>2, <1>3, <2>1, PrefixHeld
<1> QED  BY <1>4, <1>5, <1>7, <1>8, <1>9 DEF Popped

(* The other pops put parts together.                                      *)
LEMMA PartsPopped ==
  ASSUME NEW L, NEW sh, NEW vsp, NEW u, Held(L, sh, vsp, stackArray, u), NEW d \in PopDepths,
         ~(sh # <<>> /\ sh[Len(sh)].depth = d), ~ShadowPop(sh, vsp, d).cuts
  PROVE  Popped(L, ShadowPop(sh, vsp, d), d, stackArray, u)
<1>1. PICK e : Stand(L, sh, vsp, e) /\ u = e[Len(sh)] /\ Neat(sh)
  BY DEF Held
<1>2. PICK l : l = Len(sh) /\ l \in Nat /\ (sh # <<>> => l > 0)
  BY <1>1, NeatSlot
<1>3. d \in Nat /\ d > 0 /\ \A x \in 0..d : x % 2 = 0 => x \in {0, 2, 4, 6, 8}
  BY DEF PopDepths
<1>4. /\ u \in Int /\ vsp \in Int /\ vsp = e[0] /\ \A i \in 0..l : e[i] \in Int
      /\ \A m \in 0..l : TopDepth(sh)[m] = e[l - m] - u
  <2>1. u \in Int /\ vsp \in Int
    BY HeldAt
  <2>2. \A i \in 0..l : e[i] \in Int
    BY <1>1, <1>2, StandInt
  <2>3. \A m \in 0..Len(sh) : TopDepth(sh)[m] = e[Len(sh) - m] - e[Len(sh)]
    BY <1>1, TopEnds
  <2>4. vsp = e[0]
    BY <1>1 DEF Stand
  <2> QED  BY <1>1, <1>2, <2>1, <2>2, <2>3, <2>4
<1>5. PICK w : w = WholeSlots(sh, d) /\ w \in 0..l /\ TopDepth(sh)[w] <= d
  <2>1. GoodStack(sh, TRUE)
    BY <1>1 DEF Neat
  <2> QED  BY <1>2, <1>3, <2>1, WholeSlotsIs
<1>6. PICK top : top = TopDepth(sh) /\ top[w] \in Nat /\ top[w] % 2 = 0
  <2>1. GoodStack(sh, TRUE)
    BY <1>1 DEF Neat
  <2>2. TopDepth(sh)[w] \in Even
    BY <1>2, <1>5, <2>1, TopGrows
  <2> QED  BY <2>2 DEF Even
<1>7. PICK need : need = d - top[w] /\ need \in Nat /\ need \in {0, 2, 4, 6, 8}
  <2>1. d % 2 = 0
    BY DEF PopDepths
  <2>2. d - top[w] \in Nat /\ (d - top[w]) % 2 = 0 /\ d - top[w] \in 0..d
    BY <1>3, <1>5, <1>6, <2>1
  <2>3. d - top[w] \in {0, 2, 4, 6, 8}
    BY <1>3, <2>2
  <2> QED  BY <2>2, <2>3
<1>8. PICK n : n = l - w /\ n \in 0..l /\ l - w = n
  BY <1>2, <1>5
<1>9. e[n] = u + top[w] /\ e[n] \in Int
  <2>1. top[w] = e[n] - u /\ e[n] \in Int
    BY <1>4, <1>5, <1>6, <1>8
  <2> QED  BY <1>4, <2>1
<1>10. PICK p : p = ShadowPop(sh, vsp, d)
  OBVIOUS
<1>11. p = PopParts(sh, vsp, d, w, need)
  BY <1>2, <1>5, <1>6, <1>7, <1>10 DEF ShadowPop
<1>12. PICK rest, parts, place, all :
         /\ rest = Load(vsp, need)
         /\ parts = [i \in 1..w |-> FromTop(sh, i).value]
         /\ place = [i \in 1..(w + 1) |-> top[i - 1]]
         /\ all = Append(parts, rest)
  OBVIOUS
<1>13. ~(need > 0 /\ n > 0)
  <2>1. PICK cuts : cuts = (need > 0 /\ n > 0) /\ cuts \in BOOLEAN
    OBVIOUS
  <2>2. p.cuts = cuts
    BY <1>2, <1>8, <1>11, <2>1 DEF PopParts
  <2> QED  BY <1>10, <2>1, <2>2
<1>14. /\ p.value = Merged(all, place, d)
       /\ p.sh = SubSeq(sh, 1, n)
       /\ p.vsp = vsp + AllocSize(need)
  BY <1>2, <1>6, <1>8, <1>11, <1>12, <1>13 DEF PopParts
<1>15. need = 0 \/ (n = 0 /\ vsp = u + top[w])
  BY <1>4, <1>7, <1>8, <1>9, <1>13
<1>16. PICK end : end = [i \in 0..(w + 1) |-> IF i = w + 1 THEN d ELSE top[i]]
  OBVIOUS
<1>17. end[w + 1] = d /\ \A i \in 0..w : end[i] = top[i]
  BY <1>5, <1>16
<1>18. SideBySide(L, u, all, w + 1, end)
  <2>1. \A i \in 1..w : /\ Len(parts[i]) \in Nat /\ end[i] \in Int
                        /\ end[i] = end[i - 1] + Len(parts[i])
                        /\ \A k \in 1..Len(parts[i]) : parts[i][k] = L[u + end[i - 1] + k - 1]
    <3> TAKE i \in 1..w
    <3>1. PICK j : j = l + 1 - i /\ j \in 1..l /\ j - 1 = l - i /\ j = l - (i - 1)
                   /\ i \in 0..l /\ i - 1 \in 0..l /\ i \in 0..w /\ i - 1 \in 0..w
      BY <1>2, <1>5
    <3>2. parts[i] = sh[j].value
      BY <1>2, <1>12, <3>1 DEF FromTop
    <3>3. sh[j].depth \in Nat /\ Len(sh[j].value) = sh[j].depth
      BY <1>1, <1>2, <3>1, NeatSlot DEF IsWide
    <3>4. /\ e[j] \in Int /\ e[j - 1] = e[j] + sh[j].depth
          /\ \A k \in 1..sh[j].depth : sh[j].value[k] = L[e[j] + k - 1]
      BY <1>1, <1>2, <3>1 DEF Stand
    <3>5. end[i] = e[j - 1] - u /\ end[i - 1] = e[j] - u
      BY <1>4, <1>6, <1>17, <3>1
    <3>6. PICK a, b, c : a = e[j] /\ b = e[j - 1] /\ c = sh[j].depth
      OBVIOUS
    <3>7. /\ end[i] = b - u /\ end[i - 1] = a - u /\ a \in Int /\ c \in Nat /\ b = a + c
          /\ Len(parts[i]) = c
      BY <3>2, <3>3, <3>4, <3>5, <3>6
    <3>8. end[i] \in Int /\ end[i] = end[i - 1] + c /\ u + end[i - 1] = a
      BY <1>4, <3>7
    <3> QED  BY <3>2, <3>3, <3>4, <3>6, <3>7, <3>8
  <2>2. Len(rest) = need /\ \A k \in 1..need : rest[k] = L[u + top[w] + k - 1]
    <3>1. Len(rest) = need
      BY <1>7, <1>12, LoadWide DEF IsWide
    <3>2. \A k \in 1..need : rest[k] = L[u + top[w] + k - 1]
      <4> TAKE k \in 1..need
      <4>1. need # 0
        BY <1>7
      <4>2. vsp = u + top[w] /\ vsp + k - 1 \in Int /\ vsp + k - 1 >= vsp
        BY <1>4, <1>7, <1>15, <4>1
      <4>3. PICK x : x = vsp + k - 1
        OBVIOUS
      <4>4. rest[k] = Memory(stackArray, x)
        BY <1>12, <4>3 DEF Load, Memory
      <4>5. L[x] = Memory(stackArray, x)
        BY <4>2, <4>3 DEF Held
      <4> QED  BY <4>2, <4>3, <4>4, <4>5
    <3> QED  BY <3>1, <3>2
  <2>3. DOMAIN all = 1..(w + 1) /\ all[w + 1] = rest /\ \A i \in 1..w : all[i] = parts[i]
    <3>1. PICK S : S = {parts[i] : i \in 1..w} \cup {rest}
      OBVIOUS
    <3>2. parts \in Seq(S) /\ rest \in S /\ Len(parts) = w
      <4>1. parts \in [1..w -> S] /\ w \in Nat
        BY <1>5, <1>12, <3>1
      <4> QED  BY <3>1, <4>1
    <3>3. all \in Seq(S) /\ Len(all) = Len(parts) + 1
      BY <1>12, <3>2, AppendProperties
    <3>4. all[Len(parts) + 1] = rest /\ \A i \in 1..Len(parts) : all[i] = parts[i]
      <4>1. all = Append(parts, rest) /\ parts \in Seq(S) /\ rest \in S
        BY <1>12, <3>2
      <4> QED  BY <4>1, AppendProperties
    <3> QED  BY <3>2, <3>3, <3>4
  <2>4. end[0] = 0
    <3>1. top[0] = 0 /\ 0 \in 0..w
      BY <1>2, <1>5, <1>6, TopIs
    <3> QED  BY <1>17, <3>1
  <2>5. ASSUME NEW i \in 1..(w + 1)
        PROVE  /\ Len(all[i]) \in Nat /\ end[i] \in Int /\ end[i] = end[i - 1] + Len(all[i])
               /\ \A k \in 1..Len(all[i]) : all[i][k] = L[u + end[i - 1] + k - 1]
    <3>1. CASE i \in 1..w
      BY <2>1, <2>3, <3>1
    <3>2. CASE i = w + 1
      <4>1. i - 1 = w /\ w \in 0..w
        BY <1>5, <3>2
      <4>2. end[i - 1] = top[w] /\ end[i] = d /\ top[w] + need = d
        BY <1>3, <1>6, <1>7, <1>17, <3>2, <4>1
      <4> QED  BY <1>3, <1>7, <2>2, <2>3, <3>2, <4>2
    <3>3. i \in 1..w \/ i = w + 1
      BY <1>5
    <3> QED  BY <3>1, <3>2, <3>3
  <2> QED  BY <2>3, <2>4, <2>5 DEF SideBySide
<1>19. p.value = View(L, u, d)
  <2>1. \A i \in 1..(w + 1) : place[i] = end[i - 1]
    <3> TAKE i \in 1..(w + 1)
    <3>1. i - 1 \in 0..w
      BY <1>5
    <3> QED  BY <1>12, <1>17, <3>1
  <2>2. w + 1 \in Nat
    BY <1>5
  <2> QED  BY <1>3, <1>4, <1>14, <1>17, <1>18, <2>1, <2>2, SideMerged
<1>20. CASE need = 0
  <2>1. vsp + AllocSize(need) = vsp /\ u + top[w] = u + d
    BY <1>3, <1>4, <1>6, <1>7, <1>20 DEF AllocSize
  <2>2. Held(L, SubSeq(sh, 1, n), vsp, stackArray, e[n])
    <3>1. Line(L) /\ \A x \in Int : x >= vsp => L[x] = Memory(stackArray, x)
      BY DEF Held
    <3> QED  BY <1>1, <1>2, <1>8, <3>1, PrefixHeld
  <2> QED  BY <1>9, <1>10, <1>14, <1>19, <2>1, <2>2 DEF Popped
<1>21. CASE need # 0
  <2>1. n = 0 /\ vsp = u + top[w] /\ need > 0
    BY <1>7, <1>15, <1>21
  <2>2. p.sh = <<>>
    <3>1. sh \in Seq(Range(sh))
      BY <1>1 DEF Neat, GoodStack, Range
    <3> QED  BY <1>14, <2>1, <3>1
  <2>3. PICK v : v = vsp + AllocSize(need) /\ v \in Int /\ v = p.vsp /\ v >= vsp
    <3>1. AllocSize(need) \in {2, 4, 8}
      BY <1>7, <2>1 DEF AllocSize
    <3>2. vsp + AllocSize(need) \in Int /\ vsp + AllocSize(need) >= vsp
      BY <1>4, <3>1
    <3> QED  BY <1>14, <3>2
  <2>4. CASE need = 6
    <3>1. v = vsp + 8
      BY <2>3, <2>4 DEF AllocSize
    <3>2. v > u + d
      BY <1>3, <1>4, <1>6, <1>7, <2>1, <2>4, <3>1
    <3> QED  BY <1>10, <2>2, <2>3, <3>2 DEF Popped
  <2>5. CASE need # 6
    <3>1. v = vsp + need
      BY <2>3, <2>5 DEF AllocSize
    <3>2. v = u + d
      BY <1>3, <1>4, <1>6, <1>7, <2>1, <3>1
    <3>3. Held(L, <<>>, v, stackArray, v)
      <4>1. Line(L) /\ \A x \in Int : x >= v => L[x] = Memory(stackArray, x)
        BY <1>4, <2>3 DEF Held
      <4> QED  BY <2>3, <4>1, EmptyHeld
    <3> QED  BY <1>10, <1>19, <2>2, <2>3, <3>2, <3>3 DEF Popped
  <2> QED  BY <2>4, <2>5
<1> QED  BY <1>20, <1>21

LEMMA ShadowPopIs ==
  ASSUME NEW L, NEW sh, NEW vsp, NEW u, Held(L, sh, vsp, stackArray, u), NEW d \in PopDepths,
         ~ShadowPop(sh, vsp, d).cuts
  PROVE  Popped(L, ShadowPop(sh, vsp, d), d, stackArray, u)
  BY TopPopped, PartsPopped

(* Past it, VSP stays there.                                               *)
LEMMA PastIt ==
  ASSUME NEW vsp \in Int, NEW t \in Int, vsp > t, NEW d \in PopDepths
  PROVE  /\ ShadowPop(<<>>, vsp, d).sh = <<>>
         /\ ShadowPop(<<>>, vsp, d).vsp \in Int /\ ShadowPop(<<>>, vsp, d).vsp > t + d
<1>1. Len(<<>>) = 0 /\ GoodStack(<<>>, TRUE) /\ d \in Nat /\ d > 0 /\ AllocSize(d) = d
  <2>1. d \in Nat /\ d > 0 /\ AllocSize(d) = d
    BY DEF PopDepths, AllocSize
  <2>2. GoodStack(<<>>, TRUE) /\ Len(<<>>) = 0
    BY EmptyGood
  <2> QED  BY <2>1, <2>2
<1>2. WholeSlots(<<>>, d) = 0
  <2>1. WholeSlots(<<>>, d) \in 0..Len(<<>>)
    BY <1>1, WholeSlotsIs
  <2> QED  BY <1>1, <2>1
<1>3. TopDepth(<<>>)[0] = 0
  BY <1>1, TopIs
<1>4. PICK p : p = ShadowPop(<<>>, vsp, d)
  OBVIOUS
<1>5. p = PopParts(<<>>, vsp, d, 0, d)
  <2>1. d - 0 = d
    BY <1>1
  <2> QED  BY <1>2, <1>3, <1>4, <2>1 DEF ShadowPop
<1>6. p.sh = SubSeq(<<>>, 1, 0) /\ p.vsp = vsp + AllocSize(d)
  <2>1. ~(d > 0 /\ 0 > 0) /\ 0 - 0 = 0
    OBVIOUS
  <2> QED  BY <1>1, <1>5, <2>1 DEF PopParts
<1>7. SubSeq(<<>>, 1, 0) = <<>>
  OBVIOUS
<1>8. PICK v : v = p.vsp
  OBVIOUS
<1>9. v \in Int /\ v > t + d
  BY <1>1, <1>6, <1>8
<1> QED  BY <1>4, <1>6, <1>7, <1>8, <1>9

-----------------------------------------------------------------------------
(* After n pops, the last of them up to place[n].                          *)
Places(depths, m, place) ==
  /\ place[0] = 0
  /\ \A i \in 1..m : depths[i] \in PopDepths /\ place[i] \in Nat /\ place[i - 1] \in Nat
                     /\ place[i] = place[i - 1] + depths[i]
Taken(L, p, depths, n, place, u) ==
  /\ p.taken = place[n] /\ p.cuts \in BOOLEAN
  /\ Len(p.values) = n /\ (\E S : p.values \in Seq(S))
  /\ ~p.cuts =>
       \/ /\ \A i \in 1..n : p.values[i] = View(L, u + place[i - 1], depths[i])
          /\ Held(L, p.sh, p.vsp, stackArray, u + place[n])
       \/ p.sh = <<>> /\ p.vsp \in Int /\ p.vsp > u + place[n]

LEMMA NextTaken ==
  ASSUME NEW L, NEW u \in Int, NEW depths, NEW m \in Nat, NEW place, Places(depths, m, place),
         NEW n \in Nat, n < m, NEW p, Taken(L, p, depths, n, place, u)
  PROVE  Taken(L, PopNext(p, depths[n + 1]), depths, n + 1, place, u)
<1>1. PICK d, k : d = depths[n + 1] /\ k = n + 1
  OBVIOUS
<1>2. /\ d \in PopDepths /\ d \in Nat /\ k \in 1..m /\ k - 1 = n
      /\ place[k] \in Nat /\ place[n] \in Nat /\ place[k] = place[n] + d
  <2>1. k \in 1..m /\ k - 1 = n
    BY <1>1
  <2>2. d \in PopDepths /\ place[k] \in Nat /\ place[n] \in Nat /\ place[k] = place[n] + d
    BY <1>1, <2>1 DEF Places
  <2> QED  BY <2>1, <2>2 DEF PopDepths
<1>3. PICK q : q = ShadowPop(p.sh, p.vsp, d)
  OBVIOUS
<1>4. PICK r : r = PopNext(p, d)
  OBVIOUS
<1>5. /\ r.values = Append(p.values, q.value) /\ r.sh = q.sh /\ r.vsp = q.vsp
      /\ r.taken = p.taken + d /\ r.cuts = (p.cuts \/ q.cuts)
  BY <1>3, <1>4 DEF PopNext
<1>6. PICK S : p.values \in Seq(S)
  BY DEF Taken
<1>7. Len(p.values) = n
  BY DEF Taken
<1>8. PICK U : U = S \cup {q.value}
  OBVIOUS
<1>9. p.values \in Seq(U) /\ q.value \in U
  BY <1>6, <1>8, SeqMonotonic
<1>10. /\ r.values \in Seq(U) /\ Len(r.values) = k
       /\ \A i \in 1..n : r.values[i] = p.values[i]
       /\ r.values[k] = q.value
  BY <1>1, <1>5, <1>7, <1>9, AppendProperties
<1>11. r.taken = place[k] /\ r.cuts \in BOOLEAN
  BY <1>2, <1>5 DEF Taken
<1>12. ASSUME ~r.cuts
       PROVE  \/ /\ \A i \in 1..k : r.values[i] = View(L, u + place[i - 1], depths[i])
                 /\ Held(L, r.sh, r.vsp, stackArray, u + place[k])
              \/ r.sh = <<>> /\ r.vsp \in Int /\ r.vsp > u + place[k]
  <2>1. ~p.cuts /\ ~q.cuts
    <3>1. p.sh = <<>> \/ \E x : Held(L, p.sh, p.vsp, stackArray, x) \/ p.cuts
      BY DEF Taken
    <3>2. p.cuts \/ GoodStack(p.sh, TRUE)
      BY <3>1, EmptyGood DEF Held, Neat
    <3>3. p.cuts \/ q.cuts \in BOOLEAN
      BY <1>2, <1>3, <3>2, ShadowPopGood DEF GoodPop
    <3> QED  BY <1>5, <1>12, <3>3 DEF Taken
  <2>2. PICK t : t = u + place[n] /\ t \in Int /\ t + d = u + place[k]
    BY <1>2
  <2>3. CASE /\ \A i \in 1..n : p.values[i] = View(L, u + place[i - 1], depths[i])
             /\ Held(L, p.sh, p.vsp, stackArray, t)
    <3>1. Popped(L, q, d, stackArray, t)
      BY <1>2, <1>3, <2>1, <2>3, ShadowPopIs
    <3>2. CASE q.value = View(L, t, d) /\ Held(L, q.sh, q.vsp, stackArray, t + d)
      <4>1. \A i \in 1..k : r.values[i] = View(L, u + place[i - 1], depths[i])
        <5> TAKE i \in 1..k
        <5>1. CASE i = k
          <6>1. i - 1 = n /\ depths[i] = d
            BY <1>1, <1>2, <5>1
          <6> QED  BY <1>10, <2>2, <3>2, <5>1, <6>1
        <5>2. CASE i # k
          <6>1. i \in 1..n
            BY <1>1, <5>2
          <6> QED  BY <1>10, <2>3, <6>1
        <5> QED  BY <5>1, <5>2
      <4> QED  BY <1>5, <2>2, <3>2, <4>1
    <3>3. CASE q.sh = <<>> /\ q.vsp \in Int /\ q.vsp > t + d
      BY <1>5, <2>2, <3>3
    <3> QED  BY <3>1, <3>2, <3>3 DEF Popped
  <2>4. CASE p.sh = <<>> /\ p.vsp \in Int /\ p.vsp > t
    <3>1. q.sh = <<>> /\ q.vsp \in Int /\ q.vsp > t + d
      BY <1>2, <1>3, <2>2, <2>4, PastIt, SMTT(30)
    <3> QED  BY <1>5, <2>2, <3>1
  <2> QED  BY <2>1, <2>2, <2>3, <2>4 DEF Taken
<1>13. Taken(L, r, depths, k, place, u)
  BY <1>10, <1>11, <1>12 DEF Taken
<1> QED  BY <1>1, <1>4, <1>13

(* The values of a handler are the bytes of the line one after the other,  *)
(* and what it leaves waits as before; for VSP is not past it.             *)
PoppedAll(L, p, depths, m, place, u) ==
  /\ Places(depths, m, place) /\ place[m] = p.taken
  /\ Len(p.values) = m /\ (\E S : p.values \in Seq(S))
  /\ \A i \in 1..m : p.values[i] = View(L, u + place[i - 1], depths[i])
  /\ Held(L, p.sh, p.vsp, stackArray, u + place[m])

LEMMA PlacesExist ==
  ASSUME NEW depths \in Seq(PopDepths)
  PROVE  \E place : Places(depths, Len(depths), place)
<1>1. PICK m : m = Len(depths) /\ m \in Nat
  BY LenProperties
<1>2. PICK g : g = [n \in 0..m |-> IF n = 0 THEN 0 ELSE g[n - 1] + depths[n]]
  BY <1>1, SumsExist
<1>3. \A i \in 1..m : depths[i] \in PopDepths /\ depths[i] \in Nat
  <2>1. \A d \in PopDepths : d \in Nat
    BY DEF PopDepths
  <2> QED  BY <1>1, <2>1, ElementOfSeq
<1>4. g[0] = 0 /\ \A i \in 1..m : g[i] = g[i - 1] + depths[i]
  BY <1>1, <1>2
<1> DEFINE T == {n \in 0..m : g[n] \notin Nat}
<1>5. T = {}
  <2> SUFFICES ASSUME T # {} PROVE FALSE
    OBVIOUS
  <2>1. PICK n \in T : \A k \in T : n <= k
    <3> HIDE DEF T
    <3>1. T \subseteq Nat
      BY <1>1 DEF T
    <3> QED  BY <3>1, LeastNumber
  <2>2. n \in 0..m /\ g[n] \notin Nat
    OBVIOUS
  <2>3. n # 0
    BY <1>4, <2>2
  <2>4. n \in 1..m /\ n - 1 \in 0..m /\ ~(n <= n - 1)
    BY <1>1, <2>2, <2>3
  <2>5. g[n - 1] \in Nat
    <3>1. n - 1 \notin T
      <4> HIDE DEF T
      <4> QED  BY <2>1, <2>4
    <3> QED  BY <2>4, <3>1
  <2> QED  BY <1>3, <1>4, <2>2, <2>4, <2>5
<1>6. \A n \in 0..m : g[n] \in Nat
  BY <1>5
<1>7. \A i \in 1..m : i - 1 \in 0..m /\ i \in 0..m
  BY <1>1
<1>8. Places(depths, m, g)
  BY <1>3, <1>4, <1>6, <1>7 DEF Places
<1> QED  BY <1>1, <1>8

LEMMA EmptyDepth == DepthOf(<<>>) = 0
<1>1. Len(<<>>) = 0
  OBVIOUS
<1> QED  BY <1>1, TopIs DEF DepthOf

LEMMA PopAllTakes ==
  ASSUME NEW L, NEW u, Held(L, shadowStack, vspLocal, stackArray, u),
         NEW depths \in Seq(PopDepths), NEW p, p = PopAll(depths), ~p.cuts,
         p.taken = p.vsp - DepthOf(p.sh) - (vspLocal - DepthOf(shadowStack))
  PROVE  \E place : PoppedAll(L, p, depths, Len(depths), place, u)
<1>1. PICK m : m = Len(depths) /\ m \in Nat
  BY LenProperties
<1>2. PICK f : /\ f[0] = NoPop
               /\ \A n \in 1..m : f[n] = PopNext(f[n - 1], depths[n])
               /\ PopAll(depths) = f[m]
  BY <1>1, PopAllIs
<1>3. PICK place : Places(depths, m, place)
  BY <1>1, PlacesExist
<1>4. u \in Int /\ u = vspLocal - DepthOf(shadowStack)
  BY HeldAt
<1> DEFINE Right(n) == Taken(L, f[n], depths, n, place, u)
           T == {n \in 0..m : ~Right(n)}
<1>5. T = {}
  <2> SUFFICES ASSUME T # {} PROVE FALSE
    OBVIOUS
  <2>1. PICK n \in T : \A k \in T : n <= k
    <3> HIDE DEF T
    <3>1. T \subseteq Nat
      BY <1>1 DEF T
    <3> QED  BY <3>1, LeastNumber
  <2>2. n \in 0..m /\ ~Right(n)
    OBVIOUS
  <2>3. CASE n = 0
    <3>1. PICK r : r = NoPop
      OBVIOUS
    <3>2. /\ r.values = <<>> /\ r.sh = shadowStack /\ r.vsp = vspLocal
          /\ r.cuts = FALSE /\ r.taken = 0
      BY <3>1 DEF NoPop
    <3>3. r.values \in Seq({}) /\ Len(r.values) = 0 /\ \A i \in 1..0 : FALSE
      BY <3>2
    <3>4. place[0] = 0 /\ u + 0 = u
      BY <1>3, <1>4 DEF Places
    <3>5. Held(L, r.sh, r.vsp, stackArray, u + place[0])
      BY <3>2, <3>4
    <3>6. Taken(L, r, depths, 0, place, u)
      BY <3>2, <3>3, <3>4, <3>5, Zenon DEF Taken
    <3> QED  BY <1>2, <2>2, <2>3, <3>1, <3>6
  <2>4. CASE n # 0
    <3>1. PICK k : k = n - 1 /\ k \in 0..m /\ k \in Nat /\ n = k + 1 /\ n \in 1..m /\ k < m
      BY <1>1, <2>2, <2>4
    <3>2. Right(k)
      <4>1. k \notin T
        <5> HIDE DEF T
        <5> QED  BY <2>1, <3>1
      <4> QED  BY <3>1, <4>1
    <3>3. f[n] = PopNext(f[k], depths[k + 1])
      BY <1>2, <3>1
    <3>4. Right(n)
      BY <1>1, <1>3, <1>4, <3>1, <3>2, <3>3, NextTaken
    <3> QED  BY <2>2, <3>4
  <2> QED  BY <2>3, <2>4
<1>6. Taken(L, p, depths, m, place, u)
  <2>1. m \notin T
    <3> HIDE DEF T
    <3> QED  BY <1>5
  <2> QED  BY <1>1, <1>2, <2>1
<1>7. place[m] \in Nat
  <2>1. m = 0 \/ m \in 1..m
    BY <1>1
  <2> QED  BY <1>3, <2>1 DEF Places
<1>8. ~(p.sh = <<>> /\ p.vsp \in Int /\ p.vsp > u + place[m])
  <2> SUFFICES ASSUME p.sh = <<>>, p.vsp \in Int, p.vsp > u + place[m] PROVE FALSE
    OBVIOUS
  <2>1. DepthOf(p.sh) = 0
    BY EmptyDepth
  <2>2. place[m] = p.vsp - 0 - u
    BY <1>4, <1>6, <2>1 DEF Taken
  <2> QED  BY <1>4, <1>7, <2>2
<1> QED  BY <1>1, <1>3, <1>6, <1>8 DEF Taken, PoppedAll

-----------------------------------------------------------------------------
(* The flush writes into the memory what the line has there.               *)
FlushesFrom(f, sh, vsp, m) ==
  f = [n \in 0..m |-> IF n = 0 THEN [array |-> stackArray, vsp |-> vsp]
                      ELSE LegacyPush(f[n - 1], sh[n])]

LEMMA FlushesExist ==
  ASSUME NEW sh, NEW vsp, NEW m \in Nat
  PROVE  \E f : FlushesFrom(f, sh, vsp, m)
<1> DEFINE first == [array |-> stackArray, vsp |-> vsp]
           T == {k \in Nat : ~\E f : FlushesFrom(f, sh, vsp, k)}
<1>1. SUFFICES ASSUME T # {} PROVE FALSE
  BY Zenon
<1>2. PICK k \in T : \A j \in T : k <= j
  <2> HIDE DEF T
  <2>1. T \subseteq Nat
    BY DEF T
  <2> QED  BY <1>1, <2>1, LeastNumber
<1>3. k # 0
  <2>1. FlushesFrom([n \in 0..0 |-> first], sh, vsp, 0)
    BY DEF FlushesFrom
  <2> QED  BY <2>1
<1>4. PICK j \in Nat : k = j + 1
  BY <1>3
<1>5. PICK f : FlushesFrom(f, sh, vsp, j)
  <2>1. j \notin T
    <3> HIDE DEF T
    <3> QED  BY <1>2, <1>4
  <2> QED  BY <2>1
<1> DEFINE g == [n \in 0..k |-> IF n = k THEN LegacyPush(f[j], sh[k]) ELSE f[n]]
<1>6. FlushesFrom(g, sh, vsp, k)
  <2>1. f[0] = first /\ \A n \in 1..j : f[n] = LegacyPush(f[n - 1], sh[n])
    BY <1>5 DEF FlushesFrom
  <2>2. \A n \in 0..k : g[n] = IF n = 0 THEN first ELSE LegacyPush(g[n - 1], sh[n])
    <3> HIDE DEF first
    <3> TAKE n \in 0..k
    <3>1. CASE n = 0
      BY <1>4, <2>1, <3>1
    <3>2. CASE n = k
      <4>1. k - 1 = j /\ j \in 0..k /\ j # k /\ k - 1 \in 0..k
        BY <1>4
      <4>2. g[k - 1] = f[j]
        BY <4>1
      <4> QED  BY <1>3, <3>2, <4>2
    <3>3. CASE n # 0 /\ n # k
      <4>1. n \in 1..j /\ n - 1 \in 0..k /\ n - 1 # k
        BY <1>4, <3>3
      <4>2. g[n - 1] = f[n - 1] /\ g[n] = f[n]
        BY <3>3, <4>1
      <4> QED  BY <2>1, <3>3, <4>1, <4>2
    <3> QED  BY <3>1, <3>2, <3>3
  <2> QED  BY <2>2 DEF FlushesFrom
<1> QED  BY <1>6

LEMMA FlushIs ==
  ASSUME NEW sh, NEW vsp, Len(sh) \in Nat
  PROVE  \E f : /\ f[0].array = stackArray /\ f[0].vsp = vsp
                /\ \A n \in 1..Len(sh) : f[n] = LegacyPush(f[n - 1], sh[n])
                /\ FlushVspToMemory(sh, vsp) = f[Len(sh)]
<1>1. PICK m \in Nat : m = Len(sh)
  OBVIOUS
<1>2. PICK f : f = (CHOOSE g : FlushesFrom(g, sh, vsp, m))
  OBVIOUS
<1>3. FlushesFrom(f, sh, vsp, m)
  BY <1>2, FlushesExist
<1>4. FlushVspToMemory(sh, vsp) = f[m]
  BY <1>1, <1>2 DEF FlushVspToMemory, FlushesFrom
<1>5. f[0].array = stackArray /\ f[0].vsp = vsp /\ \A n \in 1..m : f[n] = LegacyPush(f[n - 1], sh[n])
  BY <1>3 DEF FlushesFrom
<1> QED  BY <1>1, <1>4, <1>5

(* A value of the line is stored where the line has it.                    *)
Stored(L, m, at) ==
  /\ m.vsp = at /\ DOMAIN m.array = (-Below)..(Above - 1)
  /\ \A x \in Int : x >= at => L[x] = Memory(m.array, x)

LEMMA StoreStored ==
  ASSUME NEW L, NEW m, NEW at \in Int, Stored(L, m, at), at <= Above,
         NEW d \in Nat, NEW slot, AllocSize(slot.depth) = d, Len(slot.value) = d,
         NEW low \in Int, low + d = at, -Below <= low,
         \A k \in 1..d : slot.value[k] = L[low + k - 1]
  PROVE  Stored(L, LegacyPush(m, slot), low)
<1>1. PICK v, arr : v = slot.value /\ arr = m.array
  OBVIOUS
<1>2. PICK r : r = LegacyPush(m, slot)
  OBVIOUS
<1>3. m.vsp - AllocSize(slot.depth) = low
  BY DEF Stored
<1>4. r.vsp = low /\ r.array = Store(arr, low, v)
  BY <1>1, <1>2, <1>3 DEF LegacyPush
<1>5. Above \in Nat /\ Below \in Nat
  BY SizesAssumption
<1>6. PICK new : new = Store(arr, low, v)
  OBVIOUS
<1>7. /\ DOMAIN new = (-Below)..(Above - 1)
      /\ DOMAIN arr = (-Below)..(Above - 1)
      /\ \A x \in (-Below)..(Above - 1) :
           new[x] = IF x \in low..(low + d - 1) THEN v[x - low + 1] ELSE arr[x]
  BY <1>1, <1>6 DEF Store, Stored
<1>8. ASSUME NEW x \in Int, x >= low
      PROVE  L[x] = Memory(new, x)
  <2>1. CASE x < at
    <3>1. PICK k : k = x - low + 1 /\ k \in 1..d /\ low + k - 1 = x
      <4>1. x - low + 1 \in 1..d /\ low + (x - low + 1) - 1 = x
        BY <1>8, <2>1
      <4> QED  BY <4>1
    <3>2. x \in low..(low + d - 1) /\ x \in (-Below)..(Above - 1)
      BY <1>5, <1>8, <2>1
    <3>3. new[x] = v[k] /\ v[k] = L[x]
      BY <1>1, <1>7, <3>1, <3>2
    <3> QED  BY <1>7, <3>2, <3>3 DEF Memory
  <2>2. CASE ~(x < at)
    <3>1. x >= at /\ x \notin low..(low + d - 1)
      BY <2>2
    <3>2. L[x] = Memory(arr, x)
      BY <1>1, <3>1 DEF Stored
    <3>3. Memory(new, x) = Memory(arr, x)
      BY <1>7, <3>1 DEF Memory
    <3> QED  BY <3>2, <3>3
  <2> QED  BY <2>1, <2>2
<1> QED  BY <1>2, <1>4, <1>6, <1>7, <1>8 DEF Stored

LEMMA FlushStored ==
  ASSUME NEW L, NEW sh, NEW vsp, NEW u, Held(L, sh, vsp, stackArray, u), vsp <= Above,
         -Below <= u, DOMAIN stackArray = (-Below)..(Above - 1)
  PROVE  /\ FlushVspToMemory(sh, vsp).vsp = u
         /\ DOMAIN FlushVspToMemory(sh, vsp).array = (-Below)..(Above - 1)
         /\ Held(L, <<>>, u, FlushVspToMemory(sh, vsp).array, u)
<1>1. PICK e : Stand(L, sh, vsp, e) /\ u = e[Len(sh)] /\ Neat(sh)
  BY DEF Held
<1>2. PICK m : m = Len(sh) /\ m \in Nat
  BY <1>1, NeatSlot
<1>3. PICK f : /\ f[0].array = stackArray /\ f[0].vsp = vsp
               /\ \A n \in 1..m : f[n] = LegacyPush(f[n - 1], sh[n])
               /\ FlushVspToMemory(sh, vsp) = f[m]
  <2>1. Len(sh) \in Nat
    BY <1>2
  <2>2. \E f : /\ f[0].array = stackArray /\ f[0].vsp = vsp
               /\ \A n \in 1..Len(sh) : f[n] = LegacyPush(f[n - 1], sh[n])
               /\ FlushVspToMemory(sh, vsp) = f[Len(sh)]
    BY <2>1, FlushIs
  <2> QED  BY <1>2, <2>2
<1>4. /\ u \in Int /\ vsp \in Int /\ vsp = e[0]
      /\ \A i \in 0..m : e[i] \in Int /\ u <= e[i]
  <2>1. u \in Int /\ vsp \in Int
    BY HeldAt
  <2>2. \A i \in 0..m : e[i] \in Int /\ u <= e[i]
    BY <1>1, <1>2, StandAbove
  <2> QED  BY <1>1, <2>1, <2>2 DEF Stand
<1>5. Above \in Nat /\ Below \in Nat
  BY SizesAssumption
<1> DEFINE Right(n) == Stored(L, f[n], e[n]) /\ e[n] <= Above
           T == {n \in 0..m : ~Right(n)}
<1>6. T = {}
  <2> SUFFICES ASSUME T # {} PROVE FALSE
    OBVIOUS
  <2>1. PICK n \in T : \A k \in T : n <= k
    <3> HIDE DEF T
    <3>1. T \subseteq Nat
      BY <1>2 DEF T
    <3> QED  BY <3>1, LeastNumber
  <2>2. n \in 0..m /\ ~Right(n)
    OBVIOUS
  <2>3. CASE n = 0
    <3>1. Stored(L, f[0], e[0])
      BY <1>3, <1>4 DEF Held, Stored
    <3> QED  BY <1>4, <2>2, <2>3, <3>1
  <2>4. CASE n # 0
    <3>1. PICK k : k = n - 1 /\ k \in 0..m /\ n \in 1..m /\ ~(n <= k)
      BY <1>2, <2>2, <2>4
    <3>2. Right(k)
      <4>1. k \notin T
        <5> HIDE DEF T
        <5> QED  BY <2>1, <3>1
      <4> QED  BY <3>1, <4>1
    <3>3. PICK slot, d : slot = sh[n] /\ d = slot.depth
      OBVIOUS
    <3>4. d \in Nat /\ AllocSize(slot.depth) = d /\ Len(slot.value) = d
      BY <1>1, <1>2, <3>1, <3>3, NeatSlot DEF IsWide
    <3>5. /\ e[n] \in Int /\ e[n] + d = e[k] /\ e[k] \in Int /\ -Below <= e[n]
          /\ \A i \in 1..d : slot.value[i] = L[e[n] + i - 1]
      BY <1>1, <1>2, <1>4, <1>5, <2>2, <3>1, <3>3, SMTT(30) DEF Stand
    <3>6. Stored(L, LegacyPush(f[k], slot), e[n])
      <4>1. Stored(L, f[k], e[k]) /\ e[k] <= Above
        BY <3>2
      <4> HIDE DEF T
      <4> QED  BY <3>4, <3>5, <4>1, StoreStored
    <3>7. e[n] <= Above
      BY <1>5, <3>2, <3>4, <3>5
    <3> QED  BY <1>3, <2>2, <3>1, <3>3, <3>6, <3>7
  <2> QED  BY <2>3, <2>4
<1>7. Stored(L, f[m], u)
  <2>1. m \notin T /\ m \in 0..m
    <3> HIDE DEF T
    <3> QED  BY <1>2, <1>6
  <2> QED  BY <1>1, <1>2, <2>1
<1>8. Held(L, <<>>, u, f[m].array, u)
  <2>1. Line(L) /\ \A x \in Int : x >= u => L[x] = Memory(f[m].array, x)
    BY <1>7 DEF Held, Stored
  <2> QED  BY <1>4, <2>1, EmptyHeld
<1> QED  BY <1>3, <1>7, <1>8 DEF Stored

-----------------------------------------------------------------------------
(* The invariant: as long as no pop has cut a slot, there is the line of   *)
(* what waits and of what is in memory.                                    *)
Stands(L, u) ==
  /\ Held(L, shadowStack, vspLocal, stackArray, u)
  /\ -Below <= u /\ vspLocal <= Above /\ DOMAIN stackArray = (-Below)..(Above - 1)
LineInv == status = "ok" /\ ~cut => \E L, u : Stands(L, u)

LEMMA LiveIs ==
  /\ LiveStack = LiveOf(shadowStack, Base, stackArray)
  /\ LiveStack' = LiveOf(shadowStack', Base', stackArray')
  BY DEF LiveStack, LiveOf, Load, Memory

LEMMA HeldBelow ==
  ASSUME NEW L, NEW sh, NEW vsp, NEW arr, NEW u, Held(L, sh, vsp, arr, u)
  PROVE  u <= vsp
<1>1. PICK e : Stand(L, sh, vsp, e) /\ u = e[Len(sh)] /\ Neat(sh)
  BY DEF Held
<1>2. 0 \in 0..Len(sh)
  BY <1>1, NeatSlot
<1>3. e[Len(sh)] <= e[0]
  BY <1>1, <1>2, StandAbove
<1>4. e[0] = vsp
  BY <1>1 DEF Stand
<1> QED  BY <1>1, <1>3, <1>4

(* The vocabulary of the machine is that of the lifter.                    *)
LEMMA SameWords ==
  /\ VM!PtrSize = PtrSize /\ VM!ImageBaseDif = ImageBaseDif
  /\ VM!Binary = Binary /\ VM!Shift = Shift /\ VM!DoubleShift = DoubleShift
  /\ \A d : VM!StackDepth(d) = StackDepth(d)
  /\ \A kind, id, n : VM!Word(kind, id, n) = Word(kind, id, n)
  /\ \A v, n : VM!Trunc(v, n) = Trunc(v, n) /\ VM!ZeroExtend(v, n) = ZeroExtend(v, n)
  /\ \A n : VM!FlagsOf(n) = FlagsOf(n) /\ VM!StackAddress(n) = StackAddress(n)
  /\ \A n : VM!NativeReg(n) = NativeReg(n)
  /\ \A v : VM!IsStackAddress(v) = IsStackAddress(v) /\ VM!OffsetOf(v) = OffsetOf(v)
  /\ \A a, b, n : VM!SumOf(a, b, n) = SumOf(a, b, n)
<1>1. \A kind, id, n : VM!Word(kind, id, n) = Word(kind, id, n)
  BY DEF VM!Word, Word
<1>2. VM!PtrSize = PtrSize
  BY DEF VM!PtrSize, PtrSize
<1>3. \A n : VM!StackAddress(n) = StackAddress(n)
  BY <1>1, <1>2 DEF VM!StackAddress, StackAddress
<1>4. \A v : VM!IsStackAddress(v) = IsStackAddress(v)
  BY <1>2, <1>3 DEF VM!IsStackAddress, IsStackAddress
<1>5. \A v : VM!IsConstant(v) = IsConstant(v)
  BY <1>1 DEF VM!IsConstant, IsConstant
<1>6. \A a, b, n : VM!SumOf(a, b, n) = SumOf(a, b, n)
  BY <1>1, <1>3, <1>4, <1>5 DEF VM!SumOf, SumOf
<1>7. \A v, n : VM!Trunc(v, n) = Trunc(v, n) /\ VM!ZeroExtend(v, n) = ZeroExtend(v, n)
  BY <1>1 DEF VM!Trunc, Trunc, VM!ZeroExtend, ZeroExtend
<1>8. /\ \A n : VM!FlagsOf(n) = FlagsOf(n) /\ VM!NativeReg(n) = NativeReg(n)
      /\ VM!ImageBaseDif = ImageBaseDif
  BY <1>1, <1>2 DEF VM!FlagsOf, FlagsOf, VM!NativeReg, NativeReg, VM!ImageBaseDif, ImageBaseDif
<1>9. /\ VM!Binary = Binary /\ VM!Shift = Shift /\ VM!DoubleShift = DoubleShift
      /\ \A d : VM!StackDepth(d) = StackDepth(d)
  BY DEF VM!Binary, Binary, VM!Shift, Shift, VM!DoubleShift, DoubleShift, VM!StackDepth, StackDepth
<1>10. \A v : VM!OffsetOf(v) = OffsetOf(v)
  BY DEF VM!OffsetOf, OffsetOf
<1> QED  BY <1>1, <1>2, <1>3, <1>4, <1>6, <1>7, <1>8, <1>9, <1>10

(* What the machine finds on the stack.                                    *)
Shown(L, u, live) ==
  /\ live = View(L, u, Above - u) /\ Len(live) = Above - u /\ Above - Len(live) = u
  /\ \A n \in 0..(Above - u) :
       /\ Trunc(live, n) = View(L, u, n)
       /\ SubSeq(live, n + 1, Len(live)) = View(L, u + n, Above - (u + n))
       /\ \A d \in 0..(Above - u - n) : SubSeq(live, n + 1, n + d) = View(L, u + n, d)

LEMMA ViewShown ==
  ASSUME NEW L, NEW u \in Int, u <= Above
  PROVE  Shown(L, u, View(L, u, Above - u))
<1>1. PICK s : s = Above - u /\ s \in Nat /\ Above - s = u
  BY SizesAssumption
<1>2. PICK live : live = View(L, u, s)
  OBVIOUS
<1>3. Len(live) = s
  BY <1>1, <1>2, ViewWide DEF IsWide
<1>4. ASSUME NEW n \in 0..s, NEW d \in 0..(s - n)
      PROVE  SubSeq(live, n + 1, n + d) = View(L, u + n, d)
  <2>1. n \in Nat /\ d \in Nat /\ n + d <= s
    BY <1>1
  <2> QED  BY <1>1, <1>2, <2>1, PartOfView
<1>5. ASSUME NEW n \in 0..s
      PROVE  /\ Trunc(live, n) = View(L, u, n)
             /\ SubSeq(live, n + 1, s) = View(L, u + n, Above - (u + n))
  <2>1. Trunc(live, n) = View(L, u, n)
    BY <1>1, <1>2, TruncOfView
  <2>2. s - n \in 0..(s - n) /\ n + (s - n) = s /\ s - n = Above - (u + n)
    BY <1>1, SizesAssumption
  <2>3. SubSeq(live, n + 1, n + (s - n)) = View(L, u + n, s - n)
    BY <1>4, <2>2
  <2> QED  BY <2>1, <2>2, <2>3
<1> QED  BY <1>1, <1>2, <1>3, <1>4, <1>5 DEF Shown

(* The state is that of the machine, before the step and after it.         *)
LEMMA StandsShown ==
  ASSUME NEW L, NEW u, Stands(L, u), status = "ok"
  PROVE  /\ Shown(L, u, LiveStack) /\ u \in Int /\ u <= vspLocal /\ u <= Above /\ ~Gone
         /\ vspLocal \in Int
<1>1. u \in Int /\ vspLocal \in Int /\ u <= vspLocal /\ vspLocal <= Above /\ Above \in Nat
  BY HeldAt, HeldBelow, SizesAssumption DEF Stands
<1>2. Base = vspLocal /\ ~Gone
  BY DEF Base, Returned, Gone
<1>3. LiveStack = View(L, u, Above - u)
  BY <1>1, <1>2, LiveIs, LiveIsView DEF Stands
<1>4. Shown(L, u, View(L, u, Above - u))
  BY <1>1, ViewShown
<1> QED  BY <1>1, <1>2, <1>3, <1>4

LEMMA StepShown ==
  ASSUME NEW L, NEW u, Stands(L, u), status = "ok", pos < MaxLength, status' # "exit",
         NEW n \in Nat, u + n <= Above,
         NEW h, NEW consumed, executed' = <<h, consumed>>, pos' = pos + 1,
         NEW K, NEW w, Held(K, shadowStack', Base', stackArray', w), Base' <= Above, -Below <= w
  PROVE  VM!Step(h, n, View(K, w, Above - w), consumed) /\ ~Gone'
<1>1. Shown(L, u, LiveStack) /\ u \in Int /\ ~Gone /\ Above \in Nat /\ Below \in Nat
  BY StandsShown, SizesAssumption
<1>2. w \in Int /\ Base' \in Int /\ w <= Base'
  BY HeldAt, HeldBelow
<1>3. LiveStack' = View(K, w, Above - w)
  BY LiveIs, LiveIsView
<1>4. ~Gone'
  BY DEF Gone
<1>5. n <= Len(LiveStack)
  <2>1. Len(LiveStack) = Above - u
    BY <1>1 DEF Shown
  <2> QED  BY <1>1, <2>1
<1>6. Len(View(K, w, Above - w)) <= Above + Below
  <2>1. Above - w \in Nat /\ Above - w <= Above + Below
    BY <1>1, <1>2
  <2>2. Len(View(K, w, Above - w)) = Above - w
    BY <2>1, ViewWide DEF IsWide
  <2> QED  BY <2>1, <2>2
<1>7. /\ (IF Gone THEN <<>> ELSE LiveStack) = LiveStack
      /\ (IF Gone THEN <<>> ELSE LiveStack)' = View(K, w, Above - w)
  BY <1>1, <1>3, <1>4
<1> QED  BY <1>1, <1>4, <1>5, <1>6, <1>7 DEF VM!Step

(* A handler that goes on.                                                 *)
LEMMA OnShown ==
  ASSUME NEW L, NEW u, Stands(L, u), status = "ok", pos < MaxLength, status' = "ok",
         NEW n \in Nat, u + n <= Above,
         NEW h, NEW consumed, executed' = <<h, consumed>>, pos' = pos + 1,
         NEW K, NEW w, Held(K, shadowStack', vspLocal', stackArray', w), vspLocal' <= Above,
         -Below <= w, DOMAIN stackArray' = (-Below)..(Above - 1)
  PROVE  LineInv' /\ VM!Step(h, n, View(K, w, Above - w), consumed) /\ ~Gone /\ ~Gone'
<1>1. Base' = vspLocal'
  BY DEF Base, Returned
<1>2. VM!Step(h, n, View(K, w, Above - w), consumed) /\ ~Gone'
  BY <1>1, StepShown
<1>3. LineInv'
  <2>1. Held(K, shadowStack, vspLocal, stackArray, w)'
    BY DEF Held, Stand, Line, Neat, GoodStack, GoodSlot, Wide, Memory
  <2> QED  BY <2>1 DEF LineInv, Stands
<1> QED  BY <1>2, <1>3, StandsShown

(* What the pops of a handler find.                                        *)
Pops(L, u, h, p, place) ==
  /\ Stands(L, u) /\ PoppedAll(L, p, PopsOf(h), Len(PopsOf(h)), place, u)
  /\ p.vsp \in Int /\ p.vsp <= Above /\ u + place[Len(PopsOf(h))] <= p.vsp
  /\ place[Len(PopsOf(h))] \in Nat

LEMMA PopsShown ==
  ASSUME FInv, LineInv, NEW h \in Handlers, Starts(h), ~cut, ~PopAll(PopsOf(h)).cuts
  PROVE  \E L, u, place : Pops(L, u, h, PopAll(PopsOf(h)), place)
<1>1. PICK p, depths : p = PopAll(PopsOf(h)) /\ depths = PopsOf(h)
  OBVIOUS
<1>2. depths \in Seq(PopDepths) /\ Len(depths) \in Nat
  BY <1>1, PopsOfIs, LenProperties
<1>3. PICK L, u : Stands(L, u)
  BY DEF LineInv, Starts
<1>4. p.taken = p.vsp - DepthOf(p.sh) - (vspLocal - DepthOf(shadowStack)) /\ p.vsp <= Above
  BY <1>1 DEF Starts, Disciplined
<1>5. p = PopAll(depths) /\ ~p.cuts
  BY <1>1
<1>6. PICK place : PoppedAll(L, p, depths, Len(depths), place, u)
  BY <1>2, <1>3, <1>4, <1>5, PopAllTakes DEF Stands
<1>7. Held(L, p.sh, p.vsp, stackArray, u + place[Len(depths)])
  BY <1>6 DEF PoppedAll
<1>8. p.vsp \in Int /\ u + place[Len(depths)] <= p.vsp
  BY <1>7, HeldAt, HeldBelow
<1>9. place[Len(depths)] \in Nat
  <2>1. Len(depths) = 0 \/ Len(depths) \in 1..Len(depths)
    BY <1>2
  <2> QED  BY <1>6, <2>1 DEF PoppedAll, Places
<1> QED  BY <1>1, <1>3, <1>4, <1>6, <1>8, <1>9 DEF Pops

LEMMA NoPops ==
  /\ PopAll(<<>>).cuts = FALSE /\ PopAll(<<>>).vsp = vspLocal
  /\ PopAll(<<>>).sh = shadowStack /\ PopAll(<<>>).values = <<>>
<1>1. PICK none : none = <<>> /\ Len(none) = 0
  OBVIOUS
<1>2. \E f : f[0] = NoPop /\ PopAll(none) = f[Len(none)]
  <2>1. Len(none) \in Nat
    BY <1>1
  <2> QED  BY <2>1, PopAllIs
<1>3. PopAll(none) = NoPop
  BY <1>1, <1>2
<1> QED  BY <1>1, <1>3 DEF NoPop

(* What every handler shows: the line goes on, and the machine takes the   *)
(* step too, or none.                                                      *)
Simulates == LineInv' /\ [VM!Next]_(VM!vars)

-----------------------------------------------------------------------------
(* The handlers that push a value.                                         *)
LEMMA ExtendedIs ==
  ASSUME NEW h \in Handlers, NEW v, IsWide(v, h.d)
  PROVE  /\ Extended(v, h.d) = Slot(ZeroExtend(v, StackDepth(h.d)), StackDepth(h.d))
         /\ IsWide(ZeroExtend(v, StackDepth(h.d)), StackDepth(h.d))
<1>1. h.d \in {1, 2, 4, 8} /\ StackDepth(h.d) \in Nat /\ h.d \in Nat /\ h.d <= StackDepth(h.d)
  BY OpsAre DEF StackDepth
<1>2. IsWide(ZeroExtend(v, StackDepth(h.d)), StackDepth(h.d))
  BY <1>1, ExtendWide
<1>3. CASE h.d = 1
  BY <1>2, <1>3 DEF Extended, StackDepth
<1>4. CASE h.d # 1
  <2>1. ZeroExtend(v, h.d) = v
    <3>1. PICK S : v \in Seq(S) /\ Len(v) = h.d
      BY DEF IsWide
    <3>2. Word("zero", 0, h.d - Len(v)) = <<>>
      BY <1>1, <3>1 DEF Word
    <3>3. v \o <<>> = v
      BY <3>1
    <3> QED  BY <3>2, <3>3 DEF ZeroExtend
  <2>2. StackDepth(h.d) = h.d
    BY <1>4 DEF StackDepth
  <2> QED  BY <1>2, <1>4, <2>1, <2>2 DEF Extended
<1> QED  BY <1>3, <1>4

(* A value below what the machine sees.                                    *)
LEMMA BelowShown ==
  ASSUME NEW L, NEW u \in Int, u <= Above, NEW d \in Nat, NEW v, IsWide(v, d)
  PROVE  v \o View(L, u, Above - u) = View(Put(L, u - d, v), u - d, Above - (u - d))
<1>1. Above - u \in Nat /\ d + (Above - u) = Above - (u - d)
  BY SizesAssumption
<1>2. PICK n : n = Above - u /\ n \in Nat
  BY <1>1
<1>3. ASSUME NEW m \in Nat
      PROVE  v \o View(L, u, m) = View(Put(L, u - d, v), u - d, d + m)
  BY PutBelow, SMTT(30)
<1>4. v \o View(L, u, n) = View(Put(L, u - d, v), u - d, d + n)
  BY <1>2, <1>3
<1> QED  BY <1>1, <1>2, <1>4

LEMMA PushSim ==
  ASSUME FInv, LineInv, NEW h \in Handlers, Starts(h), ~cut, NEW v, IsWide(v, h.d),
         NEW consumed, Push(h, v, consumed)
  PROVE  /\ LineInv' /\ ~Gone /\ ~Gone' /\ UNCHANGED virtualContext
         /\ VM!Step(h, 0, ZeroExtend(v, StackDepth(h.d)) \o LiveStack, consumed)
<1>1. PICK L, u : Stands(L, u)
  BY DEF LineInv, Starts
<1>2. status = "ok" /\ pos < MaxLength
  BY DEF Starts
<1>3. Shown(L, u, LiveStack) /\ u \in Int /\ u <= Above /\ ~Gone
  BY <1>1, <1>2, StandsShown
<1>4. PICK n, w : n = StackDepth(h.d) /\ w = ZeroExtend(v, n)
  OBVIOUS
<1>5. n \in PopDepths /\ n \in Nat
  BY <1>4, OpsAre DEF PopDepths
<1>6. IsWide(w, n) /\ Extended(v, h.d) = Slot(w, n)
  BY <1>4, ExtendedIs
<1>7. PICK p : p = PopAll(<<>>)
  OBVIOUS
<1>8. PICK sh : sh = Append(shadowStack, Slot(w, n))
  OBVIOUS
<1>9. /\ Emit(h, p, sh, consumed) /\ p.vsp = vspLocal
      /\ vspLocal' = vspLocal /\ stackArray' = stackArray /\ status' = "ok"
      /\ virtualContext' = virtualContext
  BY <1>2, <1>6, <1>7, <1>8, NoPops DEF Push
<1>10. PICK K, k : K = Put(L, u - n, w) /\ k = u - n
  OBVIOUS
<1>11. Held(K, sh, vspLocal, stackArray, k)
  <2>1. Held(L, shadowStack, vspLocal, stackArray, u)
    BY <1>1 DEF Stands
  <2> QED  BY <1>5, <1>6, <1>8, <1>10, <2>1, PushHeld
<1>12. -Below <= k
  <2>1. vspLocal - DepthOf(sh) >= -Below /\ k = vspLocal - DepthOf(sh)
    BY <1>9, <1>11, HeldAt DEF Emit
  <2>2. k \in Int /\ Below \in Nat
    BY <1>3, <1>5, <1>10, SizesAssumption
  <2> QED  BY <2>1, <2>2
<1>13. /\ shadowStack' = sh /\ executed' = <<h, consumed>> /\ pos' = pos + 1
  BY <1>9 DEF Emit
<1>14. u + 0 <= Above /\ vspLocal' <= Above /\ DOMAIN stackArray' = (-Below)..(Above - 1)
  BY <1>1, <1>3, <1>9 DEF Stands
<1>15. LineInv' /\ VM!Step(h, 0, View(K, k, Above - k), consumed) /\ ~Gone'
  <2>1. Held(K, shadowStack', vspLocal', stackArray', k)
    BY <1>9, <1>11, <1>13
  <2>2. 0 \in Nat
    OBVIOUS
  <2> QED  BY <1>1, <1>2, <1>9, <1>12, <1>13, <1>14, <2>1, <2>2, OnShown
<1>16. w \o LiveStack = View(K, k, Above - k)
  <2>1. LiveStack = View(L, u, Above - u)
    BY <1>3 DEF Shown
  <2> QED  BY <1>3, <1>5, <1>6, <1>10, <2>1, BelowShown
<1> QED  BY <1>3, <1>4, <1>9, <1>15, <1>16

(* The register file is the machine's.                                     *)
LEMMA ContextShown ==
  ASSUME ~Gone, ~Gone'
  PROVE  /\ (IF Gone THEN <<>> ELSE virtualContext) = virtualContext
         /\ (IF Gone THEN <<>> ELSE virtualContext)' = virtualContext'
         /\ (IF Gone THEN <<>> ELSE LiveStack) = LiveStack
         /\ UNCHANGED ~Gone
  OBVIOUS

LEMMA PushConstSim ==
  ASSUME FInv, LineInv, NEW h \in Handlers, LiftVmPushConst(h), ~cut
  PROVE  Simulates
<1>1. PICK v : v = Word("cst", h.arg, h.d)
  OBVIOUS
<1>2. Push(h, v, <<>>) /\ Starts(h) /\ h.op = "PushConst"
  BY <1>1 DEF LiftVmPushConst
<1>3. IsWide(v, h.d)
  <2>1. h.d \in Nat
    BY OpsAre
  <2> QED  BY <1>1, <2>1, WordWide
<1>4. /\ LineInv' /\ ~Gone /\ ~Gone' /\ UNCHANGED virtualContext
      /\ VM!Step(h, 0, ZeroExtend(v, StackDepth(h.d)) \o LiveStack, <<>>)
  BY <1>2, <1>3, PushSim
<1>5. VM!PushConst(h)
  BY <1>1, <1>2, <1>4, ContextShown, SameWords DEF VM!PushConst
<1> QED  BY <1>4, <1>5 DEF Simulates, VM!Next

LEMMA PushRegSim ==
  ASSUME Regular, FInv, LineInv, NEW h \in Handlers, LiftVmPushReg(h), ~cut
  PROVE  Simulates
<1>1. PICK v : v = SubSeq(virtualContext, h.arg + 1, h.arg + h.d)
  OBVIOUS
<1>2. Push(h, v, <<v>>) /\ Starts(h) /\ h.op = "PushReg"
  BY <1>1 DEF LiftVmPushReg
<1>3. IsWide(v, h.d)
  <2>1. h.arg >= 0 /\ h.arg + h.d <= ContextSize
    BY <1>2 DEF Regular, WholeWords
  <2>2. h.arg \in Int /\ h.d \in {1, 2, 4, 8}
    BY HandlersAssumption DEF Handler
  <2>3. PICK a, b : a = h.arg /\ b = h.arg + h.d /\ a \in Nat /\ b \in Nat /\ a <= b /\ b - a = h.d
    BY <2>1, <2>2
  <2>4. IsWide(SubSeq(virtualContext, a + 1, b), b - a)
    BY <2>1, <2>3, SizesAssumption, PartWide DEF FInv
  <2> QED  BY <1>1, <2>3, <2>4
<1>4. /\ LineInv' /\ ~Gone /\ ~Gone' /\ UNCHANGED virtualContext
      /\ VM!Step(h, 0, ZeroExtend(v, StackDepth(h.d)) \o LiveStack, <<v>>)
  BY <1>2, <1>3, PushSim
<1>5. VM!PushReg(h)
  BY <1>1, <1>2, <1>4, ContextShown, SameWords DEF VM!PushReg
<1> QED  BY <1>4, <1>5 DEF Simulates, VM!Next

-----------------------------------------------------------------------------
(* The handlers that pop.                                                  *)
LEMMA PtrPops ==
  ASSUME NEW h
  PROVE  /\ h.op \in {"PopVsp", "ReadMem", "Jmp"} => PopsOf(h) = <<8>>
         /\ h.op = "WriteMem" => PopsOf(h) = <<8, StackDepth(h.d)>>
         /\ h.op = "Exit" => PopsOf(h) = [i \in 1..(Len(ExitRegs) + 2) |-> 8]
         /\ h.op = "Entry" => PopsOf(h) = <<>>
         /\ 8 \in PopDepths /\ 2 \in PopDepths
<1>1. CASE h.op \in {"PopVsp", "ReadMem", "Jmp"}
  BY <1>1 DEF PopsOf, PtrSize, Binary, Shift, DoubleShift, PopDepths
<1>2. CASE h.op \in {"WriteMem", "Exit", "Entry"}
  BY <1>2 DEF PopsOf, PtrSize, Binary, Shift, DoubleShift, PopDepths
<1>3. 8 \in PopDepths /\ 2 \in PopDepths
  BY DEF PopDepths
<1> QED  BY <1>1, <1>2, <1>3

(* A tuple is the function of its fields.                                  *)
LEMMA TuplesAre ==
  /\ \A f : f = [i \in 1..1 |-> f[i]] => f = <<f[1]>>
  /\ \A f : f = [i \in 1..2 |-> f[i]] => f = <<f[1], f[2]>>
  /\ \A f : f = [i \in 1..3 |-> f[i]] => f = <<f[1], f[2], f[3]>>
<1>1. ASSUME NEW f, f = [i \in 1..1 |-> f[i]] PROVE f = <<f[1]>>
  <2>1. f \in Seq({f[1]}) /\ Len(f) = 1
    BY <1>1
  <2>2. <<f[1]>> \in Seq({f[1]}) /\ Len(<<f[1]>>) = 1 /\ <<f[1]>>[1] = f[1]
    OBVIOUS
  <2>3. \A i \in 1..Len(f) : f[i] = <<f[1]>>[i]
    BY <2>1, <2>2
  <2> QED  BY <2>1, <2>2, <2>3, SeqEqual
<1>2. ASSUME NEW f, f = [i \in 1..2 |-> f[i]] PROVE f = <<f[1], f[2]>>
  <2>1. f \in Seq({f[1], f[2]}) /\ Len(f) = 2
    BY <1>2
  <2>2. /\ <<f[1], f[2]>> \in Seq({f[1], f[2]}) /\ Len(<<f[1], f[2]>>) = 2
        /\ <<f[1], f[2]>>[1] = f[1] /\ <<f[1], f[2]>>[2] = f[2]
    OBVIOUS
  <2>3. \A i \in 1..Len(f) : f[i] = <<f[1], f[2]>>[i]
    BY <2>1, <2>2
  <2> QED  BY <2>1, <2>2, <2>3, SeqEqual
<1>3. ASSUME NEW f, f = [i \in 1..3 |-> f[i]] PROVE f = <<f[1], f[2], f[3]>>
  <2>1. f \in Seq({f[1], f[2], f[3]}) /\ Len(f) = 3
    BY <1>3
  <2>2. /\ <<f[1], f[2], f[3]>> \in Seq({f[1], f[2], f[3]}) /\ Len(<<f[1], f[2], f[3]>>) = 3
        /\ <<f[1], f[2], f[3]>>[1] = f[1] /\ <<f[1], f[2], f[3]>>[2] = f[2]
        /\ <<f[1], f[2], f[3]>>[3] = f[3]
    OBVIOUS
  <2>3. \A i \in 1..Len(f) : f[i] = <<f[1], f[2], f[3]>>[i]
    BY <2>1, <2>2
  <2> QED  BY <2>1, <2>2, <2>3, SeqEqual
<1> QED  BY <1>1, <1>2, <1>3

LEMMA NotCut ==
  ASSUME FInv, NEW h \in Handlers, NEW p, p = PopAll(PopsOf(h)),
         NEW sh, NEW consumed, Emit(h, p, sh, consumed), ~cut'
  PROVE  ~cut /\ ~p.cuts
<1>1. p.cuts \in BOOLEAN /\ cut \in BOOLEAN
  BY PopsGood DEF GoodPops, FInv
<1>2. cut' = (cut \/ p.cuts)
  BY DEF Emit
<1> QED  BY <1>1, <1>2

LEMMA OnePopped ==
  ASSUME NEW L, NEW u, NEW h, NEW p, NEW place, Pops(L, u, h, p, place),
         NEW a \in PopDepths, PopsOf(h) = <<a>>
  PROVE  /\ Len(p.values) = 1 /\ p.values[1] = View(L, u, a)
         /\ Held(L, p.sh, p.vsp, stackArray, u + a)
         /\ u \in Int /\ u + a <= p.vsp /\ u + a <= Above
<1>1. PICK depths : depths = PopsOf(h) /\ Len(depths) = 1 /\ depths[1] = a
  OBVIOUS
<1>2. u \in Int /\ p.vsp \in Int /\ p.vsp <= Above /\ Above \in Nat /\ u + place[1] <= p.vsp
  <2>1. u \in Int
    BY HeldAt DEF Pops, Stands
  <2> QED  BY <1>1, <2>1, SizesAssumption DEF Pops
<1>3. place[0] = 0 /\ place[1] = a /\ a \in Nat
  <2>1. 1 \in 1..1 /\ 1 - 1 = 0 /\ a \in Nat
    BY DEF PopDepths
  <2>2. place[0] = 0 /\ place[1] = 0 + a
    BY <1>1, <2>1 DEF Pops, PoppedAll, Places
  <2> QED  BY <2>1, <2>2
<1>4. p.values[1] = View(L, u + 0, a)
  <2>1. 1 \in 1..1 /\ 1 - 1 = 0
    OBVIOUS
  <2> QED  BY <1>1, <1>3, <2>1 DEF Pops, PoppedAll
<1>5. Held(L, p.sh, p.vsp, stackArray, u + a) /\ Len(p.values) = 1
  BY <1>1, <1>3 DEF Pops, PoppedAll
<1>6. u + 0 = u /\ u + a <= Above
  BY <1>2, <1>3
<1> QED  BY <1>2, <1>3, <1>4, <1>5, <1>6

LEMMA TwoPopped ==
  ASSUME NEW L, NEW u, NEW h, NEW p, NEW place, Pops(L, u, h, p, place),
         NEW a \in PopDepths, NEW b \in PopDepths, PopsOf(h) = <<a, b>>
  PROVE  /\ Len(p.values) = 2 /\ p.values[1] = View(L, u, a) /\ p.values[2] = View(L, u + a, b)
         /\ Held(L, p.sh, p.vsp, stackArray, u + (a + b))
         /\ u \in Int /\ u + (a + b) <= p.vsp /\ u + (a + b) <= Above
<1>1. PICK depths : depths = PopsOf(h) /\ Len(depths) = 2 /\ depths[1] = a /\ depths[2] = b
  OBVIOUS
<1>2. u \in Int /\ p.vsp \in Int /\ p.vsp <= Above /\ Above \in Nat /\ u + place[2] <= p.vsp
  <2>1. u \in Int
    BY HeldAt DEF Pops, Stands
  <2> QED  BY <1>1, <2>1, SizesAssumption DEF Pops
<1>3. place[0] = 0 /\ place[1] = a /\ place[2] = a + b /\ a \in Nat /\ b \in Nat
  <2>1. 1 \in 1..2 /\ 2 \in 1..2 /\ 1 - 1 = 0 /\ 2 - 1 = 1 /\ a \in Nat /\ b \in Nat
    BY DEF PopDepths
  <2>2. place[0] = 0 /\ place[1] = 0 + a /\ place[2] = place[1] + b
    BY <1>1, <2>1 DEF Pops, PoppedAll, Places
  <2> QED  BY <2>1, <2>2
<1>4. p.values[1] = View(L, u + 0, a) /\ p.values[2] = View(L, u + a, b)
  <2>1. 1 \in 1..2 /\ 2 \in 1..2 /\ 1 - 1 = 0 /\ 2 - 1 = 1
    OBVIOUS
  <2> QED  BY <1>1, <1>3, <2>1 DEF Pops, PoppedAll
<1>5. Held(L, p.sh, p.vsp, stackArray, u + (a + b)) /\ Len(p.values) = 2
  BY <1>1, <1>3 DEF Pops, PoppedAll
<1>6. u + 0 = u /\ u + (a + b) <= Above
  BY <1>2, <1>3
<1> QED  BY <1>2, <1>3, <1>4, <1>5, <1>6

LEMMA ThreePopped ==
  ASSUME NEW L, NEW u, NEW h, NEW p, NEW place, Pops(L, u, h, p, place),
         NEW a \in PopDepths, NEW b \in PopDepths, NEW c \in PopDepths, PopsOf(h) = <<a, b, c>>
  PROVE  /\ Len(p.values) = 3 /\ p.values[1] = View(L, u, a) /\ p.values[2] = View(L, u + a, b)
         /\ p.values[3] = View(L, u + (a + b), c)
         /\ Held(L, p.sh, p.vsp, stackArray, u + (a + b + c))
         /\ u \in Int /\ u + (a + b + c) <= p.vsp /\ u + (a + b + c) <= Above
<1>1. PICK depths : /\ depths = PopsOf(h) /\ Len(depths) = 3
                    /\ depths[1] = a /\ depths[2] = b /\ depths[3] = c
  OBVIOUS
<1>2. u \in Int /\ p.vsp \in Int /\ p.vsp <= Above /\ Above \in Nat /\ u + place[3] <= p.vsp
  <2>1. u \in Int
    BY HeldAt DEF Pops, Stands
  <2> QED  BY <1>1, <2>1, SizesAssumption DEF Pops
<1>3. /\ place[0] = 0 /\ place[1] = a /\ place[2] = a + b /\ place[3] = a + b + c
      /\ a \in Nat /\ b \in Nat /\ c \in Nat
  <2>1. /\ 1 \in 1..3 /\ 2 \in 1..3 /\ 3 \in 1..3 /\ 1 - 1 = 0 /\ 2 - 1 = 1 /\ 3 - 1 = 2
        /\ a \in Nat /\ b \in Nat /\ c \in Nat
    BY DEF PopDepths
  <2>2. place[0] = 0 /\ place[1] = 0 + a /\ place[2] = place[1] + b /\ place[3] = place[2] + c
    BY <1>1, <2>1 DEF Pops, PoppedAll, Places
  <2> QED  BY <2>1, <2>2
<1>4. /\ p.values[1] = View(L, u + 0, a) /\ p.values[2] = View(L, u + a, b)
      /\ p.values[3] = View(L, u + (a + b), c)
  <2>1. 1 \in 1..3 /\ 2 \in 1..3 /\ 3 \in 1..3 /\ 1 - 1 = 0 /\ 2 - 1 = 1 /\ 3 - 1 = 2
    OBVIOUS
  <2> QED  BY <1>1, <1>3, <2>1 DEF Pops, PoppedAll
<1>5. Held(L, p.sh, p.vsp, stackArray, u + (a + b + c)) /\ Len(p.values) = 3
  BY <1>1, <1>3 DEF Pops, PoppedAll
<1>6. u + 0 = u /\ u + (a + b + c) <= Above
  BY <1>2, <1>3
<1> QED  BY <1>2, <1>3, <1>4, <1>5, <1>6

(* What the handler leaves and pushes nothing onto.                        *)
LEMMA LeftShown ==
  ASSUME NEW L, NEW u, Stands(L, u), status = "ok", pos < MaxLength, status' = "ok",
         NEW h, NEW p, NEW consumed, Emit(h, p, p.sh, consumed),
         NEW n \in Nat, Held(L, p.sh, p.vsp, stackArray, u + n), u + n <= Above, p.vsp <= Above,
         vspLocal' = p.vsp, stackArray' = stackArray
  PROVE  /\ LineInv' /\ ~Gone /\ ~Gone'
         /\ VM!Step(h, n, SubSeq(LiveStack, n + 1, Len(LiveStack)), consumed)
<1>1. Shown(L, u, LiveStack) /\ u \in Int /\ Above \in Nat /\ Below \in Nat
  BY StandsShown, SizesAssumption
<1>2. PICK t : t = u + n /\ t \in Int
  BY <1>1
<1>3. Held(L, p.sh, p.vsp, stackArray, t) /\ t <= Above
  BY <1>2
<1>4. t = p.vsp - DepthOf(p.sh)
  BY <1>3, HeldAt
<1>5. /\ -Below <= t /\ shadowStack' = p.sh /\ executed' = <<h, consumed>> /\ pos' = pos + 1
  BY <1>1, <1>2, <1>4 DEF Emit
<1>6. Held(L, shadowStack', vspLocal', stackArray', t)
  BY <1>3, <1>5
<1>7. DOMAIN stackArray' = (-Below)..(Above - 1) /\ vspLocal' <= Above
  BY DEF Stands
<1>8. LineInv' /\ VM!Step(h, n, View(L, t, Above - t), consumed) /\ ~Gone /\ ~Gone'
  BY <1>2, <1>5, <1>6, <1>7, OnShown
<1>9. SubSeq(LiveStack, n + 1, Len(LiveStack)) = View(L, t, Above - t)
  <2>1. n \in 0..(Above - u)
    BY <1>1
  <2> QED  BY <1>1, <1>2, <2>1 DEF Shown
<1> QED  BY <1>8, <1>9

LEMMA PopSim ==
  ASSUME FInv, LineInv, NEW h \in Handlers, LiftVmPop(h), ~cut'
  PROVE  Simulates
<1>1. PICK p : p = PopAll(PopsOf(h))
  OBVIOUS
<1>2. PICK v : v = IF h.d = 1 THEN Trunc(p.values[1], 1) ELSE p.values[1]
  OBVIOUS
<1>3. /\ h.op = "Pop" /\ Starts(h) /\ Emit(h, p, p.sh, <<v>>)
      /\ virtualContext' = Store(virtualContext, h.arg + 1, v)
      /\ vspLocal' = p.vsp /\ stackArray' = stackArray /\ status' = status
  BY <1>1, <1>2 DEF LiftVmPop
<1>4. status = "ok" /\ pos < MaxLength
  BY <1>3 DEF Starts
<1>5. ~cut /\ ~p.cuts
  BY <1>1, <1>3, NotCut
<1>6. PICK L, u, place : Pops(L, u, h, p, place)
  BY <1>1, <1>3, <1>5, PopsShown
<1>7. PICK n : n = StackDepth(h.d) /\ n \in PopDepths /\ n \in Nat
  BY OpsAre DEF PopDepths
<1>8. h.d \in {1, 2, 4, 8} /\ h.d <= n /\ h.arg \in Int
  BY <1>7, OpsAre, HandlersAssumption DEF StackDepth, Handler
<1>9. /\ p.values[1] = View(L, u, n) /\ u \in Int /\ u + n <= Above
      /\ Held(L, p.sh, p.vsp, stackArray, u + n)
  <2>1. PopsOf(h) = <<n>>
    BY <1>3, <1>7, PopsOfIs
  <2> QED  BY <1>6, <1>7, <2>1, OnePopped
<1>10. /\ LineInv' /\ ~Gone /\ ~Gone'
       /\ VM!Step(h, n, SubSeq(LiveStack, n + 1, Len(LiveStack)), <<v>>)
  BY <1>3, <1>4, <1>6, <1>7, <1>9, LeftShown DEF Pops
<1>11. v = View(L, u, h.d)
  <2>1. Trunc(View(L, u, n), h.d) = View(L, u, h.d)
    BY <1>7, <1>8, <1>9, TruncOfView
  <2>2. h.d = 1 \/ h.d = n
    BY <1>7, <1>8 DEF StackDepth
  <2> QED  BY <1>2, <1>9, <2>1, <2>2
<1>12. v = Trunc(LiveStack, h.d)
  <2>1. Shown(L, u, LiveStack) /\ h.d \in 0..(Above - u)
    <3>1. Stands(L, u)
      BY <1>6 DEF Pops
    <3>2. Shown(L, u, LiveStack)
      BY <1>4, <3>1, StandsShown
    <3>3. Above \in Nat
      BY SizesAssumption
    <3>4. h.d \in Nat /\ h.d <= Above - u
      BY <1>7, <1>8, <1>9, <3>3
    <3> QED  BY <1>9, <3>2, <3>3, <3>4
  <2> QED  BY <1>11, <2>1 DEF Shown
<1>13. virtualContext' = [x \in DOMAIN virtualContext |->
                            IF x \in (h.arg + 1)..(h.arg + h.d)
                            THEN v[x - h.arg] ELSE virtualContext[x]]
  <2>1. PICK c, a, d : c = virtualContext /\ a = h.arg /\ d = h.d /\ a \in Int /\ d \in Nat
    BY <1>8
  <2>2. Len(v) = d
    BY <1>11, <2>1, ViewWide DEF IsWide
  <2>3. DOMAIN c \subseteq Int
    BY <2>1 DEF FInv, IsWide
  <2>4. \A x \in DOMAIN c : /\ x \in (a + 1)..(a + 1 + d - 1) <=> x \in (a + 1)..(a + d)
                            /\ x - (a + 1) + 1 = x - a
    BY <2>1, <2>3
  <2>5. Store(c, a + 1, v) = [x \in DOMAIN c |-> IF x \in (a + 1)..(a + d)
                                                THEN v[x - a] ELSE c[x]]
    BY <2>2, <2>4 DEF Store
  <2> QED  BY <1>3, <2>1, <2>5
<1>14. VM!Pop(h)
  BY <1>3, <1>7, <1>10, <1>12, <1>13, ContextShown, SameWords DEF VM!Pop, VM!Drop
<1> QED  BY <1>10, <1>14 DEF Simulates, VM!Next

(* VSP becomes an address in the live stack, and nothing waits.            *)
LEMMA PopVspSim ==
  ASSUME FInv, LineInv, NEW h \in Handlers, LiftVmPopVsp(h), ~cut'
  PROVE  Simulates
<1>1. PICK p : p = PopAll(PopsOf(h))
  OBVIOUS
<1>2. PICK a, off : a = p.values[1] /\ off = OffsetOf(a)
  OBVIOUS
<1>3. /\ h.op = "PopVsp" /\ Starts(h) /\ Emit(h, p, p.sh, p.values)
      /\ vspLocal' = off /\ stackArray' = stackArray /\ status' = status
      /\ virtualContext' = virtualContext
  BY <1>1, <1>2 DEF LiftVmPopVsp
<1>4. /\ status = "ok" /\ pos < MaxLength
      /\ IsStackAddress(a) /\ off \in p.vsp..Above /\ p.sh = <<>>
  BY <1>1, <1>2, <1>3 DEF Starts, Disciplined
<1>5. ~cut /\ ~p.cuts
  BY <1>1, <1>3, NotCut
<1>6. PICK L, u, place : Pops(L, u, h, p, place)
  BY <1>1, <1>3, <1>5, PopsShown
<1>7. /\ a = View(L, u, 8) /\ u \in Int /\ u + 8 <= p.vsp /\ u + 8 <= Above
      /\ Held(L, p.sh, p.vsp, stackArray, u + 8) /\ Len(p.values) = 1
  <2>1. PopsOf(h) = <<8>> /\ 8 \in PopDepths
    BY <1>3, PtrPops
  <2> QED  BY <1>2, <1>6, <2>1, OnePopped
<1>8. p.values = <<a>>
  <2>1. PICK S, vs : vs = p.values /\ vs \in Seq(S)
    BY <1>6 DEF Pops, PoppedAll
  <2>2. Len(vs) = 1 /\ vs[1] = a
    BY <1>2, <1>7, <2>1
  <2>3. vs = [i \in 1..1 |-> vs[i]]
    BY <2>1, <2>2
  <2> QED  BY <2>1, <2>2, <2>3, TuplesAre
<1>9. p.vsp \in Int /\ off \in Int /\ p.vsp <= off /\ off <= Above
  BY <1>4, <1>6 DEF Pops
<1>10. Held(L, <<>>, off, stackArray, off)
  <2>1. Line(L) /\ \A x \in Int : x >= off => L[x] = Memory(stackArray, x)
    BY <1>7, <1>9 DEF Held
  <2> QED  BY <1>9, <2>1, EmptyHeld
<1>11. -Below <= off
  <2>1. DepthOf(p.sh) = 0
    BY <1>4, EmptyDepth
  <2>2. p.vsp - 0 >= -Below
    BY <1>3, <2>1 DEF Emit
  <2> QED  BY <1>9, <2>2, SizesAssumption
<1>12. /\ LineInv' /\ ~Gone /\ ~Gone' /\ VM!Step(h, 8, View(L, off, Above - off), <<a>>)
  <2>1. shadowStack' = <<>> /\ executed' = <<h, <<a>>>> /\ pos' = pos + 1
    BY <1>3, <1>4, <1>8 DEF Emit
  <2>2. Stands(L, u)
    BY <1>6 DEF Pops
  <2>3. Held(L, shadowStack', vspLocal', stackArray', off)
    BY <1>3, <1>10, <2>1
  <2>4. DOMAIN stackArray' = (-Below)..(Above - 1) /\ vspLocal' <= Above /\ status' = "ok"
    BY <1>3, <1>4, <1>9, <2>2 DEF Stands
  <2> QED  BY <1>4, <1>7, <1>11, <2>1, <2>2, <2>3, <2>4, OnShown
<1>13. Shown(L, u, LiveStack) /\ Above \in Nat
  BY <1>4, <1>6, StandsShown, SizesAssumption DEF Pops
<1>14. 8 <= Len(LiveStack) /\ Trunc(LiveStack, 8) = a /\ VM!Vsp = u
  <2>1. 8 \in 0..(Above - u) /\ Len(LiveStack) = Above - u /\ Above - Len(LiveStack) = u
    BY <1>7, <1>13 DEF Shown
  <2>2. Trunc(LiveStack, 8) = View(L, u, 8)
    BY <1>13, <2>1 DEF Shown
  <2> QED  BY <1>7, <1>12, <2>1, <2>2 DEF VM!Vsp
<1>15. SubSeq(LiveStack, (off - u) + 1, Len(LiveStack)) = View(L, off, Above - off)
  <2>1. PICK n : n = off - u /\ n \in 0..(Above - u) /\ u + n = off
    <3>1. off - u \in 0..(Above - u) /\ u + (off - u) = off
      BY <1>7, <1>9, <1>13
    <3> QED  BY <3>1
  <2>2. SubSeq(LiveStack, n + 1, Len(LiveStack)) = View(L, u + n, Above - (u + n))
    BY <1>13, <2>1 DEF Shown
  <2> QED  BY <2>1, <2>2
<1>16. off \in (u + 8)..Above
  BY <1>7, <1>9, <1>13
<1>17. VM!PopVsp(h)
  BY <1>2, <1>3, <1>4, <1>12, <1>14, <1>15, <1>16, ContextShown, SameWords
     DEF VM!PopVsp, VM!Drop, PtrSize
<1> QED  BY <1>12, <1>17 DEF Simulates, VM!Next

(* What waits is stored first, and then waits VSP itself.                  *)
LEMMA PushVspSim ==
  ASSUME Regular, FInv, LineInv, NEW h \in Handlers, LiftVmPushVsp(h), ~cut'
  PROVE  Simulates
<1>1. PICK p, m, d : p = PopAll(<<>>) /\ m = FlushVspToMemory(shadowStack, vspLocal) /\ d = h.d
  OBVIOUS
<1>2. PICK v, sh : v = Trunc(StackAddress(m.vsp), d) /\ sh = <<Slot(v, d)>>
  OBVIOUS
<1>3. /\ h.op = "PushVsp" /\ Starts(h) /\ Emit(h, p, sh, <<>>)
      /\ m.vsp - d >= -Below /\ stackArray' = m.array /\ vspLocal' = m.vsp
      /\ virtualContext' = virtualContext /\ status' = status
  BY <1>1, <1>2 DEF LiftVmPushVsp
<1>4. status = "ok" /\ pos < MaxLength
  BY <1>3 DEF Starts
<1>5. ~cut
  <2>1. cut' = (cut \/ p.cuts) /\ p.cuts = FALSE /\ cut \in BOOLEAN
    BY <1>1, <1>3, NoPops DEF Emit, FInv
  <2> QED  BY <2>1
<1>6. PICK L, u : Stands(L, u)
  BY <1>4, <1>5 DEF LineInv
<1>7. /\ Shown(L, u, LiveStack) /\ u \in Int /\ u <= Above /\ ~Gone
      /\ Above \in Nat /\ Below \in Nat
  BY <1>4, <1>6, StandsShown, SizesAssumption
<1>8. m.vsp = u /\ DOMAIN m.array = (-Below)..(Above - 1) /\ Held(L, <<>>, u, m.array, u)
  BY <1>1, <1>6, FlushStored DEF Stands
<1>9. d \in {2, 4, 8} /\ d \in PopDepths /\ d \in Nat /\ StackDepth(d) = d
  BY <1>1, <1>3, OpsAre DEF Regular, WholeWords, PopDepths, StackDepth
<1>10. IsWide(v, d)
  <2>1. IsWide(StackAddress(u), 8)
    BY WordWide DEF StackAddress, PtrSize
  <2>2. d <= 8
    BY <1>9
  <2> QED  BY <1>2, <1>8, <1>9, <2>1, <2>2, TruncWide
<1>11. PICK K, w : K = Put(L, u - d, v) /\ w = u - d /\ w \in Int
  BY <1>7, <1>9
<1>12. Held(K, sh, u, m.array, w)
  <2>1. Append(<<>>, Slot(v, d)) = <<Slot(v, d)>>
    OBVIOUS
  <2>2. Held(Put(L, u - d, v), Append(<<>>, Slot(v, d)), u, m.array, u - d)
    BY <1>8, <1>9, <1>10, PushHeld
  <2> QED  BY <1>2, <1>11, <2>1, <2>2
<1>13. LineInv' /\ ~Gone' /\ VM!Step(h, 0, View(K, w, Above - w), <<>>)
  <2>1. shadowStack' = sh /\ executed' = <<h, <<>>>> /\ pos' = pos + 1
    BY <1>3 DEF Emit
  <2>2. Held(K, shadowStack', vspLocal', stackArray', w)
    BY <1>3, <1>8, <1>12, <2>1
  <2>3. /\ DOMAIN stackArray' = (-Below)..(Above - 1) /\ vspLocal' <= Above /\ status' = "ok"
        /\ 0 \in Nat /\ u + 0 <= Above /\ -Below <= w
    BY <1>3, <1>4, <1>7, <1>8, <1>11
  <2> QED  BY <1>4, <1>6, <2>1, <2>2, <2>3, OnShown
<1>14. v \o LiveStack = View(K, w, Above - w)
  <2>1. LiveStack = View(L, u, Above - u)
    BY <1>7 DEF Shown
  <2> QED  BY <1>7, <1>9, <1>10, <1>11, <2>1, BelowShown, SMTT(30)
<1>15. VM!Vsp = u
  <2>1. Above - Len(LiveStack) = u
    BY <1>7 DEF Shown
  <2> QED  BY <1>7, <2>1 DEF VM!Vsp
<1>16. VM!PushVsp(h)
  BY <1>1, <1>2, <1>3, <1>7, <1>8, <1>9, <1>13, <1>14, <1>15, ContextShown, SameWords
     DEF VM!PushVsp
<1> QED  BY <1>13, <1>16 DEF Simulates, VM!Next

(* Bytes of memory, not below VSP, are bytes of the line.                  *)
LEMMA LoadIsView ==
  ASSUME NEW L, NEW sh, NEW vsp, NEW u, Held(L, sh, vsp, stackArray, u),
         NEW at \in Int, vsp <= at, NEW n \in Nat
  PROVE  Load(at, n) = View(L, at, n)
<1>1. \A k \in 1..n : Memory(stackArray, at + k - 1) = L[at + k - 1]
  <2> TAKE k \in 1..n
  <2>1. at + k - 1 \in Int /\ at + k - 1 >= vsp
    BY HeldAt
  <2> QED  BY <2>1 DEF Held
<1>2. Load(at, n) = [k \in 1..n |-> Memory(stackArray, at + k - 1)]
  BY DEF Load, Memory
<1> QED  BY <1>1, <1>2 DEF View

(* What the handler leaves, and on it a value.                             *)
LEMMA ResultShown ==
  ASSUME NEW L, NEW u, Stands(L, u), status = "ok", pos < MaxLength, status' = "ok",
         NEW h \in Handlers, NEW p, NEW v, IsWide(v, h.d), NEW consumed,
         Emit(h, p, Append(p.sh, Extended(v, h.d)), consumed),
         NEW n \in Nat, Held(L, p.sh, p.vsp, stackArray, u + n), u + n <= Above, p.vsp <= Above,
         vspLocal' = p.vsp, stackArray' = stackArray
  PROVE  /\ LineInv' /\ ~Gone /\ ~Gone'
         /\ VM!Step(h, n, ZeroExtend(v, StackDepth(h.d)) \o SubSeq(LiveStack, n + 1, Len(LiveStack)),
                    consumed)
<1>1. Shown(L, u, LiveStack) /\ u \in Int /\ Above \in Nat /\ Below \in Nat
  BY StandsShown, SizesAssumption
<1>2. PICK t : t = u + n /\ t \in Int
  BY <1>1
<1>3. Held(L, p.sh, p.vsp, stackArray, t) /\ t <= Above
  BY <1>2
<1>4. PICK s, w : s = StackDepth(h.d) /\ w = ZeroExtend(v, s)
  OBVIOUS
<1>5. s \in PopDepths /\ s \in Nat
  BY <1>4, OpsAre DEF PopDepths
<1>6. IsWide(w, s) /\ Extended(v, h.d) = Slot(w, s)
  BY <1>4, ExtendedIs
<1>7. PICK K, k, sh : K = Put(L, t - s, w) /\ k = t - s /\ sh = Append(p.sh, Slot(w, s))
  OBVIOUS
<1>8. Held(K, sh, p.vsp, stackArray, k)
  BY <1>3, <1>5, <1>6, <1>7, PushHeld
<1>9. /\ shadowStack' = sh /\ executed' = <<h, consumed>> /\ pos' = pos + 1
      /\ p.vsp - DepthOf(sh) >= -Below
  BY <1>6, <1>7 DEF Emit
<1>10. -Below <= k
  <2>1. k = p.vsp - DepthOf(sh)
    BY <1>8, HeldAt
  <2>2. k \in Int
    BY <1>2, <1>5, <1>7
  <2> QED  BY <1>1, <1>9, <2>1, <2>2
<1>11. LineInv' /\ VM!Step(h, n, View(K, k, Above - k), consumed) /\ ~Gone /\ ~Gone'
  <2>1. Held(K, shadowStack', vspLocal', stackArray', k)
    BY <1>8, <1>9
  <2>2. DOMAIN stackArray' = (-Below)..(Above - 1) /\ vspLocal' <= Above
    BY DEF Stands
  <2> QED  BY <1>9, <1>10, <2>1, <2>2, OnShown
<1>12. SubSeq(LiveStack, n + 1, Len(LiveStack)) = View(L, t, Above - t)
  <2>1. n \in 0..(Above - u)
    BY <1>1
  <2> QED  BY <1>1, <1>2, <2>1 DEF Shown
<1>13. w \o View(L, t, Above - t) = View(K, k, Above - k)
  BY <1>2, <1>3, <1>5, <1>6, <1>7, BelowShown, SMTT(30)
<1> QED  BY <1>4, <1>11, <1>12, <1>13

LEMMA ReadMemSim ==
  ASSUME FInv, LineInv, NEW h \in Handlers, LiftVmReadMem(h), ~cut'
  PROVE  Simulates
<1>1. PICK p : p = PopAll(PopsOf(h))
  OBVIOUS
<1>2. PICK a, off : a = p.values[1] /\ off = OffsetOf(a)
  OBVIOUS
<1>3. PICK v : v = IF IsStackAddress(a) THEN Load(off, h.d) ELSE Word("res", pos + 1, h.d)
  OBVIOUS
<1>4. /\ h.op = "ReadMem" /\ Starts(h)
      /\ Emit(h, p, Append(p.sh, Extended(v, h.d)), <<a>>)
      /\ vspLocal' = p.vsp /\ stackArray' = stackArray /\ status' = status
      /\ virtualContext' = virtualContext
  BY <1>1, <1>2, <1>3 DEF LiftVmReadMem
<1>5. /\ status = "ok" /\ pos < MaxLength
      /\ IsStackAddress(a) => off \in p.vsp..(Above - h.d)
  BY <1>1, <1>2, <1>4 DEF Starts, Disciplined
<1>6. ~cut /\ ~p.cuts
  BY <1>1, <1>4, NotCut
<1>7. PICK L, u, place : Pops(L, u, h, p, place)
  BY <1>1, <1>4, <1>6, PopsShown
<1>8. /\ a = View(L, u, 8) /\ u \in Int /\ u + 8 <= p.vsp /\ u + 8 <= Above
      /\ Held(L, p.sh, p.vsp, stackArray, u + 8)
      /\ p.vsp \in Int /\ p.vsp <= Above
  <2>1. PopsOf(h) = <<8>> /\ 8 \in PopDepths
    BY <1>4, PtrPops
  <2>2. p.vsp \in Int /\ p.vsp <= Above
    BY <1>7 DEF Pops
  <2> QED  BY <1>2, <1>7, <2>1, <2>2, OnePopped
<1>9. h.d \in Nat
  BY OpsAre
<1>10. Shown(L, u, LiveStack) /\ Above \in Nat /\ Len(LiveStack) = Above - u
  BY <1>5, <1>7, StandsShown, SizesAssumption, SMTT(30) DEF Pops, Shown
<1>11. IsStackAddress(a) =>
         /\ off - u \in 8..(Len(LiveStack) - h.d)
         /\ v = SubSeq(LiveStack, (off - u) + 1, (off - u) + h.d)
  <2> SUFFICES ASSUME IsStackAddress(a)
               PROVE  /\ off - u \in 8..(Len(LiveStack) - h.d)
                      /\ v = SubSeq(LiveStack, (off - u) + 1, (off - u) + h.d)
    OBVIOUS
  <2>1. off \in Int /\ p.vsp <= off /\ off + h.d <= Above
    BY <1>5, <1>8, <1>9, <1>10
  <2>2. PICK i : i = off - u /\ i \in 8..(Len(LiveStack) - h.d) /\ i \in 0..(Above - u) /\ u + i = off
                 /\ h.d \in 0..(Above - u - i)
    <3>1. /\ off - u \in 8..(Len(LiveStack) - h.d) /\ off - u \in 0..(Above - u)
          /\ u + (off - u) = off /\ h.d \in 0..(Above - u - (off - u))
      BY <1>8, <1>9, <1>10, <2>1
    <3> QED  BY <3>1
  <2>3. v = View(L, off, h.d)
    BY <1>3, <1>8, <1>9, <2>1, LoadIsView
  <2>4. SubSeq(LiveStack, i + 1, i + h.d) = View(L, u + i, h.d)
    BY <1>10, <2>2 DEF Shown
  <2> QED  BY <2>2, <2>3, <2>4
<1>12. IsWide(v, h.d)
  BY <1>3, <1>9, LoadWide, WordWide
<1>13. /\ LineInv' /\ ~Gone /\ ~Gone'
       /\ VM!Step(h, 8, ZeroExtend(v, StackDepth(h.d)) \o SubSeq(LiveStack, 8 + 1, Len(LiveStack)),
                  <<a>>)
  BY <1>4, <1>5, <1>7, <1>8, <1>12, ResultShown DEF Pops
<1>14. 8 <= Len(LiveStack) /\ Trunc(LiveStack, 8) = a /\ VM!Vsp = u
  <2>1. 8 \in 0..(Above - u) /\ Above - Len(LiveStack) = u
    BY <1>8, <1>10
  <2>2. Trunc(LiveStack, 8) = View(L, u, 8)
    BY <1>10, <2>1 DEF Shown
  <2> QED  BY <1>8, <1>10, <1>13, <2>1, <2>2 DEF VM!Vsp
<1>15. v = IF IsStackAddress(a) THEN SubSeq(LiveStack, (off - u) + 1, (off - u) + h.d)
           ELSE Word("res", pos + 1, h.d)
  BY <1>3, <1>11
<1>16. VM!ReadMem(h)
  BY <1>2, <1>4, <1>11, <1>13, <1>14, <1>15, ContextShown, SameWords
     DEF VM!ReadMem, VM!Drop, VM!Under, PtrSize
<1> QED  BY <1>13, <1>16 DEF Simulates, VM!Next

(* A value stored above what waits.                                        *)
LEMMA StoreHeld ==
  ASSUME NEW L, NEW sh, NEW vsp, NEW arr, NEW t, Held(L, sh, vsp, arr, t),
         DOMAIN arr = (-Below)..(Above - 1), -Below <= t,
         NEW off \in Int, vsp <= off, NEW d \in Nat, off + d <= Above, NEW v, IsWide(v, d)
  PROVE  /\ Held(Put(L, off, v), sh, vsp, Store(arr, off, v), t)
         /\ DOMAIN Store(arr, off, v) = (-Below)..(Above - 1)
<1>1. PICK e : Stand(L, sh, vsp, e) /\ t = e[Len(sh)] /\ Neat(sh)
  BY DEF Held
<1>2. PICK n : n = Len(sh) /\ n \in Nat
  BY <1>1, NeatSlot
<1>3. t \in Int /\ vsp \in Int /\ t <= vsp /\ Above \in Nat /\ Below \in Nat
  BY HeldAt, HeldBelow, SizesAssumption
<1>4. PICK K, new : K = Put(L, off, v) /\ new = Store(arr, off, v)
  OBVIOUS
<1>5. Len(v) = d
  BY DEF IsWide
<1>6. /\ \A x \in Int : K[x] = IF x \in off..(off + d - 1) THEN v[x - off + 1] ELSE L[x]
      /\ Line(K)
  BY <1>4, <1>5 DEF Put, Line
<1>7. /\ DOMAIN new = (-Below)..(Above - 1)
      /\ \A x \in (-Below)..(Above - 1) :
           new[x] = IF x \in off..(off + d - 1) THEN v[x - off + 1] ELSE arr[x]
  BY <1>4, <1>5 DEF Store
<1>8. \A x \in Int : x >= vsp => K[x] = Memory(new, x)
  <2> SUFFICES ASSUME NEW x \in Int, x >= vsp PROVE K[x] = Memory(new, x)
    OBVIOUS
  <2>1. L[x] = Memory(arr, x)
    BY DEF Held
  <2>2. CASE x \in off..(off + d - 1)
    <3>1. x \in (-Below)..(Above - 1)
      BY <1>3, <2>2
    <3> QED  BY <1>6, <1>7, <2>2, <3>1 DEF Memory
  <2>3. CASE x \notin off..(off + d - 1)
    <3>1. K[x] = Memory(arr, x)
      BY <1>6, <2>1, <2>3
    <3> QED  BY <1>7, <2>3, <3>1 DEF Memory
  <2> QED  BY <2>2, <2>3
<1>9. ASSUME NEW i \in 0..n PROVE e[i] \in Int /\ e[i] <= vsp
  <2>1. Line(L) /\ \A x \in Int : x >= vsp => L[x] = Memory(arr, x)
    BY DEF Held
  <2>2. Held(L, SubSeq(sh, 1, i), vsp, arr, e[i])
    BY <1>1, <1>2, <2>1, PrefixHeld
  <2> QED  BY <2>2, HeldAt, HeldBelow
<1>10. Stand(K, sh, vsp, e)
  <2>1. ASSUME NEW i \in 1..n, NEW k \in 1..sh[i].depth
        PROVE  sh[i].value[k] = K[e[i] + k - 1]
    <3>1. PICK a, b, s : a = e[i] /\ b = e[i - 1] /\ s = sh[i].depth
      OBVIOUS
    <3>2. a \in Int /\ b = a + s /\ s \in Nat /\ k \in 1..s /\ sh[i].value[k] = L[a + k - 1]
      BY <1>1, <1>2, <3>1, NeatSlot DEF Stand
    <3>3. b <= vsp
      <4>1. i - 1 \in 0..n
        BY <1>2
      <4> QED  BY <1>9, <3>1, <4>1
    <3>4. a + k - 1 \in Int /\ a + k - 1 \notin off..(off + d - 1)
      BY <1>3, <3>2, <3>3
    <3> QED  BY <1>6, <3>1, <3>2, <3>4
  <2> QED  BY <1>1, <1>2, <2>1 DEF Stand
<1> QED  BY <1>1, <1>4, <1>6, <1>7, <1>8, <1>10 DEF Held

(* The store of the machine, in the stack that the handler leaves.         *)
LEMMA WrittenIs ==
  ASSUME NEW L, NEW t \in Int, t <= Above, NEW off \in Int, t <= off,
         NEW d \in Nat, off + d <= Above, NEW v, IsWide(v, d),
         NEW rest, rest = View(L, t, Above - t), NEW i, i = off - t
  PROVE  /\ i \in 0..(Len(rest) - d)
         /\ [x \in DOMAIN rest |-> IF x \in (i + 1)..(i + d) THEN v[x - i] ELSE rest[x]]
              = View(Put(L, off, v), t, Above - t)
<1>1. PICK n : n = Above - t /\ n \in Nat
  BY SizesAssumption
<1>2. Len(rest) = n /\ DOMAIN rest = 1..n /\ \A x \in 1..n : rest[x] = L[t + x - 1]
  BY <1>1, ViewWide DEF IsWide, View
<1>3. i \in 0..(Len(rest) - d)
  BY <1>1, <1>2, SizesAssumption
<1>4. Len(v) = d
  BY DEF IsWide
<1>5. PICK K : K = Put(L, off, v)
  OBVIOUS
<1>6. \A x \in Int : K[x] = IF x \in off..(off + d - 1) THEN v[x - off + 1] ELSE L[x]
  BY <1>4, <1>5 DEF Put
<1>7. \A x \in 1..n : (IF x \in (i + 1)..(i + d) THEN v[x - i] ELSE rest[x]) = K[t + x - 1]
  <2> TAKE x \in 1..n
  <2>1. /\ t + x - 1 \in Int /\ (t + x - 1) - off + 1 = x - i
        /\ t + x - 1 \in off..(off + d - 1) <=> x \in (i + 1)..(i + d)
    BY <1>1
  <2> QED  BY <1>2, <1>6, <2>1
<1> QED  BY <1>1, <1>2, <1>3, <1>5, <1>7 DEF View

LEMMA WriteMemSim ==
  ASSUME FInv, LineInv, NEW h \in Handlers, LiftVmWriteMem(h), ~cut'
  PROVE  Simulates
<1>1. PICK p : p = PopAll(PopsOf(h))
  OBVIOUS
<1>2. PICK a, off, v : a = p.values[1] /\ off = OffsetOf(a) /\ v = Trunc(p.values[2], h.d)
  OBVIOUS
<1>3. /\ h.op = "WriteMem" /\ Starts(h) /\ Emit(h, p, p.sh, <<a, v>>)
      /\ stackArray' = IF IsStackAddress(a) THEN Store(stackArray, off, v) ELSE stackArray
      /\ vspLocal' = p.vsp /\ status' = status /\ virtualContext' = virtualContext
  BY <1>1, <1>2 DEF LiftVmWriteMem
<1>4. /\ status = "ok" /\ pos < MaxLength
      /\ IsStackAddress(a) => off \in p.vsp..(Above - h.d)
  BY <1>1, <1>2, <1>3 DEF Starts, Disciplined
<1>5. ~cut /\ ~p.cuts
  BY <1>1, <1>3, NotCut
<1>6. PICK L, u, place : Pops(L, u, h, p, place)
  BY <1>1, <1>3, <1>5, PopsShown
<1>7. PICK s : s = StackDepth(h.d) /\ s \in PopDepths /\ s \in Nat
  BY OpsAre DEF PopDepths
<1>8. h.d \in Nat /\ h.d <= s
  BY <1>7, OpsAre DEF StackDepth
<1>9. /\ a = View(L, u, 8) /\ p.values[2] = View(L, u + 8, s)
      /\ Held(L, p.sh, p.vsp, stackArray, u + (8 + s))
      /\ u \in Int /\ u + (8 + s) <= p.vsp /\ u + (8 + s) <= Above
  <2>1. PopsOf(h) = <<8, s>> /\ 8 \in PopDepths
    BY <1>3, <1>7, PtrPops
  <2> QED  BY <1>2, <1>6, <1>7, <2>1, TwoPopped
<1>10. Stands(L, u) /\ p.vsp \in Int /\ p.vsp <= Above
  BY <1>6 DEF Pops
<1>11. Shown(L, u, LiveStack) /\ Above \in Nat /\ Below \in Nat /\ Len(LiveStack) = Above - u
  BY <1>4, <1>10, StandsShown, SizesAssumption DEF Shown
<1>12. PICK n, t : n = 8 + s /\ t = u + n /\ n \in Nat /\ t \in Int
  BY <1>7, <1>9
<1>13. v = View(L, u + 8, h.d) /\ IsWide(v, h.d)
  <2>1. u + 8 \in Int
    BY <1>9
  <2>2. v = View(L, u + 8, h.d)
    BY <1>2, <1>7, <1>8, <1>9, <2>1, TruncOfView
  <2> QED  BY <1>8, <2>2, ViewWide
<1>14. -Below <= t /\ t <= p.vsp /\ t <= Above /\ Held(L, p.sh, p.vsp, stackArray, t)
  <2>1. -Below <= u
    BY <1>10 DEF Stands
  <2> QED  BY <1>9, <1>11, <1>12, <2>1
<1>15. DOMAIN stackArray = (-Below)..(Above - 1)
  BY <1>10 DEF Stands
<1>16. IsStackAddress(a) => off \in Int /\ p.vsp <= off /\ off + h.d <= Above
  BY <1>4, <1>8, <1>10, <1>11
<1>17. PICK K : K = IF IsStackAddress(a) THEN Put(L, off, v) ELSE L
  OBVIOUS
<1>18. Held(K, p.sh, p.vsp, stackArray', t) /\ DOMAIN stackArray' = (-Below)..(Above - 1)
  <2>1. CASE IsStackAddress(a)
    <3>1. off \in Int /\ p.vsp <= off /\ off + h.d <= Above
      BY <1>16, <2>1
    <3>2. /\ Held(Put(L, off, v), p.sh, p.vsp, Store(stackArray, off, v), t)
          /\ DOMAIN Store(stackArray, off, v) = (-Below)..(Above - 1)
      BY <1>8, <1>13, <1>14, <1>15, <3>1, StoreHeld
    <3> QED  BY <1>3, <1>17, <2>1, <3>2
  <2>2. CASE ~IsStackAddress(a)
    BY <1>3, <1>14, <1>15, <1>17, <2>2
  <2> QED  BY <2>1, <2>2
<1>19. /\ LineInv' /\ ~Gone /\ ~Gone' /\ VM!Step(h, n, View(K, t, Above - t), <<a, v>>)
  <2>1. shadowStack' = p.sh /\ executed' = <<h, <<a, v>>>> /\ pos' = pos + 1
    BY <1>3 DEF Emit
  <2>2. Held(K, shadowStack', vspLocal', stackArray', t) /\ vspLocal' <= Above /\ status' = "ok"
    BY <1>3, <1>4, <1>10, <1>18, <2>1
  <2> QED  BY <1>4, <1>10, <1>12, <1>14, <1>18, <2>1, <2>2, OnShown
<1>20. PICK rest : rest = SubSeq(LiveStack, n + 1, Len(LiveStack))
  OBVIOUS
<1>21. rest = View(L, t, Above - t)
  <2>1. n \in 0..(Above - u)
    BY <1>9, <1>11, <1>12
  <2> QED  BY <1>11, <1>12, <1>20, <2>1 DEF Shown
<1>22. /\ n <= Len(LiveStack) /\ Trunc(LiveStack, 8) = a /\ VM!Vsp = u
       /\ SubSeq(LiveStack, 8 + 1, 8 + h.d) = v
  <2>1. 8 \in 0..(Above - u) /\ h.d \in 0..(Above - u - 8) /\ n <= Above - u
        /\ Above - Len(LiveStack) = u
    BY <1>7, <1>8, <1>9, <1>11, <1>12, SMTT(30)
  <2>2. Trunc(LiveStack, 8) = View(L, u, 8) /\ SubSeq(LiveStack, 8 + 1, 8 + h.d) = View(L, u + 8, h.d)
    BY <1>11, <2>1 DEF Shown
  <2> QED  BY <1>9, <1>11, <1>13, <1>19, <2>1, <2>2 DEF VM!Vsp
<1>23. PICK i : i = off - (u + n)
  OBVIOUS
<1>24. IsStackAddress(a) =>
         /\ i \in 0..(Len(rest) - h.d)
         /\ [x \in DOMAIN rest |-> IF x \in (i + 1)..(i + h.d) THEN v[x - i] ELSE rest[x]]
              = View(K, t, Above - t)
  <2> SUFFICES ASSUME IsStackAddress(a)
               PROVE  /\ i \in 0..(Len(rest) - h.d)
                      /\ [x \in DOMAIN rest |-> IF x \in (i + 1)..(i + h.d) THEN v[x - i] ELSE rest[x]]
                           = View(K, t, Above - t)
    OBVIOUS
  <2>1. off \in Int /\ t <= off /\ off + h.d <= Above /\ i = off - t
    BY <1>10, <1>12, <1>14, <1>16, <1>23
  <2>2. K = Put(L, off, v)
    BY <1>17
  <2> QED  BY <1>8, <1>12, <1>13, <1>14, <1>21, <2>1, <2>2, WrittenIs, SMTT(30)
<1>25. ~IsStackAddress(a) => View(K, t, Above - t) = rest
  BY <1>17, <1>21
<1>26. VM!WriteMem(h)
  <2>1. VM!PtrSize = 8 /\ VM!PtrSize + VM!StackDepth(h.d) = n
    BY <1>7, <1>12, SameWords DEF PtrSize
  <2>2. /\ (IF Gone THEN <<>> ELSE LiveStack) = LiveStack
        /\ UNCHANGED <<IF Gone THEN <<>> ELSE virtualContext, ~Gone>>
    BY <1>3, <1>19, ContextShown
  <2>3. VM!Drop(n) = rest /\ VM!Under(8, h.d) = v
    BY <1>20, <1>22, <2>2 DEF VM!Drop, VM!Under
  <2>4. VM!Trunc(LiveStack, 8) = a /\ VM!OffsetOf(a) - (VM!Vsp + n) = i
    BY <1>2, <1>22, <1>23, SameWords
  <2>5. VM!IsStackAddress(a) = IsStackAddress(a)
    BY SameWords
  <2> DEFINE written == [x \in DOMAIN rest |-> IF x \in (i + 1)..(i + h.d) THEN v[x - i] ELSE rest[x]]
  <2>6. /\ VM!IsStackAddress(a) => i \in 0..(Len(rest) - h.d)
        /\ VM!Step(h, n, IF VM!IsStackAddress(a) THEN written ELSE rest, <<a, v>>)
    BY <1>19, <1>24, <1>25, <2>5
  <2> QED  BY <1>3, <1>22, <2>1, <2>2, <2>3, <2>4, <2>6 DEF VM!WriteMem
<1> QED  BY <1>19, <1>26 DEF Simulates, VM!Next

-----------------------------------------------------------------------------
(* The function returns: what waits is stored, and VSP is published.       *)
LEMMA JmpSim ==
  ASSUME FInv, LineInv, NEW h \in Handlers, LiftVmJmpIndirect(h), ~cut'
  PROVE  Simulates
<1>1. PICK p, m : p = PopAll(PopsOf(h)) /\ m = FlushVspToMemory(p.sh, p.vsp)
  OBVIOUS
<1>2. PICK a : a = p.values[1]
  OBVIOUS
<1>3. /\ h.op = "Jmp" /\ Starts(h) /\ Emit(h, p, <<>>, p.values) /\ status' = "jump"
      /\ stackArray' = m.array /\ vspPtr' = m.vsp /\ virtualContext' = virtualContext
  BY <1>1 DEF LiftVmJmpIndirect, Return, Published
<1>4. status = "ok" /\ pos < MaxLength
  BY <1>3 DEF Starts
<1>5. ~cut /\ ~p.cuts
  BY <1>1, <1>3, NotCut
<1>6. PICK L, u, place : Pops(L, u, h, p, place)
  BY <1>1, <1>3, <1>5, PopsShown
<1>7. /\ a = View(L, u, 8) /\ u \in Int /\ u + 8 <= Above
      /\ Held(L, p.sh, p.vsp, stackArray, u + 8) /\ Len(p.values) = 1
  <2>1. PopsOf(h) = <<8>> /\ 8 \in PopDepths
    BY <1>3, PtrPops
  <2> QED  BY <1>2, <1>6, <2>1, OnePopped
<1>8. p.values = <<a>>
  <2>1. PICK S, vs : vs = p.values /\ vs \in Seq(S)
    BY <1>6 DEF Pops, PoppedAll
  <2>2. Len(vs) = 1 /\ vs[1] = a
    BY <1>2, <1>7, <2>1
  <2>3. vs = [i \in 1..1 |-> vs[i]]
    BY <2>1, <2>2
  <2> QED  BY <2>1, <2>2, <2>3, TuplesAre
<1>9. /\ Stands(L, u) /\ p.vsp <= Above /\ -Below <= u
      /\ DOMAIN stackArray = (-Below)..(Above - 1)
  BY <1>6 DEF Pops, Stands
<1>10. PICK t : t = u + 8 /\ t \in Int /\ -Below <= t
  BY <1>7, <1>9, SizesAssumption
<1>11. m.vsp = t /\ Held(L, <<>>, t, m.array, t)
  BY <1>1, <1>7, <1>9, <1>10, FlushStored
<1>12. VM!Step(h, 8, View(L, t, Above - t), <<a>>) /\ ~Gone'
  <2>1. shadowStack' = <<>> /\ executed' = <<h, <<a>>>> /\ pos' = pos + 1
    BY <1>3, <1>8 DEF Emit
  <2>2. Base' = t
    BY <1>3, <1>11 DEF Base, Returned
  <2>3. Held(L, shadowStack', Base', stackArray', t)
    BY <1>3, <1>11, <2>1, <2>2
  <2>4. Base' <= Above /\ status' # "exit" /\ 8 \in Nat
    BY <1>3, <1>7, <1>10, <2>2
  <2> QED  BY <1>4, <1>7, <1>9, <1>10, <2>1, <2>3, <2>4, StepShown
<1>13. Shown(L, u, LiveStack) /\ Above \in Nat /\ ~Gone
  BY <1>4, <1>9, StandsShown, SizesAssumption
<1>14. Trunc(LiveStack, 8) = a /\ SubSeq(LiveStack, 8 + 1, Len(LiveStack)) = View(L, t, Above - t)
  <2>1. 8 \in 0..(Above - u)
    BY <1>7, <1>13
  <2> QED  BY <1>7, <1>10, <1>13, <2>1 DEF Shown
<1>15. VM!Jmp(h)
  BY <1>3, <1>12, <1>13, <1>14, ContextShown, SameWords DEF VM!Jmp, VM!Drop, PtrSize
<1>16. LineInv'
  BY <1>3 DEF LineInv
<1> QED  BY <1>15, <1>16 DEF Simulates, VM!Next

-----------------------------------------------------------------------------
(* The arithmetic handlers: the result, and below it the flags.            *)
LEMMA WideAssoc ==
  ASSUME NEW a, NEW b, NEW c, NEW k, NEW m, NEW n, IsWide(a, k), IsWide(b, m), IsWide(c, n)
  PROVE  (a \o b) \o c = a \o (b \o c)
<1>1. PICK A, B, C : a \in Seq(A) /\ b \in Seq(B) /\ c \in Seq(C)
  BY DEF IsWide
<1>2. PICK U : A \subseteq U /\ B \subseteq U /\ C \subseteq U
  <2>1. A \subseteq A \cup B \cup C /\ B \subseteq A \cup B \cup C /\ C \subseteq A \cup B \cup C
    OBVIOUS
  <2> QED  BY <2>1
<1>3. a \in Seq(U) /\ b \in Seq(U) /\ c \in Seq(U)
  BY <1>1, <1>2, SeqMonotonic
<1> QED  BY <1>3, ConcatAssociative

LEMMA TwoPushed ==
  ASSUME NEW S, NEW sh \in Seq(S), NEW x, NEW y
  PROVE  sh \o <<x, y>> = Append(Append(sh, x), y)
<1>1. PICK U : U = S \cup {x, y}
  OBVIOUS
<1>2. sh \in Seq(U) /\ x \in U /\ y \in U
  BY <1>1, SeqMonotonic
<1>3. PICK r, q : r = Append(sh, x) /\ q = sh \o <<x, y>>
  OBVIOUS
<1>4. /\ r \in Seq(U) /\ Len(r) = Len(sh) + 1 /\ r[Len(sh) + 1] = x
      /\ \A i \in 1..Len(sh) : r[i] = sh[i]
  BY <1>2, <1>3, AppendProperties
<1>5. PICK t : t = Append(r, y)
  OBVIOUS
<1>6. /\ t \in Seq(U) /\ Len(t) = Len(r) + 1 /\ t[Len(r) + 1] = y
      /\ \A i \in 1..Len(r) : t[i] = r[i]
  BY <1>2, <1>4, <1>5, AppendProperties
<1>7. <<x, y>> \in Seq(U) /\ Len(<<x, y>>) = 2 /\ <<x, y>>[1] = x /\ <<x, y>>[2] = y
  BY <1>2
<1>8. /\ q \in Seq(U) /\ Len(q) = Len(sh) + 2
      /\ \A i \in 1..(Len(sh) + 2) : q[i] = IF i <= Len(sh) THEN sh[i] ELSE <<x, y>>[i - Len(sh)]
  BY <1>2, <1>3, <1>7, ConcatProperties
<1>9. PICK n \in Nat : n = Len(sh)
  BY <1>2, LenProperties
<1>10. Len(q) = Len(t) /\ \A i \in 1..Len(q) : q[i] = t[i]
  <2>1. Len(q) = n + 2 /\ Len(t) = n + 2
    BY <1>4, <1>6, <1>8, <1>9
  <2>2. ASSUME NEW i \in 1..(n + 2) PROVE q[i] = t[i]
    <3>1. CASE i \in 1..n
      BY <1>4, <1>6, <1>8, <1>9, <3>1
    <3>2. CASE i = n + 1
      <4>1. ~(i <= n) /\ i - n = 1 /\ i \in 1..(n + 1)
        BY <1>9, <3>2
      <4> QED  BY <1>4, <1>6, <1>7, <1>8, <1>9, <3>2, <4>1
    <3>3. CASE i = n + 2
      <4>1. ~(i <= n) /\ i - n = 2 /\ i = (n + 1) + 1
        BY <1>9, <3>3
      <4> QED  BY <1>4, <1>6, <1>7, <1>8, <1>9, <3>3, <4>1
    <3> QED  BY <1>9, <3>1, <3>2, <3>3
  <2> QED  BY <2>1, <2>2
<1> QED  BY <1>3, <1>5, <1>6, <1>8, <1>10, SeqEqual

LEMMA AluShown ==
  ASSUME NEW L, NEW u, Stands(L, u), status = "ok", pos < MaxLength, status' = "ok",
         NEW h \in Handlers, NEW p, NEW v, IsWide(v, h.d), NEW consumed, NEW f, IsWide(f, 8),
         Emit(h, p, p.sh \o <<Extended(v, h.d), Slot(f, 8)>>, consumed),
         NEW n \in Nat, Held(L, p.sh, p.vsp, stackArray, u + n), u + n <= Above, p.vsp <= Above,
         vspLocal' = p.vsp, stackArray' = stackArray
  PROVE  /\ LineInv' /\ ~Gone /\ ~Gone'
         /\ VM!Step(h, n, f \o ZeroExtend(v, StackDepth(h.d))
                            \o SubSeq(LiveStack, n + 1, Len(LiveStack)), consumed)
<1>1. Shown(L, u, LiveStack) /\ u \in Int /\ Above \in Nat /\ Below \in Nat
  BY StandsShown, SizesAssumption
<1>2. PICK t : t = u + n /\ t \in Int
  BY <1>1
<1>3. Held(L, p.sh, p.vsp, stackArray, t) /\ t <= Above
  BY <1>2
<1>4. PICK s, w : s = StackDepth(h.d) /\ w = ZeroExtend(v, s)
  OBVIOUS
<1>5. s \in PopDepths /\ s \in Nat /\ 8 \in PopDepths
  BY <1>4, OpsAre DEF PopDepths
<1>6. IsWide(w, s) /\ Extended(v, h.d) = Slot(w, s)
  BY <1>4, ExtendedIs
<1>7. PICK K, k : K = Put(L, t - s, w) /\ k = t - s /\ k \in Int /\ k <= Above
  <2>1. t - s \in Int /\ t - s <= Above
    BY <1>1, <1>2, <1>3, <1>5
  <2> QED  BY <2>1
<1>8. PICK M, m : M = Put(K, k - 8, f) /\ m = k - 8 /\ m \in Int
  BY <1>7
<1>9. PICK sh : sh = Append(Append(p.sh, Slot(w, s)), Slot(f, 8))
  OBVIOUS
<1>10. Held(M, sh, p.vsp, stackArray, m)
  <2>1. Held(K, Append(p.sh, Slot(w, s)), p.vsp, stackArray, k)
    BY <1>3, <1>5, <1>6, <1>7, PushHeld
  <2> QED  BY <1>5, <1>8, <1>9, <2>1, PushHeld
<1>11. sh = p.sh \o <<Extended(v, h.d), Slot(f, 8)>>
  <2>1. PICK S : p.sh \in Seq(S)
    BY <1>3 DEF Held, Neat, GoodStack
  <2> QED  BY <1>6, <1>9, <2>1, TwoPushed
<1>12. /\ shadowStack' = sh /\ executed' = <<h, consumed>> /\ pos' = pos + 1
       /\ p.vsp - DepthOf(sh) >= -Below
  BY <1>11 DEF Emit
<1>13. -Below <= m
  <2>1. m = p.vsp - DepthOf(sh)
    BY <1>10, HeldAt
  <2> QED  BY <1>1, <1>8, <1>12, <2>1
<1>14. LineInv' /\ VM!Step(h, n, View(M, m, Above - m), consumed) /\ ~Gone /\ ~Gone'
  <2>1. Held(M, shadowStack', vspLocal', stackArray', m)
    BY <1>10, <1>12
  <2>2. DOMAIN stackArray' = (-Below)..(Above - 1) /\ vspLocal' <= Above
    BY DEF Stands
  <2> QED  BY <1>12, <1>13, <2>1, <2>2, OnShown
<1>15. PICK rest : rest = SubSeq(LiveStack, n + 1, Len(LiveStack))
  OBVIOUS
<1>16. rest = View(L, t, Above - t) /\ IsWide(rest, Above - t)
  <2>1. n \in 0..(Above - u) /\ Above - t \in Nat
    BY <1>1, <1>2, <1>3
  <2>2. rest = View(L, t, Above - t)
    BY <1>1, <1>2, <1>15, <2>1 DEF Shown
  <2> QED  BY <2>1, <2>2, ViewWide
<1>17. w \o rest = View(K, k, Above - k)
  <2>1. w \o View(L, t, Above - t) = View(Put(L, t - s, w), t - s, Above - (t - s))
    BY <1>2, <1>3, <1>5, <1>6, BelowShown, ZenonT(60)
  <2> QED  BY <1>7, <1>16, <2>1, Zenon
<1>18. f \o View(K, k, Above - k) = View(M, m, Above - m)
  <2>1. 8 \in Nat
    OBVIOUS
  <2> QED  BY <1>7, <1>8, <2>1, BelowShown, SMTT(30)
<1>19. (f \o w) \o rest = View(M, m, Above - m)
  <2>1. (f \o w) \o rest = f \o (w \o rest)
    BY <1>6, <1>16, WideAssoc, SMTT(30)
  <2> QED  BY <1>17, <1>18, <2>1, Zenon
<1> QED  BY <1>4, <1>14, <1>15, <1>19

(* What the lifter makes of the operands that it popped.                   *)
AluParts(L, u, h, p, place, operands, result) ==
  /\ Pops(L, u, h, p, place)
  /\ operands = [i \in DOMAIN p.values |->
                   IF h.op \notin Binary /\ i = Len(p.values) THEN Trunc(p.values[i], 1)
                   ELSE Operand(h, p.values[i])]
  /\ result = IF h.op = "Add" THEN SumOf(operands[2], operands[1], pos + 1)
              ELSE Word("res", pos + 1, Len(operands[1]))
  /\ Emit(h, p, p.sh \o <<Extended(result, h.d), Slot(FlagsOf(pos + 1), 8)>>, operands)
  /\ status = "ok" /\ pos < MaxLength /\ status' = "ok"
  /\ vspLocal' = p.vsp /\ stackArray' = stackArray /\ virtualContext' = virtualContext

LEMMA AluPops ==
  ASSUME FInv, LineInv, NEW h \in Handlers, LiftVmAlu(h), ~cut'
  PROVE  \E L, u, p, place, operands, result : AluParts(L, u, h, p, place, operands, result)
<1>1. PICK p : p = PopAll(PopsOf(h))
  OBVIOUS
<1>2. PICK operands : operands = [i \in DOMAIN p.values |->
                                    IF h.op \notin Binary /\ i = Len(p.values) THEN Trunc(p.values[i], 1)
                                    ELSE Operand(h, p.values[i])]
  OBVIOUS
<1>3. PICK result : result = IF h.op = "Add" THEN SumOf(operands[2], operands[1], pos + 1)
                             ELSE Word("res", pos + 1, Len(operands[1]))
  OBVIOUS
<1>4. PtrSize = 8
  BY DEF PtrSize
<1>5. /\ Starts(h)
      /\ Emit(h, p, p.sh \o <<Extended(result, h.d), Slot(FlagsOf(pos + 1), 8)>>, operands)
      /\ vspLocal' = p.vsp /\ stackArray' = stackArray /\ status' = status
      /\ virtualContext' = virtualContext
  BY <1>1, <1>2, <1>3, <1>4 DEF LiftVmAlu
<1>6. status = "ok" /\ pos < MaxLength
  BY <1>5 DEF Starts
<1>7. ~cut /\ ~p.cuts
  BY <1>1, <1>5, NotCut
<1>8. PICK L, u, place : Pops(L, u, h, p, place)
  BY <1>1, <1>5, <1>7, PopsShown
<1>9. AluParts(L, u, h, p, place, operands, result)
  BY <1>2, <1>3, <1>5, <1>6, <1>8 DEF AluParts
<1> QED  BY <1>9

LEMMA OperandIs ==
  ASSUME NEW h \in Handlers, NEW L, NEW x \in Int
  PROVE  Operand(h, View(L, x, StackDepth(h.d))) = View(L, x, h.d)
<1>1. PICK n : n = StackDepth(h.d) /\ n \in Nat /\ h.d \in Nat /\ h.d <= n /\ (h.d # 1 => n = h.d)
  BY OpsAre DEF StackDepth
<1>2. Trunc(View(L, x, n), h.d) = View(L, x, h.d)
  BY <1>1, TruncOfView
<1>3. CASE h.d = 1
  BY <1>1, <1>2, <1>3 DEF Operand
<1>4. CASE h.d # 1
  BY <1>1, <1>4 DEF Operand
<1> QED  BY <1>3, <1>4

LEMMA ValuesAre ==
  ASSUME NEW L, NEW u, NEW h, NEW p, NEW place, Pops(L, u, h, p, place), NEW n \in Nat,
         Len(p.values) = n
  PROVE  DOMAIN p.values = 1..n
<1>1. PICK S, vs : vs = p.values /\ vs \in Seq(S)
  BY DEF Pops, PoppedAll
<1>2. DOMAIN vs = 1..Len(vs)
  BY <1>1
<1> QED  BY <1>1, <1>2

LEMMA BinarySim ==
  ASSUME FInv, LineInv, NEW h \in Handlers, LiftVmAlu(h), ~cut', h.op \in Binary
  PROVE  Simulates
<1>1. PICK L, u, p, place, operands, result : AluParts(L, u, h, p, place, operands, result)
  BY AluPops
<1>2. PICK n : n = StackDepth(h.d) /\ n \in PopDepths /\ n \in Nat
  BY OpsAre DEF PopDepths
<1>3. h.d \in Nat /\ h.d <= n /\ n > 0
  BY <1>2, OpsAre DEF StackDepth
<1>4. Pops(L, u, h, p, place) /\ Stands(L, u) /\ p.vsp <= Above
  BY <1>1 DEF AluParts, Pops
<1>5. /\ Len(p.values) = 2 /\ p.values[1] = View(L, u, n) /\ p.values[2] = View(L, u + n, n)
      /\ Held(L, p.sh, p.vsp, stackArray, u + (n + n)) /\ u \in Int /\ u + (n + n) <= Above
  <2>1. PopsOf(h) = <<n, n>>
    BY <1>2, PopsOfIs
  <2> QED  BY <1>2, <1>4, <2>1, TwoPopped
<1>6. PICK a, b : a = View(L, u + n, h.d) /\ b = View(L, u, h.d)
  OBVIOUS
<1>7. IsWide(a, h.d) /\ IsWide(b, h.d)
  BY <1>3, <1>6, ViewWide
<1>8. operands = <<b, a>>
  <2>1. DOMAIN p.values = 1..2
    BY <1>4, <1>5, ValuesAre
  <2>2. operands = [i \in 1..2 |-> Operand(h, p.values[i])]
    BY <1>1, <2>1 DEF AluParts
  <2>3. operands[1] = b /\ operands[2] = a
    <3>1. u + n \in Int /\ 1 \in 1..2 /\ 2 \in 1..2
      BY <1>2, <1>5
    <3> QED  BY <1>2, <1>5, <1>6, <2>2, <3>1, OperandIs
  <2>4. operands = [i \in 1..2 |-> operands[i]]
    BY <2>2
  <2> QED  BY <2>3, <2>4, TuplesAre
<1>9. result = IF h.op = "Add" THEN SumOf(a, b, pos + 1) ELSE Word("res", pos + 1, h.d)
  <2>1. operands[1] = b /\ operands[2] = a /\ Len(b) = h.d
    BY <1>7, <1>8 DEF IsWide
  <2> QED  BY <1>1, <2>1 DEF AluParts
<1>10. IsWide(result, h.d)
  BY <1>3, <1>7, <1>9, SumLen, WordWide
<1>11. PICK f : f = FlagsOf(pos + 1) /\ IsWide(f, 8)
  BY WordWide DEF FlagsOf, PtrSize
<1>12. PICK m : m = n + n /\ m = 2 * n /\ m \in Nat
  BY <1>2
<1>13. /\ LineInv' /\ ~Gone /\ ~Gone'
       /\ VM!Step(h, m, f \o ZeroExtend(result, n) \o SubSeq(LiveStack, m + 1, Len(LiveStack)),
                  <<b, a>>)
  <2>1. /\ Emit(h, p, p.sh \o <<Extended(result, h.d), Slot(f, 8)>>, <<b, a>>)
        /\ status = "ok" /\ pos < MaxLength /\ status' = "ok"
        /\ vspLocal' = p.vsp /\ stackArray' = stackArray
    BY <1>1, <1>8, <1>11 DEF AluParts
  <2> QED  BY <1>2, <1>4, <1>5, <1>10, <1>11, <1>12, <2>1, AluShown
<1>14. /\ m <= Len(LiveStack) /\ Trunc(LiveStack, h.d) = b
       /\ SubSeq(LiveStack, n + 1, n + h.d) = a
  <2>1. Shown(L, u, LiveStack) /\ Above \in Nat
    BY <1>1, <1>4, StandsShown, SizesAssumption DEF AluParts
  <2>2. /\ h.d \in 0..(Above - u) /\ n \in 0..(Above - u) /\ h.d \in 0..(Above - u - n)
        /\ m <= Above - u
    BY <1>2, <1>3, <1>5, <1>12, <2>1
  <2> QED  BY <1>6, <2>1, <2>2 DEF Shown
<1>15. VM!BinaryAlu(h)
  <2>1. /\ VM!StackDepth(h.d) = n /\ h.op \in VM!Binary
    BY <1>2, SameWords
  <2>2. /\ (IF Gone THEN <<>> ELSE LiveStack) = LiveStack
        /\ UNCHANGED <<IF Gone THEN <<>> ELSE virtualContext, ~Gone>>
    BY <1>1, <1>13, ContextShown DEF AluParts
  <2>3. /\ VM!Drop(2 * n) = SubSeq(LiveStack, m + 1, Len(LiveStack)) /\ VM!Under(n, h.d) = a
        /\ VM!Trunc(LiveStack, h.d) = b
    BY <1>12, <1>14, <2>2, SameWords DEF VM!Drop, VM!Under
  <2>4. result = IF h.op = "Add" THEN VM!SumOf(a, b, pos + 1) ELSE VM!Word("res", pos + 1, h.d)
    BY <1>9, SameWords
  <2>5. VM!Compute(h, 2 * n, result, <<b, a>>)
    <3>1. VM!FlagsOf(pos + 1) = f /\ VM!ZeroExtend(result, VM!StackDepth(h.d)) = ZeroExtend(result, n)
      BY <1>11, <2>1, SameWords
    <3> QED  BY <1>12, <1>13, <2>2, <2>3, <3>1 DEF VM!Compute
  <2> QED  BY <1>12, <1>14, <2>1, <2>2, <2>3, <2>4, <2>5 DEF VM!BinaryAlu
<1> QED  BY <1>13, <1>15 DEF Simulates, VM!Next

LEMMA ShiftSim ==
  ASSUME FInv, LineInv, NEW h \in Handlers, LiftVmAlu(h), ~cut', h.op \in Shift
  PROVE  Simulates
<1>1. PICK L, u, p, place, operands, result : AluParts(L, u, h, p, place, operands, result)
  BY AluPops
<1>2. PICK n : n = StackDepth(h.d) /\ n \in PopDepths /\ n \in Nat
  BY OpsAre DEF PopDepths
<1>3. h.d \in Nat /\ h.d <= n /\ n > 0 /\ h.op \notin Binary /\ h.op # "Add"
  BY <1>2, OpsAre DEF StackDepth, Binary, Shift
<1>4. Pops(L, u, h, p, place) /\ Stands(L, u) /\ p.vsp <= Above
  BY <1>1 DEF AluParts, Pops
<1>5. /\ Len(p.values) = 2 /\ p.values[1] = View(L, u, n) /\ p.values[2] = View(L, u + n, 2)
      /\ Held(L, p.sh, p.vsp, stackArray, u + (n + 2)) /\ u \in Int /\ u + (n + 2) <= Above
  <2>1. PopsOf(h) = <<n, 2>> /\ 2 \in PopDepths
    BY <1>2, PopsOfIs, PtrPops
  <2> QED  BY <1>2, <1>4, <2>1, TwoPopped
<1>6. PICK a, c : a = View(L, u, h.d) /\ c = View(L, u + n, 1)
  OBVIOUS
<1>7. IsWide(a, h.d)
  BY <1>3, <1>6, ViewWide
<1>8. operands = <<a, c>>
  <2>1. DOMAIN p.values = 1..2
    BY <1>4, <1>5, ValuesAre
  <2>2. operands = [i \in 1..2 |-> IF i = 2 THEN Trunc(p.values[i], 1) ELSE Operand(h, p.values[i])]
    BY <1>1, <1>3, <1>5, <2>1 DEF AluParts
  <2>3. operands[1] = a
    <3>1. operands[1] = Operand(h, p.values[1])
      BY <2>2
    <3> QED  BY <1>2, <1>5, <1>6, <3>1, OperandIs
  <2>4. operands[2] = c
    <3>1. operands[2] = Trunc(p.values[2], 1)
      BY <2>2
    <3>2. PICK x \in Int : x = u + n
      BY <1>2, <1>5
    <3>3. Trunc(View(L, x, 2), 1) = View(L, x, 1)
      BY TruncOfView
    <3> QED  BY <1>5, <1>6, <3>1, <3>2, <3>3
  <2>5. operands = [i \in 1..2 |-> operands[i]]
    BY <2>2
  <2> QED  BY <2>3, <2>4, <2>5, TuplesAre
<1>9. result = Word("res", pos + 1, h.d)
  <2>1. operands[1] = a /\ Len(a) = h.d
    BY <1>7, <1>8 DEF IsWide
  <2> QED  BY <1>1, <1>3, <2>1 DEF AluParts
<1>10. IsWide(result, h.d)
  BY <1>3, <1>9, WordWide
<1>11. PICK f : f = FlagsOf(pos + 1) /\ IsWide(f, 8)
  BY WordWide DEF FlagsOf, PtrSize
<1>12. PICK m : m = n + 2 /\ m \in Nat
  BY <1>2
<1>13. /\ LineInv' /\ ~Gone /\ ~Gone'
       /\ VM!Step(h, m, f \o ZeroExtend(result, n) \o SubSeq(LiveStack, m + 1, Len(LiveStack)),
                  <<a, c>>)
  <2>1. /\ Emit(h, p, p.sh \o <<Extended(result, h.d), Slot(f, 8)>>, <<a, c>>)
        /\ status = "ok" /\ pos < MaxLength /\ status' = "ok"
        /\ vspLocal' = p.vsp /\ stackArray' = stackArray
    BY <1>1, <1>8, <1>11 DEF AluParts
  <2> QED  BY <1>2, <1>4, <1>5, <1>10, <1>11, <1>12, <2>1, AluShown
<1>14. Trunc(LiveStack, h.d) = a /\ SubSeq(LiveStack, n + 1, n + 1) = c
  <2>1. Shown(L, u, LiveStack) /\ Above \in Nat
    BY <1>1, <1>4, StandsShown, SizesAssumption DEF AluParts
  <2>2. h.d \in 0..(Above - u) /\ n \in 0..(Above - u) /\ 1 \in 0..(Above - u - n)
    BY <1>2, <1>3, <1>5, <2>1
  <2> QED  BY <1>6, <2>1, <2>2 DEF Shown
<1>15. VM!ShiftAlu(h)
  <2>1. /\ VM!StackDepth(h.d) = n /\ h.op \in VM!Shift
    BY <1>2, SameWords
  <2>2. /\ (IF Gone THEN <<>> ELSE LiveStack) = LiveStack
        /\ UNCHANGED <<IF Gone THEN <<>> ELSE virtualContext, ~Gone>>
    BY <1>1, <1>13, ContextShown DEF AluParts
  <2>3. /\ VM!Drop(m) = SubSeq(LiveStack, m + 1, Len(LiveStack)) /\ VM!Under(n, 1) = c
        /\ VM!Trunc(LiveStack, h.d) = a
    BY <1>14, <2>2, SameWords DEF VM!Drop, VM!Under
  <2>4. result = VM!Word("res", pos + 1, h.d)
    BY <1>9, SameWords
  <2>5. VM!Compute(h, m, result, <<a, c>>)
    <3>1. VM!FlagsOf(pos + 1) = f /\ VM!ZeroExtend(result, VM!StackDepth(h.d)) = ZeroExtend(result, n)
      BY <1>11, <2>1, SameWords
    <3> QED  BY <1>13, <2>2, <2>3, <3>1 DEF VM!Compute
  <2> QED  BY <1>12, <2>1, <2>2, <2>3, <2>4, <2>5 DEF VM!ShiftAlu
<1> QED  BY <1>13, <1>15 DEF Simulates, VM!Next

LEMMA DoubleShiftSim ==
  ASSUME FInv, LineInv, NEW h \in Handlers, LiftVmAlu(h), ~cut', h.op \in DoubleShift
  PROVE  Simulates
<1>1. PICK L, u, p, place, operands, result : AluParts(L, u, h, p, place, operands, result)
  BY AluPops
<1>2. PICK n : n = StackDepth(h.d) /\ n \in PopDepths /\ n \in Nat
  BY OpsAre DEF PopDepths
<1>3. h.d \in Nat /\ h.d <= n /\ n > 0 /\ h.op \notin Binary /\ h.op # "Add"
  BY <1>2, OpsAre DEF StackDepth, Binary, DoubleShift
<1>4. Pops(L, u, h, p, place) /\ Stands(L, u) /\ p.vsp <= Above
  BY <1>1 DEF AluParts, Pops
<1>5. /\ Len(p.values) = 3 /\ p.values[1] = View(L, u, n) /\ p.values[2] = View(L, u + n, n)
      /\ p.values[3] = View(L, u + (n + n), 2)
      /\ Held(L, p.sh, p.vsp, stackArray, u + (n + n + 2)) /\ u \in Int /\ u + (n + n + 2) <= Above
  <2>1. PopsOf(h) = <<n, n, 2>> /\ 2 \in PopDepths
    BY <1>2, PopsOfIs, PtrPops
  <2> QED  BY <1>2, <1>4, <2>1, ThreePopped
<1>6. PICK a, b, c : a = View(L, u, h.d) /\ b = View(L, u + n, h.d) /\ c = View(L, u + (n + n), 1)
  OBVIOUS
<1>7. IsWide(a, h.d)
  BY <1>3, <1>6, ViewWide
<1>8. operands = <<a, b, c>>
  <2>1. DOMAIN p.values = 1..3
    BY <1>4, <1>5, ValuesAre
  <2>2. operands = [i \in 1..3 |-> IF i = 3 THEN Trunc(p.values[i], 1) ELSE Operand(h, p.values[i])]
    BY <1>1, <1>3, <1>5, <2>1 DEF AluParts
  <2>3. operands[1] = a /\ operands[2] = b
    <3>1. operands[1] = Operand(h, p.values[1]) /\ operands[2] = Operand(h, p.values[2])
      BY <2>2
    <3>2. u + n \in Int
      BY <1>2, <1>5
    <3> QED  BY <1>2, <1>5, <1>6, <3>1, <3>2, OperandIs
  <2>4. operands[3] = c
    <3>1. operands[3] = Trunc(p.values[3], 1)
      BY <2>2
    <3>2. PICK x \in Int : x = u + (n + n)
      BY <1>2, <1>5
    <3>3. Trunc(View(L, x, 2), 1) = View(L, x, 1)
      BY TruncOfView
    <3> QED  BY <1>5, <1>6, <3>1, <3>2, <3>3
  <2>5. operands = [i \in 1..3 |-> operands[i]]
    BY <2>2
  <2> QED  BY <2>3, <2>4, <2>5, TuplesAre
<1>9. result = Word("res", pos + 1, h.d)
  <2>1. operands[1] = a /\ Len(a) = h.d
    BY <1>7, <1>8 DEF IsWide
  <2> QED  BY <1>1, <1>3, <2>1 DEF AluParts
<1>10. IsWide(result, h.d)
  BY <1>3, <1>9, WordWide
<1>11. PICK f : f = FlagsOf(pos + 1) /\ IsWide(f, 8)
  BY WordWide DEF FlagsOf, PtrSize
<1>12. PICK k, m : k = n + n /\ k = 2 * n /\ m = n + n + 2 /\ m = k + 2 /\ k \in Nat /\ m \in Nat
  BY <1>2
<1>13. /\ LineInv' /\ ~Gone /\ ~Gone'
       /\ VM!Step(h, m, f \o ZeroExtend(result, n) \o SubSeq(LiveStack, m + 1, Len(LiveStack)),
                  <<a, b, c>>)
  <2>1. /\ Emit(h, p, p.sh \o <<Extended(result, h.d), Slot(f, 8)>>, <<a, b, c>>)
        /\ status = "ok" /\ pos < MaxLength /\ status' = "ok"
        /\ vspLocal' = p.vsp /\ stackArray' = stackArray
    BY <1>1, <1>8, <1>11 DEF AluParts
  <2> QED  BY <1>2, <1>4, <1>5, <1>10, <1>11, <1>12, <2>1, AluShown
<1>14. /\ Trunc(LiveStack, h.d) = a /\ SubSeq(LiveStack, n + 1, n + h.d) = b
       /\ SubSeq(LiveStack, k + 1, k + 1) = c
  <2>1. Shown(L, u, LiveStack) /\ Above \in Nat
    BY <1>1, <1>4, StandsShown, SizesAssumption DEF AluParts
  <2>2. /\ h.d \in 0..(Above - u) /\ n \in 0..(Above - u) /\ h.d \in 0..(Above - u - n)
        /\ k \in 0..(Above - u) /\ 1 \in 0..(Above - u - k)
    BY <1>2, <1>3, <1>5, <1>12, <2>1
  <2>3. c = View(L, u + k, 1)
    BY <1>6, <1>12
  <2> QED  BY <1>6, <2>1, <2>2, <2>3 DEF Shown
<1>15. VM!DoubleShiftAlu(h)
  <2>1. /\ VM!StackDepth(h.d) = n /\ h.op \in VM!DoubleShift
    BY <1>2, SameWords
  <2>2. /\ (IF Gone THEN <<>> ELSE LiveStack) = LiveStack
        /\ UNCHANGED <<IF Gone THEN <<>> ELSE virtualContext, ~Gone>>
    BY <1>1, <1>13, ContextShown DEF AluParts
  <2>3. /\ VM!Drop(m) = SubSeq(LiveStack, m + 1, Len(LiveStack)) /\ VM!Under(n, h.d) = b
        /\ VM!Under(k, 1) = c /\ VM!Trunc(LiveStack, h.d) = a
    BY <1>14, <2>2, SameWords DEF VM!Drop, VM!Under
  <2>4. result = VM!Word("res", pos + 1, h.d)
    BY <1>9, SameWords
  <2>5. VM!Compute(h, m, result, <<a, b, c>>)
    <3>1. VM!FlagsOf(pos + 1) = f /\ VM!ZeroExtend(result, VM!StackDepth(h.d)) = ZeroExtend(result, n)
      BY <1>11, <2>1, SameWords
    <3> QED  BY <1>13, <2>2, <2>3, <3>1 DEF VM!Compute
  <2> QED  BY <1>12, <2>1, <2>2, <2>3, <2>4, <2>5 DEF VM!DoubleShiftAlu
<1> QED  BY <1>13, <1>15 DEF Simulates, VM!Next

-----------------------------------------------------------------------------
(* The machine is left with words that it pops one after the other.        *)
LEMMA WordPlaces ==
  ASSUME NEW m \in Nat, NEW place, place[0] = 0, \A i \in 1..m : place[i] = place[i - 1] + 8
  PROVE  \A i \in 0..m : place[i] = 8 * i
<1> DEFINE T == {i \in 0..m : place[i] # 8 * i}
<1>1. SUFFICES ASSUME T # {} PROVE FALSE
  OBVIOUS
<1>2. PICK i \in T : \A k \in T : i <= k
  <2> HIDE DEF T
  <2>1. T \subseteq Nat
    BY DEF T
  <2> QED  BY <1>1, <2>1, LeastNumber
<1>3. i \in 0..m /\ place[i] # 8 * i
  OBVIOUS
<1>4. PICK k : k = i - 1 /\ k \in 0..m /\ i \in 1..m /\ i = k + 1
  <2>1. i # 0
    BY <1>3
  <2> QED  BY <1>3, <2>1
<1>5. place[k] = 8 * k
  <2>1. k \notin T
    <3> HIDE DEF T
    <3> QED  BY <1>2, <1>4
  <2> QED  BY <1>4, <2>1
<1> QED  BY <1>3, <1>4, <1>5

LEMMA ExitSim ==
  ASSUME FInv, LineInv, NEW h \in Handlers, LiftVmExit(h), ~cut'
  PROVE  Simulates
<1>1. PICK p : p = PopAll(PopsOf(h))
  OBVIOUS
<1>2. /\ h.op = "Exit" /\ Starts(h) /\ Emit(h, p, <<>>, p.values) /\ status' = "exit"
  BY <1>1 DEF LiftVmExit
<1>3. status = "ok" /\ pos < MaxLength
  BY <1>2 DEF Starts
<1>4. ~cut /\ ~p.cuts
  BY <1>1, <1>2, NotCut
<1>5. PICK L, u, place : Pops(L, u, h, p, place)
  BY <1>1, <1>2, <1>4, PopsShown
<1>6. PICK r : r = Len(ExitRegs) + 2 /\ r \in Nat
  BY RegsAssumption, LenProperties
<1>7. PopsOf(h) = [i \in 1..r |-> 8] /\ Len(PopsOf(h)) = r
  BY <1>2, <1>6, PtrPops
<1>8. /\ place[0] = 0 /\ \A i \in 1..r : place[i] = place[i - 1] + 8
      /\ Len(p.values) = r /\ \A i \in 1..r : p.values[i] = View(L, u + place[i - 1], 8)
  <2>1. \A i \in 1..r : PopsOf(h)[i] = 8
    BY <1>7
  <2>2. /\ PoppedAll(L, p, PopsOf(h), r, place, u)
    BY <1>5, <1>7 DEF Pops
  <2> QED  BY <2>1, <2>2 DEF PoppedAll, Places
<1>9. \A i \in 0..r : place[i] = 8 * i
  BY <1>6, <1>8, WordPlaces
<1>10. Shown(L, u, LiveStack) /\ u \in Int /\ Above \in Nat /\ Below \in Nat /\ ~Gone
  BY <1>3, <1>5, StandsShown, SizesAssumption DEF Pops
<1>11. u + 8 * r <= Above
  <2>1. u + place[r] <= p.vsp /\ p.vsp <= Above /\ p.vsp \in Int
    BY <1>5, <1>7 DEF Pops
  <2>2. place[r] = 8 * r
    BY <1>6, <1>9
  <2> QED  BY <1>6, <1>10, <2>1, <2>2
<1>12. PICK live : live = LiveStack
  OBVIOUS
<1>13. Len(live) = Above - u /\ 8 * r <= Len(live)
  BY <1>6, <1>10, <1>11, <1>12 DEF Shown
<1>14. p.values = [i \in 1..r |-> SubSeq(live, 8 * (i - 1) + 1, 8 * (i - 1) + 8)]
  <2>1. PICK S, vs : vs = p.values /\ vs \in Seq(S)
    BY <1>5 DEF Pops, PoppedAll
  <2>2. vs = [i \in 1..r |-> vs[i]]
    BY <1>8, <2>1
  <2>3. ASSUME NEW i \in 1..r PROVE vs[i] = SubSeq(live, 8 * (i - 1) + 1, 8 * (i - 1) + 8)
    <3>1. PICK a : a = 8 * (i - 1) /\ a \in 0..(Above - u) /\ 8 \in 0..(Above - u - a)
      <4>1. 8 * (i - 1) \in 0..(Above - u) /\ 8 \in 0..(Above - u - 8 * (i - 1))
        BY <1>6, <1>10, <1>11
      <4> QED  BY <4>1
    <3>2. SubSeq(live, a + 1, a + 8) = View(L, u + a, 8)
      BY <1>10, <1>12, <3>1 DEF Shown
    <3>3. place[i - 1] = a
      <4>1. i - 1 \in 0..r
        BY <1>6
      <4> QED  BY <1>9, <3>1, <4>1
    <3> QED  BY <1>8, <2>1, <3>1, <3>2, <3>3
  <2> QED  BY <2>1, <2>2, <2>3
<1>15. Gone'
  BY <1>2 DEF Gone
<1>16. VM!Step(h, 8 * r, <<>>, p.values)
  <2>1. Len(<<>>) <= Above + Below
    BY <1>10
  <2>2. (IF Gone THEN <<>> ELSE LiveStack) = live /\ (IF Gone THEN <<>> ELSE LiveStack)' = <<>>
    BY <1>10, <1>12, <1>15
  <2>3. executed' = <<h, p.values>> /\ pos' = pos + 1
    BY <1>2 DEF Emit
  <2> QED  BY <1>3, <1>10, <1>13, <2>1, <2>2, <2>3 DEF VM!Step
<1>17. VM!Exit(h)
  <2>1. (IF Gone THEN <<>> ELSE LiveStack) = live /\ (IF Gone THEN <<>> ELSE virtualContext)' = <<>>
    BY <1>10, <1>12, <1>15
  <2> QED  BY <1>2, <1>6, <1>14, <1>15, <1>16, <2>1, SameWords DEF VM!Exit, VM!Under, PtrSize
<1>18. LineInv'
  BY <1>2 DEF LineInv
<1> QED  BY <1>17, <1>18 DEF Simulates, VM!Next

(* The function ends where the machine goes on.                            *)
LEMMA EndSim == ASSUME LineInv, EndFunction, ~cut' PROVE Simulates
<1>1. PICK m : m = FlushVspToMemory(shadowStack, vspLocal)
  OBVIOUS
<1>2. /\ status = "ok" /\ status' = "end" /\ shadowStack' = <<>> /\ stackArray' = m.array
      /\ vspPtr' = m.vsp /\ UNCHANGED <<virtualContext, pos, executed, cut>>
  BY <1>1 DEF EndFunction, Return, Published
<1>3. PICK L, u : Stands(L, u)
  BY <1>2 DEF LineInv
<1>4. Shown(L, u, LiveStack) /\ u \in Int /\ u <= Above /\ ~Gone
  BY <1>2, <1>3, StandsShown
<1>5. m.vsp = u /\ Held(L, <<>>, u, m.array, u)
  BY <1>1, <1>3, FlushStored DEF Stands
<1>6. LiveStack' = View(L, u, Above - u)
  <2>1. Base' = u
    BY <1>2, <1>5 DEF Base, Returned
  <2>2. Held(L, shadowStack', Base', stackArray', u) /\ Base' <= Above
    BY <1>2, <1>4, <1>5, <2>1
  <2> QED  BY <2>2, LiveIs, LiveIsView
<1>7. LiveStack' = LiveStack
  BY <1>4, <1>6 DEF Shown
<1>8. ~Gone'
  BY <1>2 DEF Gone
<1>9. /\ UNCHANGED <<~Gone, IF Gone THEN <<>> ELSE virtualContext>>
      /\ UNCHANGED (IF Gone THEN <<>> ELSE LiveStack)
  BY <1>2, <1>4, <1>7, <1>8
<1>10. LineInv'
  BY <1>2 DEF LineInv
<1> QED  BY <1>2, <1>9, <1>10 DEF Simulates, VM!vars

LEMMA InitSim == ASSUME Init PROVE LineInv /\ VM!Init
<1>1. /\ vspLocal = 0 /\ shadowStack = <<>> /\ status = "ok" /\ pos = 0 /\ executed = <<>>
      /\ stackArray = [x \in (-Below)..(Above - 1) |-> Initially(x)]
      /\ virtualContext = Word("ctx", 0, ContextSize)
  BY DEF Init
<1>2. Above \in Nat /\ Below \in Nat
  BY SizesAssumption
<1>3. PICK L : L = [x \in Int |-> Memory(stackArray, x)]
  OBVIOUS
<1>4. Held(L, <<>>, 0, stackArray, 0)
  <2>1. Line(L) /\ \A x \in Int : x >= 0 => L[x] = Memory(stackArray, x)
    BY <1>3 DEF Line
  <2> QED  BY <2>1, EmptyHeld
<1>5. Stands(L, 0)
  <2>1. -Below <= 0 /\ 0 <= Above
    BY <1>2
  <2> QED  BY <1>1, <1>4, <2>1 DEF Stands
<1>6. Shown(L, 0, LiveStack) /\ ~Gone
  BY <1>1, <1>5, StandsShown
<1>7. LiveStack = Word("mem", 0, Above)
  <2>1. LiveStack = View(L, 0, Above)
    BY <1>2, <1>6 DEF Shown
  <2>2. ASSUME NEW k \in 1..Above PROVE L[0 + k - 1] = <<"mem", 0, k>>
    <3>1. PICK x : x = 0 + k - 1 /\ x \in (-Below)..(Above - 1) /\ x \in Int /\ x + 1 = k
      BY <1>2
    <3>2. L[x] = stackArray[x] /\ stackArray[x] = Initially(x)
      BY <1>1, <1>3, <3>1 DEF Memory
    <3> QED  BY <3>1, <3>2 DEF Initially
  <2> QED  BY <2>1, <2>2 DEF View, Word
<1>8. VM!Init
  BY <1>1, <1>6, <1>7, SameWords DEF VM!Init
<1> QED  BY <1>5, <1>8 DEF LineInv

-----------------------------------------------------------------------------
(* The frame of an entry: every register pushed has a place in             *)
(* virtual_ctx, as those that NativeContext names have, so that the frame  *)
(* is the one of the machine.                                              *)
Indexed == \A i \in 1..Len(EntryRegs) : EntryRegs[i] # -1

(* Parts of one width lie at its multiples.                                *)
PartsOf(S, s, m, w) ==
  /\ Len(s) = m /\ (m = 0 => s = <<>>)
  /\ \A i \in 1..m : s[i] \in Seq(S) /\ Len(s[i]) = w
InRow(flat, S, s, m, w) ==
  /\ flat \in Seq(S) /\ Len(flat) = w * m
  /\ \A i \in 1..m : \A k \in 1..w : flat[w * (i - 1) + k] = s[i][k]

LEMMA FlatParts ==
  ASSUME NEW S, NEW m \in Nat, NEW s, NEW w \in {1, 8}, PartsOf(S, s, m, w)
  PROVE  InRow(FlattenSeq(s), S, s, m, w)
<1>1. PICK end : end = [i \in 0..m |-> w * i]
  OBVIOUS
<1>2. end[0] = 0 /\ end[m] = w * m /\ \A i \in 1..m : end[i] = w * i /\ end[i - 1] = w * (i - 1)
  <2>1. 0 \in 0..m /\ m \in 0..m /\ \A i \in 1..m : i \in 0..m /\ i - 1 \in 0..m
    OBVIOUS
  <2>2. w * 0 = 0
    OBVIOUS
  <2> QED  BY <1>1, <2>1, <2>2
<1>3. \A i \in 1..m : w * i = w * (i - 1) + w
  <2>1. CASE w = 1
    BY <2>1
  <2>2. CASE w = 8
    BY <2>2
  <2> QED  BY <2>1, <2>2
<1>4. Ends(S, s, m, end)
  BY <1>2, <1>3 DEF Ends, PartsOf
<1>5. IsFlat(FlattenSeq(s), S, s, m, end)
  BY <1>4, FlattenIs
<1>6. PICK flat : flat = FlattenSeq(s)
  OBVIOUS
<1>7. /\ flat \in Seq(S) /\ Len(flat) = end[m]
      /\ \A i \in 1..m : \A k \in 1..Len(s[i]) : flat[end[i - 1] + k] = s[i][k]
  BY <1>5, <1>6 DEF IsFlat
<1>8. ASSUME NEW i \in 1..m, NEW k \in 1..w PROVE flat[w * (i - 1) + k] = s[i][k]
  <2>1. flat[end[i - 1] + k] = s[i][k]
    BY <1>7 DEF PartsOf
  <2>2. end[i - 1] = w * (i - 1)
    BY <1>2
  <2> QED  BY <2>1, <2>2
<1> QED  BY <1>2, <1>6, <1>7, <1>8 DEF InRow

(* The slots of the frame, in the order in which they are pushed.          *)
EntrySlot(j) ==
  IF j <= 2 THEN Slot(Word("cst", 0, 8), 8)
  ELSE IF j <= Len(EntryRegs) + 2 THEN Slot(NativeReg(EntryRegs[j - 2]), 8)
  ELSE Slot(ImageBaseDif, 8)

LEMMA EntrySlotIs == \A j : EntrySlot(j).depth = 8 /\ IsWide(EntrySlot(j).value, 8)
<1>1. \A id : IsWide(Word("cst", id, 8), 8) /\ IsWide(Word("nat", id, 8), 8)
  BY WordWide
<1> QED  BY <1>1 DEF EntrySlot, Slot, NativeReg, ImageBaseDif, PtrSize

LEMMA EntryStack ==
  ASSUME Indexed, NEW h, LiftVmEntry(h), NEW r, r = Len(EntryRegs), NEW S, shadowStack \in Seq(S)
  PROVE  /\ shadowStack' \in Seq(S \cup {EntrySlot(j) : j \in 1..(r + 3)})
         /\ Len(shadowStack') = Len(shadowStack) + (r + 3)
         /\ \A i \in 1..Len(shadowStack) : shadowStack'[i] = shadowStack[i]
         /\ \A j \in 1..(r + 3) : shadowStack'[Len(shadowStack) + j] = EntrySlot(j)
<1>1. r \in Nat
  BY RegsAssumption
<1>2. PICK zero, dif : zero = Slot(Word("cst", 0, 8), 8) /\ dif = Slot(ImageBaseDif, 8)
  OBVIOUS
<1>3. PICK regs : regs = [i \in 1..r |-> IF EntryRegs[i] = -1 THEN <<>>
                                        ELSE <<Slot(NativeReg(EntryRegs[i]), 8)>>]
  OBVIOUS
<1>4. PICK flat, sh : flat = FlattenSeq(regs) /\ sh = shadowStack
  OBVIOUS
<1>5. PICK x, y : x = sh \o <<zero, zero>> /\ y = x \o flat
  OBVIOUS
<1>6. shadowStack' = y \o <<dif>>
  BY <1>2, <1>3, <1>4, <1>5 DEF LiftVmEntry, Emit, PtrSize
<1>7. PICK U : U = S \cup {EntrySlot(j) : j \in 1..(r + 3)}
  OBVIOUS
<1>8. /\ zero \in U /\ dif \in U /\ \A i \in 1..r : Slot(NativeReg(EntryRegs[i]), 8) \in U
      /\ EntrySlot(1) = zero /\ EntrySlot(2) = zero /\ EntrySlot(r + 3) = dif
      /\ \A i \in 1..r : EntrySlot(i + 2) = Slot(NativeReg(EntryRegs[i]), 8)
  <2>1. EntrySlot(1) = zero /\ EntrySlot(2) = zero /\ EntrySlot(r + 3) = dif
    BY <1>1, <1>2 DEF EntrySlot
  <2>2. \A i \in 1..r : EntrySlot(i + 2) = Slot(NativeReg(EntryRegs[i]), 8)
    BY <1>1 DEF EntrySlot
  <2>3. 1 \in 1..(r + 3) /\ r + 3 \in 1..(r + 3) /\ \A i \in 1..r : i + 2 \in 1..(r + 3)
    BY <1>1
  <2> QED  BY <1>7, <2>1, <2>2, <2>3
<1>9. /\ flat \in Seq(U) /\ Len(flat) = r
      /\ \A i \in 1..r : flat[i] = EntrySlot(i + 2)
  <2>1. \A i \in 1..r : regs[i] = <<EntrySlot(i + 2)>>
    BY <1>3, <1>8 DEF Indexed
  <2>2. \A i \in 1..r : regs[i] \in Seq(U) /\ Len(regs[i]) = 1 /\ regs[i][1] = EntrySlot(i + 2)
    <3> TAKE i \in 1..r
    <3>1. PICK e : e = EntrySlot(i + 2) /\ e \in U
      BY <1>8
    <3>2. <<e>> \in Seq(U) /\ Len(<<e>>) = 1 /\ <<e>>[1] = e
      BY <3>1
    <3> QED  BY <2>1, <3>1, <3>2
  <2>3. Len(regs) = r /\ (r = 0 => regs = <<>>)
    BY <1>1, <1>3
  <2>4. /\ flat \in Seq(U) /\ Len(flat) = 1 * r
        /\ \A i \in 1..r : \A k \in 1..1 : flat[1 * (i - 1) + k] = regs[i][k]
    <3>1. PartsOf(U, regs, r, 1)
      BY <2>2, <2>3 DEF PartsOf
    <3>2. InRow(flat, U, regs, r, 1)
      BY <1>1, <1>4, <3>1, FlatParts
    <3> QED  BY <3>2 DEF InRow
  <2>5. 1 * r = r /\ \A i \in 1..r : 1 \in 1..1 /\ 1 * (i - 1) + 1 = i
    BY <1>1
  <2>6. \A i \in 1..r : flat[i] = regs[i][1]
    BY <2>4, <2>5
  <2> QED  BY <2>2, <2>4, <2>5, <2>6
<1>10. sh \in Seq(U) /\ <<zero, zero>> \in Seq(U) /\ <<dif>> \in Seq(U)
  BY <1>4, <1>7, <1>8, SeqMonotonic
<1>11. PICK n : n = Len(sh) /\ n \in Nat
  BY <1>10, LenProperties
<1>12. /\ x \in Seq(U) /\ Len(x) = n + 2 /\ x[n + 1] = zero /\ x[n + 2] = zero
       /\ \A i \in 1..n : x[i] = sh[i]
  <2>1. Len(<<zero, zero>>) = 2 /\ <<zero, zero>>[1] = zero /\ <<zero, zero>>[2] = zero
    OBVIOUS
  <2>2. /\ x \in Seq(U) /\ Len(x) = n + 2
        /\ \A i \in 1..(n + 2) : x[i] = IF i <= n THEN sh[i] ELSE <<zero, zero>>[i - n]
    BY <1>5, <1>10, <1>11, <2>1, ConcatProperties
  <2>3. /\ n + 1 \in 1..(n + 2) /\ ~(n + 1 <= n) /\ (n + 1) - n = 1
        /\ n + 2 \in 1..(n + 2) /\ ~(n + 2 <= n) /\ (n + 2) - n = 2
        /\ \A i \in 1..n : i \in 1..(n + 2) /\ i <= n
    BY <1>11
  <2> QED  BY <2>1, <2>2, <2>3
<1>13. /\ y \in Seq(U) /\ Len(y) = n + 2 + r
       /\ \A i \in 1..(n + 2 + r) : y[i] = IF i <= n + 2 THEN x[i] ELSE flat[i - (n + 2)]
  <2>1. PICK l : l = n + 2 /\ l \in Nat
    BY <1>11
  <2>2. Len(x) = l /\ x \in Seq(U)
    BY <1>12, <2>1
  <2>3. /\ y \in Seq(U) /\ Len(y) = l + r
        /\ \A i \in 1..(l + r) : y[i] = IF i <= l THEN x[i] ELSE flat[i - l]
    <3>1. PICK f : f = flat /\ f \in Seq(U) /\ Len(f) = r
      BY <1>9
    <3>2. /\ x \o f \in Seq(U) /\ Len(x \o f) = Len(x) + Len(f)
          /\ \A i \in 1..(Len(x) + Len(f)) :
               (x \o f)[i] = IF i <= Len(x) THEN x[i] ELSE f[i - Len(x)]
      BY <2>2, <3>1, ConcatProperties
    <3>3. y = x \o f
      BY <1>5, <3>1
    <3> QED  BY <2>2, <3>1, <3>2, <3>3, Zenon
  <2> QED  BY <2>1, <2>3
<1>14. PICK z : z = shadowStack'
  OBVIOUS
<1>15. /\ z \in Seq(U) /\ Len(z) = n + 2 + r + 1
       /\ \A i \in 1..(n + 2 + r + 1) : z[i] = IF i <= n + 2 + r THEN y[i] ELSE <<dif>>[i - (n + 2 + r)]
  <2>1. Len(<<dif>>) = 1
    OBVIOUS
  <2> QED  BY <1>6, <1>10, <1>13, <1>14, <2>1, ConcatProperties
<1>16. \A i \in 1..n : z[i] = sh[i]
  <2> TAKE i \in 1..n
  <2>1. i \in 1..(n + 2 + r + 1) /\ i <= n + 2 + r /\ i \in 1..(n + 2 + r) /\ i <= n + 2
    BY <1>1, <1>11
  <2> QED  BY <1>12, <1>13, <1>15, <2>1
<1>17. \A j \in 1..(r + 3) : z[n + j] = EntrySlot(j)
  <2> TAKE j \in 1..(r + 3)
  <2>1. CASE j = 1 \/ j = 2
    <3>1. n + j \in 1..(n + 2 + r + 1) /\ n + j <= n + 2 + r /\ n + j \in 1..(n + 2 + r) /\ n + j <= n + 2
      BY <1>1, <1>11, <2>1
    <3>2. z[n + j] = x[n + j]
      BY <1>13, <1>15, <3>1
    <3> QED  BY <1>8, <1>12, <2>1, <3>2
  <2>2. CASE j \in 3..(r + 2)
    <3>1. /\ n + j \in 1..(n + 2 + r + 1) /\ n + j <= n + 2 + r /\ n + j \in 1..(n + 2 + r)
          /\ ~(n + j <= n + 2) /\ (n + j) - (n + 2) = j - 2 /\ j - 2 \in 1..r /\ (j - 2) + 2 = j
      BY <1>1, <1>11, <2>2
    <3>2. z[n + j] = flat[j - 2]
      BY <1>13, <1>15, <3>1
    <3> QED  BY <1>9, <3>1, <3>2
  <2>3. CASE j = r + 3
    <3>1. /\ n + j \in 1..(n + 2 + r + 1) /\ ~(n + j <= n + 2 + r) /\ (n + j) - (n + 2 + r) = 1
          /\ <<dif>>[1] = dif
      BY <1>1, <1>11, <2>3
    <3> QED  BY <1>8, <1>15, <2>3, <3>1
  <2> QED  BY <1>1, <2>1, <2>2, <2>3
<1>18. Len(z) = n + (r + 3)
  BY <1>1, <1>11, <1>15
<1> QED  BY <1>4, <1>7, <1>11, <1>14, <1>15, <1>16, <1>17, <1>18

(* The word below w has the addresses that the frame gives it.             *)
LEMMA WordAddress ==
  ASSUME NEW u \in Int, NEW m \in Nat, NEW j \in 1..m, NEW k \in 1..8,
         NEW w, w = u - 8 * m, NEW y, y = u - 8 * j + k - 1
  PROVE  /\ m + 1 - j \in 1..m /\ m + 1 - (m + 1 - j) = j
         /\ y \in Int /\ y \in w..(w + 8 * m - 1)
         /\ y - w + 1 = 8 * ((m + 1 - j) - 1) + k
<1>1. m + 1 - j \in 1..m /\ m + 1 - (m + 1 - j) = j
  OBVIOUS
<1>2. y \in Int /\ w \in Int /\ w <= y /\ y <= w + 8 * m - 1
  OBVIOUS
<1>3. y - w + 1 = 8 * ((m + 1 - j) - 1) + k
  OBVIOUS
<1> QED  BY <1>1, <1>2, <1>3

(* The slots of new, m words more than those of sh, whose bytes are flat.  *)
Framed(sh, m, new, flat) ==
  /\ \E S : new \in Seq(S)
  /\ Len(new) = Len(sh) + m /\ \A i \in 1..Len(sh) : new[i] = sh[i]
  /\ \A j \in 1..m : new[Len(sh) + j].depth = 8 /\ IsWide(new[Len(sh) + j].value, 8)
  /\ IsWide(flat, 8 * m)
  /\ \A i \in 1..m : \A k \in 1..8 : flat[8 * (i - 1) + k] = new[Len(sh) + (m + 1 - i)].value[k]

LEMMA EntryHeld ==
  ASSUME NEW L, NEW sh, NEW vsp, NEW arr, NEW u, Held(L, sh, vsp, arr, u),
         NEW m \in Nat, NEW new, NEW flat, Framed(sh, m, new, flat)
  PROVE  Held(Put(L, u - 8 * m, flat), new, vsp, arr, u - 8 * m)
<1>1. PICK e : Stand(L, sh, vsp, e) /\ u = e[Len(sh)] /\ Neat(sh)
  BY DEF Held
<1>2. PICK n : n = Len(sh) /\ n \in Nat
  BY <1>1, NeatSlot
<1>0. /\ Len(new) = n + m /\ \A i \in 1..n : new[i] = sh[i]
      /\ \A j \in 1..m : new[n + j].depth = 8 /\ IsWide(new[n + j].value, 8)
      /\ \A i \in 1..m : \A k \in 1..8 : flat[8 * (i - 1) + k] = new[n + (m + 1 - i)].value[k]
  BY <1>2 DEF Framed
<1>3. u \in Int /\ vsp \in Int /\ u <= vsp
  BY HeldAt, HeldBelow
<1>4. \A i \in 0..n : e[i] \in Int /\ u <= e[i]
  BY <1>1, <1>2, StandAbove
<1>5. PICK w, K : w = u - 8 * m /\ K = Put(L, w, flat) /\ w \in Int
  <2>1. u - 8 * m \in Int
    BY <1>3
  <2> QED  BY <2>1
<1>6. Len(flat) = 8 * m
  BY DEF IsWide, Framed
<1>7. /\ Line(K)
      /\ \A x \in Int : K[x] = IF x \in w..(w + 8 * m - 1) THEN flat[x - w + 1] ELSE L[x]
  BY <1>5, <1>6 DEF Put, Line
<1>8. \A x \in Int : x >= u => K[x] = L[x]
  <2> SUFFICES ASSUME NEW x \in Int, x >= u PROVE K[x] = L[x]
    OBVIOUS
  <2>1. x \notin w..(w + 8 * m - 1)
    BY <1>3, <1>5
  <2> QED  BY <1>7, <2>1
<1>9. PICK g : g = [i \in 0..(n + m) |-> IF i <= n THEN e[i] ELSE u - 8 * (i - n)]
  OBVIOUS
<1>10. /\ \A i \in 0..n : g[i] = e[i]
       /\ \A j \in 0..m : g[n + j] = u - 8 * j
  <2>1. \A i \in 0..n : i \in 0..(n + m) /\ i <= n
    BY <1>2
  <2>2. ASSUME NEW j \in 0..m PROVE g[n + j] = u - 8 * j
    <3>1. CASE j = 0
      <4>1. n + j = n /\ n \in 0..n /\ n \in 0..(n + m) /\ n <= n /\ u - 8 * j = u
        BY <1>2, <1>3, <3>1
      <4> QED  BY <1>1, <1>2, <1>9, <4>1
    <3>2. CASE j # 0
      <4>1. n + j \in 0..(n + m) /\ ~(n + j <= n) /\ (n + j) - n = j
        BY <1>2, <3>2
      <4> QED  BY <1>9, <4>1
    <3> QED  BY <3>1, <3>2
  <2> QED  BY <1>9, <2>1, <2>2
<1>11. ASSUME NEW i \in 1..(n + m), i > n
       PROVE  /\ new[i].depth = 8 /\ IsWide(new[i].value, 8)
              /\ g[i] \in Int /\ g[i - 1] = g[i] + new[i].depth
              /\ \A k \in 1..8 : new[i].value[k] = K[g[i] + k - 1]
  <2>1. PICK j : j = i - n /\ j \in 1..m /\ n + j = i /\ j \in 0..m /\ j - 1 \in 0..m /\ n + (j - 1) = i - 1
    <3>1. i \in Int /\ n < i /\ i <= n + m
      BY <1>2, <1>11
    <3>2. i - n \in 1..m /\ n + (i - n) = i /\ i - n \in 0..m
      BY <1>2, <3>1
    <3>3. (i - n) - 1 \in 0..m /\ n + ((i - n) - 1) = i - 1
      BY <1>2, <3>1
    <3> QED  BY <3>2, <3>3
  <2>2. new[i].depth = 8 /\ IsWide(new[i].value, 8)
    BY <1>0, <2>1
  <2>3. g[i] = u - 8 * j /\ g[i - 1] = u - 8 * (j - 1)
    BY <1>10, <2>1
  <2>4. g[i] \in Int /\ g[i - 1] = g[i] + 8
    <3>1. j \in Nat
      BY <2>1
    <3>2. u - 8 * j \in Int /\ u - 8 * (j - 1) = (u - 8 * j) + 8
      BY <1>3, <3>1
    <3> QED  BY <2>3, <3>2
  <2>5. ASSUME NEW k \in 1..8 PROVE new[i].value[k] = K[g[i] + k - 1]
    <3>1. PICK x : x = u - 8 * j + k - 1 /\ x = g[i] + k - 1
      BY <2>3
    <3>2. PICK l : l = m + 1 - j
      OBVIOUS
    <3>3. l \in 1..m /\ m + 1 - l = j /\ x \in Int /\ x \in w..(w + 8 * m - 1)
          /\ x - w + 1 = 8 * (l - 1) + k
      <4>1. u \in Int /\ j \in 1..m /\ w = u - 8 * m /\ x = u - 8 * j + k - 1
        BY <1>3, <1>5, <2>1, <3>1
      <4>2. /\ m + 1 - j \in 1..m /\ m + 1 - (m + 1 - j) = j
            /\ x \in Int /\ x \in w..(w + 8 * m - 1)
            /\ x - w + 1 = 8 * ((m + 1 - j) - 1) + k
        BY <4>1, WordAddress
      <4> QED  BY <3>2, <4>2
    <3>5. flat[8 * (l - 1) + k] = new[n + (m + 1 - l)].value[k]
      BY <1>0, <3>3
    <3>4. K[x] = flat[8 * (l - 1) + k]
      BY <1>7, <3>3
    <3> QED  BY <2>1, <3>1, <3>3, <3>4, <3>5
  <2> QED  BY <2>2, <2>3, <2>4, <2>5
<1>12. Stand(K, new, vsp, g)
  <2>1. g[0] = vsp
    <3>1. 0 \in 0..n /\ e[0] = vsp
      BY <1>1, <1>2 DEF Stand
    <3> QED  BY <1>10, <3>1
  <2>2. ASSUME NEW i \in 1..(n + m)
        PROVE  /\ g[i] \in Int /\ g[i - 1] = g[i] + new[i].depth
               /\ \A k \in 1..new[i].depth : new[i].value[k] = K[g[i] + k - 1]
    <3>1. CASE i > n
      BY <1>11, <3>1
    <3>2. CASE ~(i > n)
      <4>1. i \in 1..n /\ i \in 0..n /\ i - 1 \in 0..n
        BY <1>2, <3>2
      <4>2. /\ e[i] \in Int /\ e[i - 1] = e[i] + sh[i].depth /\ sh[i].depth \in Nat
            /\ \A k \in 1..sh[i].depth : sh[i].value[k] = L[e[i] + k - 1]
        BY <1>1, <1>2, <4>1, NeatSlot DEF Stand
      <4>3. new[i] = sh[i] /\ g[i] = e[i] /\ g[i - 1] = e[i - 1] /\ u <= e[i]
        BY <1>0, <1>2, <1>4, <1>10, <4>1
      <4>4. ASSUME NEW k \in 1..sh[i].depth PROVE K[e[i] + k - 1] = L[e[i] + k - 1]
        <5>1. e[i] + k - 1 \in Int /\ e[i] + k - 1 >= u
          BY <1>3, <4>2, <4>3
        <5> QED  BY <1>8, <5>1
      <4> QED  BY <4>2, <4>3, <4>4
    <3> QED  BY <3>1, <3>2
  <2> QED  BY <1>0, <1>3, <2>1, <2>2 DEF Stand
<1>13. Neat(new)
  <2>1. ASSUME NEW i \in 1..(n + m) PROVE new[i].depth \in PopDepths /\ GoodSlot(new[i], TRUE)
    <3>1. CASE i > n
      <4>1. new[i].depth = 8 /\ IsWide(new[i].value, 8)
        BY <1>11, <3>1
      <4>2. 8 \in Nat /\ 8 \in Widths /\ 8 \in PopDepths
        BY DEF Widths, PopDepths
      <4>3. Wide(new[i].value) /\ Len(new[i].value) = 8
        BY <4>1, <4>2, WideIs DEF IsWide
      <4> QED  BY <4>1, <4>2, <4>3 DEF GoodSlot
    <3>2. CASE ~(i > n)
      <4>1. i \in 1..n /\ new[i] = sh[i]
        BY <1>0, <1>2, <3>2
      <4>2. sh[i].depth \in PopDepths /\ GoodSlot(sh[i], TRUE)
        BY <1>1, <1>2, <4>1, SlotGood DEF Neat
      <4> QED  BY <4>1, <4>2
    <3> QED  BY <3>1, <3>2
  <2>2. PICK S : Len(new) = n + m /\ new \in Seq(S)
    BY <1>0 DEF Framed
  <2>3. GoodStack(new, TRUE)
    <3>1. PICK T : T = {new[i] : i \in 1..(n + m)}
      OBVIOUS
    <3>2. new \in Seq(T)
      <4>1. new = [i \in 1..(n + m) |-> new[i]] /\ n + m \in Nat
        BY <1>2, <2>2
      <4>2. \A i \in 1..(n + m) : new[i] \in T
        BY <3>1
      <4>3. new \in [1..(n + m) -> T]
        BY <4>1, <4>2
      <4> QED  BY <4>1, <4>3
    <3>3. \A s \in T : GoodSlot(s, TRUE)
      BY <2>1, <3>1
    <3> QED  BY <3>2, <3>3, SeqGood
  <2> QED  BY <2>1, <2>2, <2>3 DEF Neat
<1>14. g[Len(new)] = w
  <2>1. m \in 0..m /\ Len(new) = n + m
    BY <1>0
  <2> QED  BY <1>5, <1>10, <2>1
<1>15. \A x \in Int : x >= vsp => K[x] = Memory(arr, x)
  <2> SUFFICES ASSUME NEW x \in Int, x >= vsp PROVE K[x] = Memory(arr, x)
    OBVIOUS
  <2>1. x >= u
    BY <1>3
  <2> QED  BY <1>8, <2>1 DEF Held
<1>16. Held(K, new, vsp, arr, w)
  BY <1>7, <1>12, <1>13, <1>14, <1>15 DEF Held
<1> QED  BY <1>5, <1>16

LEMMA EntrySim ==
  ASSUME Indexed, FInv, LineInv, NEW h \in Handlers, LiftVmEntry(h), ~cut'
  PROVE  Simulates
<1>1. PICK p, new : p = PopAll(<<>>) /\ new = shadowStack'
  OBVIOUS
<1>2. /\ h.op = "Entry" /\ Starts(h) /\ Emit(h, p, new, <<>>)
      /\ vspLocal' = vspLocal /\ stackArray' = stackArray /\ status' = status
      /\ virtualContext' = virtualContext
  BY <1>1 DEF LiftVmEntry, Emit
<1>3. status = "ok" /\ pos < MaxLength
  BY <1>2 DEF Starts
<1>4. ~cut /\ p.vsp = vspLocal
  <2>1. cut' = (cut \/ p.cuts) /\ p.cuts = FALSE /\ cut \in BOOLEAN /\ p.vsp = vspLocal
    BY <1>1, <1>2, NoPops DEF Emit, FInv
  <2> QED  BY <2>1
<1>5. PICK L, u : Stands(L, u)
  BY <1>3, <1>4 DEF LineInv
<1>6. /\ Shown(L, u, LiveStack) /\ u \in Int /\ u <= Above /\ ~Gone
      /\ Above \in Nat /\ Below \in Nat
  BY <1>3, <1>5, StandsShown, SizesAssumption
<1>7. PICK r, m : r = Len(EntryRegs) /\ m = r + 3 /\ r \in Nat /\ m \in Nat
  <2>1. Len(EntryRegs) \in Nat /\ Len(EntryRegs) + 3 \in Nat
    BY RegsAssumption, LenProperties
  <2> QED  BY <2>1
<1>8. PICK frame : frame = [i \in 1..m |-> IF i = 1 THEN ImageBaseDif
                                           ELSE IF i <= r + 1 THEN NativeReg(EntryRegs[r + 2 - i])
                                           ELSE Word("cst", 0, PtrSize)]
  OBVIOUS
<1>9. \A i \in 1..m : frame[i] = EntrySlot(m + 1 - i).value
  <2> TAKE i \in 1..m
  <2>1. CASE i = 1
    <3>1. ~(m + 1 - i <= 2) /\ ~(m + 1 - i <= r + 2)
      BY <1>7, <2>1
    <3> QED  BY <1>7, <1>8, <2>1, <3>1 DEF EntrySlot, Slot
  <2>2. CASE i \in 2..(r + 1)
    <3>1. /\ ~(m + 1 - i <= 2) /\ m + 1 - i <= r + 2 /\ (m + 1 - i) - 2 = r + 2 - i
          /\ i # 1 /\ i <= r + 1
      BY <1>7, <2>2
    <3> QED  BY <1>7, <1>8, <3>1 DEF EntrySlot, Slot
  <2>3. CASE i \in (r + 2)..m
    <3>1. m + 1 - i <= 2 /\ i # 1 /\ ~(i <= r + 1)
      BY <1>7, <2>3
    <3> QED  BY <1>8, <3>1 DEF EntrySlot, Slot, PtrSize
  <2> QED  BY <1>7, <2>1, <2>2, <2>3
<1>10. \A i \in 1..m : IsWide(frame[i], 8)
  BY <1>9, EntrySlotIs
<1>11. PICK U : U = UNION {{frame[i][k] : k \in 1..8} : i \in 1..m}
  OBVIOUS
<1>12. \A i \in 1..m : frame[i] \in Seq(U) /\ Len(frame[i]) = 8
  <2> TAKE i \in 1..m
  <2>1. PICK v : v = frame[i]
    OBVIOUS
  <2>2. v = [k \in 1..8 |-> v[k]] /\ Len(v) = 8
    BY <1>10, <2>1, WideSeq
  <2>3. \A k \in 1..8 : v[k] \in U
    BY <1>11, <2>1
  <2>4. v \in [1..8 -> U]
    BY <2>2, <2>3
  <2> QED  BY <2>1, <2>2, <2>4
<1>13. PICK flat : flat = FlattenSeq(frame)
  OBVIOUS
<1>14. /\ flat \in Seq(U) /\ Len(flat) = 8 * m
       /\ \A i \in 1..m : \A k \in 1..8 : flat[8 * (i - 1) + k] = frame[i][k]
  <2>1. Len(frame) = m /\ (m = 0 => frame = <<>>) /\ 8 \in {1, 8}
    BY <1>7, <1>8
  <2>2. /\ FlattenSeq(frame) \in Seq(U) /\ Len(FlattenSeq(frame)) = 8 * m
        /\ \A i \in 1..m : \A k \in 1..8 : FlattenSeq(frame)[8 * (i - 1) + k] = frame[i][k]
    <3>1. PartsOf(U, frame, m, 8)
      BY <1>12, <2>1 DEF PartsOf
    <3>2. InRow(FlattenSeq(frame), U, frame, m, 8)
      BY <1>7, <3>1, FlatParts
    <3> QED  BY <3>2 DEF InRow
  <2> QED  BY <1>13, <2>2
<1>15. PICK sh, n : sh = shadowStack /\ n = Len(sh)
  OBVIOUS
<1>16. Framed(sh, m, new, flat)
  <2>1. PICK S : sh \in Seq(S)
    BY <1>5, <1>15 DEF Stands, Held, Neat, GoodStack
  <2>2. /\ new \in Seq(S \cup {EntrySlot(j) : j \in 1..(r + 3)})
        /\ Len(new) = n + (r + 3)
        /\ \A i \in 1..n : new[i] = sh[i]
        /\ \A j \in 1..(r + 3) : new[n + j] = EntrySlot(j)
    BY <1>1, <1>7, <1>15, <2>1, EntryStack
  <2>3. \A j \in 1..m : new[n + j].depth = 8 /\ IsWide(new[n + j].value, 8)
    BY <1>7, <2>2, EntrySlotIs
  <2>4. \A i \in 1..m : \A k \in 1..8 : flat[8 * (i - 1) + k] = new[n + (m + 1 - i)].value[k]
    <3> TAKE i \in 1..m
    <3>1. m + 1 - i \in 1..(r + 3)
      BY <1>7
    <3>2. new[n + (m + 1 - i)].value = frame[i]
      BY <1>9, <2>2, <3>1
    <3> QED  BY <1>14, <3>2
  <2>5. IsWide(flat, 8 * m)
    BY <1>14 DEF IsWide
  <2> QED  BY <1>7, <1>15, <2>2, <2>3, <2>4, <2>5 DEF Framed
<1>17. PICK b, w, K : b = 8 * m /\ b \in Nat /\ w = u - b /\ w \in Int /\ K = Put(L, w, flat)
  <2>1. 8 * m \in Nat /\ u - 8 * m \in Int
    BY <1>6, <1>7
  <2> QED  BY <2>1
<1>18. Held(K, new, vspLocal, stackArray, w)
  <2>1. Held(L, sh, vspLocal, stackArray, u)
    BY <1>5, <1>15 DEF Stands
  <2>2. Held(Put(L, u - 8 * m, flat), new, vspLocal, stackArray, u - 8 * m)
    BY <1>7, <1>16, <2>1, EntryHeld
  <2> QED  BY <1>17, <2>2
<1>19. -Below <= w
  <2>1. w = vspLocal - DepthOf(new)
    BY <1>18, HeldAt
  <2>2. p.vsp - DepthOf(new) >= -Below
    BY <1>2 DEF Emit
  <2> QED  BY <1>4, <1>6, <1>17, <2>1, <2>2
<1>20. LineInv' /\ ~Gone' /\ VM!Step(h, 0, View(K, w, Above - w), <<>>)
  <2>1. executed' = <<h, <<>>>> /\ pos' = pos + 1
    BY <1>2 DEF Emit
  <2>2. Held(K, shadowStack', vspLocal', stackArray', w)
    BY <1>1, <1>2, <1>18
  <2>3. /\ DOMAIN stackArray' = (-Below)..(Above - 1) /\ vspLocal' <= Above /\ status' = "ok"
        /\ 0 \in Nat /\ u + 0 <= Above
    BY <1>2, <1>3, <1>5, <1>6 DEF Stands
  <2> QED  BY <1>3, <1>5, <1>19, <2>1, <2>2, <2>3, OnShown
<1>21. flat \o LiveStack = View(K, w, Above - w)
  <2>1. LiveStack = View(L, u, Above - u)
    BY <1>6 DEF Shown
  <2>2. IsWide(flat, b)
    BY <1>14, <1>17 DEF IsWide
  <2>3. flat \o View(L, u, Above - u) = View(Put(L, u - b, flat), u - b, Above - (u - b))
    BY <1>6, <1>17, <2>2, BelowShown, SMTT(30)
  <2> QED  BY <1>17, <2>1, <2>3
<1>22. VM!Entry(h)
  <2>1. flat = VM!FlattenSeq(frame)
    BY <1>13 DEF FlattenSeq, VM!FlattenSeq
  <2>2. VM!Step(h, 0, VM!FlattenSeq(frame) \o LiveStack, <<>>)
    BY <1>20, <1>21, <2>1
  <2>3. /\ (IF Gone THEN <<>> ELSE LiveStack) = LiveStack
        /\ UNCHANGED <<IF Gone THEN <<>> ELSE virtualContext, ~Gone>>
    BY <1>2, <1>6, <1>20, ContextShown
  <2> QED  BY <1>2, <1>7, <1>8, <2>2, <2>3, SameWords DEF VM!Entry
<1> QED  BY <1>20, <1>22 DEF Simulates, VM!Next

-----------------------------------------------------------------------------
LEMMA NextSim ==
  ASSUME Regular, Indexed, FInv, LineInv, [Next]_vars
  PROVE  LineInv' /\ (cut' \/ status' = "badIR" \/ VM!Next \/ UNCHANGED VM!vars)
<1>1. CASE cut'
  BY <1>1 DEF LineInv
<1>2. CASE ~cut'
  <2>1. CASE EndFunction
    BY <1>2, <2>1, EndSim DEF Simulates
  <2>2. ASSUME NEW h \in Handlers, LiftHandler(h)
        PROVE  LineInv' /\ (status' = "badIR" \/ VM!Next \/ UNCHANGED VM!vars)
    <3>1. CASE CannotLift(h)
      <4>1. status' = "badIR"
        BY <3>1 DEF CannotLift
      <4> QED  BY <4>1 DEF LineInv
    <3>2. CASE LiftVmPushReg(h) \/ LiftVmPushConst(h)
      <4>1. ~cut
        <5>1. PICK p, sh, consumed : p = PopAll(<<>>) /\ Emit(h, p, sh, consumed)
          BY <3>2 DEF LiftVmPushReg, LiftVmPushConst, Push
        <5>2. cut' = (cut \/ p.cuts) /\ p.cuts = FALSE /\ cut \in BOOLEAN
          BY <5>1, NoPops DEF Emit, FInv
        <5> QED  BY <1>2, <5>2
      <4> QED  BY <3>2, <4>1, PushRegSim, PushConstSim DEF Simulates
    <3>3. CASE LiftVmPop(h) \/ LiftVmPushVsp(h) \/ LiftVmPopVsp(h)
      BY <1>2, <3>3, PopSim, PushVspSim, PopVspSim DEF Simulates
    <3>4. CASE LiftVmReadMem(h) \/ LiftVmWriteMem(h)
      BY <1>2, <3>4, ReadMemSim, WriteMemSim DEF Simulates
    <3>5. CASE LiftVmAlu(h)
      <4>1. h.op \in Binary \/ h.op \in Shift \/ h.op \in DoubleShift
        BY <3>5 DEF LiftVmAlu, Alu
      <4> QED  BY <1>2, <3>5, <4>1, BinarySim, ShiftSim, DoubleShiftSim DEF Simulates
    <3>6. CASE LiftVmJmpIndirect(h) \/ LiftVmEntry(h) \/ LiftVmExit(h)
      BY <1>2, <3>6, JmpSim, EntrySim, ExitSim DEF Simulates
    <3> QED  BY <2>2, <3>1, <3>2, <3>3, <3>4, <3>5, <3>6 DEF LiftHandler
  <2>3. CASE UNCHANGED vars
    <3>1. UNCHANGED <<vspLocal, vspPtr, shadowStack, stackArray, virtualContext, pos, executed, cut, status>>
      BY <2>3 DEF vars
    <3>2. LineInv'
      BY <3>1 DEF LineInv, Stands, Held, Stand, Line, Neat, GoodStack, GoodSlot, Wide, Memory
    <3>3. LiveStack' = LiveStack /\ Gone' = Gone
      BY <3>1, LiveIs DEF Base, Returned, Gone
    <3> QED  BY <3>1, <3>2, <3>3 DEF VM!vars
  <2> QED  BY <2>1, <2>2, <2>3 DEF Next
<1> QED  BY <1>1, <1>2

(* LiftVirtualCode keeps what the trace does: as long as ShadowPop has cut *)
(* no slot, the code that the function holds after each handler leaves the *)
(* stack and the registers of the virtual machine and consumes the same    *)
(* operands, and FlushVspToMemory and the published VSP hand that stack to *)
(* the caller.                                                             *)
THEOREM FunctionKeepsMachine == ASSUME Regular, Indexed PROVE Spec => FunctionIsMachine
<1>1. Init => LineInv /\ VM!Init
  BY InitSim
<1>2. Spec => []FInv
  BY SpecFInv
<1>3. FInv /\ LineInv /\ [Next]_vars =>
        LineInv' /\ [cut' \/ status' = "badIR" \/ VM!Next \/ UNCHANGED VM!vars]_vars
  BY NextSim
<1> QED  BY <1>1, <1>2, <1>3, PTL DEF Spec, FunctionIsMachine
==============================================================================
