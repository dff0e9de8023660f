------------------------- MODULE FlagArithmeticProofs -------------------------
(***************************************************************************)
(* For bytes of any number of bits, any operands and any counts: what the  *)
(* older path computes, and where the lifted code has no result.  The      *)
(* processor shifts by one bit as often as the count says, LLVM all at     *)
(* once; the value after k single shifts is given below in one expression. *)
(***************************************************************************)
EXTENDS FlagArithmetic, Induction

-----------------------------------------------------------------------------
(* After k single shifts of v, the bits of src moving in.                  *)
LeftBy(w, v, src, k) == ({i + k : i \in v} \cup {i + k - w : i \in src}) \cap Bits(w)
RightBy(w, v, src, k) == ({i - k : i \in v} \cup {i + w - k : i \in src}) \cap Bits(w)

LEMMA NoShift ==
  ASSUME NEW w \in Nat, NEW v, v \subseteq Bits(w), NEW src, src \subseteq Bits(w)
  PROVE  LeftBy(w, v, src, 0) = v /\ RightBy(w, v, src, 0) = v
<1> USE DEF Bits
<1>1. \A i \in v : i \in Int /\ 0 <= i /\ i < w
  OBVIOUS
<1>2. \A i \in src : i \in Int /\ i + 0 - w < 0 /\ i + w - 0 >= w
  OBVIOUS
<1>3. \A j : j \in LeftBy(w, v, src, 0) <=> j \in v
  <2> TAKE j
  <2>1. j \in LeftBy(w, v, src, 0) => j \in v
    BY <1>1, <1>2 DEF LeftBy
  <2>2. j \in v => j = j + 0 /\ j \in Bits(w)
    BY <1>1
  <2> QED  BY <2>1, <2>2 DEF LeftBy
<1>4. \A j : j \in RightBy(w, v, src, 0) <=> j \in v
  <2> TAKE j
  <2>1. j \in RightBy(w, v, src, 0) => j \in v
    BY <1>1, <1>2 DEF RightBy
  <2>2. j \in v => j = j - 0 /\ j \in Bits(w)
    BY <1>1
  <2> QED  BY <2>1, <2>2 DEF RightBy
<1> QED  BY <1>3, <1>4

(* One more shift to the left: a bit of src enters at the bottom.          *)
LEMMA LeftOnce ==
  ASSUME NEW w \in Nat, NEW v, v \subseteq Bits(w), NEW src, src \subseteq Bits(w),
         NEW k \in Nat, k # 0
  PROVE  LeftBy(w, v, src, k) = ShiftLeft(w, LeftBy(w, v, src, k - 1), w - k \in src)
<1>1. PICK now, before : now = LeftBy(w, v, src, k) /\ before = LeftBy(w, v, src, k - 1)
  OBVIOUS
<1>2. \A i : i \in v \/ i \in src => i \in Int /\ 0 <= i /\ i < w
  <2>1. \A i \in Bits(w) : i \in Int /\ 0 <= i /\ i < w
    BY DEF Bits
  <2> QED  BY <2>1
<1>3. \A j : j \in now <=> /\ j \in Int /\ 0 <= j /\ j < w
                           /\ (\E i \in v : j = i + k) \/ (\E i \in src : j = i + k - w)
  BY <1>1 DEF LeftBy, Bits
<1>4. \A j : j \in before <=> /\ j \in Int /\ 0 <= j /\ j < w
                              /\ (\E i \in v : j = i + (k - 1)) \/ (\E i \in src : j = i + (k - 1) - w)
  BY <1>1 DEF LeftBy, Bits
<1>5. \A j : j \in now => (j - 1 \in before /\ j - 1 # w - 1 /\ j = (j - 1) + 1) \/ (j = 0 /\ w - k \in src)
  <2> TAKE j
  <2> SUFFICES ASSUME j \in now
               PROVE  (j - 1 \in before /\ j - 1 # w - 1 /\ j = (j - 1) + 1) \/ (j = 0 /\ w - k \in src)
    OBVIOUS
  <2>1. j \in Int /\ 0 <= j /\ j < w
    BY <1>3
  <2>2. CASE j = 0
    <3>1. ~\E i \in v : j = i + k
      BY <1>2, <2>2
    <3>2. PICK i \in src : j = i + k - w
      BY <1>3, <3>1
    <3>3. i = w - k
      BY <1>2, <2>2, <3>2
    <3> QED  BY <2>2, <3>3
  <2>3. CASE j # 0
    <3>1. j - 1 \in Int /\ 0 <= j - 1 /\ j - 1 < w /\ j - 1 # w - 1 /\ j = (j - 1) + 1
      BY <2>1, <2>3
    <3>2. (\E i \in v : j - 1 = i + (k - 1)) \/ (\E i \in src : j - 1 = i + (k - 1) - w)
      <4>1. (\E i \in v : j = i + k) \/ (\E i \in src : j = i + k - w)
        BY <1>3
      <4>2. ASSUME NEW i \in v, j = i + k PROVE j - 1 = i + (k - 1)
        BY <1>2, <4>2
      <4>3. ASSUME NEW i \in src, j = i + k - w PROVE j - 1 = i + (k - 1) - w
        BY <1>2, <4>3
      <4> QED  BY <4>1, <4>2, <4>3
    <3> QED  BY <1>4, <3>1, <3>2
  <2> QED  BY <2>2, <2>3
<1>6. \A j : j \in before /\ j # w - 1 => j + 1 \in now
  <2> TAKE j
  <2> SUFFICES ASSUME j \in before, j # w - 1 PROVE j + 1 \in now
    OBVIOUS
  <2>1. j \in Int /\ 0 <= j /\ j < w
    BY <1>4
  <2>2. j + 1 \in Int /\ 0 <= j + 1 /\ j + 1 < w
    BY <2>1
  <2>3. (\E i \in v : j + 1 = i + k) \/ (\E i \in src : j + 1 = i + k - w)
    <3>1. (\E i \in v : j = i + (k - 1)) \/ (\E i \in src : j = i + (k - 1) - w)
      BY <1>4
    <3>2. ASSUME NEW i \in v, j = i + (k - 1) PROVE j + 1 = i + k
      BY <1>2, <3>2
    <3>3. ASSUME NEW i \in src, j = i + (k - 1) - w PROVE j + 1 = i + k - w
      BY <1>2, <3>3
    <3> QED  BY <3>1, <3>2, <3>3
  <2> QED  BY <1>3, <2>2, <2>3
<1>7. w - k \in src => 0 \in now
  <2> SUFFICES ASSUME w - k \in src PROVE 0 \in now
    OBVIOUS
  <2>1. 0 = (w - k) + k - w /\ 0 < w
    BY <1>2
  <2> QED  BY <1>3, <2>1
<1>8. \A j : j \in ShiftLeft(w, before, w - k \in src) <=>
               (\E i \in before : i # w - 1 /\ j = i + 1) \/ (j = 0 /\ w - k \in src)
  BY DEF ShiftLeft, Flag
<1>9. \A j : j \in now <=> j \in ShiftLeft(w, before, w - k \in src)
  BY <1>5, <1>6, <1>7, <1>8
<1> QED  BY <1>1, <1>9

(* And to the right: it enters at the top.                                 *)
LEMMA RightOnce ==
  ASSUME NEW w \in Nat, NEW v, v \subseteq Bits(w), NEW src, src \subseteq Bits(w),
         NEW k \in Nat, k # 0
  PROVE  RightBy(w, v, src, k) = ShiftRight(w, RightBy(w, v, src, k - 1), k - 1 \in src)
<1>1. PICK now, before : now = RightBy(w, v, src, k) /\ before = RightBy(w, v, src, k - 1)
  OBVIOUS
<1>2. \A i : i \in v \/ i \in src => i \in Int /\ 0 <= i /\ i < w
  <2>1. \A i \in Bits(w) : i \in Int /\ 0 <= i /\ i < w
    BY DEF Bits
  <2> QED  BY <2>1
<1>3. \A j : j \in now <=> /\ j \in Int /\ 0 <= j /\ j < w
                           /\ (\E i \in v : j = i - k) \/ (\E i \in src : j = i + w - k)
  BY <1>1 DEF RightBy, Bits
<1>4. \A j : j \in before <=> /\ j \in Int /\ 0 <= j /\ j < w
                              /\ (\E i \in v : j = i - (k - 1)) \/ (\E i \in src : j = i + w - (k - 1))
  BY <1>1 DEF RightBy, Bits
<1>5. \A j : j \in now => (j + 1 \in before /\ j + 1 # 0 /\ j = (j + 1) - 1) \/ (j = w - 1 /\ k - 1 \in src)
  <2> TAKE j
  <2> SUFFICES ASSUME j \in now
               PROVE  (j + 1 \in before /\ j + 1 # 0 /\ j = (j + 1) - 1) \/ (j = w - 1 /\ k - 1 \in src)
    OBVIOUS
  <2>1. j \in Int /\ 0 <= j /\ j < w
    BY <1>3
  <2>2. CASE j = w - 1
    <3>1. ~\E i \in v : j = i - k
      BY <1>2, <2>2
    <3>2. PICK i \in src : j = i + w - k
      BY <1>3, <3>1
    <3>3. i = k - 1
      BY <1>2, <2>2, <3>2
    <3> QED  BY <2>2, <3>3
  <2>3. CASE j # w - 1
    <3>1. j + 1 \in Int /\ 0 <= j + 1 /\ j + 1 < w /\ j + 1 # 0 /\ j = (j + 1) - 1
      BY <2>1, <2>3
    <3>2. (\E i \in v : j + 1 = i - (k - 1)) \/ (\E i \in src : j + 1 = i + w - (k - 1))
      <4>1. (\E i \in v : j = i - k) \/ (\E i \in src : j = i + w - k)
        BY <1>3
      <4>2. ASSUME NEW i \in v, j = i - k PROVE j + 1 = i - (k - 1)
        BY <1>2, <4>2
      <4>3. ASSUME NEW i \in src, j = i + w - k PROVE j + 1 = i + w - (k - 1)
        BY <1>2, <4>3
      <4> QED  BY <4>1, <4>2, <4>3
    <3> QED  BY <1>4, <3>1, <3>2
  <2> QED  BY <2>2, <2>3
<1>6. \A j : j \in before /\ j # 0 => j - 1 \in now
  <2> TAKE j
  <2> SUFFICES ASSUME j \in before, j # 0 PROVE j - 1 \in now
    OBVIOUS
  <2>1. j \in Int /\ 0 <= j /\ j < w
    BY <1>4
  <2>2. j - 1 \in Int /\ 0 <= j - 1 /\ j - 1 < w
    BY <2>1
  <2>3. (\E i \in v : j - 1 = i - k) \/ (\E i \in src : j - 1 = i + w - k)
    <3>1. (\E i \in v : j = i - (k - 1)) \/ (\E i \in src : j = i + w - (k - 1))
      BY <1>4
    <3>2. ASSUME NEW i \in v, j = i - (k - 1) PROVE j - 1 = i - k
      BY <1>2, <3>2
    <3>3. ASSUME NEW i \in src, j = i + w - (k - 1) PROVE j - 1 = i + w - k
      BY <1>2, <3>3
    <3> QED  BY <3>1, <3>2, <3>3
  <2> QED  BY <1>3, <2>2, <2>3
<1>7. k - 1 \in src => w - 1 \in now
  <2> SUFFICES ASSUME k - 1 \in src PROVE w - 1 \in now
    OBVIOUS
  <2>1. w - 1 = (k - 1) + w - k /\ 0 <= w - 1 /\ w - 1 < w /\ w - 1 \in Int
    BY <1>2
  <2> QED  BY <1>3, <2>1
<1>8. \A j : j \in ShiftRight(w, before, k - 1 \in src) <=>
               (\E i \in before : i # 0 /\ j = i - 1) \/ (j = w - 1 /\ k - 1 \in src)
  BY DEF ShiftRight, Flag
<1>9. \A j : j \in now <=> j \in ShiftRight(w, before, k - 1 \in src)
  BY <1>5, <1>6, <1>7, <1>8
<1> QED  BY <1>1, <1>9

(* The recursion of Left and of Right has a solution, and whatever solves  *)
(* it shifts k bits in k steps.                                            *)
LeftSteps(f, w, v, src) ==
  f = [k \in 0..(CountMask - 1) |->
         IF k = 0 THEN <<v, FALSE>>
         ELSE <<ShiftLeft(w, f[k - 1][1], w - k \in src), w - 1 \in f[k - 1][1]>>]
RightSteps(f, w, v, src) ==
  f = [k \in 0..(CountMask - 1) |->
         IF k = 0 THEN <<v, FALSE>>
         ELSE <<ShiftRight(w, f[k - 1][1], k - 1 \in src), 0 \in f[k - 1][1]>>]

LEMMA MaskIs == CountMask \in Nat /\ CountMask > 0
BY SizesAssumption DEF CountMask

LEMMA LeftExists ==
  ASSUME NEW w \in Nat, NEW v, v \subseteq Bits(w), NEW src, src \subseteq Bits(w)
  PROVE  \E f : LeftSteps(f, w, v, src)
<1>1. PICK f : f = [k \in 0..(CountMask - 1) |->
                      IF k = 0 THEN <<v, FALSE>>
                      ELSE <<LeftBy(w, v, src, k), w - 1 \in LeftBy(w, v, src, k - 1)>>]
  OBVIOUS
<1>2. \A k \in 0..(CountMask - 1) : f[k][1] = LeftBy(w, v, src, k)
  <2> TAKE k \in 0..(CountMask - 1)
  <2>1. CASE k = 0
    BY <1>1, <2>1, NoShift
  <2>2. CASE k # 0
    BY <1>1, <2>2
  <2> QED  BY <2>1, <2>2
<1>3. ASSUME NEW k \in 0..(CountMask - 1), k # 0
      PROVE  f[k] = <<ShiftLeft(w, f[k - 1][1], w - k \in src), w - 1 \in f[k - 1][1]>>
  <2>1. k \in Nat /\ k - 1 \in 0..(CountMask - 1)
    BY <1>3, MaskIs
  <2>2. PICK x, y : x = LeftBy(w, v, src, k) /\ y = LeftBy(w, v, src, k - 1)
    OBVIOUS
  <2>3. f[k] = <<x, w - 1 \in y>> /\ f[k - 1][1] = y
    BY <1>1, <1>2, <1>3, <2>1, <2>2
  <2>4. x = ShiftLeft(w, y, w - k \in src)
    BY <1>3, <2>1, <2>2, LeftOnce
  <2> QED  BY <2>3, <2>4
<1>4. f = [k \in 0..(CountMask - 1) |->
             IF k = 0 THEN <<v, FALSE>>
             ELSE <<ShiftLeft(w, f[k - 1][1], w - k \in src), w - 1 \in f[k - 1][1]>>]
  BY <1>1, <1>3
<1> QED  BY <1>4 DEF LeftSteps

LEMMA LeftIs ==
  ASSUME NEW w \in Nat, NEW v, v \subseteq Bits(w), NEW src, src \subseteq Bits(w),
         NEW k \in 0..(CountMask - 1)
  PROVE  Left(w, v, src)[k][1] = LeftBy(w, v, src, k)
<1>1. PICK f : f = Left(w, v, src)
  OBVIOUS
<1>2. LeftSteps(f, w, v, src)
  <2>1. f = CHOOSE g : LeftSteps(g, w, v, src)
    BY <1>1 DEF Left, LeftSteps
  <2> QED  BY <2>1, LeftExists
<1>3. \A n \in 0..(CountMask - 1) :
        f[n] = IF n = 0 THEN <<v, FALSE>>
               ELSE <<ShiftLeft(w, f[n - 1][1], w - n \in src), w - 1 \in f[n - 1][1]>>
  BY <1>2, Zenon DEF LeftSteps
<1>4. f[0][1] = v
  <2>1. PICK bit : bit = FALSE
    OBVIOUS
  <2>2. 0 \in 0..(CountMask - 1)
    BY MaskIs
  <2>3. f[0] = <<v, bit>>
    BY <1>3, <2>1, <2>2, Zenon
  <2> QED  BY <2>3
<1>5. ASSUME NEW n \in 0..(CountMask - 1), n # 0
      PROVE  f[n][1] = ShiftLeft(w, f[n - 1][1], w - n \in src)
  <2>1. PICK next, bit : next = ShiftLeft(w, f[n - 1][1], w - n \in src) /\ bit = (w - 1 \in f[n - 1][1])
    OBVIOUS
  <2>2. f[n] = <<next, bit>>
    BY <1>3, <1>5, <2>1, Zenon
  <2>3. f[n][1] = next
    BY <2>2
  <2> QED  BY <2>1, <2>3
<1> DEFINE T == {n \in 0..(CountMask - 1) : f[n][1] # LeftBy(w, v, src, n)}
<1>6. T = {}
  <2> SUFFICES ASSUME T # {} PROVE FALSE
    OBVIOUS
  <2>1. PICK n \in T : \A m \in T : n <= m
    <3>1. T \subseteq Nat
      BY MaskIs
    <3> HIDE DEF T
    <3> QED  BY <3>1, LeastNumber
  <2>2. n # 0
    <3>1. LeftBy(w, v, src, 0) = v
      BY NoShift
    <3> QED  BY <1>4, <3>1
  <2>3. n \in Nat /\ n - 1 \in 0..(CountMask - 1) /\ n \in 0..(CountMask - 1)
    BY <2>2, MaskIs
  <2>4. f[n - 1][1] = LeftBy(w, v, src, n - 1)
    BY <2>1, <2>3
  <2>5. f[n][1] = ShiftLeft(w, f[n - 1][1], w - n \in src)
    BY <1>5, <2>2, <2>3
  <2>6. f[n][1] = LeftBy(w, v, src, n)
    BY <2>2, <2>3, <2>4, <2>5, LeftOnce
  <2> QED  BY <2>6
<1> QED  BY <1>1, <1>6

LEMMA RightExists ==
  ASSUME NEW w \in Nat, NEW v, v \subseteq Bits(w), NEW src, src \subseteq Bits(w)
  PROVE  \E f : RightSteps(f, w, v, src)
<1>1. PICK f : f = [k \in 0..(CountMask - 1) |->
                      IF k = 0 THEN <<v, FALSE>>
                      ELSE <<RightBy(w, v, src, k), 0 \in RightBy(w, v, src, k - 1)>>]
  OBVIOUS
<1>2. \A k \in 0..(CountMask - 1) : f[k][1] = RightBy(w, v, src, k)
  <2> TAKE k \in 0..(CountMask - 1)
  <2>1. CASE k = 0
    BY <1>1, <2>1, NoShift
  <2>2. CASE k # 0
    BY <1>1, <2>2
  <2> QED  BY <2>1, <2>2
<1>3. ASSUME NEW k \in 0..(CountMask - 1), k # 0
      PROVE  f[k] = <<ShiftRight(w, f[k - 1][1], k - 1 \in src), 0 \in f[k - 1][1]>>
  <2>1. k \in Nat /\ k - 1 \in 0..(CountMask - 1)
    BY <1>3, MaskIs
  <2>2. PICK x, y : x = RightBy(w, v, src, k) /\ y = RightBy(w, v, src, k - 1)
    OBVIOUS
  <2>3. f[k] = <<x, 0 \in y>> /\ f[k - 1][1] = y
    BY <1>1, <1>2, <1>3, <2>1, <2>2
  <2>4. x = ShiftRight(w, y, k - 1 \in src)
    BY <1>3, <2>1, <2>2, RightOnce
  <2> QED  BY <2>3, <2>4
<1>4. f = [k \in 0..(CountMask - 1) |->
             IF k = 0 THEN <<v, FALSE>>
             ELSE <<ShiftRight(w, f[k - 1][1], k - 1 \in src), 0 \in f[k - 1][1]>>]
  BY <1>1, <1>3
<1> QED  BY <1>4 DEF RightSteps

LEMMA RightIs ==
  ASSUME NEW w \in Nat, NEW v, v \subseteq Bits(w), NEW src, src \subseteq Bits(w),
         NEW k \in 0..(CountMask - 1)
  PROVE  Right(w, v, src)[k][1] = RightBy(w, v, src, k)
<1>1. PICK f : f = Right(w, v, src)
  OBVIOUS
<1>2. RightSteps(f, w, v, src)
  <2>1. f = CHOOSE g : RightSteps(g, w, v, src)
    BY <1>1 DEF Right, RightSteps
  <2> QED  BY <2>1, RightExists
<1>3. \A n \in 0..(CountMask - 1) :
        f[n] = IF n = 0 THEN <<v, FALSE>>
               ELSE <<ShiftRight(w, f[n - 1][1], n - 1 \in src), 0 \in f[n - 1][1]>>
  BY <1>2, Zenon DEF RightSteps
<1>4. f[0][1] = v
  <2>1. PICK bit : bit = FALSE
    OBVIOUS
  <2>2. 0 \in 0..(CountMask - 1)
    BY MaskIs
  <2>3. f[0] = <<v, bit>>
    BY <1>3, <2>1, <2>2, Zenon
  <2> QED  BY <2>3
<1>5. ASSUME NEW n \in 0..(CountMask - 1), n # 0
      PROVE  f[n][1] = ShiftRight(w, f[n - 1][1], n - 1 \in src)
  <2>1. PICK next, bit : next = ShiftRight(w, f[n - 1][1], n - 1 \in src) /\ bit = (0 \in f[n - 1][1])
    OBVIOUS
  <2>2. f[n] = <<next, bit>>
    BY <1>3, <1>5, <2>1, Zenon
  <2>3. f[n][1] = next
    BY <2>2
  <2> QED  BY <2>1, <2>3
<1> DEFINE T == {n \in 0..(CountMask - 1) : f[n][1] # RightBy(w, v, src, n)}
<1>6. T = {}
  <2> SUFFICES ASSUME T # {} PROVE FALSE
    OBVIOUS
  <2>1. PICK n \in T : \A m \in T : n <= m
    <3>1. T \subseteq Nat
      BY MaskIs
    <3> HIDE DEF T
    <3> QED  BY <3>1, LeastNumber
  <2>2. n # 0
    <3>1. RightBy(w, v, src, 0) = v
      BY NoShift
    <3> QED  BY <1>4, <3>1
  <2>3. n \in Nat /\ n - 1 \in 0..(CountMask - 1) /\ n \in 0..(CountMask - 1)
    BY <2>2, MaskIs
  <2>4. f[n - 1][1] = RightBy(w, v, src, n - 1)
    BY <2>1, <2>3
  <2>5. f[n][1] = ShiftRight(w, f[n - 1][1], n - 1 \in src)
    BY <1>5, <2>2, <2>3
  <2>6. f[n][1] = RightBy(w, v, src, n)
    BY <2>2, <2>3, <2>4, <2>5, RightOnce
  <2> QED  BY <2>6
<1> QED  BY <1>1, <1>6

-----------------------------------------------------------------------------
SlotInv == slot \in Nat /\ ByteBits \in Nat /\ ByteBits > 0
           /\ (slot = 2 * ByteBits \/ slot = 4 * ByteBits)

LEMMA DepthIs ==
  ASSUME SlotInv, NEW d \in Depths
  PROVE  d \in Nat /\ d > 0 /\ d <= CountMask /\ Wide(d) \in Nat /\ d <= Wide(d)
BY DEF SlotInv, Depths, CountMask, Wide

LEMMA SlotDepth == ASSUME SlotInv PROVE slot \in Depths
BY DEF Depths

LEMMA SlotFirst == Init => SlotInv
<1> SUFFICES ASSUME Init PROVE SlotInv
  OBVIOUS
<1>1. PICK n \in SlotBytes : slot = n * ByteBits
  BY DEF Init
<1>2. n = 2 \/ n = 4
  BY SizesAssumption
<1> QED  BY <1>1, <1>2, SizesAssumption DEF SlotInv

LEMMA SlotNext == SlotInv /\ [Next]_vars => SlotInv'
<1> SUFFICES ASSUME SlotInv, [Next]_vars PROVE SlotInv'
  OBVIOUS
<1>1. slot' = slot
  BY DEF Next, RunArithmetic, RunShift, RunDoubleShift, vars
<1> QED  BY <1>1 DEF SlotInv

(* LLVM's shifts within the width.                                         *)
LEMMA ShlIs ==
  ASSUME NEW d \in Nat, NEW x, NEW n \in Nat, n < d
  PROVE  Shl(d, x, n) = {LeftBy(d, x, {}, n)}
<1>1. Shl(d, x, n) = {Trunc(d, {i + n : i \in x})}
  BY DEF Shl, Bits
<1>2. Trunc(d, {i + n : i \in x}) = LeftBy(d, x, {}, n)
  BY DEF Trunc, LeftBy
<1> QED  BY <1>1, <1>2

LEMMA LShrIs ==
  ASSUME NEW d \in Nat, NEW x, x \subseteq Bits(d), NEW n \in Nat, n < d
  PROVE  LShr(d, x, n) = {RightBy(d, x, {}, n)}
<1>1. LShr(d, x, n) = {{i - n : i \in {j \in x : j >= n}}}
  BY DEF LShr, Bits
<1>2. \A j : j \in {i - n : i \in {m \in x : m >= n}} <=> j \in RightBy(d, x, {}, n)
  BY DEF RightBy, Bits
<1> QED  BY <1>1, <1>2

LEMMA FShlIs ==
  ASSUME NEW d \in Nat, NEW x, NEW y, y \subseteq Bits(d), NEW n \in Nat, n < d
  PROVE  FShl(d, x, y, n) = LeftBy(d, x, y, n)
<1>1. n % d = n
  OBVIOUS
<1>2. FShl(d, x, y, n) = Trunc(d, {i + n : i \in x}) \cup {i - (d - n) : i \in y \ Bits(d - n)}
  BY <1>1 DEF FShl
<1>3. \A j : j \in {i - (d - n) : i \in y \ Bits(d - n)} <=> j \in {i + n - d : i \in y} \cap Bits(d)
  <2>1. \A i \in y : i \in Int /\ 0 <= i /\ i < d /\ i - (d - n) = i + n - d
                     /\ (i \notin Bits(d - n) <=> i + n - d >= 0) /\ i + n - d < d
    BY DEF Bits
  <2> QED  BY <2>1 DEF Bits
<1> QED  BY <1>2, <1>3 DEF Trunc, LeftBy

LEMMA FShrIs ==
  ASSUME NEW d \in Nat, NEW x, NEW y, y \subseteq Bits(d), NEW n \in Nat, n < d
  PROVE  FShr(d, x, y, n) = RightBy(d, y, x, n)
<1>1. n % d = n
  OBVIOUS
<1>2. FShr(d, x, y, n) = {i - n : i \in y \ Bits(n)} \cup Trunc(d, {i + d - n : i \in x})
  BY <1>1 DEF FShr
<1>3. \A j : j \in {i - n : i \in y \ Bits(n)} <=> j \in {i - n : i \in y} \cap Bits(d)
  <2>1. \A i \in y : i \in Int /\ 0 <= i /\ i < d /\ (i \notin Bits(n) <=> i - n >= 0) /\ i - n < d
    BY DEF Bits
  <2> QED  BY <2>1 DEF Bits
<1> QED  BY <1>2, <1>3 DEF Trunc, RightBy

(* The value that the processor computes.                                  *)
LEMMA ProcessorArithmetic ==
  ASSUME NEW d, NEW a, NEW b, NEW n
  PROVE  /\ Processor("Add", d, a, b, n).value = OfNum(d, Num(Trunc(d, a)) + Num(Trunc(d, b)))
         /\ Processor("Nor", d, a, b, n).value = Bits(d) \ (Trunc(d, a) \cup Trunc(d, b))
         /\ Processor("Nand", d, a, b, n).value = Bits(d) \ (Trunc(d, a) \cap Trunc(d, b))
BY DEF Processor

LEMMA ProcessorShift ==
  ASSUME NEW d \in Nat, d <= CountMask, NEW a, NEW b, NEW n \in Nat, n < d
  PROVE  /\ Processor("Shl", d, a, b, n).value = LeftBy(d, Trunc(d, a), {}, n)
         /\ Processor("Shr", d, a, b, n).value = RightBy(d, Trunc(d, a), {}, n)
         /\ Processor("Shld", d, a, b, n).value = LeftBy(d, Trunc(d, a), Trunc(d, b), n)
         /\ Processor("Shrd", d, a, b, n).value = RightBy(d, Trunc(d, a), Trunc(d, b), n)
<1>1. PICK x, y : x = Trunc(d, a) /\ y = Trunc(d, b) /\ x \subseteq Bits(d) /\ y \subseteq Bits(d)
  BY DEF Trunc
<1>2. n % CountMask = n /\ n \in 0..(CountMask - 1)
  BY MaskIs
<1>3. /\ Left(d, x, {})[n][1] = LeftBy(d, x, {}, n) /\ Left(d, x, y)[n][1] = LeftBy(d, x, y, n)
      /\ Right(d, x, {})[n][1] = RightBy(d, x, {}, n) /\ Right(d, x, y)[n][1] = RightBy(d, x, y, n)
  BY <1>1, <1>2, LeftIs, RightIs
<1>4. /\ Processor("Shl", d, a, b, n).value = Left(d, x, {})[n][1]
      /\ Processor("Shr", d, a, b, n).value = Right(d, x, {})[n][1]
      /\ Processor("Shld", d, a, b, n).value = Left(d, x, y)[n][1]
      /\ Processor("Shrd", d, a, b, n).value = Right(d, x, y)[n][1]
  BY <1>1, <1>2 DEF Processor
<1> QED  BY <1>1, <1>3, <1>4

(* The older path has the result of the processor.                         *)
Alike(op, d, a, b, n) == LiftOlder(op, d, a, b, n) = {Processor(op, d, a, b, n).value}

LEMMA ArithmeticAlike ==
  ASSUME NEW op \in Arithmetic, NEW d, NEW a, NEW b, NEW n
  PROVE  Alike(op, d, a, b, n)
<1>1. CASE op = "Add"
  BY <1>1, ProcessorArithmetic DEF Alike, LiftOlder, Add
<1>2. CASE op = "Nor"
  <2>1. Processor(op, d, a, b, n).value = Bits(d) \ (Trunc(d, a) \cup Trunc(d, b))
    BY <1>2, ProcessorArithmetic
  <2>2. LiftOlder(op, d, a, b, n) = {Bits(d) \ (Trunc(d, a) \cup Trunc(d, b))}
    BY <1>2 DEF LiftOlder, Not
  <2> QED  BY <1>2, <2>1, <2>2 DEF Alike
<1>3. CASE op = "Nand"
  <2>1. Processor(op, d, a, b, n).value = Bits(d) \ (Trunc(d, a) \cap Trunc(d, b))
    BY <1>3, ProcessorArithmetic
  <2>2. LiftOlder(op, d, a, b, n) = {Bits(d) \ (Trunc(d, a) \cap Trunc(d, b))}
    BY <1>3 DEF LiftOlder, Not
  <2> QED  BY <1>3, <2>1, <2>2 DEF Alike
<1> QED  BY <1>1, <1>2, <1>3 DEF Arithmetic

LEMMA ShiftAlike ==
  ASSUME NEW op \in Shift \cup {"Shld"}, NEW d \in Nat, d <= CountMask,
         NEW a, NEW b, NEW n \in Nat, n < d
  PROVE  Alike(op, d, a, b, n)
<1>1. Trunc(d, a) \subseteq Bits(d) /\ Trunc(d, b) \subseteq Bits(d)
  BY DEF Trunc
<1>2. CASE op = "Shl"
  <2>1. Shl(d, Trunc(d, a), n) = {LeftBy(d, Trunc(d, a), {}, n)}
    BY ShlIs
  <2> QED  BY <1>2, <2>1, ProcessorShift DEF Alike, LiftOlder
<1>3. CASE op = "Shr"
  <2>1. LShr(d, Trunc(d, a), n) = {RightBy(d, Trunc(d, a), {}, n)}
    BY <1>1, LShrIs
  <2> QED  BY <1>3, <2>1, ProcessorShift DEF Alike, LiftOlder
<1>4. CASE op = "Shld"
  <2>1. FShl(d, Trunc(d, a), Trunc(d, b), n) = LeftBy(d, Trunc(d, a), Trunc(d, b), n)
    BY <1>1, FShlIs
  <2> QED  BY <1>4, <2>1, ProcessorShift DEF Alike, LiftOlder
<1> QED  BY <1>2, <1>3, <1>4 DEF Shift

(* LLVMFunctionLifter hands the operands of VM_SHRD over in the order of   *)
(* VM_SHLD: for a count below the width it computes what the processor does*)
(* when its operands are exchanged, whatever the width and the operands.   *)
THEOREM OlderShrdIsExchanged ==
  ASSUME NEW d \in Nat, d <= CountMask, NEW a, NEW b, NEW n \in Nat, n < d
  PROVE  LiftOlder("Shrd", d, a, b, n) = {Processor("Shrd", d, b, a, n).value}
<1>1. Trunc(d, a) \subseteq Bits(d) /\ Trunc(d, b) \subseteq Bits(d)
  BY DEF Trunc
<1>2. FShr(d, Trunc(d, a), Trunc(d, b), n) = RightBy(d, Trunc(d, b), Trunc(d, a), n)
  BY <1>1, FShrIs
<1>3. Processor("Shrd", d, b, a, n).value = RightBy(d, Trunc(d, b), Trunc(d, a), n)
  BY ProcessorShift
<1> QED  BY <1>2, <1>3 DEF LiftOlder

AgreesButForShrd == last.op # "Shrd" => OlderAgrees

LEMMA RunOlder ==
  ASSUME SlotInv, NEW op, NEW d \in Depths, NEW b, NEW n \in Nat, Run(op, d, b, n),
         op \in Arithmetic \cup Shift \cup DoubleShift
  PROVE  AgreesButForShrd'
<1>1. last'.op = op /\ last'.d = d /\ last'.n = n /\ last'.older = Alike(op, d, machine, b, n)
  BY DEF Run, Alike
<1>2. op # "Shrd" /\ (op \in Arithmetic \/ n < d) => Alike(op, d, machine, b, n)
  <2>1. op # "Shrd" => op \in Arithmetic \cup Shift \cup {"Shld"}
    BY DEF DoubleShift
  <2> QED  BY <2>1, DepthIs, ArithmeticAlike, ShiftAlike
<1> QED  BY <1>1, <1>2 DEF AgreesButForShrd, OlderAgrees

LEMMA OlderNext == SlotInv /\ AgreesButForShrd /\ [Next]_vars => AgreesButForShrd'
<1> SUFFICES ASSUME SlotInv, AgreesButForShrd, [Next]_vars PROVE AgreesButForShrd'
  OBVIOUS
<1>1. CASE RunArithmetic
  <2>1. PICK op \in Arithmetic, d \in Depths, b \in Args : Run(op, d, Trunc(slot, b), 1)
    BY <1>1 DEF RunArithmetic
  <2> QED  BY <2>1, RunOlder
<1>2. CASE RunShift
  <2>1. PICK op \in Shift, d \in Depths, n \in Counts : Run(op, d, {}, n)
    BY <1>2 DEF RunShift
  <2>2. n \in Nat
    BY ArgsAssumption
  <2> QED  BY <2>1, <2>2, RunOlder
<1>3. CASE RunDoubleShift
  <2>1. PICK op \in DoubleShift, b \in Args, n \in Counts : Run(op, slot, Trunc(slot, b), n)
    BY <1>3 DEF RunDoubleShift
  <2>2. n \in Nat
    BY ArgsAssumption
  <2> QED  BY <2>1, <2>2, RunOlder, SlotDepth
<1>4. CASE UNCHANGED vars
  BY <1>4 DEF vars, AgreesButForShrd, OlderAgrees
<1> QED  BY <1>1, <1>2, <1>3, <1>4 DEF Next

(* LLVMFunctionLifter pushes what the processor computes, whatever the     *)
(* widths and the operands, for counts below the width, but for VM_SHRD.   *)
THEOREM OlderAlwaysAgreesButForShrd == Spec => [](last.op # "Shrd" => OlderAgrees)
<1>1. Init => AgreesButForShrd
  BY DEF Init, AgreesButForShrd, OlderAgrees
<1>2. Spec => []AgreesButForShrd
  BY <1>1, SlotFirst, SlotNext, OlderNext, PTL DEF Spec
<1> QED  BY <1>2, PTL DEF AgreesButForShrd

-----------------------------------------------------------------------------
(* Where LLVM leaves a result undefined.                                   *)
LEMMA ShiftsDefined ==
  ASSUME NEW w \in Nat, NEW v, NEW n \in Int
  PROVE  /\ Shl(w, v, n) = {} <=> ~(0 <= n /\ n < w)
         /\ LShr(w, v, n) = {} <=> ~(0 <= n /\ n < w)
<1>1. n \in Bits(w) <=> 0 <= n /\ n < w
  BY DEF Bits
<1>2. Shl(w, v, n) = {} <=> n \notin Bits(w)
  BY Zenon DEF Shl
<1>3. LShr(w, v, n) = {} <=> n \notin Bits(w)
  BY Zenon DEF LShr
<1> QED  BY <1>1, <1>2, <1>3

LEMMA JoinedDefined == ASSUME NEW A, NEW B PROVE Joined(A, B) = {} <=> A = {} \/ B = {}
<1>1. ASSUME NEW x \in A, NEW y \in B PROVE Joined(A, B) # {}
  <2>1. x \cup y \in Joined(A, B)
    BY DEF Joined
  <2> QED  BY <2>1
<1>2. ASSUME NEW z \in Joined(A, B) PROVE A # {} /\ B # {}
  BY DEF Joined
<1> QED  BY <1>1, <1>2, Zenon

LEMMA FlagsDefined ==
  ASSUME NEW w \in Nat, NEW a, NEW b, NEW n \in Nat
  PROVE  /\ FlagsOfAdd(w, a, b) # {} /\ FlagsOfNor(w, a, b) # {} /\ FlagsOfNand(w, a, b) # {}
         /\ FlagsOfShl(w, a, n) = {} <=> n \notin 1..(w - 1)
         /\ FlagsOfShr(w, a, n) = {} <=> n \notin 1..(w - 1)
         /\ FlagsOfShld(w, a, b, n) = {} <=> n \notin 1..(w - 1)
         /\ FlagsOfShrd(w, a, b, n) = {} <=> n \notin 1..(w - 1)
<1>1. FlagsOfAdd(w, a, b) # {} /\ FlagsOfNor(w, a, b) # {} /\ FlagsOfNand(w, a, b) # {}
  BY DEF FlagsOfAdd, FlagsOfNor, FlagsOfNand
<1>2. FlagsOfShl(w, a, n) = {} <=> Shl(w, a, n) = {} \/ LShr(w, a, w - n) = {}
  BY DEF FlagsOfShl
<1>3. FlagsOfShr(w, a, n) = {} <=> LShr(w, a, n) = {} \/ LShr(w, a, n - 1) = {}
  <2>1. ASSUME NEW res \in LShr(w, a, n), NEW out \in LShr(w, a, n - 1)
        PROVE  FlagsOfShr(w, a, n) # {}
    <3>1. PackFlags(w, res, Low(out), ICmpSLT0(w, a)) \in FlagsOfShr(w, a, n)
      BY DEF FlagsOfShr
    <3> QED  BY <3>1
  <2>2. ASSUME NEW flags \in FlagsOfShr(w, a, n)
        PROVE  LShr(w, a, n) # {} /\ LShr(w, a, n - 1) # {}
    BY DEF FlagsOfShr
  <2> QED  BY <2>1, <2>2, Zenon
<1>4. FlagsOfShld(w, a, b, n) = {} <=>
        Shl(w, a, n) = {} \/ LShr(w, b, w - n) = {} \/ LShr(w, a, w - n) = {}
  <2>1. PICK S : S = Joined(Shl(w, a, n), LShr(w, b, w - n))
    OBVIOUS
  <2>2. S = {} <=> Shl(w, a, n) = {} \/ LShr(w, b, w - n) = {}
    BY <2>1, JoinedDefined
  <2>3. FlagsOfShld(w, a, b, n) = {} <=> S = {} \/ LShr(w, a, w - n) = {}
    <3>1. ASSUME NEW res \in S, NEW out \in LShr(w, a, w - n)
          PROVE  FlagsOfShld(w, a, b, n) # {}
      <4>1. PackFlags(w, res, Low(out), ICmpSLT0(w, res) # Low(out)) \in FlagsOfShld(w, a, b, n)
        BY <2>1 DEF FlagsOfShld
      <4> QED  BY <4>1
    <3>2. ASSUME NEW flags \in FlagsOfShld(w, a, b, n)
          PROVE  S # {} /\ LShr(w, a, w - n) # {}
      BY <2>1 DEF FlagsOfShld
    <3> QED  BY <3>1, <3>2, Zenon
  <2> QED  BY <2>2, <2>3
<1>5. FlagsOfShrd(w, a, b, n) = {} <=>
        LShr(w, a, n) = {} \/ Shl(w, b, w - n) = {} \/ LShr(w, a, n - 1) = {}
  <2>1. PICK S : S = Joined(LShr(w, a, n), Shl(w, b, w - n))
    OBVIOUS
  <2>2. S = {} <=> LShr(w, a, n) = {} \/ Shl(w, b, w - n) = {}
    BY <2>1, JoinedDefined
  <2>3. FlagsOfShrd(w, a, b, n) = {} <=> S = {} \/ LShr(w, a, n - 1) = {}
    <3>1. ASSUME NEW res \in S, NEW out \in LShr(w, a, n - 1)
          PROVE  FlagsOfShrd(w, a, b, n) # {}
      <4>1. PackFlags(w, res, Low(out), ICmpSLT0(w, res) # ICmpSLT0(w, a)) \in FlagsOfShrd(w, a, b, n)
        BY <2>1 DEF FlagsOfShrd
      <4> QED  BY <4>1
    <3>2. ASSUME NEW flags \in FlagsOfShrd(w, a, b, n)
          PROVE  S # {} /\ LShr(w, a, n - 1) # {}
      BY <2>1 DEF FlagsOfShrd
    <3> QED  BY <3>1, <3>2, Zenon
  <2> QED  BY <2>2, <2>3
<1>6. \A v : \A k \in Int : /\ Shl(w, v, k) = {} <=> ~(0 <= k /\ k < w)
                            /\ LShr(w, v, k) = {} <=> ~(0 <= k /\ k < w)
  BY ShiftsDefined
<1>7. /\ Shl(w, a, n) = {} <=> ~(0 <= n /\ n < w)
      /\ LShr(w, a, n) = {} <=> ~(0 <= n /\ n < w)
      /\ LShr(w, a, w - n) = {} <=> ~(0 <= w - n /\ w - n < w)
      /\ LShr(w, b, w - n) = {} <=> ~(0 <= w - n /\ w - n < w)
      /\ Shl(w, b, w - n) = {} <=> ~(0 <= w - n /\ w - n < w)
      /\ LShr(w, a, n - 1) = {} <=> ~(0 <= n - 1 /\ n - 1 < w)
  <2>1. n \in Int /\ w - n \in Int /\ n - 1 \in Int
    OBVIOUS
  <2>2. ASSUME NEW v, NEW k \in Int
        PROVE  /\ Shl(w, v, k) = {} <=> ~(0 <= k /\ k < w)
               /\ LShr(w, v, k) = {} <=> ~(0 <= k /\ k < w)
    BY <1>6
  <2>3. Shl(w, a, n) = {} <=> ~(0 <= n /\ n < w)
    BY <2>1, <2>2
  <2>4. LShr(w, a, n) = {} <=> ~(0 <= n /\ n < w)
    BY <2>1, <2>2
  <2>5. PICK m : m = w - n /\ m \in Int
    BY <2>1
  <2>6. /\ LShr(w, a, m) = {} <=> ~(0 <= m /\ m < w)
        /\ LShr(w, b, m) = {} <=> ~(0 <= m /\ m < w)
        /\ Shl(w, b, m) = {} <=> ~(0 <= m /\ m < w)
    BY <2>2, <2>5
  <2>7. PICK p : p = n - 1 /\ p \in Int
    BY <2>1
  <2>8. LShr(w, a, p) = {} <=> ~(0 <= p /\ p < w)
    BY <2>2, <2>7
  <2> QED  BY <2>3, <2>4, <2>5, <2>6, <2>7, <2>8
<1>8. 0 <= n /\ n < w /\ 0 <= w - n /\ w - n < w <=> n \in 1..(w - 1)
  OBVIOUS
<1>9. 0 <= n /\ n < w /\ 0 <= n - 1 /\ n - 1 < w <=> n \in 1..(w - 1)
  OBVIOUS
<1>10. (FlagsOfShl(w, a, n) = {} <=> n \notin 1..(w - 1)) /\ (FlagsOfShr(w, a, n) = {} <=> n \notin 1..(w - 1))
  BY <1>2, <1>3, <1>7, <1>8, <1>9
<1>11. FlagsOfShld(w, a, b, n) = {} <=> n \notin 1..(w - 1)
  BY <1>4, <1>7, <1>8
<1>12. FlagsOfShrd(w, a, b, n) = {} <=> n \notin 1..(w - 1)
  BY <1>5, <1>7, <1>9
<1> QED  BY <1>1, <1>10, <1>11, <1>12

LEMMA LiftDefined ==
  ASSUME NEW op \in Arithmetic \cup Shift \cup DoubleShift, NEW d \in Nat, Wide(d) \in Nat,
         NEW a, NEW b, NEW n \in Nat
  PROVE  /\ Lift(op, d, a, b, n).value = {} <=> op \in Shift /\ n >= Wide(d)
         /\ Lift(op, d, a, b, n).flags = {} <=> op \notin Arithmetic /\ n \notin 1..(Wide(d) - 1)
<1>1. PICK w : w = Wide(d) /\ w \in Nat
  OBVIOUS
<1>2. CASE op = "Add"
  <2>1. Lift(op, d, a, b, n).value # {}
    BY <1>2 DEF Lift
  <2>2. Lift(op, d, a, b, n).flags = FlagsOfAdd(d, Trunc(d, a), Trunc(d, b))
    BY <1>2 DEF Lift
  <2>3. FlagsOfAdd(d, Trunc(d, a), Trunc(d, b)) # {}
    BY FlagsDefined
  <2> QED  BY <1>2, <2>1, <2>2, <2>3 DEF Arithmetic, Shift
<1>3. CASE op = "Nor"
  <2>1. Lift(op, d, a, b, n).value # {}
    BY <1>3 DEF Lift
  <2>2. Lift(op, d, a, b, n).flags = FlagsOfNor(d, Trunc(d, a), Trunc(d, b))
    BY <1>3 DEF Lift
  <2>3. FlagsOfNor(d, Trunc(d, a), Trunc(d, b)) # {}
    BY FlagsDefined
  <2> QED  BY <1>3, <2>1, <2>2, <2>3 DEF Arithmetic, Shift
<1>4. CASE op = "Nand"
  <2>1. Lift(op, d, a, b, n).value # {}
    BY <1>4 DEF Lift
  <2>2. Lift(op, d, a, b, n).flags = FlagsOfNand(d, Trunc(d, a), Trunc(d, b))
    BY <1>4 DEF Lift
  <2>3. FlagsOfNand(d, Trunc(d, a), Trunc(d, b)) # {}
    BY FlagsDefined
  <2> QED  BY <1>4, <2>1, <2>2, <2>3 DEF Arithmetic, Shift
<1>5. CASE op = "Shl"
  <2>1. Lift(op, d, a, b, n).value = Shl(w, a, n) /\ Lift(op, d, a, b, n).flags = FlagsOfShl(w, a, n)
    BY <1>1, <1>5 DEF Lift
  <2>2. Shl(w, a, n) = {} <=> n >= w
    <3>1. Shl(w, a, n) = {} <=> ~(0 <= n /\ n < w)
      BY <1>1, ShiftsDefined
    <3> QED  BY <1>1, <3>1
  <2>3. FlagsOfShl(w, a, n) = {} <=> n \notin 1..(w - 1)
    BY <1>1, FlagsDefined
  <2> QED  BY <1>1, <1>5, <2>1, <2>2, <2>3 DEF Arithmetic, Shift
<1>6. CASE op = "Shr"
  <2>1. Lift(op, d, a, b, n).value = LShr(w, a, n) /\ Lift(op, d, a, b, n).flags = FlagsOfShr(w, a, n)
    BY <1>1, <1>6 DEF Lift
  <2>2. LShr(w, a, n) = {} <=> n >= w
    <3>1. LShr(w, a, n) = {} <=> ~(0 <= n /\ n < w)
      BY <1>1, ShiftsDefined
    <3> QED  BY <1>1, <3>1
  <2>3. FlagsOfShr(w, a, n) = {} <=> n \notin 1..(w - 1)
    BY <1>1, FlagsDefined
  <2> QED  BY <1>1, <1>6, <2>1, <2>2, <2>3 DEF Arithmetic, Shift
<1>7. CASE op = "Shld"
  <2>1. Lift(op, d, a, b, n).value # {} /\ Lift(op, d, a, b, n).flags = FlagsOfShld(w, a, b, n)
    BY <1>1, <1>7 DEF Lift
  <2> QED  BY <1>1, <1>7, <2>1, FlagsDefined DEF Arithmetic, Shift
<1>8. CASE op = "Shrd"
  <2>1. Lift(op, d, a, b, n).value # {} /\ Lift(op, d, a, b, n).flags = FlagsOfShrd(w, a, b, n)
    BY <1>1, <1>8 DEF Lift
  <2> QED  BY <1>1, <1>8, <2>1, FlagsDefined DEF Arithmetic, Shift
<1> QED  BY <1>2, <1>3, <1>4, <1>5, <1>6, <1>7, <1>8 DEF Arithmetic, Shift, DoubleShift

OutOfRange ==
  \E step \in {last'} :
    lifted # {} =>
      /\ lifted' = {} <=> (step.op \in Shift /\ step.n >= Wide(step.d))
      /\ liftedFlags' = {} <=> ~InRange(step)

LEMMA RunOutOfRange ==
  ASSUME SlotInv, NEW op \in Arithmetic \cup Shift \cup DoubleShift, NEW d \in Depths, NEW b,
         NEW n \in Nat, Run(op, d, b, n)
  PROVE  OutOfRange
<1>1. last'.op = op /\ last'.d = d /\ last'.n = n
  BY DEF Run
<1>2. d \in Nat /\ Wide(d) \in Nat
  BY DepthIs
<1>3. /\ lifted' = UNION {Lift(op, d, a, b, n).value : a \in lifted}
      /\ liftedFlags' = UNION {Lift(op, d, a, b, n).flags : a \in lifted}
  BY DEF Run
<1>4. \A a : /\ Lift(op, d, a, b, n).value = {} <=> op \in Shift /\ n >= Wide(d)
             /\ Lift(op, d, a, b, n).flags = {} <=> op \notin Arithmetic /\ n \notin 1..(Wide(d) - 1)
  BY <1>2, LiftDefined
<1>5. ASSUME lifted # {}
      PROVE  /\ lifted' = {} <=> op \in Shift /\ n >= Wide(d)
             /\ liftedFlags' = {} <=> op \notin Arithmetic /\ n \notin 1..(Wide(d) - 1)
  BY <1>3, <1>4, <1>5
<1> QED  BY <1>1, <1>5 DEF OutOfRange, InRange

(* The lifted code has no result exactly when a shift is by the width of   *)
(* what it shifts or more, and no flags then and for a shift by nothing,   *)
(* where the processor keeps the old ones.                                 *)
THEOREM UndefinedOnlyOutOfRange == Spec => UndefinedOutOfRange
<1>1. SlotInv /\ [Next]_vars => [OutOfRange]_vars
  <2> SUFFICES ASSUME SlotInv, [Next]_vars PROVE [OutOfRange]_vars
    OBVIOUS
  <2>1. CASE RunArithmetic
    <3>1. PICK op \in Arithmetic, d \in Depths, b \in Args : Run(op, d, Trunc(slot, b), 1)
      BY <2>1 DEF RunArithmetic
    <3> QED  BY <3>1, RunOutOfRange
  <2>2. CASE RunShift
    <3>1. PICK op \in Shift, d \in Depths, n \in Counts : Run(op, d, {}, n)
      BY <2>2 DEF RunShift
    <3>2. n \in Nat
      BY ArgsAssumption
    <3> QED  BY <3>1, <3>2, RunOutOfRange
  <2>3. CASE RunDoubleShift
    <3>1. PICK op \in DoubleShift, b \in Args, n \in Counts : Run(op, slot, Trunc(slot, b), n)
      BY <2>3 DEF RunDoubleShift
    <3>2. n \in Nat
      BY ArgsAssumption
    <3> QED  BY <3>1, <3>2, RunOutOfRange, SlotDepth
  <2>4. CASE UNCHANGED vars
    BY <2>4
  <2> QED  BY <2>1, <2>2, <2>3, <2>4 DEF Next
<1> QED  BY <1>1, SlotFirst, SlotNext, PTL DEF Spec, UndefinedOutOfRange, OutOfRange
=============================================================================
