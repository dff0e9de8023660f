------------------------------ MODULE Induction ------------------------------
(***************************************************************************)
(* Induction over the natural numbers as a fact about sets, and what it    *)
(* makes of recursive definitions: sums, and a sequence of sequences put   *)
(* one after the other.                                                    *)
(***************************************************************************)
EXTENDS SequencesExt, WellFoundedInduction, SequenceTheorems, FiniteSetTheorems, TLAPS

LEMMA LessThanWellFounded == IsWellFoundedOn({ss \in Nat \X Nat : ss[1] < ss[2]}, Nat)
BY NatLessThanWellFounded DEF OpToRel

(* A set of numbers that has an element has a least one: no counterexample *)
(* to a statement is the first one, so there is none.                      *)
LEMMA LeastNumber ==
  ASSUME NEW T, T \subseteq Nat, T # {}
  PROVE  \E n \in T : \A k \in T : n <= k
<1> DEFINE R == {ss \in Nat \X Nat : ss[1] < ss[2]}
<1>1. IsWellFoundedOn(R, Nat)
  BY LessThanWellFounded
<1>2. PICK n \in T : \A k \in T : ~(<<k, n>> \in R)
  <2> HIDE DEF R
  <2> QED  BY <1>1, WFMin
<1>3. ASSUME NEW k \in T, k < n PROVE FALSE
  <2>1. <<k, n>> \in Nat \X Nat
    OBVIOUS
  <2>2. <<k, n>>[1] < <<k, n>>[2]
    BY <1>3
  <2>3. <<k, n>> \in R
    BY <2>1, <2>2
  <2> QED  BY <1>2, <2>3
<1>4. n \in Nat /\ T \subseteq Nat
  OBVIOUS
<1> QED  BY <1>3, <1>4

(* The equation that a recursive definition of the sums of c states has a  *)
(* solution, for any number of summands.                                   *)
LEMMA SumsExist ==
  ASSUME NEW c, NEW m \in Nat
  PROVE  \E f : f = [n \in 0..m |-> IF n = 0 THEN 0 ELSE f[n - 1] + c[n]]
<1> DEFINE Sums(f, k) == f = [n \in 0..k |-> IF n = 0 THEN 0 ELSE f[n - 1] + c[n]]
           T == {k \in Nat : ~\E f : Sums(f, k)}
<1>1. SUFFICES ASSUME T # {} PROVE FALSE
  BY Zenon
<1>2. PICK k \in T : \A j \in T : k <= j
  <2> HIDE DEF T
  <2>1. T \subseteq Nat
    BY DEF T
  <2> QED  BY <1>1, <2>1, LeastNumber
<1>3. k # 0
  <2>1. Sums([n \in 0..0 |-> 0], 0)
    OBVIOUS
  <2> QED  BY <2>1
<1>4. PICK j \in Nat : k = j + 1
  BY <1>3
<1>5. PICK f : Sums(f, j)
  BY <1>2, <1>4
<1> DEFINE g == [n \in 0..k |-> IF n = k THEN f[j] + c[k] ELSE f[n]]
<1>6. Sums(g, k)
  <2>1. DOMAIN f = 0..j /\ f[0] = 0 /\ \A n \in 1..j : f[n] = f[n - 1] + c[n]
    BY <1>5
  <2>2. \A n \in 0..k : g[n] = IF n = 0 THEN 0 ELSE g[n - 1] + c[n]
    <3> TAKE n \in 0..k
    <3>1. CASE n = 0
      BY <1>4, <2>1, <3>1
    <3>2. CASE n = k
      <4>1. k - 1 = j /\ j \in 0..k /\ j # k /\ k - 1 \in 0..k
        BY <1>4
      <4>2. g[k - 1] = f[j]
        BY <4>1
      <4> QED  BY <1>3, <3>2, <4>2
    <3>3. CASE n # 0 /\ n # k
      <4>1. n \in 1..j /\ n - 1 \in 0..k /\ n - 1 # k
        BY <1>4, <3>3
      <4> QED  BY <2>1, <3>3, <4>1
    <3> QED  BY <3>1, <3>2, <3>3
  <2> QED  BY <2>2
<1> QED  BY <1>6

(* The size of 1..m.                                                       *)
LEMMA IntervalSize ==
  ASSUME NEW m \in Nat
  PROVE  IsFiniteSet(1..m) /\ Cardinality(1..m) = m
<1>1. 1 \in Int /\ m \in Int
  OBVIOUS
<1>2. IsFiniteSet(1..m) /\ Cardinality(1..m) = IF 1 > m THEN 0 ELSE m - 1 + 1
  BY <1>1, FS_Interval, Zenon
<1>3. (IF 1 > m THEN 0 ELSE m - 1 + 1) = m
  OBVIOUS
<1> QED  BY <1>2, <1>3

-----------------------------------------------------------------------------
(* Sequences put one after the other, and where their elements stand.      *)
LEMMA ConcatsExist ==
  ASSUME NEW s, NEW m \in Nat
  PROVE  \E f : f = [n \in 1..m |-> IF n = 1 THEN s[n] ELSE f[n - 1] \o s[n]]
<1> DEFINE Concats(f, k) == f = [n \in 1..k |-> IF n = 1 THEN s[n] ELSE f[n - 1] \o s[n]]
           T == {k \in Nat : ~\E f : Concats(f, k)}
<1>1. SUFFICES ASSUME T # {} PROVE FALSE
  BY Zenon
<1>2. PICK k \in T : \A j \in T : k <= j
  <2> HIDE DEF T
  <2>1. T \subseteq Nat
    BY DEF T
  <2> QED  BY <1>1, <2>1, LeastNumber
<1>3. k # 0
  <2>1. Concats([n \in 1..0 |-> 0], 0)
    OBVIOUS
  <2> QED  BY <2>1
<1>4. PICK j \in Nat : k = j + 1
  BY <1>3
<1>5. PICK f : Concats(f, j)
  <2>1. j \notin T
    <3> HIDE DEF T
    <3> QED  BY <1>2, <1>4
  <2> HIDE DEF Concats
  <2> QED  BY <2>1
<1> DEFINE g == [n \in 1..k |-> IF n = 1 THEN s[n] ELSE IF n = k THEN f[j] \o s[n] ELSE f[n]]
<1>6. Concats(g, k)
  <2>1. \A n \in 1..j : f[n] = IF n = 1 THEN s[n] ELSE f[n - 1] \o s[n]
    BY <1>5
  <2>2. \A n \in 1..k : g[n] = IF n = 1 THEN s[n] ELSE g[n - 1] \o s[n]
    <3> TAKE n \in 1..k
    <3>1. CASE n = 1
      BY <3>1
    <3>2. CASE n = k /\ n # 1
      <4>1. k - 1 = j /\ j \in 1..k /\ j # k /\ j \in 1..j
        BY <1>4, <3>2
      <4>2. g[j] = f[j]
        BY <2>1, <4>1
      <4> QED  BY <3>2, <4>1, <4>2
    <3>3. CASE n # 1 /\ n # k
      <4>1. n \in 1..j /\ n - 1 \in 1..k /\ n - 1 # k /\ n - 1 \in 1..j
        BY <1>4, <3>3
      <4>2. g[n - 1] = f[n - 1] /\ g[n] = f[n]
        BY <2>1, <3>3, <4>1
      <4> QED  BY <2>1, <3>3, <4>1, <4>2
    <3> QED  BY <3>1, <3>2, <3>3
  <2> QED  BY <2>2
<1> QED  BY <1>6

(* After end[i] elements the first i of m sequences have gone by.          *)
Ends(S, s, m, end) ==
  /\ m \in Nat /\ Len(s) = m /\ (m = 0 => s = <<>>)
  /\ \A i \in 1..m : s[i] \in Seq(S)
  /\ end[0] = 0 /\ \A i \in 1..m : end[i] = end[i - 1] + Len(s[i])
IsFlat(flat, S, s, m, end) ==
  /\ flat \in Seq(S) /\ Len(flat) = end[m]
  /\ \A i \in 1..m : end[i - 1] \in Nat
  /\ \A i \in 1..m : \A k \in 1..Len(s[i]) : flat[end[i - 1] + k] = s[i][k]

LEMMA FlattenIs ==
  ASSUME NEW S, NEW s, NEW m, NEW end, Ends(S, s, m, end)
  PROVE  IsFlat(FlattenSeq(s), S, s, m, end)
<1> USE DEF IsFlat
<1>0. /\ m \in Nat /\ Len(s) = m /\ (m = 0 => s = <<>>)
      /\ \A i \in 1..m : s[i] \in Seq(S)
      /\ end[0] = 0 /\ \A i \in 1..m : end[i] = end[i - 1] + Len(s[i])
  BY DEF Ends
<1>1. CASE m = 0
  <2>1. FlattenSeq(s) = <<>>
    BY <1>0, <1>1 DEF FlattenSeq
  <2> QED  BY <1>0, <1>1, <2>1
<1>2. CASE m # 0
  <2> DEFINE Concats(f) == f = [n \in 1..m |-> IF n = 1 THEN s[n] ELSE f[n - 1] \o s[n]]
  <2>1. \E f : Concats(f)
    BY <1>0, ConcatsExist
  <2>2. PICK f : f = (CHOOSE g : Concats(g))
    OBVIOUS
  <2>3. Concats(f)
    <3> HIDE DEF Concats
    <3> QED  BY <2>1, <2>2
  <2>4. FlattenSeq(s) = f[m]
    <3>1. FlattenSeq(s) = (CHOOSE g : g = [n \in 1..m |-> IF n = 1 THEN s[n] ELSE g[n - 1] \o s[n]])[m]
      BY <1>0, <1>2 DEF FlattenSeq
    <3> QED  BY <2>2, <3>1
  <2>5. \A n \in 1..m : f[n] = IF n = 1 THEN s[n] ELSE f[n - 1] \o s[n]
    BY <2>3
  <2> DEFINE Right(n) ==
        /\ f[n] \in Seq(S) /\ Len(f[n]) = end[n] /\ end[n] \in Nat
        /\ \A i \in 1..n : end[i - 1] \in Nat /\ end[i] <= end[n] /\ end[i] \in Nat
        /\ \A i \in 1..n : \A k \in 1..Len(s[i]) : f[n][end[i - 1] + k] = s[i][k]
      T == {n \in 1..m : ~Right(n)}
  <2>6. T = {}
    <3> SUFFICES ASSUME T # {} PROVE FALSE
      OBVIOUS
    <3> HIDE DEF Concats
    <3>1. PICK n \in T : \A k \in T : n <= k
      <4> HIDE DEF T
      <4>1. T \subseteq Nat
        BY <1>0 DEF T
      <4> QED  BY <4>1, LeastNumber
    <3>2. n \in 1..m /\ s[n] \in Seq(S) /\ Len(s[n]) \in Nat
      BY <1>0, LenProperties
    <3>3. CASE n = 1
      <4>0. end[n] = end[n - 1] + Len(s[n]) /\ n - 1 = 0
        BY <1>0, <3>2, <3>3
      <4>1. f[n] = s[n] /\ end[n] = Len(s[n]) /\ end[n] \in Nat
        BY <1>0, <2>5, <3>2, <3>3, <4>0
      <4>2. \A i \in 1..n : i = n
        BY <3>3
      <4>3. Right(n)
        BY <1>0, <3>2, <3>3, <4>1, <4>2
      <4> QED  BY <4>3
    <3>4. CASE n # 1
      <4>1. PICK p : p = n - 1 /\ p \in 1..m
        BY <1>0, <3>2, <3>4, SMTT(30)
      <4>2. Right(p)
        <5>1. p \notin T
          BY <3>1, <3>2, <4>1
        <5> QED  BY <4>1, <5>1
      <4>3. f[n] = f[p] \o s[n] /\ end[n] = end[p] + Len(s[n])
        BY <1>0, <2>5, <3>2, <3>4, <4>1
      <4> HIDE DEF T
      <4>12. f[p] \in Seq(S) /\ Len(f[p]) = end[p] /\ end[p] \in Nat
        BY <4>2
      <4> HIDE DEF Right
      <4>4. f[n] \in Seq(S) /\ Len(f[n]) = end[n] /\ end[n] \in Nat
        BY <1>0, <3>2, <4>12, <4>3, ConcatProperties
      <4>5. \A k \in 1..Len(f[p]) : f[n][k] = f[p][k]
        BY <1>0, <3>2, <4>12, <4>3, ConcatProperties
      <4>6. \A k \in 1..Len(s[n]) : f[n][end[p] + k] = s[n][k]
        <5> TAKE k \in 1..Len(s[n])
        <5>1. PICK x : x = end[p] + k
          OBVIOUS
        <5>2. x \in 1..(Len(f[p]) + Len(s[n])) /\ ~(x <= Len(f[p])) /\ x - Len(f[p]) = k
          BY <1>0, <3>2, <4>12, <5>1, SMTT(30)
        <5>3. (f[p] \o s[n])[x] = s[n][k]
          BY <3>2, <4>12, <5>2, ConcatProperties
        <5> QED  BY <4>3, <5>1, <5>3
      <4>7. ASSUME NEW i \in 1..n
            PROVE  end[i - 1] \in Nat /\ end[i] <= end[n] /\ end[i] \in Nat
        <5>1. CASE i = n
          BY <3>2, <4>1, <4>4, <4>12, <5>1
        <5>2. CASE i # n
          <6>1. i \in 1..p
            BY <1>0, <3>2, <4>1, <5>2
          <6>2. end[i - 1] \in Nat /\ end[i] <= end[p] /\ end[i] \in Nat
            BY <4>2, <6>1 DEF Right
          <6> QED  BY <3>2, <4>3, <4>12, <6>2
        <5> QED  BY <5>1, <5>2
      <4>8. ASSUME NEW i \in 1..n, NEW k \in 1..Len(s[i])
            PROVE  f[n][end[i - 1] + k] = s[i][k]
        <5>1. CASE i = n
          BY <3>2, <4>1, <4>6, <4>8, <5>1
        <5>2. CASE i # n
          <6>1. i \in 1..p /\ i \in 1..m
            BY <1>0, <3>2, <4>1, <5>2
          <6>2. f[p][end[i - 1] + k] = s[i][k]
            BY <4>2, <4>8, <6>1 DEF Right
          <6>3. end[i] = end[i - 1] + Len(s[i]) /\ end[i - 1] \in Nat /\ end[i] <= end[p]
            BY <1>0, <4>2, <6>1 DEF Right
          <6>4. Len(s[i]) \in Nat
            BY <1>0, <6>1, LenProperties
          <6>5. end[i - 1] + k \in 1..Len(f[p])
            BY <4>12, <4>8, <6>3, <6>4
          <6> QED  BY <4>5, <6>2, <6>5
        <5> QED  BY <5>1, <5>2
      <4>9. Right(n)
        BY <4>4, <4>7, <4>8 DEF Right
      <4>10. n \in T
        OBVIOUS
      <4> QED  BY <4>9, <4>10 DEF T
    <3> QED  BY <3>3, <3>4
  <2>7. Right(m)
    <3>1. m \in 1..m
      BY <1>0, <1>2
    <3>2. m \notin T
      <4> HIDE DEF T
      <4> QED  BY <2>6
    <3> HIDE DEF Right
    <3> QED  BY <3>1, <3>2
  <2>8. \A i \in 1..m : end[i - 1] \in Nat
    BY <2>7
  <2>9. f[m] \in Seq(S) /\ Len(f[m]) = end[m]
    BY <2>7
  <2>10. \A i \in 1..m : \A k \in 1..Len(s[i]) : f[m][end[i - 1] + k] = s[i][k]
    BY <2>7
  <2> HIDE DEF Right, T, Concats
  <2> QED  BY <2>4, <2>8, <2>9, <2>10
<1> QED  BY <1>1, <1>2
=============================================================================
