---------------------------- MODULE Base58Proofs ----------------------------
(***************************************************************************)
(* Theorems about Base58, for any bases, versions, checksum and values.    *)
(*                                                                         *)
(* The conversions are recursive functions of sequences.  What one does to *)
(* every sequence is proved by induction over the rounds of its loop:      *)
(* RecursionExists, that such a function exists, gives what one round does,*)
(* and SetInduction what all of them do.  fromBase is shown to be the naive*)
(* sum, toBase to give digits of that sum which are within the base, and   *)
(* digits within a base to be unique; the rest follows.                    *)
(***************************************************************************)
EXTENDS Base58, SequenceLemmas

-----------------------------------------------------------------------------
(***************************************************************************)
(* Powers, and how many of them are taken.                                 *)
(***************************************************************************)

\* The powers of b.
IsPower(f, b) == f = [m \in Nat |-> IF m = 0 THEN 1 ELSE b * f[m - 1]]

\* Each power is b times the one before.
LEMMA PowerFacts ==
    ASSUME NEW b \in Nat
    PROVE  /\ Power(b, 0) = 1
           /\ \A n \in Nat : /\ Power(b, n) \in Nat
                             /\ Power(b, n + 1) = b * Power(b, n)
<1>1. \E f : IsPower(f, b)
  <2> DEFINE G == [p \in Nat \X Nat |-> b * p[2]]
  <2>1. G \in [Nat \X Nat -> Nat]
    OBVIOUS
  <2>2. \A n, m \in Nat : G[<<n, m>>] = b * m
    OBVIOUS
  <2> HIDE DEF G
  <2>3. PICK f \in [Nat -> Nat] : Follows(f, 1, G)
    <3>1. 1 \in Nat
      OBVIOUS
    <3> QED  BY <2>1, <3>1, RecursionExists, Zenon
  <2>4. ASSUME NEW n \in Nat
        PROVE  f[n] = IF n = 0 THEN 1 ELSE b * f[n - 1]
    <3>1. CASE n = 0
      BY <2>3, <3>1 DEF Follows
    <3>2. CASE n # 0
      <4>1. n - 1 \in Nat /\ (n - 1) + 1 = n
        BY <3>2
      <4> QED  BY <2>2, <2>3, <3>2, <4>1 DEF Follows
    <3> QED  BY <3>1, <3>2
  <2> QED  BY <2>3, <2>4 DEF IsPower
<1> DEFINE f == CHOOSE g : IsPower(g, b)
<1>2. \A n : Power(b, n) = f[n]
  BY DEF Power, IsPower
<1>3. IsPower(f, b)
  BY <1>1
<1> HIDE DEF f
<1>4. /\ f[0] = 1
      /\ \A n \in Nat : f[n + 1] = b * f[n]
  BY <1>3 DEF IsPower
<1> DEFINE P == {n \in Nat : f[n] \in Nat}
<1>5. \A n \in Nat : n \in P
  <2>1. 0 \in P
    BY <1>4
  <2>2. ASSUME NEW n \in Nat, n \in P
        PROVE  n + 1 \in P
    BY <1>4, <2>2
  <2> HIDE DEF P
  <2> QED  BY <2>1, <2>2, SetInduction
<1> QED  BY <1>2, <1>4, <1>5

\* The squares of squares of b.
IsBasePower(f, b) ==
    f = [m \in Nat |-> IF m = 0 THEN b ELSE f[m - 1] * f[m - 1]]

\* Each of basePowers is the square of the one before.
LEMMA BasePowerFacts ==
    ASSUME NEW b \in Nat
    PROVE  /\ BasePower(b, 0) = b
           /\ \A n \in Nat : /\ BasePower(b, n) \in Nat
                             /\ BasePower(b, n + 1) = BasePower(b, n) * BasePower(b, n)
<1>1. \E f : IsBasePower(f, b)
  <2> DEFINE G == [p \in Nat \X Nat |-> p[2] * p[2]]
  <2>1. G \in [Nat \X Nat -> Nat]
    OBVIOUS
  <2>2. \A n, m \in Nat : G[<<n, m>>] = m * m
    OBVIOUS
  <2> HIDE DEF G
  <2>3. PICK f \in [Nat -> Nat] : Follows(f, b, G)
    BY <2>1, RecursionExists, Zenon
  <2>4. ASSUME NEW n \in Nat
        PROVE  f[n] = IF n = 0 THEN b ELSE f[n - 1] * f[n - 1]
    <3>1. CASE n = 0
      BY <2>3, <3>1 DEF Follows
    <3>2. CASE n # 0
      <4>1. n - 1 \in Nat /\ (n - 1) + 1 = n
        BY <3>2
      <4> QED  BY <2>2, <2>3, <3>2, <4>1 DEF Follows
    <3> QED  BY <3>1, <3>2
  <2> QED  BY <2>3, <2>4 DEF IsBasePower
<1> DEFINE f == CHOOSE g : IsBasePower(g, b)
<1>2. \A n : BasePower(b, n) = f[n]
  BY DEF BasePower, IsBasePower
<1>3. IsBasePower(f, b)
  BY <1>1
<1> HIDE DEF f
<1>4. /\ f[0] = b
      /\ \A n \in Nat : f[n + 1] = f[n] * f[n]
  BY <1>3 DEF IsBasePower
<1> DEFINE P == {n \in Nat : f[n] \in Nat}
<1>5. \A n \in Nat : n \in P
  <2>1. 0 \in P
    BY <1>4
  <2>2. ASSUME NEW n \in Nat, n \in P
        PROVE  n + 1 \in P
    BY <1>4, <2>2
  <2> HIDE DEF P
  <2> QED  BY <2>1, <2>2, SetInduction
<1> QED  BY <1>2, <1>4, <1>5

\* A power of two or more is more than its exponent.
LEMMA PowerGrows ==
    ASSUME NEW b \in Nat, 2 <= b
    PROVE  \A n \in Nat : n < Power(b, n)
<1> DEFINE P == {n \in Nat : n < Power(b, n)}
<1>1. 0 \in P
  BY PowerFacts
<1>2. ASSUME NEW n \in Nat, n \in P
      PROVE  n + 1 \in P
  <2>1. Power(b, n) \in Nat /\ Power(b, n + 1) = b * Power(b, n) /\ Power(b, n + 1) \in Nat
    BY PowerFacts
  <2>2. n < Power(b, n)
    BY <1>2
  <2>3. \A p \in Nat : n < p => n + 1 < b * p
    OBVIOUS
  <2> QED  BY <2>1, <2>2, <2>3
<1> HIDE DEF P
<1>3. \A n \in Nat : n \in P
  BY <1>1, <1>2, SetInduction
<1> QED  BY <1>3 DEF P

\* And so are the squares of squares.
LEMMA BasePowerGrows ==
    ASSUME NEW b \in Nat, 2 <= b
    PROVE  \A n \in Nat : n + 2 <= BasePower(b, n)
<1> DEFINE P == {n \in Nat : n + 2 <= BasePower(b, n)}
<1>1. 0 \in P
  BY BasePowerFacts
<1>2. ASSUME NEW n \in Nat, n \in P
      PROVE  n + 1 \in P
  <2>1. /\ BasePower(b, n) \in Nat /\ BasePower(b, n + 1) \in Nat
        /\ BasePower(b, n + 1) = BasePower(b, n) * BasePower(b, n)
    BY BasePowerFacts
  <2>2. n + 2 <= BasePower(b, n)
    BY <1>2
  <2>3. \A p \in Nat : n + 2 <= p => n + 3 <= p * p
    OBVIOUS
  <2> QED  BY <2>1, <2>2, <2>3
<1> HIDE DEF P
<1>3. \A n \in Nat : n \in P
  BY <1>1, <1>2, SetInduction
<1> QED  BY <1>3 DEF P

\* Enough powers are taken to join all digits.
LEMMA JoinsFacts ==
    ASSUME NEW len \in Nat
    PROVE  Joins(len) \in Nat /\ len <= Power(2, Joins(len))
<1> DEFINE Enough == {k \in Nat : len <= Power(2, k)}
           Is(k) == len <= Power(2, k) /\ \A j \in 0 .. k - 1 : Power(2, j) < len
<1>0. \A n \in Nat : Power(2, n) \in Nat /\ n < Power(2, n)
  <2>1. 2 \in Nat /\ 2 <= 2
    OBVIOUS
  <2> QED  BY <2>1, PowerFacts, PowerGrows
<1>1. \E k \in 0 .. len : Is(k)
  <2>1. Enough \in SUBSET Nat /\ len \in Enough
    BY <1>0
  <2>2. PICK m \in Enough : m <= len /\ \A k \in Nat : k < m => k \notin Enough
    <3> HIDE DEF Enough
    <3> QED  BY <2>1, LeastExists
  <2>3. m \in 0 .. len /\ len <= Power(2, m)
    BY <2>2
  <2>4. ASSUME NEW j \in 0 .. m - 1
        PROVE  Power(2, j) < len
    <3>1. j \in Nat /\ j < m /\ Power(2, j) \in Nat
      BY <1>0
    <3> QED  BY <2>2, <3>1
  <2> QED  BY <2>3, <2>4
<1>2. Joins(len) = CHOOSE k \in 0 .. len : Is(k)
  BY DEF Joins
<1> HIDE DEF Is
<1>3. Joins(len) \in 0 .. len /\ Is(Joins(len))
  BY <1>1, <1>2
<1> QED  BY <1>3 DEF Is

\* Enough powers are taken to split x.
LEMMA SplitsFacts ==
    ASSUME NEW x \in Nat, NEW b \in Nat, 2 <= b
    PROVE  Splits(x, b) \in Nat /\ x <= BasePower(b, Splits(x, b))
<1> DEFINE Enough == {k \in Nat : x <= BasePower(b, k)}
           Is(k) == /\ x <= BasePower(b, k)
                    /\ \A j \in 0 .. k - 1 : BasePower(b, j) < x
<1>0. \A n \in Nat : BasePower(b, n) \in Nat /\ n <= BasePower(b, n)
  <2>1. \A n \in Nat : BasePower(b, n) \in Nat /\ n + 2 <= BasePower(b, n)
    BY BasePowerFacts, BasePowerGrows
  <2> QED  BY <2>1
<1>1. \E k \in 0 .. x : Is(k)
  <2>1. Enough \in SUBSET Nat /\ x \in Enough
    BY <1>0
  <2>2. PICK m \in Enough : m <= x /\ \A k \in Nat : k < m => k \notin Enough
    <3> HIDE DEF Enough
    <3> QED  BY <2>1, LeastExists
  <2>3. m \in 0 .. x /\ x <= BasePower(b, m)
    BY <2>2
  <2>4. ASSUME NEW j \in 0 .. m - 1
        PROVE  BasePower(b, j) < x
    <3>1. j \in Nat /\ j < m /\ BasePower(b, j) \in Nat
      BY <1>0
    <3> QED  BY <2>2, <3>1
  <2> QED  BY <2>3, <2>4
<1>2. Splits(x, b) = CHOOSE k \in 0 .. x : Is(k)
  BY DEF Splits
<1> HIDE DEF Is
<1>3. Splits(x, b) \in 0 .. x /\ Is(Splits(x, b))
  BY <1>1, <1>2
<1> QED  BY <1>3 DEF Is

\* A sequence begins with as many zeros, and no more.
LeadsWith(s, z) == /\ z \in 0 .. Len(s)
                   /\ \A n \in 1 .. z : s[n] = 0
                   /\ z < Len(s) => s[z + 1] # 0

\* Leading counts them.
LEMMA LeadingFacts ==
    ASSUME NEW s \in Seq(Nat)
    PROVE  /\ LeadsWith(s, Leading(s))
           /\ \A z : LeadsWith(s, z) => z = Leading(s)
<1>0. Len(s) \in Nat /\ \A n \in 1 .. Len(s) : s[n] \in Nat
  OBVIOUS
<1> DEFINE End == {k \in Nat : k < Len(s) => s[k + 1] # 0}
<1>1. \E z \in 0 .. Len(s) : LeadsWith(s, z)
  <2>1. End \in SUBSET Nat /\ Len(s) \in End
    OBVIOUS
  <2>2. PICK z \in End : z <= Len(s) /\ \A k \in Nat : k < z => k \notin End
    <3> HIDE DEF End
    <3> QED  BY <2>1, LeastExists
  <2>3. ASSUME NEW n \in 1 .. z
        PROVE  s[n] = 0
    <3>1. n - 1 \in Nat /\ n - 1 < z /\ (n - 1) + 1 = n
      OBVIOUS
    <3>2. n - 1 \notin End
      BY <2>2, <3>1
    <3> QED  BY <3>1, <3>2
  <2>4. z \in 0 .. Len(s) /\ (z < Len(s) => s[z + 1] # 0)
    BY <2>2
  <2> QED  BY <2>3, <2>4 DEF LeadsWith
<1>2. Leading(s) = CHOOSE z \in 0 .. Len(s) : LeadsWith(s, z)
  <2>1. ASSUME NEW z \in 0 .. Len(s)
        PROVE  LeadsWith(s, z) <=> /\ \A n \in 1 .. z : s[n] = 0
                                   /\ z < Len(s) => s[z + 1] # 0
    BY DEF LeadsWith
  <2> QED  BY <2>1 DEF Leading
<1>3. LeadsWith(s, Leading(s))
  BY <1>1, <1>2
<1>4. ASSUME NEW y, NEW z, LeadsWith(s, y), LeadsWith(s, z), y < z
      PROVE  FALSE
  <2>1. y \in Nat /\ z \in Nat /\ y + 1 \in 1 .. z /\ y < Len(s)
    BY <1>0, <1>4 DEF LeadsWith
  <2> QED  BY <1>4, <2>1 DEF LeadsWith
<1>5. ASSUME NEW z, LeadsWith(s, z)
      PROVE  z = Leading(s)
  <2>1. z \in Nat /\ Leading(s) \in Nat
    BY <1>0, <1>3, <1>5 DEF LeadsWith
  <2>2. ~(z < Leading(s)) /\ ~(Leading(s) < z)
    BY <1>3, <1>4, <1>5
  <2> QED  BY <2>1, <2>2
<1> QED  BY <1>3, <1>5

-----------------------------------------------------------------------------
(***************************************************************************)
(* The value of digits.                                                    *)
(***************************************************************************)

\* The sums that ValueOf adds up.
IsSum(f, digits, base) ==
    f = [n \in 0 .. Len(digits) |->
            IF n = 0 THEN 0 ELSE f[n - 1] + digits[n] * Power(base, n - 1)]

\* (The function exists and is one: RecursionExists.)
Sum(digits, base) == CHOOSE f : IsSum(f, digits, base)

\* They add up one digit after the other, and the last is the value.
LEMMA SumFacts ==
    ASSUME NEW d \in Seq(Nat), NEW b \in Nat
    PROVE  /\ ValueOf(d, b) = Sum(d, b)[Len(d)]
           /\ Sum(d, b)[0] = 0
           /\ \A n \in 0 .. Len(d) : Sum(d, b)[n] \in Nat
           /\ \A n \in Nat : n < Len(d) =>
                 Sum(d, b)[n + 1] = Sum(d, b)[n] + d[n + 1] * Power(b, n)
<1>0. Len(d) \in Nat /\ \A n \in Nat : n < Len(d) => d[n + 1] \in Nat
  OBVIOUS
<1>1. \A n \in Nat : Power(b, n) \in Nat
  BY PowerFacts
<1>2. \E f : IsSum(f, d, b)
  <2> DEFINE G == [p \in Nat \X Nat |->
                      IF p[1] < Len(d) THEN p[2] + d[p[1] + 1] * Power(b, p[1])
                      ELSE p[2]]
  <2>1. G \in [Nat \X Nat -> Nat]
    <3>1. ASSUME NEW p \in Nat \X Nat
          PROVE  (IF p[1] < Len(d) THEN p[2] + d[p[1] + 1] * Power(b, p[1])
                  ELSE p[2]) \in Nat
      <4>1. p[1] \in Nat /\ p[2] \in Nat /\ Power(b, p[1]) \in Nat
        BY <1>1
      <4>2. CASE p[1] < Len(d)
        <5>1. d[p[1] + 1] \in Nat
          BY <1>0, <4>1, <4>2
        <5>2. d[p[1] + 1] * Power(b, p[1]) \in Nat
          BY <4>1, <5>1
        <5> QED  BY <4>1, <4>2, <5>2
      <4>3. CASE ~(p[1] < Len(d))
        BY <4>1, <4>3
      <4> QED  BY <4>2, <4>3
    <3> QED  BY <3>1
  <2>2. \A n, m \in Nat : n < Len(d) =>
           G[<<n, m>>] = m + d[n + 1] * Power(b, n)
    OBVIOUS
  <2> HIDE DEF G
  <2>3. PICK f \in [Nat -> Nat] : Follows(f, 0, G)
    <3>1. 0 \in Nat
      OBVIOUS
    <3> QED  BY <2>1, <3>1, RecursionExists, Zenon
  <2> DEFINE g == [n \in 0 .. Len(d) |-> f[n]]
  <2>4. ASSUME NEW n \in 0 .. Len(d)
        PROVE  g[n] = IF n = 0 THEN 0 ELSE g[n - 1] + d[n] * Power(b, n - 1)
    <3>1. CASE n = 0
      BY <2>3, <3>1 DEF Follows
    <3>2. CASE n # 0
      <4>1. /\ n - 1 \in Nat /\ n - 1 < Len(d) /\ (n - 1) + 1 = n
            /\ n - 1 \in 0 .. Len(d)
        <5> HIDE DEF g
        <5>1. n \in Nat /\ n <= Len(d) /\ Len(d) \in Nat
          OBVIOUS
        <5>2. n - 1 \in Nat
          BY <3>2, <5>1
        <5>3. n - 1 < Len(d) /\ (n - 1) + 1 = n
          BY <5>1
        <5>4. n - 1 \in 0 .. Len(d)
          BY <5>1, <5>2
        <5> QED  BY <5>2, <5>3, <5>4
      <4>2. g[n] = f[n] /\ g[n - 1] = f[n - 1] /\ f[n - 1] \in Nat
        BY <4>1
      <4>3. f[(n - 1) + 1] = G[<<n - 1, f[n - 1]>>]
        BY <2>3, <4>1 DEF Follows
      <4> HIDE DEF g
      <4>4. G[<<n - 1, f[n - 1]>>] = f[n - 1] + d[n] * Power(b, n - 1)
        BY <2>2, <4>1, <4>2
      <4> QED  BY <3>2, <4>1, <4>2, <4>3, <4>4
    <3> QED  BY <3>1, <3>2
  <2>5. IsSum(g, d, b)
    BY <2>4 DEF IsSum
  <2> QED  BY <2>5
<1> DEFINE f == Sum(d, b)
<1>3. IsSum(f, d, b)
  BY <1>2 DEF Sum
<1>4. ValueOf(d, b) = f[Len(d)]
  BY DEF ValueOf, Sum, IsSum
<1> HIDE DEF f
<1>5. f[0] = 0
  BY <1>0, <1>3 DEF IsSum
<1>6. ASSUME NEW n \in Nat, n < Len(d)
      PROVE  f[n + 1] = f[n] + d[n + 1] * Power(b, n)
  <2>1. n + 1 \in 0 .. Len(d) /\ n + 1 # 0 /\ (n + 1) - 1 = n
    BY <1>0, <1>6
  <2> QED  BY <1>3, <2>1 DEF IsSum
<1> DEFINE P == {n \in Nat : n <= Len(d) => f[n] \in Nat}
<1>7. \A n \in Nat : n \in P
  <2>1. 0 \in P
    BY <1>5
  <2>2. ASSUME NEW n \in Nat, n \in P
        PROVE  n + 1 \in P
    <3>1. SUFFICES ASSUME n + 1 <= Len(d)
                   PROVE  f[n + 1] \in Nat
      OBVIOUS
    <3>2. n < Len(d) /\ n <= Len(d)
      BY <1>0, <3>1
    <3>3. f[n] \in Nat /\ d[n + 1] \in Nat /\ Power(b, n) \in Nat
      BY <1>0, <1>1, <2>2, <3>2
    <3> QED  BY <1>6, <3>2, <3>3
  <2> HIDE DEF P
  <2> QED  BY <2>1, <2>2, SetInduction
<1> QED  BY <1>0, <1>4, <1>5, <1>6, <1>7 DEF f

\* The same digits have the same sums.
LEMMA SumAgrees ==
    ASSUME NEW c \in Seq(Nat), NEW d \in Seq(Nat), NEW b \in Nat, NEW m \in Nat,
           m <= Len(c), m <= Len(d), \A i \in 1 .. m : c[i] = d[i]
    PROVE  \A n \in 0 .. m : Sum(c, b)[n] = Sum(d, b)[n]
<1> DEFINE P == {n \in Nat : n <= m => Sum(c, b)[n] = Sum(d, b)[n]}
<1>0. Len(c) \in Nat /\ Len(d) \in Nat
  OBVIOUS
<1>1. 0 \in P
  BY SumFacts
<1>2. ASSUME NEW n \in Nat, n \in P
      PROVE  n + 1 \in P
  <2>1. SUFFICES ASSUME n + 1 <= m
                 PROVE  Sum(c, b)[n + 1] = Sum(d, b)[n + 1]
    OBVIOUS
  <2>2. n <= m /\ n < Len(c) /\ n < Len(d) /\ n + 1 \in 1 .. m
    BY <1>0, <2>1
  <2>3. Sum(c, b)[n] = Sum(d, b)[n] /\ c[n + 1] = d[n + 1]
    BY <1>2, <2>2
  <2>4. Sum(c, b)[n + 1] = Sum(c, b)[n] + c[n + 1] * Power(b, n)
    BY <2>2, SumFacts
  <2>5. Sum(d, b)[n + 1] = Sum(d, b)[n] + d[n + 1] * Power(b, n)
    BY <2>2, SumFacts
  <2> QED  BY <2>3, <2>4, <2>5
<1> HIDE DEF P
<1>3. \A n \in Nat : n \in P
  BY <1>1, <1>2, SetInduction
<1> QED  BY <1>3 DEF P

\* Zeros add nothing.
LEMMA SumOfZeros ==
    ASSUME NEW d \in Seq(Nat), NEW b \in Nat, NEW m \in Nat,
           m <= Len(d), \A i \in 1 .. Len(d) : m < i => d[i] = 0
    PROVE  ValueOf(d, b) = Sum(d, b)[m]
<1> DEFINE P == {n \in Nat : m + n <= Len(d) => Sum(d, b)[m + n] = Sum(d, b)[m]}
<1>0. Len(d) \in Nat
  OBVIOUS
<1>1. 0 \in P
  OBVIOUS
<1>2. ASSUME NEW n \in Nat, n \in P
      PROVE  n + 1 \in P
  <2>1. SUFFICES ASSUME m + (n + 1) <= Len(d)
                 PROVE  Sum(d, b)[m + (n + 1)] = Sum(d, b)[m]
    OBVIOUS
  <2>2. /\ m + n \in Nat /\ m + n < Len(d) /\ m + n <= Len(d)
        /\ (m + n) + 1 \in 1 .. Len(d) /\ m < (m + n) + 1
        /\ m + (n + 1) = (m + n) + 1 /\ m + n \in 0 .. Len(d)
    BY <1>0, <2>1
  <2>3. d[(m + n) + 1] = 0
    BY <2>2
  <2>4. Sum(d, b)[(m + n) + 1] = Sum(d, b)[m + n] + d[(m + n) + 1] * Power(b, m + n)
    BY <2>2, SumFacts
  <2>5. Power(b, m + n) \in Nat /\ Sum(d, b)[m + n] \in Nat
    BY <2>2, PowerFacts, SumFacts
  <2> QED  BY <1>2, <2>2, <2>3, <2>4, <2>5
<1> HIDE DEF P
<1>3. \A n \in Nat : n \in P
  BY <1>1, <1>2, SetInduction
<1>4. Len(d) - m \in P /\ m + (Len(d) - m) = Len(d)
  BY <1>0, <1>3
<1>5. Sum(d, b)[Len(d)] = Sum(d, b)[m]
  BY <1>0, <1>4 DEF P
<1> QED  BY <1>5, SumFacts

\* Digits within their base add up to less than the next power of it.
LEMMA SumBound ==
    ASSUME NEW d \in Seq(Nat), NEW b \in Nat, NEW m \in Nat,
           m <= Len(d), \A i \in 1 .. m : d[i] < b
    PROVE  \A n \in 0 .. m : Sum(d, b)[n] < Power(b, n)
<1> DEFINE P == {n \in Nat : n <= m => Sum(d, b)[n] < Power(b, n)}
<1>0. Len(d) \in Nat
  OBVIOUS
<1>1. 0 \in P
  <2>1. Sum(d, b)[0] = 0 /\ Power(b, 0) = 1
    BY SumFacts, PowerFacts
  <2> QED  BY <2>1
<1>2. ASSUME NEW n \in Nat, n \in P
      PROVE  n + 1 \in P
  <2>1. SUFFICES ASSUME n + 1 <= m
                 PROVE  Sum(d, b)[n + 1] < Power(b, n + 1)
    OBVIOUS
  <2>2. /\ n <= m /\ n < Len(d) /\ n + 1 \in 1 .. m /\ n + 1 \in 1 .. Len(d)
        /\ n \in 0 .. Len(d)
    BY <1>0, <2>1
  <2>3. /\ Sum(d, b)[n] \in Nat /\ Power(b, n) \in Nat /\ d[n + 1] \in Nat
        /\ Power(b, n + 1) = b * Power(b, n)
        /\ Sum(d, b)[n + 1] = Sum(d, b)[n] + d[n + 1] * Power(b, n)
    <3>1. /\ Sum(d, b)[n] \in Nat
          /\ Sum(d, b)[n + 1] = Sum(d, b)[n] + d[n + 1] * Power(b, n)
      BY <2>2, SumFacts
    <3>2. Power(b, n) \in Nat /\ Power(b, n + 1) = b * Power(b, n)
      BY PowerFacts
    <3>3. d[n + 1] \in Nat
      BY <2>2
    <3> QED  BY <3>1, <3>2, <3>3
  <2>4. Sum(d, b)[n] < Power(b, n) /\ d[n + 1] + 1 <= b
    BY <1>2, <2>2, <2>3
  <2>5. \A s, p, e \in Nat : (s < p /\ e + 1 <= b) => s + e * p < b * p
    <3>1. ASSUME NEW s \in Nat, NEW p \in Nat, NEW e \in Nat, s < p, e + 1 <= b
          PROVE  s + e * p < b * p
      <4>1. (e + 1) * p <= b * p
        BY <3>1
      <4>2. (e + 1) * p = e * p + p
        OBVIOUS
      <4> QED  BY <3>1, <4>1, <4>2
    <3> QED  BY <3>1
  <2> QED  BY <2>3, <2>4, <2>5
<1> HIDE DEF P
<1>3. \A n \in Nat : n \in P
  BY <1>1, <1>2, SetInduction
<1> QED  BY <1>3 DEF P

\* Sums only grow.
LEMMA SumGrows ==
    ASSUME NEW d \in Seq(Nat), NEW b \in Nat, NEW m \in Nat, m <= Len(d)
    PROVE  \A n \in m .. Len(d) : Sum(d, b)[m] <= Sum(d, b)[n]
<1> DEFINE P == {n \in Nat : m + n <= Len(d) => Sum(d, b)[m] <= Sum(d, b)[m + n]}
<1>0. Len(d) \in Nat
  OBVIOUS
<1>1. 0 \in P
  <2>1. m \in 0 .. Len(d) /\ m + 0 = m
    BY <1>0
  <2>2. Sum(d, b)[m] \in Nat
    BY <2>1, SumFacts
  <2> QED  BY <2>1, <2>2
<1>2. ASSUME NEW n \in Nat, n \in P
      PROVE  n + 1 \in P
  <2>1. SUFFICES ASSUME m + (n + 1) <= Len(d)
                 PROVE  Sum(d, b)[m] <= Sum(d, b)[m + (n + 1)]
    OBVIOUS
  <2>2. /\ m + n \in Nat /\ m + n < Len(d) /\ m + n <= Len(d)
        /\ (m + n) + 1 \in 1 .. Len(d) /\ m \in 0 .. Len(d)
        /\ m + (n + 1) = (m + n) + 1 /\ m + n \in 0 .. Len(d)
    BY <1>0, <2>1
  <2>3. Sum(d, b)[(m + n) + 1] = Sum(d, b)[m + n] + d[(m + n) + 1] * Power(b, m + n)
    BY <2>2, SumFacts
  <2>4. Power(b, m + n) \in Nat /\ d[(m + n) + 1] \in Nat
    <3>1. d[(m + n) + 1] \in Nat
      BY <2>2
    <3> QED  BY <2>2, <3>1, PowerFacts
  <2>5. Sum(d, b)[m + n] \in Nat /\ Sum(d, b)[m] \in Nat
    BY <2>2, SumFacts
  <2>6. d[(m + n) + 1] * Power(b, m + n) \in Nat
    BY <2>4
  <2>7. Sum(d, b)[m] <= Sum(d, b)[m + n]
    BY <1>2, <2>2
  <2>8. Sum(d, b)[m + n] <= Sum(d, b)[(m + n) + 1]
    BY <2>3, <2>5, <2>6
  <2>9. Sum(d, b)[(m + n) + 1] \in Nat
    BY <2>3, <2>5, <2>6
  <2> QED  BY <2>2, <2>5, <2>7, <2>8, <2>9
<1> HIDE DEF P
<1>3. \A n \in Nat : n \in P
  BY <1>1, <1>2, SetInduction
<1>4. ASSUME NEW n \in m .. Len(d)
      PROVE  Sum(d, b)[m] <= Sum(d, b)[n]
  <2>1. n - m \in P /\ m + (n - m) = n /\ n <= Len(d)
    BY <1>0, <1>3
  <2> QED  BY <2>1 DEF P
<1> QED  BY <1>4

-----------------------------------------------------------------------------
(***************************************************************************)
(* fromBase: joining digits.                                               *)
(***************************************************************************)

\* A power of the square is one of twice the exponent.
LEMMA PowerOfSquare ==
    ASSUME NEW b \in Nat
    PROVE  \A n \in Nat : Power(b * b, n) = Power(b, 2 * n)
<1> DEFINE P == {n \in Nat : Power(b * b, n) = Power(b, 2 * n)}
<1>0. b * b \in Nat
  OBVIOUS
<1>1. 0 \in P
  <2>1. Power(b * b, 0) = 1 /\ Power(b, 0) = 1 /\ 2 * 0 = 0
    BY <1>0, PowerFacts
  <2> QED  BY <2>1
<1>2. ASSUME NEW n \in Nat, n \in P
      PROVE  n + 1 \in P
  <2>1. Power(b * b, n + 1) = (b * b) * Power(b * b, n)
    BY <1>0, PowerFacts
  <2>2. 2 * n \in Nat /\ 2 * n + 1 \in Nat /\ 2 * (n + 1) = (2 * n + 1) + 1
    OBVIOUS
  <2>3. /\ Power(b, 2 * n) \in Nat
        /\ Power(b, 2 * n + 1) = b * Power(b, 2 * n)
        /\ Power(b, (2 * n + 1) + 1) = b * Power(b, 2 * n + 1)
    BY <2>2, PowerFacts
  <2>4. \A p \in Nat : b * (b * p) = (b * b) * p
    OBVIOUS
  <2>5. Power(b * b, n) = Power(b, 2 * n)
    BY <1>2
  <2> QED  BY <2>1, <2>2, <2>3, <2>4, <2>5
<1> HIDE DEF P
<1>3. \A n \in Nat : n \in P
  BY <1>1, <1>2, SetInduction
<1> QED  BY <1>3 DEF P

\* What one round of fromBase makes of digits.
LEMMA PairedFacts ==
    ASSUME NEW d \in Seq(Nat), NEW p \in Nat
    PROVE  /\ Paired(d, p) \in Seq(Nat)
           /\ Len(Paired(d, p)) = Len(d) \div 2
           /\ \A j \in Nat : j < Len(d) \div 2 =>
                 /\ 2 * j + 1 \in 1 .. Len(d) /\ 2 * j + 2 \in 1 .. Len(d)
                 /\ Paired(d, p)[j + 1] = d[2 * j + 1] + p * d[2 * j + 2]
<1>0. Len(d) \in Nat /\ Len(d) \div 2 \in Nat
  OBVIOUS
<1>1. ASSUME NEW j \in 1 .. Len(d) \div 2
      PROVE  /\ 2 * j - 1 \in 1 .. Len(d) /\ 2 * j \in 1 .. Len(d)
             /\ d[2 * j - 1] + p * d[2 * j] \in Nat
  <2>1. 2 * j - 1 \in 1 .. Len(d) /\ 2 * j \in 1 .. Len(d)
    BY <1>0
  <2>2. d[2 * j - 1] \in Nat /\ d[2 * j] \in Nat
    BY <2>1
  <2>3. p * d[2 * j] \in Nat
    BY <2>2
  <2>4. d[2 * j - 1] + p * d[2 * j] \in Nat
    BY <2>2, <2>3
  <2> QED  BY <2>1, <2>4
<1>2. Paired(d, p) \in [1 .. Len(d) \div 2 -> Nat]
  BY <1>1 DEF Paired
<1>3. Paired(d, p) \in Seq(Nat) /\ Len(Paired(d, p)) = Len(d) \div 2
  <2>1. \A n \in Nat : \A s \in [1 .. n -> Nat] : s \in Seq(Nat) /\ Len(s) = n
    OBVIOUS
  <2> QED  BY <1>0, <1>2, <2>1
<1>4. ASSUME NEW j \in Nat, j < Len(d) \div 2
      PROVE  /\ 2 * j + 1 \in 1 .. Len(d) /\ 2 * j + 2 \in 1 .. Len(d)
             /\ Paired(d, p)[j + 1] = d[2 * j + 1] + p * d[2 * j + 2]
  <2>1. /\ j + 1 \in 1 .. Len(d) \div 2
        /\ 2 * (j + 1) - 1 = 2 * j + 1 /\ 2 * (j + 1) = 2 * j + 2
    BY <1>0, <1>4
  <2>2. Paired(d, p)[j + 1] = d[2 * (j + 1) - 1] + p * d[2 * (j + 1)]
    BY <2>1 DEF Paired
  <2> QED  BY <1>1, <2>1, <2>2
<1> QED  BY <1>3, <1>4

\* Pairs of digits are digits of the square of the base, of the same value.
LEMMA SumOfPairs ==
    ASSUME NEW d \in Seq(Nat), NEW b \in Nat
    PROVE  \A n \in 0 .. Len(d) \div 2 :
              Sum(Paired(d, b), b * b)[n] = Sum(d, b)[2 * n]
<1> DEFINE e == Paired(d, b)
           P == {n \in Nat : n <= Len(d) \div 2 =>
                    Sum(e, b * b)[n] = Sum(d, b)[2 * n]}
<1>0. /\ b * b \in Nat /\ Len(d) \in Nat /\ Len(d) \div 2 \in Nat
      /\ 2 * (Len(d) \div 2) <= Len(d)
  OBVIOUS
<1>1. /\ e \in Seq(Nat) /\ Len(e) = Len(d) \div 2
      /\ \A j \in Nat : j < Len(d) \div 2 =>
            /\ 2 * j + 1 \in 1 .. Len(d) /\ 2 * j + 2 \in 1 .. Len(d)
            /\ e[j + 1] = d[2 * j + 1] + b * d[2 * j + 2]
  BY PairedFacts
<1> HIDE DEF e
<1>2. 0 \in P
  <2>1. Sum(e, b * b)[0] = 0 /\ Sum(d, b)[0] = 0 /\ 2 * 0 = 0
    BY <1>0, <1>1, SumFacts
  <2> QED  BY <2>1
<1>3. ASSUME NEW n \in Nat, n \in P
      PROVE  n + 1 \in P
  <2>1. SUFFICES ASSUME n + 1 <= Len(d) \div 2
                 PROVE  Sum(e, b * b)[n + 1] = Sum(d, b)[2 * (n + 1)]
    OBVIOUS
  <2>2. /\ n < Len(d) \div 2 /\ n <= Len(d) \div 2 /\ n < Len(e)
        /\ 2 * n \in Nat /\ 2 * n + 1 \in Nat
        /\ 2 * n < Len(d) /\ 2 * n + 1 < Len(d)
        /\ 2 * (n + 1) = (2 * n + 1) + 1 /\ (2 * n + 1) + 1 = 2 * n + 2
        /\ 2 * n \in 0 .. Len(d)
    <3>1. \A h, l \in Nat : (2 * h <= l /\ n + 1 <= h) =>
            /\ n < h /\ n <= h /\ 2 * n \in Nat /\ 2 * n + 1 \in Nat
            /\ 2 * n < l /\ 2 * n + 1 < l
            /\ 2 * (n + 1) = (2 * n + 1) + 1 /\ (2 * n + 1) + 1 = 2 * n + 2
            /\ 2 * n \in 0 .. l
      OBVIOUS
    <3> QED  BY <1>0, <1>1, <2>1, <3>1
  <2>3. /\ 2 * n + 1 \in 1 .. Len(d) /\ 2 * n + 2 \in 1 .. Len(d)
        /\ e[n + 1] = d[2 * n + 1] + b * d[2 * n + 2]
    BY <1>1, <2>2
  <2>4. Sum(e, b * b)[n + 1] = Sum(e, b * b)[n] + e[n + 1] * Power(b * b, n)
    BY <1>0, <1>1, <2>2, SumFacts
  <2>5. Sum(d, b)[2 * n + 1] = Sum(d, b)[2 * n] + d[2 * n + 1] * Power(b, 2 * n)
    BY <2>2, SumFacts
  <2>6. Sum(d, b)[(2 * n + 1) + 1]
            = Sum(d, b)[2 * n + 1] + d[(2 * n + 1) + 1] * Power(b, 2 * n + 1)
    BY <2>2, SumFacts
  <2>7. /\ Power(b, 2 * n) \in Nat
        /\ Power(b, 2 * n + 1) = b * Power(b, 2 * n)
        /\ Power(b * b, n) = Power(b, 2 * n)
    BY <2>2, PowerFacts, PowerOfSquare
  <2>8. Sum(d, b)[2 * n] \in Nat
    BY <2>2, SumFacts
  <2>9. d[2 * n + 1] \in Nat /\ d[2 * n + 2] \in Nat
    BY <2>3
  <2>10. Sum(e, b * b)[n] = Sum(d, b)[2 * n]
    BY <1>3, <2>2
  <2>11. \A s, p, x, y \in Nat :
            s + (x + b * y) * p = (s + x * p) + y * (b * p)
    OBVIOUS
  <2>12. Sum(e, b * b)[n + 1]
            = Sum(d, b)[2 * n] + (d[2 * n + 1] + b * d[2 * n + 2]) * Power(b, 2 * n)
    BY <2>3, <2>4, <2>7, <2>10
  <2>13. Sum(d, b)[2 * (n + 1)]
            = (Sum(d, b)[2 * n] + d[2 * n + 1] * Power(b, 2 * n))
                + d[2 * n + 2] * (b * Power(b, 2 * n))
    BY <2>2, <2>5, <2>6, <2>7
  <2>14. Sum(d, b)[2 * n] + (d[2 * n + 1] + b * d[2 * n + 2]) * Power(b, 2 * n)
            = (Sum(d, b)[2 * n] + d[2 * n + 1] * Power(b, 2 * n))
                + d[2 * n + 2] * (b * Power(b, 2 * n))
    <3> DEFINE s == Sum(d, b)[2 * n]
               p == Power(b, 2 * n)
               x == d[2 * n + 1]
               y == d[2 * n + 2]
    <3>1. s \in Nat /\ p \in Nat /\ x \in Nat /\ y \in Nat
      BY <2>7, <2>8, <2>9
    <3> HIDE DEF s, p, x, y
    <3>2. s + (x + b * y) * p = (s + x * p) + y * (b * p)
      BY <2>11, <3>1
    <3> QED  BY <3>2 DEF s, p, x, y
  <2> QED  BY <2>12, <2>13, <2>14
<1> HIDE DEF P
<1>4. \A n \in Nat : n \in P
  BY <1>2, <1>3, SetInduction
<1> QED  BY <1>0, <1>4 DEF P, e

\* Pairing all digits keeps the value.
LEMMA PairedValue ==
    ASSUME NEW d \in Seq(Nat), NEW b \in Nat, NEW n \in Nat, Len(d) = 2 * n
    PROVE  ValueOf(Paired(d, b), b * b) = ValueOf(d, b)
<1>1. Len(d) \div 2 = n /\ n \in 0 .. Len(d) \div 2 /\ b * b \in Nat
  OBVIOUS
<1>2. Paired(d, b) \in Seq(Nat) /\ Len(Paired(d, b)) = n
  BY <1>1, PairedFacts
<1>3. Sum(Paired(d, b), b * b)[n] = Sum(d, b)[2 * n]
  BY <1>1, SumOfPairs
<1>4. ValueOf(d, b) = Sum(d, b)[2 * n]
  BY SumFacts
<1>5. ValueOf(Paired(d, b), b * b) = Sum(Paired(d, b), b * b)[n]
  BY <1>1, <1>2, SumFacts
<1> QED  BY <1>3, <1>4, <1>5

\* A sequence of zeros.
LEMMA ZerosFacts ==
    ASSUME NEW n \in Nat
    PROVE  /\ Zeros(n) \in Seq(Nat)
           /\ Len(Zeros(n)) = n
           /\ \A i \in 1 .. n : Zeros(n)[i] = 0
<1>1. Zeros(n) \in [1 .. n -> Nat]
  BY DEF Zeros
<1>2. Zeros(n) \in Seq(Nat) /\ Len(Zeros(n)) = n
  BY <1>1
<1> QED  BY <1>2 DEF Zeros

\* Zeros behind the most significant digit change no value.
LEMMA PaddedValue ==
    ASSUME NEW d \in Seq(Nat), NEW b \in Nat, NEW n \in Nat
    PROVE  /\ d \o Zeros(n) \in Seq(Nat)
           /\ Len(d \o Zeros(n)) = Len(d) + n
           /\ ValueOf(d \o Zeros(n), b) = ValueOf(d, b)
<1> DEFINE e == d \o Zeros(n)
<1>0. Len(d) \in Nat
  OBVIOUS
<1>1. /\ e \in Seq(Nat) /\ Len(e) = Len(d) + n
      /\ \A i \in 1 .. Len(e) :
            e[i] = IF i <= Len(d) THEN d[i] ELSE Zeros(n)[i - Len(d)]
  <2>1. Zeros(n) \in Seq(Nat) /\ Len(Zeros(n)) = n
    BY ZerosFacts
  <2> QED  BY <2>1, ConcatProperties
<1> HIDE DEF e
<1>2. \A i \in 1 .. Len(d) : e[i] = d[i]
  BY <1>0, <1>1
<1>3. \A i \in 1 .. Len(e) : Len(d) < i => e[i] = 0
  <2>1. ASSUME NEW i \in 1 .. Len(e), Len(d) < i
        PROVE  e[i] = 0
    <3>1. i - Len(d) \in 1 .. n /\ ~(i <= Len(d))
      BY <1>0, <1>1, <2>1
    <3> QED  BY <1>1, <3>1, ZerosFacts
  <2> QED  BY <2>1
<1>4. ValueOf(e, b) = Sum(e, b)[Len(d)]
  <2>1. Len(d) <= Len(e)
    BY <1>0, <1>1
  <2> QED  BY <1>0, <1>1, <1>3, <2>1, SumOfZeros
<1>5. Sum(e, b)[Len(d)] = Sum(d, b)[Len(d)]
  <2>1. Len(d) <= Len(e) /\ Len(d) <= Len(d) /\ Len(d) \in 0 .. Len(d)
    BY <1>0, <1>1
  <2> QED  BY <1>0, <1>1, <1>2, <2>1, SumAgrees
<1> QED  BY <1>1, <1>4, <1>5, SumFacts DEF e

\* The rounds of fromBase.
IsJoined(f, d, b, k) ==
    f = [i \in 0 .. k |->
            IF i = 0 THEN d \o Zeros(Power(2, k) - Len(d))
            ELSE Paired(f[i - 1], BasePower(b, i - 1))]

\* (As Sum is.)
Joined(d, b, k) == CHOOSE f : IsJoined(f, d, b, k)

\* Each pairs the digits of the one before.
LEMMA JoinedFacts ==
    ASSUME NEW d \in Seq(Nat), NEW b \in Nat, NEW k \in Nat,
           Len(d) <= Power(2, k)
    PROVE  /\ Joined(d, b, k)[0] = d \o Zeros(Power(2, k) - Len(d))
           /\ \A i \in Nat : i < k =>
                 Joined(d, b, k)[i + 1] = Paired(Joined(d, b, k)[i], BasePower(b, i))
<1>0. Power(2, k) - Len(d) \in Nat
  <2>1. Power(2, k) \in Nat /\ Len(d) \in Nat
    BY PowerFacts
  <2> QED  BY <2>1
<1> DEFINE first == d \o Zeros(Power(2, k) - Len(d))
<1>1. first \in Seq(Nat)
  BY <1>0, PaddedValue
<1> HIDE DEF first
<1>2. \A n \in Nat : BasePower(b, n) \in Nat
  BY BasePowerFacts
<1>3. \E f : IsJoined(f, d, b, k)
  <2> DEFINE G == [p \in Nat \X Seq(Nat) |-> Paired(p[2], BasePower(b, p[1]))]
  <2>1. G \in [Nat \X Seq(Nat) -> Seq(Nat)]
    BY <1>2, PairedFacts
  <2>2. \A n \in Nat, s \in Seq(Nat) : G[<<n, s>>] = Paired(s, BasePower(b, n))
    OBVIOUS
  <2> HIDE DEF G
  <2>3. PICK f \in [Nat -> Seq(Nat)] : Follows(f, first, G)
    BY <1>1, <2>1, RecursionExists, Zenon
  <2> DEFINE g == [i \in 0 .. k |-> f[i]]
  <2>4. ASSUME NEW i \in 0 .. k
        PROVE  g[i] = IF i = 0 THEN first
                      ELSE Paired(g[i - 1], BasePower(b, i - 1))
    <3>1. CASE i = 0
      BY <2>3, <3>1 DEF Follows
    <3>2. CASE i # 0
      <4>1. i - 1 \in Nat /\ (i - 1) + 1 = i /\ i - 1 \in 0 .. k
        BY <3>2
      <4>2. g[i] = f[i] /\ g[i - 1] = f[i - 1] /\ f[i - 1] \in Seq(Nat)
        BY <4>1
      <4>3. f[(i - 1) + 1] = G[<<i - 1, f[i - 1]>>]
        BY <2>3, <4>1 DEF Follows
      <4> HIDE DEF g
      <4>4. G[<<i - 1, f[i - 1]>>] = Paired(f[i - 1], BasePower(b, i - 1))
        BY <2>2, <4>1, <4>2
      <4> QED  BY <3>2, <4>1, <4>2, <4>3, <4>4
    <3> QED  BY <3>1, <3>2
  <2>5. IsJoined(g, d, b, k)
    BY <2>4 DEF IsJoined, first
  <2> QED  BY <2>5
<1> DEFINE f == Joined(d, b, k)
<1>4. IsJoined(f, d, b, k)
  BY <1>3 DEF Joined
<1> HIDE DEF f
<1>5. f[0] = first
  BY <1>4 DEF IsJoined, first
<1>6. ASSUME NEW i \in Nat, i < k
      PROVE  f[i + 1] = Paired(f[i], BasePower(b, i))
  <2>1. i + 1 \in 0 .. k /\ i + 1 # 0 /\ (i + 1) - 1 = i
    BY <1>6
  <2> QED  BY <1>4, <2>1 DEF IsJoined
<1> QED  BY <1>5, <1>6 DEF f, first

\* fromBase is the naive sum.
LEMMA FromBaseValue ==
    ASSUME NEW d \in Seq(Nat), NEW b \in Nat
    PROVE  FromBase(d, b) = ValueOf(d, b)
<1> DEFINE k == Joins(Len(d))
           J == Joined(d, b, k)
<1>0. Len(d) \in Nat
  OBVIOUS
<1>1. k \in Nat /\ Len(d) <= Power(2, k)
  BY <1>0, JoinsFacts
<1>2. FromBase(d, b) = J[k][1]
  BY DEF FromBase, Joined, IsJoined
<1> HIDE DEF k
<1>3. \A n \in Nat : Power(2, n) \in Nat /\ Power(2, n + 1) = 2 * Power(2, n)
  BY PowerFacts
<1>4. /\ J[0] = d \o Zeros(Power(2, k) - Len(d))
      /\ \A i \in Nat : i < k => J[i + 1] = Paired(J[i], BasePower(b, i))
  BY <1>1, JoinedFacts
<1> HIDE DEF J
<1> DEFINE IsOf(s, i) == /\ s \in Seq(Nat)
                         /\ Len(s) = Power(2, k - i)
                         /\ ValueOf(s, BasePower(b, i)) = ValueOf(d, b)
           P == {i \in Nat : i <= k => IsOf(J[i], i)}
<1>5. 0 \in P
  <2>1. Power(2, k) - Len(d) \in Nat /\ Len(d) + (Power(2, k) - Len(d)) = Power(2, k)
    <3>1. Power(2, k) \in Nat
      BY <1>1, <1>3
    <3> QED  BY <1>0, <1>1, <3>1
  <2>2. J[0] \in Seq(Nat) /\ Len(J[0]) = Power(2, k) /\ ValueOf(J[0], b) = ValueOf(d, b)
    <3> DEFINE n == Power(2, k) - Len(d)
    <3>1. n \in Nat /\ Len(d) + n = Power(2, k) /\ J[0] = d \o Zeros(n)
      BY <1>4, <2>1
    <3> HIDE DEF n
    <3>2. /\ d \o Zeros(n) \in Seq(Nat)
          /\ Len(d \o Zeros(n)) = Len(d) + n
          /\ ValueOf(d \o Zeros(n), b) = ValueOf(d, b)
      BY <3>1, PaddedValue, Zenon
    <3> QED  BY <3>1, <3>2
  <2>3. BasePower(b, 0) = b /\ k - 0 = k
    BY <1>1, BasePowerFacts
  <2> QED  BY <2>2, <2>3
<1>6. ASSUME NEW i \in Nat, i \in P
      PROVE  i + 1 \in P
  <2>1. SUFFICES ASSUME i + 1 <= k
                 PROVE  IsOf(J[i + 1], i + 1)
    OBVIOUS
  <2>2. /\ i < k /\ i <= k /\ k - (i + 1) \in Nat
        /\ (k - (i + 1)) + 1 = k - i
    BY <1>1, <2>1
  <2>3. IsOf(J[i], i)
    BY <1>6, <2>2
  <2> DEFINE q == BasePower(b, i)
             n == Power(2, k - (i + 1))
  <2>4. q \in Nat /\ BasePower(b, i + 1) = q * q
    BY BasePowerFacts
  <2>5. n \in Nat /\ Power(2, k - i) = 2 * n
    BY <1>3, <2>2
  <2>6. J[i + 1] = Paired(J[i], q)
    BY <1>4, <2>2
  <2>7. J[i] \in Seq(Nat) /\ Len(J[i]) = 2 * n /\ ValueOf(J[i], q) = ValueOf(d, b)
    BY <2>3, <2>5
  <2> HIDE DEF q, n, P, IsOf
  <2>8. ValueOf(J[i + 1], q * q) = ValueOf(d, b)
    BY <2>4, <2>5, <2>6, <2>7, PairedValue
  <2>9. J[i + 1] \in Seq(Nat) /\ Len(J[i + 1]) = n
    <3>1. (2 * n) \div 2 = n
      BY <2>5
    <3> QED  BY <2>4, <2>6, <2>7, <3>1, PairedFacts
  <2> QED  BY <2>4, <2>8, <2>9 DEF IsOf, n
<1> HIDE DEF P
<1>7. \A i \in Nat : i \in P
  BY <1>5, <1>6, SetInduction
<1>8. IsOf(J[k], k)
  <2>1. k <= k
    BY <1>1
  <2> QED  BY <1>1, <1>7, <2>1 DEF P
<1> HIDE DEF IsOf
<1>9. /\ J[k] \in Seq(Nat) /\ Len(J[k]) = 1
      /\ ValueOf(J[k], BasePower(b, k)) = ValueOf(d, b)
  <2>1. k - k = 0 /\ Power(2, 0) = 1
    BY <1>1, PowerFacts
  <2> QED  BY <1>8, <2>1 DEF IsOf
<1>10. \A s \in Seq(Nat), q \in Nat : Len(s) = 1 => ValueOf(s, q) = s[1]
  <2>1. ASSUME NEW s \in Seq(Nat), NEW q \in Nat, Len(s) = 1
        PROVE  ValueOf(s, q) = s[1]
    <3>1. ValueOf(s, q) = Sum(s, q)[1] /\ Sum(s, q)[0] = 0
      BY <2>1, SumFacts
    <3>2. 0 \in Nat /\ 0 < Len(s) /\ 0 + 1 = 1
      BY <2>1
    <3>3. Sum(s, q)[0 + 1] = Sum(s, q)[0] + s[0 + 1] * Power(q, 0)
      BY <3>2, SumFacts
    <3>4. Power(q, 0) = 1 /\ s[1] \in Nat
      <4>1. s[1] \in Nat
        <5>1. \A i \in 1 .. Len(s) : s[i] \in Nat
          OBVIOUS
        <5> QED  BY <2>1, <5>1
      <4> QED  BY <4>1, PowerFacts
    <3> QED  BY <3>1, <3>3, <3>4
  <2> QED  BY <2>1
<1>11. BasePower(b, k) \in Nat
  BY <1>1, BasePowerFacts
<1> QED  BY <1>2, <1>9, <1>10, <1>11

-----------------------------------------------------------------------------
(***************************************************************************)
(* toBase: splitting digits.                                               *)
(***************************************************************************)

\* A sequence backwards.
LEMMA ReverseFacts ==
    ASSUME NEW S, NEW s \in Seq(S)
    PROVE  /\ Reverse(s) \in Seq(S)
           /\ Len(Reverse(s)) = Len(s)
           /\ \A i \in 1 .. Len(s) : /\ Len(s) - i + 1 \in 1 .. Len(s)
                                     /\ Reverse(s)[i] = s[Len(s) - i + 1]
<1>0. Len(s) \in Nat /\ \A i \in 1 .. Len(s) : s[i] \in S
  OBVIOUS
<1>1. \A i \in 1 .. Len(s) : Len(s) - i + 1 \in 1 .. Len(s)
  BY <1>0
<1>2. Reverse(s) \in [1 .. Len(s) -> S]
  BY <1>0, <1>1 DEF Reverse
<1>3. Reverse(s) \in Seq(S) /\ Len(Reverse(s)) = Len(s)
  <2>1. \A n \in Nat : \A r \in [1 .. n -> S] : r \in Seq(S) /\ Len(r) = n
    OBVIOUS
  <2> QED  BY <1>0, <1>2, <2>1
<1>4. \A i \in 1 .. Len(s) : Reverse(s)[i] = s[Len(s) - i + 1]
  BY DEF Reverse
<1> QED  BY <1>1, <1>3, <1>4

\* What is left of digits without the leading zeros.
LEMMA StrippedFacts ==
    ASSUME NEW d \in Seq(Nat), NEW b \in Nat, NEW e,
           e = SubSeq(d, 1, Len(d) - Leading(Reverse(d)))
    PROVE  /\ e \in Seq(Nat)
           /\ Len(e) \in 0 .. Len(d)
           /\ \A i \in 1 .. Len(e) : e[i] = d[i]
           /\ ValueOf(e, b) = ValueOf(d, b)
           /\ 0 < Len(e) => e[Len(e)] # 0
           /\ \A i \in 1 .. Len(d) : d[i] # 0 => i <= Len(e)
<1> DEFINE r == Reverse(d)
           z == Leading(r)
           m == Len(d) - z
<1>0. Len(d) \in Nat
  OBVIOUS
<1>1. /\ r \in Seq(Nat) /\ Len(r) = Len(d)
      /\ \A i \in 1 .. Len(d) : Len(d) - i + 1 \in 1 .. Len(d)
                                /\ r[i] = d[Len(d) - i + 1]
  BY ReverseFacts
<1> HIDE DEF r
<1>2. LeadsWith(r, z)
  BY <1>1, LeadingFacts
<1>3. e = SubSeq(d, 1, m)
  BY DEF r
<1> HIDE DEF z
<1>4. z \in 0 .. Len(d) /\ m \in 0 .. Len(d) /\ z + m = Len(d)
  BY <1>0, <1>1, <1>2 DEF LeadsWith
<1> HIDE DEF m
<1>5. /\ e \in Seq(Nat) /\ Len(e) = m
      /\ \A i \in 1 .. m : e[i] = d[i]
  <2>1. m \in Nat /\ m <= Len(d) /\ 1 \in Nat
    BY <1>0, <1>4
  <2>2. 1 \in 1 .. Len(d) + 1 /\ m \in 1 - 1 .. Len(d) /\ m - 1 + 1 = m
    BY <1>0, <2>1
  <2>3. /\ SubSeq(d, 1, m) \in Seq(Nat)
        /\ Len(SubSeq(d, 1, m)) = m - 1 + 1
        /\ \A i \in 1 .. m - 1 + 1 : SubSeq(d, 1, m)[i] = d[1 + i - 1]
    BY <2>2, SubSeqProperties
  <2>4. \A i \in 1 .. m : 1 + i - 1 = i
    OBVIOUS
  <2> QED  BY <1>3, <2>2, <2>3, <2>4
<1>6. \A i \in 1 .. Len(d) : m < i => d[i] = 0
  <2>1. ASSUME NEW i \in 1 .. Len(d), m < i
        PROVE  d[i] = 0
    <3>1. /\ Len(d) - i + 1 \in 1 .. z /\ Len(d) - i + 1 \in 1 .. Len(d)
          /\ Len(d) - (Len(d) - i + 1) + 1 = i
      BY <1>0, <1>4, <2>1
    <3>2. r[Len(d) - i + 1] = d[i]
      BY <1>1, <3>1
    <3> QED  BY <1>2, <3>1, <3>2 DEF LeadsWith
  <2> QED  BY <2>1
<1>7. 0 < m => d[m] # 0
  <2>1. SUFFICES ASSUME 0 < m
                 PROVE  d[m] # 0
    OBVIOUS
  <2>2. z < Len(r) /\ z + 1 \in 1 .. Len(d) /\ Len(d) - (z + 1) + 1 = m
    BY <1>0, <1>1, <1>4, <2>1
  <2>3. r[z + 1] = d[m]
    BY <1>1, <2>2
  <2> QED  BY <1>2, <2>2, <2>3 DEF LeadsWith
<1>8. ValueOf(e, b) = ValueOf(d, b)
  <2>1. m \in Nat /\ m <= Len(d) /\ m <= Len(e) /\ m \in 0 .. m
    BY <1>0, <1>4, <1>5
  <2>2. ValueOf(d, b) = Sum(d, b)[m]
    BY <1>6, <2>1, SumOfZeros
  <2>3. Sum(e, b)[m] = Sum(d, b)[m]
    <3>1. \A n \in 0 .. m : Sum(e, b)[n] = Sum(d, b)[n]
      <4>1. e \in Seq(Nat) /\ \A i \in 1 .. m : e[i] = d[i]
        BY <1>5
      <4> QED  BY <2>1, <4>1, SumAgrees, Zenon
    <3> QED  BY <2>1, <3>1
  <2>4. ValueOf(e, b) = Sum(e, b)[m]
    BY <1>5, SumFacts
  <2> QED  BY <2>2, <2>3, <2>4
<1>9. 0 < Len(e) => e[Len(e)] # 0
  <2>1. 0 < m => m \in 1 .. m
    BY <1>4
  <2> QED  BY <1>5, <1>7, <2>1
<1>10. \A i \in 1 .. Len(d) : d[i] # 0 => i <= Len(e)
  <2>1. ASSUME NEW i \in 1 .. Len(d), d[i] # 0
        PROVE  i <= Len(e)
    <3>1. ~(m < i)
      BY <1>6, <2>1
    <3>2. m \in Nat /\ i \in Nat /\ Len(e) = m
      BY <1>0, <1>4, <1>5
    <3>3. \A x, y \in Nat : ~(y < x) => x <= y
      OBVIOUS
    <3> QED  BY <3>1, <3>2, <3>3, Zenon
  <2> QED  BY <2>1
<1> QED  BY <1>4, <1>5, <1>8, <1>9, <1>10

\* The quotient and the remainder.
LEMMA DivisionFacts ==
    ASSUME NEW x \in Nat, NEW p \in Nat, 0 < p
    PROVE  /\ x % p \in Nat /\ x \div p \in Nat
           /\ x % p < p
           /\ (x % p) + p * (x \div p) = x
           /\ x < p * p => x \div p < p
           /\ x = p * p => x % p = 0 /\ x \div p = p
           /\ x = 0 => x % p = 0 /\ x \div p = 0
<1>1. /\ x % p \in Nat /\ x \div p \in Nat
      /\ x % p < p
      /\ (x % p) + p * (x \div p) = x
  OBVIOUS
<1>2. \A q, r \in Nat : r < p /\ r + p * q = x =>
         /\ x < p * p => q < p
         /\ x = p * p => r = 0 /\ q = p
         /\ x = 0 => r = 0 /\ q = 0
  <2>1. ASSUME NEW q \in Nat, NEW r \in Nat, r < p, r + p * q = x
        PROVE  /\ x < p * p => q < p
               /\ x = p * p => r = 0 /\ q = p
               /\ x = 0 => r = 0 /\ q = 0
    <3>1. q >= p => p * q >= p * p
      OBVIOUS
    <3>2. q >= p + 1 => p * q >= p * p + p
      OBVIOUS
    <3>3. q + 1 <= p => p * q + p <= p * p
      OBVIOUS
    <3>4. q >= 1 => p * q >= p
      OBVIOUS
    <3>5. p * q \in Nat /\ p * p \in Nat
      OBVIOUS
    <3>6. x < p * p => q < p
      BY <2>1, <3>1, <3>5
    <3>7. x = p * p => r = 0 /\ q = p
      <4>1. SUFFICES ASSUME x = p * p
                     PROVE  r = 0 /\ q = p
        OBVIOUS
      <4>2. ~(q >= p + 1)
        BY <2>1, <3>2, <3>5, <4>1
      <4>3. ~(q + 1 <= p)
        BY <2>1, <3>3, <3>5, <4>1
      <4>4. q = p
        BY <4>2, <4>3
      <4> QED  BY <2>1, <4>1, <4>4
    <3>8. x = 0 => r = 0 /\ q = 0
      BY <2>1, <3>4, <3>5
    <3> QED  BY <3>6, <3>7, <3>8
  <2> QED  BY <2>1
<1> QED  BY <1>1, <1>2

\* What one round of toBase makes of digits.
LEMMA HalvedFacts ==
    ASSUME NEW d \in Seq(Nat), NEW p \in Nat, 0 < p
    PROVE  /\ Halved(d, p) \in Seq(Nat)
           /\ Len(Halved(d, p)) = 2 * Len(d)
           /\ \A j \in 1 .. Len(d) :
                 /\ Halved(d, p)[2 * j - 1] = d[j] % p
                 /\ Halved(d, p)[2 * j] = d[j] \div p
           /\ \A n \in 1 .. 2 * Len(d) : \E j \in 1 .. Len(d) :
                 \/ n = 2 * j - 1 /\ Halved(d, p)[n] = d[j] % p
                 \/ n = 2 * j /\ Halved(d, p)[n] = d[j] \div p
<1>0. Len(d) \in Nat /\ \A j \in 1 .. Len(d) : d[j] \in Nat
  OBVIOUS
<1> DEFINE h == Halved(d, p)
<1>1. \A n \in 1 .. 2 * Len(d) :
         h[n] = IF n % 2 = 1 THEN d[(n + 1) \div 2] % p
                ELSE d[(n + 1) \div 2] \div p
  BY DEF Halved
<1>2. \A j \in 1 .. Len(d) :
         /\ 2 * j - 1 \in 1 .. 2 * Len(d) /\ 2 * j \in 1 .. 2 * Len(d)
         /\ (2 * j - 1) % 2 = 1 /\ (2 * j) % 2 = 0
         /\ ((2 * j - 1) + 1) \div 2 = j /\ (2 * j + 1) \div 2 = j
  BY <1>0
<1>3. \A n \in 1 .. 2 * Len(d) :
         /\ (n + 1) \div 2 \in 1 .. Len(d)
         /\ n % 2 = 1 => n = 2 * ((n + 1) \div 2) - 1
         /\ n % 2 # 1 => n = 2 * ((n + 1) \div 2)
  BY <1>0
<1>4. \A j \in 1 .. Len(d) : d[j] % p \in Nat /\ d[j] \div p \in Nat
  BY <1>0, DivisionFacts
<1>5. h \in [1 .. 2 * Len(d) -> Nat]
  <2>1. \A n \in 1 .. 2 * Len(d) : h[n] \in Nat
    BY <1>1, <1>3, <1>4
  <2>2. h = [n \in 1 .. 2 * Len(d) |-> h[n]]
    BY DEF Halved
  <2> HIDE DEF h
  <2> QED  BY <2>1, <2>2
<1> HIDE DEF h
<1>6. h \in Seq(Nat) /\ Len(h) = 2 * Len(d)
  <2>1. \A n \in Nat : \A r \in [1 .. n -> Nat] : r \in Seq(Nat) /\ Len(r) = n
    OBVIOUS
  <2>2. 2 * Len(d) \in Nat
    BY <1>0
  <2> QED  BY <1>5, <2>1, <2>2
<1>7. ASSUME NEW j \in 1 .. Len(d)
      PROVE  h[2 * j - 1] = d[j] % p /\ h[2 * j] = d[j] \div p
  BY <1>1, <1>2
<1>8. ASSUME NEW n \in 1 .. 2 * Len(d)
      PROVE  \E j \in 1 .. Len(d) :
                \/ n = 2 * j - 1 /\ h[n] = d[j] % p
                \/ n = 2 * j /\ h[n] = d[j] \div p
  BY <1>1, <1>3
<1> QED  BY <1>6, <1>7, <1>8 DEF h

\* Joining undoes splitting.
LEMMA HalvedPaired ==
    ASSUME NEW d \in Seq(Nat), NEW p \in Nat, 0 < p
    PROVE  Paired(Halved(d, p), p) = d
<1> DEFINE h == Halved(d, p)
<1>0. Len(d) \in Nat /\ (2 * Len(d)) \div 2 = Len(d)
  OBVIOUS
<1>1. /\ h \in Seq(Nat) /\ Len(h) = 2 * Len(d)
      /\ \A j \in 1 .. Len(d) : /\ h[2 * j - 1] = d[j] % p
                                /\ h[2 * j] = d[j] \div p
  BY HalvedFacts
<1> HIDE DEF h
<1>2. Paired(h, p) = [j \in 1 .. Len(d) |-> h[2 * j - 1] + p * h[2 * j]]
  BY <1>0, <1>1 DEF Paired
<1>3. ASSUME NEW j \in 1 .. Len(d)
      PROVE  h[2 * j - 1] + p * h[2 * j] = d[j]
  <2>1. d[j] \in Nat
    OBVIOUS
  <2> QED  BY <1>1, <2>1, DivisionFacts
<1>4. Paired(h, p) = [j \in 1 .. Len(d) |-> d[j]]
  BY <1>2, <1>3
<1> QED  BY <1>4 DEF h

\* The rounds of toBase.
IsSplit(f, x, b, k) ==
    f = [i \in 0 .. k |->
            IF i = 0 THEN <<x>> ELSE Halved(f[i - 1], BasePower(b, k - i))]

\* (As Sum is.)
Split(x, b, k) == CHOOSE f : IsSplit(f, x, b, k)

\* Each splits the digits of the one before.
LEMMA SplitFacts ==
    ASSUME NEW x \in Nat, NEW b \in Nat, 2 <= b, NEW k \in Nat
    PROVE  /\ Split(x, b, k)[0] = <<x>>
           /\ \A i \in Nat : i < k =>
                 Split(x, b, k)[i + 1]
                    = Halved(Split(x, b, k)[i], BasePower(b, k - (i + 1)))
<1>1. <<x>> \in Seq(Nat)
  OBVIOUS
<1>2. \A n \in Nat : BasePower(b, n) \in Nat /\ 0 < BasePower(b, n)
  <2>1. \A n \in Nat : BasePower(b, n) \in Nat /\ n + 2 <= BasePower(b, n)
    BY BasePowerFacts, BasePowerGrows
  <2> QED  BY <2>1
<1>3. \E f : IsSplit(f, x, b, k)
  <2> DEFINE Of(i) == IF i < k THEN BasePower(b, k - (i + 1)) ELSE 1
             G == [p \in Nat \X Seq(Nat) |-> Halved(p[2], Of(p[1]))]
  <2>1. \A i \in Nat : Of(i) \in Nat /\ 0 < Of(i)
    <3>1. ASSUME NEW i \in Nat
          PROVE  Of(i) \in Nat /\ 0 < Of(i)
      <4>1. CASE i < k
        <5>1. k - (i + 1) \in Nat
          BY <4>1
        <5> QED  BY <1>2, <4>1, <5>1
      <4>2. CASE ~(i < k)
        BY <4>2
      <4> QED  BY <4>1, <4>2
    <3> QED  BY <3>1
  <2>2. \A i \in Nat : i < k => Of(i) = BasePower(b, k - (i + 1))
    OBVIOUS
  <2> HIDE DEF Of
  <2>3. G \in [Nat \X Seq(Nat) -> Seq(Nat)]
    BY <2>1, HalvedFacts
  <2>4. \A n \in Nat, s \in Seq(Nat) : G[<<n, s>>] = Halved(s, Of(n))
    OBVIOUS
  <2> HIDE DEF G
  <2>5. PICK f \in [Nat -> Seq(Nat)] : Follows(f, <<x>>, G)
    BY <1>1, <2>3, RecursionExists, Zenon
  <2> DEFINE g == [i \in 0 .. k |-> f[i]]
  <2>6. ASSUME NEW i \in 0 .. k
        PROVE  g[i] = IF i = 0 THEN <<x>>
                      ELSE Halved(g[i - 1], BasePower(b, k - i))
    <3>1. CASE i = 0
      BY <2>5, <3>1 DEF Follows
    <3>2. CASE i # 0
      <4>1. /\ i - 1 \in Nat /\ (i - 1) + 1 = i /\ i - 1 \in 0 .. k
            /\ i - 1 < k /\ k - ((i - 1) + 1) = k - i
        <5> HIDE DEF g
        <5> QED  BY <3>2
      <4>2. g[i] = f[i] /\ g[i - 1] = f[i - 1] /\ f[i - 1] \in Seq(Nat)
        BY <4>1
      <4>3. f[(i - 1) + 1] = G[<<i - 1, f[i - 1]>>]
        BY <2>5, <4>1 DEF Follows
      <4> HIDE DEF g
      <4>4. G[<<i - 1, f[i - 1]>>] = Halved(f[i - 1], Of(i - 1))
        BY <2>4, <4>1, <4>2
      <4>5. Of(i - 1) = BasePower(b, k - i)
        BY <2>2, <4>1
      <4> QED  BY <3>2, <4>1, <4>2, <4>3, <4>4, <4>5
    <3> QED  BY <3>1, <3>2
  <2>7. IsSplit(g, x, b, k)
    BY <2>6 DEF IsSplit
  <2> QED  BY <2>7
<1> DEFINE f == Split(x, b, k)
<1>4. IsSplit(f, x, b, k)
  BY <1>3 DEF Split
<1> HIDE DEF f
<1>5. f[0] = <<x>>
  BY <1>4 DEF IsSplit
<1>6. ASSUME NEW i \in Nat, i < k
      PROVE  f[i + 1] = Halved(f[i], BasePower(b, k - (i + 1)))
  <2>1. i + 1 \in 0 .. k /\ i + 1 # 0 /\ (i + 1) - 1 = i
    BY <1>6
  <2> QED  BY <1>4, <2>1 DEF IsSplit
<1> QED  BY <1>5, <1>6 DEF f

\* Digits that are one number of base q, each below q unless the number is
\* power, which is left in the last of them.
AreDigits(s, x, power, q) ==
    /\ s \in Seq(Nat) /\ 0 < Len(s)
    /\ ValueOf(s, q) = x
    /\ x < power => \A j \in 1 .. Len(s) : s[j] < q
    /\ x = power => /\ s[Len(s)] = q
                    /\ \A j \in 1 .. Len(s) : j < Len(s) => s[j] = 0

\* A round splits them into digits of the root.
LEMMA SplitRound ==
    ASSUME NEW s, NEW x \in Nat, NEW power \in Nat, NEW p \in Nat, 0 < p,
           AreDigits(s, x, power, p * p)
    PROVE  AreDigits(Halved(s, p), x, power, p)
<1> DEFINE h == Halved(s, p)
<1>0. /\ s \in Seq(Nat) /\ Len(s) \in Nat /\ 0 < Len(s)
      /\ ValueOf(s, p * p) = x /\ \A j \in 1 .. Len(s) : s[j] \in Nat
  BY DEF AreDigits
<1>1. /\ h \in Seq(Nat) /\ Len(h) = 2 * Len(s)
      /\ \A j \in 1 .. Len(s) :
            h[2 * j - 1] = s[j] % p /\ h[2 * j] = s[j] \div p
      /\ \A n \in 1 .. 2 * Len(s) : \E j \in 1 .. Len(s) :
            \/ n = 2 * j - 1 /\ h[n] = s[j] % p
            \/ n = 2 * j /\ h[n] = s[j] \div p
  BY <1>0, HalvedFacts
<1>2. Paired(h, p) = s
  BY <1>0, HalvedPaired
<1> HIDE DEF h
<1>3. ValueOf(h, p) = x
  <2>1. ValueOf(Paired(h, p), p * p) = ValueOf(h, p)
    BY <1>0, <1>1, PairedValue
  <2> QED  BY <1>0, <1>2, <2>1
<1>4. ASSUME x < power, NEW n \in 1 .. Len(h)
      PROVE  h[n] < p
  <2>1. PICK j \in 1 .. Len(s) : \/ n = 2 * j - 1 /\ h[n] = s[j] % p
                                 \/ n = 2 * j /\ h[n] = s[j] \div p
    BY <1>1
  <2>2. s[j] \in Nat /\ s[j] < p * p
    BY <1>0, <1>4 DEF AreDigits
  <2>3. s[j] % p < p /\ s[j] \div p < p
    BY <2>2, DivisionFacts
  <2> QED  BY <2>1, <2>3
<1>5. ASSUME x = power
      PROVE  /\ h[Len(h)] = p
             /\ \A n \in 1 .. Len(h) : n < Len(h) => h[n] = 0
  <2>1. /\ s[Len(s)] = p * p
        /\ \A j \in 1 .. Len(s) : j < Len(s) => s[j] = 0
    BY <1>5 DEF AreDigits
  <2>2. s[Len(s)] % p = 0 /\ s[Len(s)] \div p = p
    <3>1. p * p \in Nat
      OBVIOUS
    <3> QED  BY <2>1, <3>1, DivisionFacts
  <2>3. h[Len(h)] = p
    <3>1. Len(s) \in 1 .. Len(s)
      BY <1>0
    <3> QED  BY <1>1, <2>2, <3>1
  <2>4. ASSUME NEW n \in 1 .. Len(h), n < Len(h)
        PROVE  h[n] = 0
    <3>1. PICK j \in 1 .. Len(s) : \/ n = 2 * j - 1 /\ h[n] = s[j] % p
                                   \/ n = 2 * j /\ h[n] = s[j] \div p
      BY <1>1
    <3>2. CASE j = Len(s)
      <4>1. n = 2 * j - 1
        BY <1>1, <2>4, <3>1, <3>2
      <4>2. 2 * j # 2 * j - 1
        OBVIOUS
      <4> QED  BY <2>2, <3>1, <3>2, <4>1, <4>2
    <3>3. CASE j # Len(s)
      <4>1. j < Len(s)
        BY <1>0, <3>3
      <4>2. s[j] = 0
        BY <2>1, <4>1
      <4>3. s[j] % p = 0 /\ s[j] \div p = 0
        BY <4>2, DivisionFacts
      <4> QED  BY <3>1, <4>3
    <3> QED  BY <3>2, <3>3
  <2> QED  BY <2>3, <2>4
<1>6. 0 < Len(h)
  BY <1>0, <1>1
<1> QED  BY <1>1, <1>3, <1>4, <1>5, <1>6 DEF AreDigits, h

\* toBase keeps the value, and its digits are within the base, unless x is the
\* last of the squares of it: then all are zero but the last, which is the base.
LEMMA ToBaseFacts ==
    ASSUME NEW x \in Nat, NEW b \in Nat, 2 <= b
    PROVE  /\ ToBase(x, b) \in Seq(Nat)
           /\ ValueOf(ToBase(x, b), b) = x
           /\ 0 < Len(ToBase(x, b)) => ToBase(x, b)[Len(ToBase(x, b))] # 0
           /\ ~Unsplit(x, {b}) =>
                 \A i \in 1 .. Len(ToBase(x, b)) : ToBase(x, b)[i] < b
           /\ Unsplit(x, {b}) =>
                 /\ 0 < Len(ToBase(x, b))
                 /\ ToBase(x, b)[Len(ToBase(x, b))] = b
                 /\ \A i \in 1 .. Len(ToBase(x, b)) :
                       i < Len(ToBase(x, b)) => ToBase(x, b)[i] = 0
<1> DEFINE k == Splits(x, b)
           S == Split(x, b, k)
           power == BasePower(b, k)
<1>1. k \in Nat /\ x <= power
  BY SplitsFacts
<1>2. ToBase(x, b) = SubSeq(S[k], 1, Len(S[k]) - Leading(Reverse(S[k])))
  BY DEF ToBase, Split, IsSplit
<1>3. Unsplit(x, {b}) <=> x = power
  BY DEF Unsplit
<1> HIDE DEF k
<1>4. \A n \in Nat : /\ BasePower(b, n) \in Nat /\ 0 < BasePower(b, n)
                     /\ BasePower(b, n + 1) = BasePower(b, n) * BasePower(b, n)
  <2>1. \A n \in Nat : /\ BasePower(b, n) \in Nat
                       /\ BasePower(b, n + 1) = BasePower(b, n) * BasePower(b, n)
    BY BasePowerFacts
  <2>2. \A n \in Nat : n + 2 <= BasePower(b, n)
    BY BasePowerGrows
  <2>3. \A n, p \in Nat : n + 2 <= p => 0 < p
    OBVIOUS
  <2> QED  BY <2>1, <2>2, <2>3
<1>5. /\ S[0] = <<x>>
      /\ \A i \in Nat : i < k => S[i + 1] = Halved(S[i], BasePower(b, k - (i + 1)))
  BY <1>1, SplitFacts
<1>6. power \in Nat
  BY <1>1, <1>4
<1> HIDE DEF S, power
<1> DEFINE P == {i \in Nat : i <= k => AreDigits(S[i], x, power, BasePower(b, k - i))}
<1>7. 0 \in P
  <2>1. k - 0 = k /\ <<x>> \in Seq(Nat) /\ Len(<<x>>) = 1 /\ <<x>>[1] = x
    BY <1>1
  <2>2. ValueOf(<<x>>, power) = x
    <3> DEFINE s == <<x>>
    <3>0. s \in Seq(Nat) /\ Len(s) = 1 /\ s[1] = x
      OBVIOUS
    <3> HIDE DEF s
    <3>1. ValueOf(s, power) = Sum(s, power)[1] /\ Sum(s, power)[0] = 0
      BY <1>6, <3>0, SumFacts
    <3>2. 0 \in Nat /\ 0 < Len(s) /\ 0 + 1 = 1
      BY <3>0
    <3>3. Sum(s, power)[0 + 1] = Sum(s, power)[0] + s[0 + 1] * Power(power, 0)
      BY <1>6, <3>0, <3>2, SumFacts
    <3>4. Power(power, 0) = 1
      BY <1>6, PowerFacts
    <3>5. ValueOf(s, power) = x
      BY <3>0, <3>1, <3>3, <3>4
    <3> QED  BY <3>5 DEF s
  <2>3. AreDigits(<<x>>, x, power, power)
    BY <2>1, <2>2 DEF AreDigits
  <2> QED  BY <1>5, <2>1, <2>3 DEF power
<1>8. ASSUME NEW i \in Nat, i \in P
      PROVE  i + 1 \in P
  <2>1. SUFFICES ASSUME i + 1 <= k
                 PROVE  AreDigits(S[i + 1], x, power, BasePower(b, k - (i + 1)))
    OBVIOUS
  <2>2. /\ i < k /\ i <= k /\ k - (i + 1) \in Nat
        /\ (k - (i + 1)) + 1 = k - i
    BY <1>1, <2>1
  <2> DEFINE p == BasePower(b, k - (i + 1))
  <2>3. p \in Nat /\ 0 < p /\ BasePower(b, k - i) = p * p
    BY <1>4, <2>2
  <2>4. AreDigits(S[i], x, power, p * p)
    BY <1>8, <2>2, <2>3
  <2>5. S[i + 1] = Halved(S[i], p)
    BY <1>5, <2>2
  <2> HIDE DEF p, P
  <2>6. AreDigits(Halved(S[i], p), x, power, p)
    BY <1>6, <2>3, <2>4, SplitRound
  <2> QED  BY <2>5, <2>6 DEF p
<1> HIDE DEF P
<1>9. AreDigits(S[k], x, power, b)
  <2>1. k \in P
    BY <1>1, <1>7, <1>8, SetInduction
  <2>2. k <= k /\ k - k = 0 /\ BasePower(b, 0) = b
    BY <1>1, BasePowerFacts
  <2> QED  BY <2>1, <2>2 DEF P
<1> DEFINE d == S[k]
           e == ToBase(x, b)
<1>10. /\ d \in Seq(Nat) /\ Len(d) \in Nat /\ 0 < Len(d) /\ ValueOf(d, b) = x
       /\ x < power => \A j \in 1 .. Len(d) : d[j] < b
       /\ x = power => /\ d[Len(d)] = b
                       /\ \A j \in 1 .. Len(d) : j < Len(d) => d[j] = 0
  BY <1>9 DEF AreDigits
<1> HIDE DEF d, e
<1>11. /\ e \in Seq(Nat)
       /\ Len(e) \in 0 .. Len(d)
       /\ \A i \in 1 .. Len(e) : e[i] = d[i]
       /\ ValueOf(e, b) = ValueOf(d, b)
       /\ 0 < Len(e) => e[Len(e)] # 0
       /\ \A i \in 1 .. Len(d) : d[i] # 0 => i <= Len(e)
  <2>1. e = SubSeq(d, 1, Len(d) - Leading(Reverse(d)))
    BY <1>2 DEF d, e
  <2>2. d \in Seq(Nat)
    BY <1>10
  <2> QED  BY <2>1, <2>2, StrippedFacts, Zenon
<1>12. ASSUME x # power
       PROVE  \A i \in 1 .. Len(e) : e[i] < b
  <2>1. x < power
    BY <1>1, <1>6, <1>12 DEF power
  <2>2. \A i \in 1 .. Len(e) : i \in 1 .. Len(d)
    BY <1>10, <1>11
  <2> QED  BY <1>10, <1>11, <2>1, <2>2
<1>13. ASSUME x = power
       PROVE  /\ 0 < Len(e) /\ e[Len(e)] = b
              /\ \A i \in 1 .. Len(e) : i < Len(e) => e[i] = 0
  <2>1. Len(d) \in 1 .. Len(d) /\ d[Len(d)] # 0
    BY <1>10, <1>13
  <2>2. Len(e) = Len(d)
    BY <1>10, <1>11, <2>1
  <2> QED  BY <1>10, <1>11, <1>13, <2>1, <2>2
<1> QED
  BY <1>3, <1>10, <1>11, <1>12, <1>13 DEF e, power

-----------------------------------------------------------------------------
(***************************************************************************)
(* The change of base, with leading zeros.                                 *)
(***************************************************************************)

\* Digits reversed with zeros in front are digits with zeros behind.
LEMMA ReversedPadding ==
    ASSUME NEW t \in Seq(Nat), NEW z \in Nat
    PROVE  /\ Zeros(z) \o Reverse(t) \in Seq(Nat)
           /\ Len(Zeros(z) \o Reverse(t)) = z + Len(t)
           /\ \A i \in 1 .. z : (Zeros(z) \o Reverse(t))[i] = 0
           /\ \A i \in 1 .. Len(t) :
                 (Zeros(z) \o Reverse(t))[z + i] = t[Len(t) - i + 1]
           /\ Reverse(Zeros(z) \o Reverse(t)) = t \o Zeros(z)
<1> DEFINE u == Reverse(t)
           r == Zeros(z) \o u
           w == t \o Zeros(z)
<1>0. Len(t) \in Nat
  OBVIOUS
<1>1. /\ u \in Seq(Nat) /\ Len(u) = Len(t)
      /\ \A i \in 1 .. Len(t) : /\ Len(t) - i + 1 \in 1 .. Len(t)
                                /\ u[i] = t[Len(t) - i + 1]
  BY ReverseFacts
<1>2. /\ Zeros(z) \in Seq(Nat) /\ Len(Zeros(z)) = z
      /\ \A i \in 1 .. z : Zeros(z)[i] = 0
  BY ZerosFacts
<1> HIDE DEF u
<1>3. /\ r \in Seq(Nat) /\ Len(r) = z + Len(t)
      /\ \A i \in 1 .. z + Len(t) :
            r[i] = IF i <= z THEN Zeros(z)[i] ELSE u[i - z]
  <2>1. /\ r \in Seq(Nat) /\ Len(r) = Len(Zeros(z)) + Len(u)
        /\ \A i \in 1 .. Len(Zeros(z)) + Len(u) :
              r[i] = IF i <= Len(Zeros(z)) THEN Zeros(z)[i]
                     ELSE u[i - Len(Zeros(z))]
    <3>1. u \in Seq(Nat) /\ Zeros(z) \in Seq(Nat)
      BY <1>1, <1>2
    <3> QED  BY <3>1, ConcatProperties, Zenon
  <2> HIDE DEF r
  <2> QED  BY <1>1, <1>2, <2>1
<1>4. /\ w \in Seq(Nat) /\ Len(w) = Len(t) + z
      /\ \A i \in 1 .. Len(t) + z :
            w[i] = IF i <= Len(t) THEN t[i] ELSE Zeros(z)[i - Len(t)]
  BY <1>2, ConcatProperties
<1> HIDE DEF r, w
<1>5. \A i \in 1 .. z : r[i] = 0
  <2>1. \A i \in 1 .. z : i \in 1 .. z + Len(t) /\ i <= z
    BY <1>0
  <2> QED  BY <1>2, <1>3, <2>1
<1>6. \A i \in 1 .. Len(t) : r[z + i] = t[Len(t) - i + 1]
  <2>1. \A i \in 1 .. Len(t) :
           z + i \in 1 .. z + Len(t) /\ ~(z + i <= z) /\ (z + i) - z = i
    BY <1>0
  <2> QED  BY <1>1, <1>3, <2>1
<1>7. Reverse(r) = w
  <2>1. /\ Reverse(r) \in Seq(Nat) /\ Len(Reverse(r)) = Len(r)
        /\ \A i \in 1 .. Len(r) : /\ Len(r) - i + 1 \in 1 .. Len(r)
                                  /\ Reverse(r)[i] = r[Len(r) - i + 1]
    BY <1>3, ReverseFacts
  <2>2. ASSUME NEW i \in 1 .. Len(t) + z
        PROVE  Reverse(r)[i] = w[i]
    <3>1. Reverse(r)[i] = r[Len(r) - i + 1] /\ i \in 1 .. Len(r)
      BY <1>0, <1>3, <2>1
    <3>2. CASE i <= Len(t)
      <4>1. /\ Len(t) - i + 1 \in 1 .. Len(t)
            /\ Len(r) - i + 1 = z + (Len(t) - i + 1)
            /\ Len(t) - (Len(t) - i + 1) + 1 = i
        BY <1>0, <1>3, <3>2
      <4>2. r[z + (Len(t) - i + 1)] = t[i]
        BY <1>6, <4>1
      <4> QED  BY <1>4, <3>1, <3>2, <4>1, <4>2
    <3>3. CASE ~(i <= Len(t))
      <4>1. Len(r) - i + 1 \in 1 .. z /\ i - Len(t) \in 1 .. z
        BY <1>0, <1>3, <3>3
      <4>2. r[Len(r) - i + 1] = 0 /\ Zeros(z)[i - Len(t)] = 0
        BY <1>2, <1>5, <4>1
      <4> QED  BY <1>4, <3>1, <3>3, <4>2
    <3> QED  BY <3>2, <3>3
  <2>3. Len(Reverse(r)) = Len(w) /\ Len(w) = Len(t) + z
    BY <1>0, <1>3, <1>4, <2>1
  <2> QED  BY <1>4, <2>1, <2>2, <2>3, SeqEqual
<1> QED  BY <1>3, <1>5, <1>6, <1>7 DEF r, u, w

\* r has the value x in base c and the leading zeros of s; its digits are within
\* the base, or all are zero but one, which is the base.
IsChanged(r, s, x, c) ==
    /\ x \in Nat /\ r \in Seq(Nat)
    /\ Leading(r) = Leading(s)
    /\ ValueOf(Reverse(r), c) = x
    /\ ~Unsplit(x, {c}) => \A i \in 1 .. Len(r) : r[i] < c
    /\ Unsplit(x, {c}) => /\ \E i \in 1 .. Len(r) : r[i] = c
                          /\ \A i \in 1 .. Len(r) : r[i] \in {0, c}

\* A change of base keeps the value and the leading zeros.
LEMMA WithBaseFacts ==
    ASSUME NEW s \in Seq(Nat), NEW b \in Nat, NEW c \in Nat, 2 <= c,
           NEW x, x = ValueOf(Reverse(s), b)
    PROVE  IsChanged(WithBase(s, b, c), s, x, c)
<1> DEFINE z == Leading(s)
           t == ToBase(x, c)
           r == WithBase(s, b, c)
<1>1. Reverse(s) \in Seq(Nat) /\ Len(Reverse(s)) = Len(s) /\ Len(s) \in Nat
  BY ReverseFacts
<1>2. x \in Nat /\ FromBase(Reverse(s), b) = x
  <2>1. FromBase(Reverse(s), b) = x
    BY <1>1, FromBaseValue
  <2>2. x = Sum(Reverse(s), b)[Len(Reverse(s))]
    BY <1>1, SumFacts
  <2>3. Len(Reverse(s)) \in 0 .. Len(Reverse(s))
    BY <1>1
  <2>4. \A n \in 0 .. Len(Reverse(s)) : Sum(Reverse(s), b)[n] \in Nat
    BY <1>1, SumFacts
  <2> QED  BY <2>1, <2>2, <2>3, <2>4
<1>3. r = Zeros(z) \o Reverse(t)
  BY <1>2 DEF WithBase, ChangeBase
<1>4. LeadsWith(s, z)
  BY LeadingFacts
<1>5. z \in Nat
  BY <1>1, <1>4 DEF LeadsWith
<1>6. /\ t \in Seq(Nat) /\ Len(t) \in Nat
      /\ ValueOf(t, c) = x
      /\ 0 < Len(t) => t[Len(t)] # 0
      /\ ~Unsplit(x, {c}) => \A i \in 1 .. Len(t) : t[i] < c
      /\ Unsplit(x, {c}) =>
            /\ 0 < Len(t) /\ t[Len(t)] = c
            /\ \A i \in 1 .. Len(t) : i < Len(t) => t[i] = 0
  BY <1>2, ToBaseFacts
<1> HIDE DEF t, z, r
<1>7. /\ r \in Seq(Nat)
      /\ Len(r) = z + Len(t)
      /\ \A i \in 1 .. z : r[i] = 0
      /\ \A i \in 1 .. Len(t) : r[z + i] = t[Len(t) - i + 1]
      /\ Reverse(r) = t \o Zeros(z)
  BY <1>3, <1>5, <1>6, ReversedPadding
<1>8. Leading(r) = z
  <2>1. z < Len(r) => r[z + 1] # 0
    <3>1. SUFFICES ASSUME z < Len(r)
                   PROVE  r[z + 1] # 0
      OBVIOUS
    <3>2. 1 \in 1 .. Len(t) /\ Len(t) - 1 + 1 = Len(t) /\ 0 < Len(t)
      BY <1>5, <1>6, <1>7, <3>1
    <3>3. r[z + 1] = t[Len(t)]
      BY <1>7, <3>2
    <3> QED  BY <1>6, <3>2, <3>3
  <2>2. z \in 0 .. Len(r)
    BY <1>5, <1>6, <1>7
  <2>3. LeadsWith(r, z)
    BY <1>7, <2>1, <2>2 DEF LeadsWith
  <2> QED  BY <1>7, <2>3, LeadingFacts
<1>9. ValueOf(Reverse(r), c) = x
  BY <1>5, <1>6, <1>7, PaddedValue
<1>10. \A i \in 1 .. Len(r) :
          \/ r[i] = 0
          \/ \E j \in 1 .. Len(t) : i = z + (Len(t) - j + 1) /\ r[i] = t[j]
  <2>1. ASSUME NEW i \in 1 .. Len(r), ~(i \in 1 .. z)
        PROVE  \E j \in 1 .. Len(t) : i = z + (Len(t) - j + 1) /\ r[i] = t[j]
    <3>1. /\ i - z \in 1 .. Len(t) /\ z + (i - z) = i
          /\ Len(t) - (i - z) + 1 \in 1 .. Len(t)
          /\ i = z + (Len(t) - (Len(t) - (i - z) + 1) + 1)
      BY <1>5, <1>6, <1>7, <2>1
    <3>2. r[i] = t[Len(t) - (i - z) + 1]
      BY <1>7, <3>1
    <3> QED  BY <3>1, <3>2
  <2> QED  BY <1>7, <2>1
<1>11. ASSUME ~Unsplit(x, {c})
       PROVE  \A i \in 1 .. Len(r) : r[i] < c
  <2>1. \A j \in 1 .. Len(t) : t[j] < c
    BY <1>6, <1>11
  <2> QED  BY <1>10, <2>1
<1>12. ASSUME Unsplit(x, {c})
       PROVE  /\ \E i \in 1 .. Len(r) : r[i] = c
              /\ \A i \in 1 .. Len(r) : r[i] \in {0, c}
  <2>1. /\ 0 < Len(t) /\ t[Len(t)] = c
        /\ \A i \in 1 .. Len(t) : i < Len(t) => t[i] = 0
    BY <1>6, <1>12
  <2>2. z + 1 \in 1 .. Len(r) /\ 1 \in 1 .. Len(t) /\ Len(t) - 1 + 1 = Len(t)
    BY <1>5, <1>6, <1>7, <2>1
  <2>3. r[z + 1] = c
    BY <1>7, <2>1, <2>2
  <2>4. \A j \in 1 .. Len(t) : t[j] \in {0, c}
    BY <1>6, <2>1
  <2>5. \A i \in 1 .. Len(r) : r[i] \in {0, c}
    BY <1>10, <2>4
  <2> QED  BY <2>2, <2>3, <2>5
<1> QED  BY <1>2, <1>7, <1>8, <1>9, <1>11, <1>12 DEF r, z, IsChanged

-----------------------------------------------------------------------------
(***************************************************************************)
(* Digits are unique.                                                      *)
(***************************************************************************)

\* Powers only grow.
LEMMA PowerMonotone ==
    ASSUME NEW b \in Nat, 1 <= b, NEW m \in Nat
    PROVE  \A n \in Nat : Power(b, m) <= Power(b, m + n)
<1> DEFINE P == {n \in Nat : Power(b, m) <= Power(b, m + n)}
<1>1. 0 \in P
  <2>1. m + 0 = m /\ Power(b, m) \in Nat
    BY PowerFacts
  <2> QED  BY <2>1
<1>2. ASSUME NEW n \in Nat, n \in P
      PROVE  n + 1 \in P
  <2>1. /\ Power(b, m) \in Nat /\ Power(b, m + n) \in Nat
        /\ Power(b, (m + n) + 1) = b * Power(b, m + n)
    <3>1. m + n \in Nat
      OBVIOUS
    <3> QED  BY <3>1, PowerFacts
  <2>2. \A p \in Nat : p <= b * p /\ b * p \in Nat
    OBVIOUS
  <2>3. m + (n + 1) = (m + n) + 1 /\ Power(b, m) <= Power(b, m + n)
    BY <1>2
  <2> DEFINE p == Power(b, m + n)
             q == Power(b, m)
  <2>4. q \in Nat /\ p \in Nat /\ q <= p
    BY <2>1, <2>3
  <2>5. Power(b, m + (n + 1)) = b * p
    BY <2>1, <2>3
  <2> HIDE DEF p
  <2>6. q <= b * p
    <3> HIDE DEF q
    <3> QED  BY <2>2, <2>4
  <2> QED  BY <2>5, <2>6
<1> HIDE DEF P
<1>3. \A n \in Nat : n \in P
  BY <1>1, <1>2, SetInduction
<1> QED  BY <1>3 DEF P

\* Digits within the base are told by their sum.
LEMMA SumTellsDigits ==
    ASSUME NEW c \in Seq(Nat), NEW d \in Seq(Nat), NEW b \in Nat, NEW m \in Nat,
           Len(c) = m, Len(d) = m,
           \A i \in 1 .. m : c[i] < b /\ d[i] < b,
           Sum(c, b)[m] = Sum(d, b)[m]
    PROVE  \A i \in 1 .. m : c[i] = d[i]
<1> DEFINE P == {n \in Nat : n <= m /\ Sum(c, b)[n] = Sum(d, b)[n] =>
                    \A i \in 1 .. n : c[i] = d[i]}
<1>1. 0 \in P
  OBVIOUS
<1>2. ASSUME NEW n \in Nat, n \in P
      PROVE  n + 1 \in P
  <2>1. SUFFICES ASSUME n + 1 <= m, Sum(c, b)[n + 1] = Sum(d, b)[n + 1]
                 PROVE  \A i \in 1 .. n + 1 : c[i] = d[i]
    OBVIOUS
  <2>2. n <= m /\ n < m /\ n + 1 \in 1 .. m /\ n \in 0 .. m
    BY <2>1
  <2> DEFINE s == Sum(c, b)[n]
             r == Sum(d, b)[n]
             p == Power(b, n)
             x == c[n + 1]
             y == d[n + 1]
  <2>3. s \in Nat /\ s < p /\ Sum(c, b)[n + 1] = s + x * p
    <3>1. s \in Nat /\ Sum(c, b)[n + 1] = s + x * p
      BY <2>2, SumFacts
    <3>2. m <= Len(c) /\ \A i \in 1 .. m : c[i] < b
      OBVIOUS
    <3>3. \A i \in 0 .. m : Sum(c, b)[i] < Power(b, i)
      BY <3>2, SumBound
    <3> QED  BY <2>2, <3>1, <3>3
  <2>4. r \in Nat /\ r < p /\ Sum(d, b)[n + 1] = r + y * p
    <3>1. r \in Nat /\ Sum(d, b)[n + 1] = r + y * p
      BY <2>2, SumFacts
    <3>2. m <= Len(d) /\ \A i \in 1 .. m : d[i] < b
      OBVIOUS
    <3>3. \A i \in 0 .. m : Sum(d, b)[i] < Power(b, i)
      BY <3>2, SumBound
    <3> QED  BY <2>2, <3>1, <3>3
  <2>5. p \in Nat /\ x \in Nat /\ y \in Nat
    <3>1. p \in Nat
      BY PowerFacts
    <3>2. x \in Nat
      BY <2>2
    <3>3. y \in Nat
      BY <2>2
    <3> QED  BY <3>1, <3>2, <3>3
  <2>6. s + x * p = r + y * p
    BY <2>1, <2>3, <2>4
  <2>7. s < p /\ r < p /\ s \in Nat /\ r \in Nat
    BY <2>3, <2>4
  <2> HIDE DEF s, r, p, x, y
  <2>8. x = y /\ s = r
    <3>1. ~(x + 1 <= y)
      <4>1. x + 1 <= y => x * p + p <= y * p
        <5>1. x + 1 <= y => (x + 1) * p <= y * p
          BY <2>5
        <5>2. (x + 1) * p = x * p + p
          BY <2>5
        <5> QED  BY <5>1, <5>2
      <4>2. x * p \in Nat /\ y * p \in Nat
        BY <2>5
      <4>3. \A u, v \in Nat : s + u = r + v => ~(u + p <= v) /\ ~(v + p <= u)
        BY <2>5, <2>7
      <4> QED  BY <2>6, <4>1, <4>2, <4>3, Zenon
    <3>2. ~(y + 1 <= x)
      <4>1. y + 1 <= x => y * p + p <= x * p
        <5>1. y + 1 <= x => (y + 1) * p <= x * p
          BY <2>5
        <5>2. (y + 1) * p = y * p + p
          BY <2>5
        <5> QED  BY <5>1, <5>2
      <4>2. x * p \in Nat /\ y * p \in Nat
        BY <2>5
      <4>3. \A u, v \in Nat : s + u = r + v => ~(u + p <= v) /\ ~(v + p <= u)
        BY <2>5, <2>7
      <4> QED  BY <2>6, <4>1, <4>2, <4>3, Zenon
    <3>3. x = y
      BY <2>5, <3>1, <3>2
    <3>4. x * p \in Nat
      BY <2>5
    <3> QED  BY <2>6, <2>7, <3>3, <3>4
  <2>9. \A i \in 1 .. n : c[i] = d[i]
    BY <1>2, <2>2, <2>8 DEF s, r
  <2>10. c[n + 1] = d[n + 1]
    BY <2>8 DEF x, y
  <2>11. \A i \in 1 .. n + 1 : i \in 1 .. n \/ i = n + 1
    OBVIOUS
  <2> QED  BY <2>9, <2>10, <2>11
<1> HIDE DEF P
<1>3. \A n \in Nat : n \in P
  BY <1>1, <1>2, SetInduction
<1> QED  BY <1>3 DEF P

\* Of two numbers, the one with less digits is less.
LEMMA ShorterIsLess ==
    ASSUME NEW c \in Seq(Nat), NEW d \in Seq(Nat), NEW b \in Nat, 1 <= b,
           NEW m \in Nat, NEW n \in Nat, m < n,
           m <= Len(c), \A i \in 1 .. Len(c) : c[i] < b,
           \A i \in 1 .. Len(c) : m < i => c[i] = 0,
           n <= Len(d), d[n] # 0
    PROVE  ValueOf(c, b) < ValueOf(d, b)
<1>0. Len(c) \in Nat /\ Len(d) \in Nat /\ n - 1 \in Nat /\ (n - 1) + 1 = n
  OBVIOUS
<1>1. ValueOf(c, b) = Sum(c, b)[m] /\ Sum(c, b)[m] \in Nat
  <2>1. m \in 0 .. Len(c)
    BY <1>0
  <2>2. Sum(c, b)[m] \in Nat
    BY <2>1, SumFacts
  <2> QED  BY <2>2, SumOfZeros
<1>2. Sum(c, b)[m] < Power(b, m)
  <2>1. m \in 0 .. m /\ \A i \in 1 .. m : i \in 1 .. Len(c)
    BY <1>0
  <2> QED  BY <2>1, SumBound
<1>3. Power(b, m) <= Power(b, n - 1)
  <2>1. (n - 1) - m \in Nat /\ m + ((n - 1) - m) = n - 1
    BY <1>0
  <2>2. Power(b, m) <= Power(b, m + ((n - 1) - m))
    BY <2>1, PowerMonotone
  <2> QED  BY <2>1, <2>2
<1>4. Power(b, n - 1) <= Sum(d, b)[n]
  <2>1. n - 1 < Len(d) /\ n - 1 \in 0 .. Len(d)
    BY <1>0
  <2> DEFINE s == Sum(d, b)[n - 1]
             e == d[n]
             p == Power(b, n - 1)
  <2>2. Sum(d, b)[n] = s + e * p
    <3>1. Sum(d, b)[(n - 1) + 1] = Sum(d, b)[n - 1] + d[(n - 1) + 1] * Power(b, n - 1)
      BY <1>0, <2>1, SumFacts
    <3> QED  BY <1>0, <3>1
  <2>3. s \in Nat
    BY <2>1, SumFacts
  <2>4. p \in Nat
    BY <1>0, PowerFacts
  <2>5. e \in Nat /\ e # 0
    <3>1. n \in 1 .. Len(d)
      BY <1>0
    <3> QED  BY <3>1
  <2> HIDE DEF s, e, p
  <2>6. p <= s + e * p
    <3>1. p <= e * p
      BY <2>4, <2>5
    <3>2. e * p \in Nat
      BY <2>4, <2>5
    <3> QED  BY <2>3, <2>4, <3>1, <3>2
  <2> QED  BY <2>2, <2>6 DEF p
<1>5. Sum(d, b)[n] <= Sum(d, b)[Len(d)]
  <2>1. Len(d) \in n .. Len(d)
    BY <1>0
  <2> QED  BY <2>1, SumGrows
<1>6. ValueOf(d, b) = Sum(d, b)[Len(d)]
  BY SumFacts
<1>7. /\ Power(b, m) \in Nat /\ Power(b, n - 1) \in Nat
      /\ Sum(d, b)[n] \in Nat /\ Sum(d, b)[Len(d)] \in Nat
  <2>1. Power(b, m) \in Nat /\ Power(b, n - 1) \in Nat
    BY <1>0, PowerFacts
  <2>2. n \in 0 .. Len(d) /\ Len(d) \in 0 .. Len(d)
    BY <1>0
  <2>3. \A i \in 0 .. Len(d) : Sum(d, b)[i] \in Nat
    BY SumFacts
  <2> QED  BY <2>1, <2>2, <2>3
<1> QED  BY <1>1, <1>2, <1>3, <1>4, <1>5, <1>6, <1>7

\* The same, of sequences with as many leading zeros.
LEMMA NotShorter ==
    ASSUME NEW s \in Seq(Nat), NEW t \in Seq(Nat), NEW b \in Nat, 1 <= b,
           \A i \in 1 .. Len(s) : s[i] < b,
           Leading(s) = Leading(t), Len(s) < Len(t)
    PROVE  ValueOf(Reverse(s), b) < ValueOf(Reverse(t), b)
<1> DEFINE c == Reverse(s)
           d == Reverse(t)
           z == Leading(s)
<1>0. Len(s) \in Nat /\ Len(t) \in Nat
  OBVIOUS
<1>1. /\ c \in Seq(Nat) /\ Len(c) = Len(s)
      /\ \A i \in 1 .. Len(s) : /\ Len(s) - i + 1 \in 1 .. Len(s)
                                /\ c[i] = s[Len(s) - i + 1]
  BY ReverseFacts
<1>2. /\ d \in Seq(Nat) /\ Len(d) = Len(t)
      /\ \A i \in 1 .. Len(t) : /\ Len(t) - i + 1 \in 1 .. Len(t)
                                /\ d[i] = t[Len(t) - i + 1]
  BY ReverseFacts
<1>3. LeadsWith(s, z)
  BY LeadingFacts
<1>4. LeadsWith(t, z)
  BY LeadingFacts
<1> HIDE DEF c, d, z
<1>5. z \in 0 .. Len(s) /\ z < Len(t)
  BY <1>0, <1>3 DEF LeadsWith
<1>6. /\ Len(s) - z \in Nat /\ Len(t) - z \in Nat /\ Len(s) - z < Len(t) - z
      /\ Len(s) - z <= Len(c) /\ Len(t) - z <= Len(d)
  BY <1>0, <1>1, <1>2, <1>5
<1>7. \A i \in 1 .. Len(c) : c[i] < b
  BY <1>1
<1>8. ASSUME NEW i \in 1 .. Len(c), Len(s) - z < i
      PROVE  c[i] = 0
  <2>1. Len(s) - i + 1 \in 1 .. z /\ i \in 1 .. Len(s)
    BY <1>0, <1>1, <1>5, <1>8
  <2> QED  BY <1>1, <1>3, <2>1 DEF LeadsWith
<1>9. d[Len(t) - z] # 0
  <2>1. Len(t) - z \in 1 .. Len(t) /\ Len(t) - (Len(t) - z) + 1 = z + 1
    BY <1>0, <1>5
  <2>2. d[Len(t) - z] = t[z + 1]
    BY <1>2, <2>1
  <2> QED  BY <1>4, <1>5, <2>2 DEF LeadsWith
<1> DEFINE m == Len(s) - z
           n == Len(t) - z
<1>10. /\ m \in Nat /\ n \in Nat /\ m < n /\ m <= Len(c) /\ n <= Len(d)
       /\ d[n] # 0
       /\ \A i \in 1 .. Len(c) : m < i => c[i] = 0
  BY <1>6, <1>8, <1>9
<1> HIDE DEF m, n
<1>11. c \in Seq(Nat) /\ d \in Seq(Nat)
  BY <1>1, <1>2
<1>12. ValueOf(c, b) < ValueOf(d, b)
  BY <1>7, <1>10, <1>11, ShorterIsLess
<1> QED  BY <1>12 DEF c, d

\* A number has one sequence of digits with a number of leading zeros.
LEMMA DigitsUnique ==
    ASSUME NEW s \in Seq(Nat), NEW t \in Seq(Nat), NEW b \in Nat, 1 <= b,
           \A i \in 1 .. Len(s) : s[i] < b,
           \A i \in 1 .. Len(t) : t[i] < b,
           Leading(s) = Leading(t),
           ValueOf(Reverse(s), b) = ValueOf(Reverse(t), b)
    PROVE  s = t
<1> DEFINE c == Reverse(s)
           d == Reverse(t)
           m == Len(s)
<1>0. Len(s) \in Nat /\ Len(t) \in Nat
  OBVIOUS
<1>1. /\ c \in Seq(Nat) /\ Len(c) = Len(s)
      /\ \A i \in 1 .. Len(s) : /\ Len(s) - i + 1 \in 1 .. Len(s)
                                /\ c[i] = s[Len(s) - i + 1]
  BY ReverseFacts
<1>2. /\ d \in Seq(Nat) /\ Len(d) = Len(t)
      /\ \A i \in 1 .. Len(t) : /\ Len(t) - i + 1 \in 1 .. Len(t)
                                /\ d[i] = t[Len(t) - i + 1]
  BY ReverseFacts
<1>3. ValueOf(c, b) \in Nat /\ ValueOf(c, b) = ValueOf(d, b)
  <2>1. ValueOf(c, b) = Sum(c, b)[Len(c)]
    BY <1>1, SumFacts
  <2>2. Len(c) \in 0 .. Len(c)
    BY <1>0, <1>1
  <2>3. Sum(c, b)[Len(c)] \in Nat
    BY <1>1, <2>2, SumFacts
  <2> QED  BY <2>1, <2>3
<1>4. ~(Len(s) < Len(t))
  <2>1. Len(s) < Len(t) => ValueOf(c, b) < ValueOf(d, b)
    BY NotShorter
  <2> HIDE DEF c, d
  <2> QED  BY <1>3, <2>1
<1>5. ~(Len(t) < Len(s))
  <2>1. Len(t) < Len(s) => ValueOf(d, b) < ValueOf(c, b)
    BY NotShorter
  <2> HIDE DEF c, d
  <2> QED  BY <1>3, <2>1
<1> HIDE DEF c, d
<1>6. Len(t) = m /\ m \in Nat
  BY <1>0, <1>4, <1>5
<1>7. Sum(c, b)[m] = Sum(d, b)[m]
  <2>1. ValueOf(c, b) = Sum(c, b)[Len(c)] /\ ValueOf(d, b) = Sum(d, b)[Len(d)]
    BY <1>1, <1>2, SumFacts
  <2> QED  BY <1>1, <1>2, <1>3, <1>6, <2>1
<1>8. \A i \in 1 .. m : c[i] < b /\ d[i] < b
  BY <1>1, <1>2, <1>6
<1>9. c \in Seq(Nat) /\ d \in Seq(Nat) /\ Len(c) = m /\ Len(d) = m
  BY <1>1, <1>2, <1>6
<1> HIDE DEF m
<1>10. \A i \in 1 .. m : c[i] = d[i]
  BY <1>6, <1>7, <1>8, <1>9, SumTellsDigits
<1>11. ASSUME NEW i \in 1 .. Len(s)
       PROVE  s[i] = t[i]
  <2>1. /\ Len(s) - i + 1 \in 1 .. Len(s)
        /\ Len(s) - (Len(s) - i + 1) + 1 = i
    BY <1>0
  <2>2. c[Len(s) - i + 1] = s[i]
    BY <1>1, <2>1
  <2>3. d[Len(s) - i + 1] = t[i]
    BY <1>2, <1>6, <2>1 DEF m
  <2> QED  BY <1>10, <2>1, <2>2, <2>3 DEF m
<1> QED  BY <1>6, <1>11, SeqEqual DEF m

-----------------------------------------------------------------------------
(***************************************************************************)
(* Text and bytes.                                                         *)
(***************************************************************************)

\* What is assumed of the bases, one by one.
LEMMA BaseFacts ==
    /\ ByteBase \in Nat /\ 2 <= ByteBase /\ 1 <= ByteBase
    /\ TextBase \in Nat /\ 2 <= TextBase /\ 1 <= TextBase
    /\ DecBase \in Nat /\ 2 <= DecBase /\ 1 <= DecBase
    /\ Zero \in Nat /\ 1 <= Zero /\ Zero + DecBase <= ByteBase
    /\ TextBase < ByteBase /\ Kept \in Nat /\ 1 <= Kept
BY Base58Assumption

\* Zero is always split; to be unsplit in one of two bases.
LEMMA UnsplitFacts ==
    ASSUME NEW x \in Nat, NEW b \in Nat, 2 <= b, NEW c \in Nat
    PROVE  /\ Unsplit(x, {b}) => x # 0
           /\ Unsplit(x, {b, c}) <=> (Unsplit(x, {b}) \/ Unsplit(x, {c}))
<1>1. Splits(x, b) \in Nat
  BY SplitsFacts
<1>2. BasePower(b, Splits(x, b)) \in Nat /\ Splits(x, b) + 2 <= BasePower(b, Splits(x, b))
  BY <1>1, BasePowerFacts, BasePowerGrows
<1>3. BasePower(b, Splits(x, b)) # 0
  BY <1>1, <1>2
<1> QED  BY <1>3 DEF Unsplit

\* Zeros have no value.
LEMMA NoValue ==
    ASSUME NEW s \in Seq(Nat), NEW b \in Nat, \A i \in 1 .. Len(s) : s[i] = 0
    PROVE  ValueOf(Reverse(s), b) = 0
<1> DEFINE r == Reverse(s)
<1>1. /\ r \in Seq(Nat) /\ Len(r) = Len(s)
      /\ \A i \in 1 .. Len(s) : /\ Len(s) - i + 1 \in 1 .. Len(s)
                                /\ r[i] = s[Len(s) - i + 1]
  BY ReverseFacts
<1> HIDE DEF r
<1>2. 0 \in Nat /\ 0 <= Len(r) /\ \A i \in 1 .. Len(r) : 0 < i => r[i] = 0
  <2>1. Len(r) \in Nat
    BY <1>1
  <2>2. \A i \in 1 .. Len(r) : r[i] = 0
    BY <1>1
  <2> QED  BY <2>1, <2>2
<1>3. ValueOf(r, b) = Sum(r, b)[0]
  BY <1>1, <1>2, SumOfZeros
<1>4. Sum(r, b)[0] = 0
  BY <1>1, SumFacts
<1> QED  BY <1>3, <1>4 DEF r

\* The characters that join to a text.
IsText(f, d) ==
    f = [n \in 0 .. Len(d) |->
            IF n = 0 THEN <<>>
            ELSE f[n - 1] \o (IF d[n] < TextBase THEN <<d[n]>> ELSE <<>>)]

\* (As Sum is.)
TextOf(d) == CHOOSE f : IsText(f, d)

\* They are joined one after the other.
LEMMA TextOfFacts ==
    ASSUME NEW d \in Seq(Nat)
    PROVE  /\ Characters(d) = TextOf(d)[Len(d)]
           /\ TextOf(d)[0] = <<>>
           /\ \A n \in Nat : n < Len(d) =>
                 TextOf(d)[n + 1] = TextOf(d)[n]
                     \o (IF d[n + 1] < TextBase THEN <<d[n + 1]>> ELSE <<>>)
<1>0. Len(d) \in Nat /\ \A n \in Nat : n < Len(d) => d[n + 1] \in Nat
  OBVIOUS
<1> DEFINE More(n) == IF n < Len(d) /\ d[n + 1] < TextBase THEN <<d[n + 1]>> ELSE <<>>
<1>1. \A n \in Nat : More(n) \in Seq(Nat)
  <2>1. ASSUME NEW n \in Nat
        PROVE  More(n) \in Seq(Nat)
    <3>1. CASE n < Len(d)
      <4>1. d[n + 1] \in Nat
        BY <1>0, <3>1
      <4> QED  BY <4>1
    <3>2. CASE ~(n < Len(d))
      BY <3>2
    <3> QED  BY <3>1, <3>2
  <2> QED  BY <2>1
<1>2. \A n \in Nat : n < Len(d) =>
         More(n) = IF d[n + 1] < TextBase THEN <<d[n + 1]>> ELSE <<>>
  OBVIOUS
<1> HIDE DEF More
<1>3. \E f : IsText(f, d)
  <2> DEFINE G == [p \in Nat \X Seq(Nat) |-> p[2] \o More(p[1])]
  <2>1. G \in [Nat \X Seq(Nat) -> Seq(Nat)]
    <3>1. \A n \in Nat, s \in Seq(Nat) : s \o More(n) \in Seq(Nat)
      BY <1>1, ConcatProperties
    <3> QED  BY <3>1
  <2>2. \A n \in Nat, s \in Seq(Nat) : G[<<n, s>>] = s \o More(n)
    OBVIOUS
  <2> HIDE DEF G
  <2>3. PICK f \in [Nat -> Seq(Nat)] : Follows(f, <<>>, G)
    <3>1. <<>> \in Seq(Nat)
      OBVIOUS
    <3> QED  BY <2>1, <3>1, RecursionExists, Zenon
  <2> DEFINE g == [n \in 0 .. Len(d) |-> f[n]]
  <2>4. ASSUME NEW n \in 0 .. Len(d)
        PROVE  g[n] = IF n = 0 THEN <<>>
                      ELSE g[n - 1] \o (IF d[n] < TextBase THEN <<d[n]>> ELSE <<>>)
    <3>1. CASE n = 0
      BY <2>3, <3>1 DEF Follows
    <3>2. CASE n # 0
      <4>1. /\ n - 1 \in Nat /\ (n - 1) + 1 = n /\ n - 1 < Len(d)
            /\ n - 1 \in 0 .. Len(d)
        <5> HIDE DEF g
        <5>1. n \in Nat /\ n <= Len(d) /\ Len(d) \in Nat
          OBVIOUS
        <5>2. n - 1 \in Nat
          BY <3>2, <5>1
        <5>3. n - 1 < Len(d) /\ (n - 1) + 1 = n
          BY <5>1
        <5>4. n - 1 \in 0 .. Len(d)
          BY <5>1, <5>2
        <5> QED  BY <5>2, <5>3, <5>4
      <4>2. g[n] = f[n] /\ g[n - 1] = f[n - 1] /\ f[n - 1] \in Seq(Nat)
        BY <4>1
      <4>3. f[(n - 1) + 1] = G[<<n - 1, f[n - 1]>>]
        BY <2>3, <4>1 DEF Follows
      <4> HIDE DEF g
      <4>4. G[<<n - 1, f[n - 1]>>] = f[n - 1] \o More(n - 1)
        BY <2>2, <4>1, <4>2
      <4>5. More(n - 1) = IF d[n] < TextBase THEN <<d[n]>> ELSE <<>>
        BY <1>2, <4>1
      <4> QED  BY <3>2, <4>1, <4>2, <4>3, <4>4, <4>5
    <3> QED  BY <3>1, <3>2
  <2>5. IsText(g, d)
    BY <2>4 DEF IsText
  <2> QED  BY <2>5
<1> DEFINE f == TextOf(d)
<1>4. IsText(f, d)
  BY <1>3 DEF TextOf
<1>5. Characters(d) = f[Len(d)]
  BY DEF Characters, TextOf, IsText
<1> HIDE DEF f
<1>6. f[0] = <<>>
  BY <1>0, <1>4 DEF IsText
<1>7. ASSUME NEW n \in Nat, n < Len(d)
      PROVE  f[n + 1] = f[n] \o (IF d[n + 1] < TextBase THEN <<d[n + 1]>> ELSE <<>>)
  <2>1. n + 1 \in 0 .. Len(d) /\ n + 1 # 0 /\ (n + 1) - 1 = n
    BY <1>0, <1>7
  <2> QED  BY <1>4, <2>1 DEF IsText
<1> QED  BY <1>5, <1>6, <1>7 DEF f

\* The text of digits that all have characters is of all of them, and there is
\* nothing else in a text.
LEMMA CharactersFacts ==
    ASSUME NEW d \in Seq(Nat)
    PROVE  /\ Characters(d) \in Seq(Nat)
           /\ \A i \in 1 .. Len(Characters(d)) : \E j \in 1 .. Len(d) :
                 Characters(d)[i] = d[j] /\ d[j] < TextBase
           /\ (\A j \in 1 .. Len(d) : d[j] < TextBase) => Characters(d) = d
<1> DEFINE f == TextOf(d)
           Is(n) == /\ f[n] \in Seq(Nat)
                    /\ \A i \in 1 .. Len(f[n]) : \E j \in 1 .. Len(d) :
                          f[n][i] = d[j] /\ d[j] < TextBase
                    /\ (\A j \in 1 .. Len(d) : d[j] < TextBase) =>
                          Len(f[n]) = n /\ \A i \in 1 .. n : f[n][i] = d[i]
           P == {n \in Nat : n <= Len(d) => Is(n)}
<1>0. Len(d) \in Nat
  OBVIOUS
<1>1. /\ Characters(d) = f[Len(d)]
      /\ f[0] = <<>>
      /\ \A n \in Nat : n < Len(d) =>
            f[n + 1] = f[n] \o (IF d[n + 1] < TextBase THEN <<d[n + 1]>> ELSE <<>>)
  BY TextOfFacts
<1> HIDE DEF f
<1>2. 0 \in P
  <2>1. f[0] \in Seq(Nat) /\ Len(f[0]) = 0
    BY <1>1
  <2> QED  BY <2>1
<1>3. ASSUME NEW n \in Nat, n \in P
      PROVE  n + 1 \in P
  <2>1. SUFFICES ASSUME n + 1 <= Len(d)
                 PROVE  Is(n + 1)
    OBVIOUS
  <2>2. n < Len(d) /\ n <= Len(d) /\ n + 1 \in 1 .. Len(d)
    BY <1>0, <2>1
  <2>3. /\ f[n] \in Seq(Nat) /\ Len(f[n]) \in Nat
        /\ \A i \in 1 .. Len(f[n]) : \E j \in 1 .. Len(d) :
              f[n][i] = d[j] /\ d[j] < TextBase
        /\ (\A j \in 1 .. Len(d) : d[j] < TextBase) =>
              Len(f[n]) = n /\ \A i \in 1 .. n : f[n][i] = d[i]
    BY <1>3, <2>2
  <2> DEFINE e == d[n + 1]
  <2>4. e \in Nat
    BY <2>2
  <2>5. CASE e < TextBase
    <3>1. f[n + 1] = Append(f[n], e)
      <4>1. f[n + 1] = f[n] \o <<e>>
        BY <1>1, <2>2, <2>5
      <4> HIDE DEF e
      <4> QED  BY <2>3, <2>4, <4>1
    <3> HIDE DEF e, P, Is
    <3>2. /\ f[n + 1] \in Seq(Nat) /\ Len(f[n + 1]) = Len(f[n]) + 1
          /\ \A i \in 1 .. Len(f[n]) : f[n + 1][i] = f[n][i]
          /\ f[n + 1][Len(f[n]) + 1] = e
      BY <2>3, <2>4, <3>1, AppendProperties
    <3>3. ASSUME NEW i \in 1 .. Len(f[n + 1])
          PROVE  \E j \in 1 .. Len(d) : f[n + 1][i] = d[j] /\ d[j] < TextBase
      <4>1. CASE i \in 1 .. Len(f[n])
        BY <2>3, <3>2, <4>1
      <4>2. CASE i = Len(f[n]) + 1
        BY <2>2, <2>5, <3>2, <4>2 DEF e
      <4> QED  BY <2>3, <3>2, <4>1, <4>2
    <3>4. ASSUME \A j \in 1 .. Len(d) : d[j] < TextBase
          PROVE  Len(f[n + 1]) = n + 1 /\ \A i \in 1 .. n + 1 : f[n + 1][i] = d[i]
      <4>1. Len(f[n]) = n /\ \A i \in 1 .. n : f[n][i] = d[i]
        BY <2>3, <3>4
      <4>2. \A i \in 1 .. n + 1 : i \in 1 .. n \/ i = n + 1
        OBVIOUS
      <4> QED  BY <3>2, <4>1, <4>2 DEF e
    <3> QED  BY <3>2, <3>3, <3>4 DEF Is
  <2>6. CASE ~(e < TextBase)
    <3>1. f[n + 1] = f[n]
      <4>1. f[n + 1] = f[n] \o <<>>
        BY <1>1, <2>2, <2>6
      <4> QED  BY <2>3, <4>1
    <3>2. ~ \A j \in 1 .. Len(d) : d[j] < TextBase
      BY <2>2, <2>6
    <3> QED  BY <2>3, <3>1, <3>2
  <2> QED  BY <2>5, <2>6
<1> HIDE DEF P, Is
<1>4. \A n \in Nat : n \in P
  BY <1>2, <1>3, SetInduction
<1>5. Is(Len(d))
  BY <1>0, <1>4 DEF P
<1>6. ASSUME \A j \in 1 .. Len(d) : d[j] < TextBase
      PROVE  f[Len(d)] = d
  <2>1. /\ f[Len(d)] \in Seq(Nat) /\ Len(f[Len(d)]) = Len(d)
        /\ \A i \in 1 .. Len(d) : f[Len(d)][i] = d[i]
    BY <1>5, <1>6 DEF Is
  <2> QED  BY <2>1, SeqEqual
<1> QED  BY <1>1, <1>5, <1>6 DEF Is

\* The text of bytes, or of digits that are no bytes: of the same number unless
\* toBase leaves it unsplit.
LEMMA EncodedFacts ==
    ASSUME NEW s \in Seq(Nat), NEW x, x = ValueOf(Reverse(s), ByteBase)
    PROVE  /\ x \in Nat
           /\ ToBase58(s) = Text(ToBase58(s).seq)
           /\ ToBase58(s).seq \in Seq(Nat)
           /\ \A i \in 1 .. Len(ToBase58(s).seq) : ToBase58(s).seq[i] < TextBase
           /\ ~Unsplit(x, {TextBase}) =>
                 /\ Leading(ToBase58(s).seq) = Leading(s)
                 /\ ValueOf(Reverse(ToBase58(s).seq), TextBase) = x
           /\ Unsplit(x, {TextBase}) =>
                 \A i \in 1 .. Len(ToBase58(s).seq) : ToBase58(s).seq[i] = 0
<1> DEFINE r == WithBase(s, ByteBase, TextBase)
           t == Characters(r)
<1>0. /\ ByteBase \in Nat /\ TextBase \in Nat /\ 2 <= TextBase
  BY BaseFacts
<1>1. /\ x \in Nat /\ r \in Seq(Nat)
      /\ Leading(r) = Leading(s)
      /\ ValueOf(Reverse(r), TextBase) = x
      /\ ~Unsplit(x, {TextBase}) => \A i \in 1 .. Len(r) : r[i] < TextBase
      /\ Unsplit(x, {TextBase}) =>
            /\ \E i \in 1 .. Len(r) : r[i] = TextBase
            /\ \A i \in 1 .. Len(r) : r[i] \in {0, TextBase}
  <2>1. IsChanged(r, s, x, TextBase)
    BY <1>0, WithBaseFacts, Zenon
  <2> QED  BY <2>1 DEF IsChanged
<1>2. ToBase58(s) = Text(t)
  BY DEF ToBase58
<1>3. ToBase58(s).seq = t
  BY <1>2 DEF Text
<1> HIDE DEF r
<1>4. /\ t \in Seq(Nat)
      /\ \A i \in 1 .. Len(t) : \E j \in 1 .. Len(r) : t[i] = r[j] /\ r[j] < TextBase
      /\ (\A j \in 1 .. Len(r) : r[j] < TextBase) => t = r
  BY <1>1, CharactersFacts
<1> HIDE DEF t
<1>5. \A i \in 1 .. Len(t) : t[i] < TextBase
  BY <1>4
<1>6. ASSUME ~Unsplit(x, {TextBase})
      PROVE  Leading(t) = Leading(s) /\ ValueOf(Reverse(t), TextBase) = x
  BY <1>1, <1>4, <1>6
<1>7. ASSUME Unsplit(x, {TextBase}), NEW i \in 1 .. Len(t)
      PROVE  t[i] = 0
  <2>1. PICK j \in 1 .. Len(r) : t[i] = r[j] /\ r[j] < TextBase
    BY <1>4
  <2>2. r[j] \in {0, TextBase}
    BY <1>1, <1>7
  <2> QED  BY <1>0, <2>1, <2>2
<1> QED  BY <1>1, <1>2, <1>3, <1>4, <1>5, <1>6, <1>7

\* The bytes of a text.
LEMMA DecodedFacts ==
    ASSUME NEW t \in Seq(Nat), \A i \in 1 .. Len(t) : t[i] < TextBase,
           NEW x, x = ValueOf(Reverse(t), TextBase)
    PROVE  /\ x \in Nat
           /\ FromBase58(t) = Bytes(FromBase58(t).seq)
           /\ FromBase58(t).seq \in Seq(Nat)
           /\ Leading(FromBase58(t).seq) = Leading(t)
           /\ ValueOf(Reverse(FromBase58(t).seq), ByteBase) = x
           /\ ~Unsplit(x, {ByteBase}) =>
                 \A i \in 1 .. Len(FromBase58(t).seq) : FromBase58(t).seq[i] < ByteBase
           /\ Unsplit(x, {ByteBase}) =>
                 /\ \E i \in 1 .. Len(FromBase58(t).seq) :
                       FromBase58(t).seq[i] = ByteBase
                 /\ \A i \in 1 .. Len(FromBase58(t).seq) :
                       FromBase58(t).seq[i] \in {0, ByteBase}
<1> DEFINE r == WithBase(t, TextBase, ByteBase)
<1>0. ByteBase \in Nat /\ TextBase \in Nat /\ 2 <= ByteBase
  BY BaseFacts
<1>1. /\ x \in Nat /\ r \in Seq(Nat)
      /\ Leading(r) = Leading(t)
      /\ ValueOf(Reverse(r), ByteBase) = x
      /\ ~Unsplit(x, {ByteBase}) => \A i \in 1 .. Len(r) : r[i] < ByteBase
      /\ Unsplit(x, {ByteBase}) =>
            /\ \E i \in 1 .. Len(r) : r[i] = ByteBase
            /\ \A i \in 1 .. Len(r) : r[i] \in {0, ByteBase}
  <2>1. IsChanged(r, t, x, ByteBase)
    BY <1>0, WithBaseFacts, Zenon
  <2> QED  BY <2>1 DEF IsChanged
<1>2. FromBase58(t) = Bytes(r)
  <2>1. ~ \E n \in DOMAIN t : t[n] >= TextBase
    <3>1. ASSUME NEW n \in DOMAIN t
          PROVE  ~(t[n] >= TextBase)
      <4>1. n \in 1 .. Len(t) /\ t[n] \in Nat
        OBVIOUS
      <4>2. t[n] < TextBase
        BY <4>1
      <4> QED  BY <1>0, <4>1, <4>2
    <3> QED  BY <3>1
  <2> QED  BY <2>1 DEF FromBase58
<1>3. FromBase58(t).seq = r
  BY <1>2 DEF Bytes
<1> HIDE DEF r
<1> QED  BY <1>1, <1>2, <1>3

\* Bytes come back from their text, unless the number is left unsplit.
LEMMA BytesComeBack ==
    ASSUME NEW s \in Seq(Nat), \A i \in 1 .. Len(s) : s[i] < ByteBase,
           NEW x, x = ValueOf(Reverse(s), ByteBase)
    PROVE  FromBase58(ToBase58(s).seq) = Bytes(s)
              <=> ~Unsplit(x, {TextBase, ByteBase})
<1> DEFINE t == ToBase58(s).seq
           r == FromBase58(t).seq
<1>0. /\ ByteBase \in Nat /\ TextBase \in Nat
      /\ 1 <= ByteBase /\ 2 <= TextBase /\ 2 <= ByteBase
  BY BaseFacts
<1>1. /\ x \in Nat /\ t \in Seq(Nat)
      /\ \A i \in 1 .. Len(t) : t[i] < TextBase
      /\ ~Unsplit(x, {TextBase}) =>
            Leading(t) = Leading(s) /\ ValueOf(Reverse(t), TextBase) = x
      /\ Unsplit(x, {TextBase}) => \A i \in 1 .. Len(t) : t[i] = 0
  BY EncodedFacts
<1> HIDE DEF t
<1> DEFINE y == ValueOf(Reverse(t), TextBase)
<1>2. /\ y \in Nat /\ FromBase58(t) = Bytes(r) /\ r \in Seq(Nat)
      /\ Leading(r) = Leading(t)
      /\ ValueOf(Reverse(r), ByteBase) = y
      /\ ~Unsplit(y, {ByteBase}) => \A i \in 1 .. Len(r) : r[i] < ByteBase
      /\ Unsplit(y, {ByteBase}) => \E i \in 1 .. Len(r) : r[i] = ByteBase
  BY <1>1, DecodedFacts
<1> HIDE DEF r, y
<1>3. /\ Unsplit(x, {TextBase}) => x # 0
      /\ Unsplit(x, {TextBase, ByteBase})
            <=> (Unsplit(x, {TextBase}) \/ Unsplit(x, {ByteBase}))
  BY <1>0, <1>1, UnsplitFacts
<1>4. FromBase58(t) = Bytes(s) <=> r = s
  BY <1>2 DEF Bytes
<1>5. ASSUME Unsplit(x, {TextBase})
      PROVE  r # s
  <2>1. y = 0
    BY <1>0, <1>1, <1>5, NoValue DEF y
  <2> QED  BY <1>2, <1>3, <1>5, <2>1
<1>6. ASSUME ~Unsplit(x, {TextBase})
      PROVE  r = s <=> ~Unsplit(x, {ByteBase})
  <2>1. y = x /\ Leading(r) = Leading(s)
    BY <1>1, <1>2, <1>6 DEF y
  <2>2. ASSUME Unsplit(x, {ByteBase})
        PROVE  r # s
    <3>1. PICK i \in 1 .. Len(r) : r[i] = ByteBase
      BY <1>2, <2>1, <2>2
    <3>2. ~(ByteBase < ByteBase)
      BY <1>0
    <3> QED  BY <3>1, <3>2
  <2>3. ASSUME ~Unsplit(x, {ByteBase})
        PROVE  r = s
    <3>1. \A i \in 1 .. Len(r) : r[i] < ByteBase
      BY <1>2, <2>1, <2>3
    <3>2. ValueOf(Reverse(r), ByteBase) = ValueOf(Reverse(s), ByteBase)
      BY <1>2, <2>1
    <3> QED  BY <1>0, <1>2, <2>1, <3>1, <3>2, DigitsUnique
  <2> QED  BY <2>2, <2>3
<1> QED  BY <1>3, <1>4, <1>5, <1>6 DEF t

\* Text comes back from its bytes, unless the number is left unsplit as text.
LEMMA TextComesBack ==
    ASSUME NEW t \in Seq(Nat), \A i \in 1 .. Len(t) : t[i] < TextBase,
           NEW x, x = ValueOf(Reverse(t), TextBase)
    PROVE  ToBase58(FromBase58(t).seq) = Text(t)
              <=> ~Unsplit(x, {TextBase})
<1> DEFINE s == FromBase58(t).seq
           r == ToBase58(s).seq
<1>0. /\ ByteBase \in Nat /\ TextBase \in Nat
      /\ 1 <= TextBase /\ 2 <= TextBase /\ 2 <= ByteBase
  BY BaseFacts
<1>1. /\ x \in Nat /\ s \in Seq(Nat) /\ Leading(s) = Leading(t)
      /\ ValueOf(Reverse(s), ByteBase) = x
  BY DecodedFacts
<1> HIDE DEF s
<1>2. /\ ToBase58(s) = Text(r) /\ r \in Seq(Nat)
      /\ \A i \in 1 .. Len(r) : r[i] < TextBase
      /\ ~Unsplit(x, {TextBase}) =>
            Leading(r) = Leading(s) /\ ValueOf(Reverse(r), TextBase) = x
      /\ Unsplit(x, {TextBase}) => \A i \in 1 .. Len(r) : r[i] = 0
  BY <1>1, EncodedFacts
<1> HIDE DEF r
<1>3. Unsplit(x, {TextBase}) => x # 0
  BY <1>0, <1>1, UnsplitFacts
<1>4. ToBase58(s) = Text(t) <=> r = t
  BY <1>2 DEF Text
<1>5. ASSUME Unsplit(x, {TextBase})
      PROVE  r # t
  <2>1. ValueOf(Reverse(r), TextBase) = 0
    BY <1>0, <1>2, <1>5, NoValue
  <2> QED  BY <1>3, <1>5, <2>1
<1>6. ASSUME ~Unsplit(x, {TextBase})
      PROVE  r = t
  BY <1>0, <1>1, <1>2, <1>6, DigitsUnique
<1> QED  BY <1>4, <1>5, <1>6 DEF s

-----------------------------------------------------------------------------
(***************************************************************************)
(* The characters of a number.                                             *)
(***************************************************************************)

\* The quotient by a product is the quotient of the quotient.
LEMMA DivisionTwice ==
    ASSUME NEW x \in Nat, NEW p \in Nat, NEW d \in Nat, 0 < p, 0 < d
    PROVE  x \div (d * p) = (x \div p) \div d
<1> DEFINE q == x \div p
           r == x % p
           u == q \div d
           e == q % d
           m == d * p
<1>1. q \in Nat /\ r \in Nat /\ r < p /\ r + p * q = x
  BY DivisionFacts
<1>2. u \in Nat /\ e \in Nat /\ e < d /\ e + d * u = q
  <2> HIDE DEF q
  <2> QED  BY <1>1, DivisionFacts
<1>3. m \in Nat /\ 0 < m
  OBVIOUS
<1> HIDE DEF q, r, u, e
<1>4. x = (p * e + r) + m * u
  <2>1. p * (e + d * u) = p * e + (d * p) * u
    BY <1>2
  <2>2. x = r + (p * e + (d * p) * u)
    BY <1>1, <1>2, <2>1
  <2>3. p * e \in Nat /\ (d * p) * u \in Nat
    BY <1>2
  <2> QED  BY <1>1, <2>2, <2>3
<1>5. p * e + r \in Nat /\ p * e + r < m
  <2>1. p * (e + 1) <= p * d
    BY <1>2
  <2>2. p * (e + 1) = p * e + p /\ p * d = m
    BY <1>2
  <2>3. p * e \in Nat
    BY <1>2
  <2> QED  BY <1>1, <2>1, <2>2, <2>3
<1> DEFINE y == p * e + r
<1>6. y \in Nat /\ y < m /\ x = y + m * u
  BY <1>4, <1>5
<1> HIDE DEF y, m
<1>7. x \div m = u
  <2> DEFINE k == x \div m
             z == x % m
  <2>1. k \in Nat /\ z \in Nat /\ z < m /\ z + m * k = x
    BY <1>3, DivisionFacts
  <2> HIDE DEF k, z
  <2>2. ~(k + 1 <= u)
    <3>1. k + 1 <= u => m * k + m <= m * u
      <4>1. k + 1 <= u => m * (k + 1) <= m * u
        BY <1>2, <1>3, <2>1
      <4>2. m * (k + 1) = m * k + m
        BY <1>3, <2>1
      <4> QED  BY <4>1, <4>2
    <3>2. m * k \in Nat /\ m * u \in Nat
      BY <1>2, <1>3, <2>1
    <3>3. \A a, b \in Nat : z + a = y + b => ~(a + m <= b)
      BY <1>3, <1>6, <2>1
    <3>4. z + m * k = y + m * u
      BY <1>6, <2>1
    <3> QED  BY <3>1, <3>2, <3>3, <3>4, Zenon
  <2>3. ~(u + 1 <= k)
    <3>1. u + 1 <= k => m * u + m <= m * k
      <4>1. u + 1 <= k => m * (u + 1) <= m * k
        BY <1>2, <1>3, <2>1
      <4>2. m * (u + 1) = m * u + m
        BY <1>2, <1>3
      <4> QED  BY <4>1, <4>2
    <3>2. m * k \in Nat /\ m * u \in Nat
      BY <1>2, <1>3, <2>1
    <3>3. \A a, b \in Nat : z + a = y + b => ~(b + m <= a)
      BY <1>3, <1>6, <2>1
    <3>4. z + m * k = y + m * u
      BY <1>6, <2>1
    <3> QED  BY <3>1, <3>2, <3>3, <3>4, Zenon
  <2>4. k = u
    BY <1>2, <2>1, <2>2, <2>3
  <2> QED  BY <2>4 DEF k
<1> QED  BY <1>7 DEF m, q, u

\* The bytes of the decimal digits.
Digits == Zero .. Zero + DecBase - 1

\* A number has enough characters.
LEMMA LengthFacts ==
    ASSUME NEW n \in Nat
    PROVE  Length(n) \in Nat /\ 1 <= Length(n) /\ n < Power(DecBase, Length(n))
<1> DEFINE Is(l) == /\ n < Power(DecBase, l)
                    /\ \A m \in 1 .. l - 1 : Power(DecBase, m) <= n
           Enough == {l \in Nat : 1 <= l /\ n < Power(DecBase, l)}
<1>0. \A l \in Nat : Power(DecBase, l) \in Nat /\ l < Power(DecBase, l)
  BY BaseFacts, PowerFacts, PowerGrows
<1>1. \E l \in 1 .. n + 1 : Is(l)
  <2>1. n + 1 \in Enough /\ Enough \in SUBSET Nat
    <3>1. n + 1 \in Nat /\ Power(DecBase, n + 1) \in Nat /\ n + 1 < Power(DecBase, n + 1)
      BY <1>0
    <3> QED  BY <3>1
  <2>2. PICK l \in Enough : l <= n + 1 /\ \A k \in Nat : k < l => k \notin Enough
    <3> HIDE DEF Enough
    <3> QED  BY <2>1, LeastExists
  <2>3. l \in 1 .. n + 1 /\ n < Power(DecBase, l)
    BY <2>2
  <2>4. ASSUME NEW m \in 1 .. l - 1
        PROVE  Power(DecBase, m) <= n
    <3>1. m \in Nat /\ 1 <= m /\ m < l /\ Power(DecBase, m) \in Nat
      BY <1>0, <2>3
    <3> QED  BY <2>2, <3>1
  <2> QED  BY <2>3, <2>4
<1>2. Length(n) = CHOOSE l \in 1 .. n + 1 : Is(l)
  BY DEF Length
<1> HIDE DEF Is
<1>3. Length(n) \in 1 .. n + 1 /\ Is(Length(n))
  BY <1>1, <1>2
<1> QED  BY <1>3 DEF Is

\* Each is the digit for its place.
LEMMA NumeralFacts ==
    ASSUME NEW n \in Nat
    PROVE  /\ Numeral(n) \in Seq(Nat)
           /\ Len(Numeral(n)) = Length(n)
           /\ \A i \in 1 .. Length(n) : Numeral(n)[i] \in Digits
           /\ \A i \in 1 .. Length(n) : Numeral(n)[i] - Zero
                 = (n \div Power(DecBase, Length(n) - i)) % DecBase
<1>0. Length(n) \in Nat
  BY LengthFacts
<1>1. ASSUME NEW i \in 1 .. Length(n)
      PROVE  /\ Numeral(n)[i] \in Digits /\ Numeral(n)[i] \in Nat
             /\ Numeral(n)[i] - Zero = (n \div Power(DecBase, Length(n) - i)) % DecBase
  <2> DEFINE p == Power(DecBase, Length(n) - i)
             e == (n \div p) % DecBase
  <2>1. Numeral(n)[i] = Zero + e
    BY DEF Numeral
  <2>2. Length(n) - i \in Nat
    BY <1>0
  <2>3. p \in Nat /\ 0 < p
    <3>1. Power(DecBase, Length(n) - i) \in Nat
      BY <2>2, BaseFacts, PowerFacts
    <3>2. Length(n) - i < Power(DecBase, Length(n) - i)
      BY <2>2, BaseFacts, PowerGrows
    <3> QED  BY <2>2, <3>1, <3>2
  <2> HIDE DEF p
  <2>4. n \div p \in Nat
    BY <2>3, DivisionFacts
  <2>5. e \in Nat /\ e < DecBase
    <3>1. DecBase \in Nat /\ 0 < DecBase
      BY BaseFacts
    <3> QED  BY <2>4, <3>1, DivisionFacts
  <2> HIDE DEF e
  <2>6. Zero + e \in Digits /\ Zero + e \in Nat /\ (Zero + e) - Zero = e
    BY <2>5, BaseFacts DEF Digits
  <2> QED  BY <2>1, <2>6 DEF e, p
<1>2. Numeral(n) \in [1 .. Length(n) -> Nat]
  <2>1. Numeral(n) = [i \in 1 .. Length(n) |-> Numeral(n)[i]]
    BY DEF Numeral
  <2> QED  BY <1>1, <2>1
<1>3. Numeral(n) \in Seq(Nat) /\ Len(Numeral(n)) = Length(n)
  <2>1. \A m \in Nat : \A s \in [1 .. m -> Nat] : s \in Seq(Nat) /\ Len(s) = m
    OBVIOUS
  <2> QED  BY <1>0, <1>2, <2>1
<1> QED  BY <1>1, <1>3

\* The digits that characters stand for.
DigitsOf(bytes) == [i \in DOMAIN bytes |-> bytes[i] - Zero]

\* Characters that are digits are read as their value.
LEMMA FromNumeralFacts ==
    ASSUME NEW bytes \in Seq(Nat), \A i \in 1 .. Len(bytes) : bytes[i] \in Digits
    PROVE  /\ DigitsOf(bytes) \in Seq(Nat)
           /\ Len(DigitsOf(bytes)) = Len(bytes)
           /\ ValueOf(Reverse(DigitsOf(bytes)), DecBase) \in Nat
           /\ FromNumeral(bytes) = Number(ValueOf(Reverse(DigitsOf(bytes)), DecBase))
<1> DEFINE d == DigitsOf(bytes)
<1>0. DOMAIN bytes = 1 .. Len(bytes) /\ Len(bytes) \in Nat
  OBVIOUS
<1>1. \A i \in 1 .. Len(bytes) : bytes[i] - Zero \in Nat
  BY BaseFacts DEF Digits
<1>2. d \in [1 .. Len(bytes) -> Nat]
  BY <1>0, <1>1 DEF DigitsOf
<1>3. d \in Seq(Nat) /\ Len(d) = Len(bytes)
  <2>1. \A m \in Nat : \A s \in [1 .. m -> Nat] : s \in Seq(Nat) /\ Len(s) = m
    OBVIOUS
  <2> QED  BY <1>0, <1>2, <2>1
<1>4. FromNumeral(bytes) = Number(ValueOf(Reverse(d), DecBase))
  <2>1. ~ \E i \in DOMAIN bytes : bytes[i] \notin Zero .. Zero + DecBase - 1
    BY <1>0 DEF Digits
  <2> QED  BY <2>1 DEF FromNumeral, DigitsOf
<1> HIDE DEF d
<1>5. ValueOf(Reverse(d), DecBase) \in Nat
  <2>1. Reverse(d) \in Seq(Nat)
    BY <1>3, ReverseFacts
  <2> HIDE DEF d
  <2> DEFINE r == Reverse(d)
  <2>2. r \in Seq(Nat) /\ DecBase \in Nat /\ Len(r) \in 0 .. Len(r)
    BY <2>1, BaseFacts
  <2> HIDE DEF r
  <2>3. ValueOf(r, DecBase) = Sum(r, DecBase)[Len(r)] /\ Sum(r, DecBase)[Len(r)] \in Nat
    BY <2>2, SumFacts
  <2> QED  BY <2>3 DEF r
<1> QED  BY <1>3, <1>4, <1>5 DEF d

\* A number is read as what was written.
LEMMA NumeralReads ==
    ASSUME NEW n \in Nat
    PROVE  FromNumeral(Numeral(n)) = Number(n)
<1> DEFINE l == Length(n)
           d == DigitsOf(Numeral(n))
           r == Reverse(d)
<1>1. l \in Nat /\ n < Power(DecBase, l)
  BY LengthFacts
<1>2. /\ Numeral(n) \in Seq(Nat) /\ Len(Numeral(n)) = l
      /\ \A i \in 1 .. l : Numeral(n)[i] \in Digits
      /\ \A i \in 1 .. l : Numeral(n)[i] - Zero
            = (n \div Power(DecBase, l - i)) % DecBase
  BY NumeralFacts
<1> HIDE DEF l
<1>3. /\ d \in Seq(Nat) /\ Len(d) = l
      /\ FromNumeral(Numeral(n)) = Number(ValueOf(r, DecBase))
  BY <1>2, FromNumeralFacts
<1>4. \A i \in 1 .. l : d[i] = (n \div Power(DecBase, l - i)) % DecBase
  <2>1. DOMAIN Numeral(n) = 1 .. l
    BY <1>2
  <2> QED  BY <1>2, <2>1 DEF DigitsOf
<1> HIDE DEF d
<1>5. /\ r \in Seq(Nat) /\ Len(r) = l
      /\ \A i \in 1 .. l : /\ l - i + 1 \in 1 .. l
                           /\ r[i] = d[l - i + 1]
  BY <1>3, ReverseFacts
<1> HIDE DEF r
<1>6. \A m \in Nat : m < l => r[m + 1] = (n \div Power(DecBase, m)) % DecBase
  <2>1. ASSUME NEW m \in Nat, m < l
        PROVE  r[m + 1] = (n \div Power(DecBase, m)) % DecBase
    <3>1. m + 1 \in 1 .. l /\ l - (l - (m + 1) + 1) = m
      BY <1>1, <2>1
    <3> QED  BY <1>4, <1>5, <3>1
  <2> QED  BY <2>1
<1>0. DecBase \in Nat /\ 0 < DecBase
  BY BaseFacts
<1> DEFINE P == {m \in Nat : m <= l =>
                    Sum(r, DecBase)[m]
                        + Power(DecBase, m) * (n \div Power(DecBase, m)) = n}
<1>7. 0 \in P
  <2>1. Sum(r, DecBase)[0] = 0
    BY <1>0, <1>5, SumFacts
  <2>2. Power(DecBase, 0) = 1
    BY <1>0, PowerFacts
  <2>3. n \div 1 = n /\ 0 + 1 * n = n
    OBVIOUS
  <2> QED  BY <2>1, <2>2, <2>3
<1>8. ASSUME NEW m \in Nat, m \in P
      PROVE  m + 1 \in P
  <2>1. SUFFICES ASSUME m + 1 <= l
                 PROVE  Sum(r, DecBase)[m + 1] + Power(DecBase, m + 1)
                            * (n \div Power(DecBase, m + 1)) = n
    OBVIOUS
  <2>2. m < l /\ m <= l /\ m < Len(r) /\ m \in 0 .. Len(r)
    BY <1>1, <1>5, <2>1
  <2> DEFINE s == Sum(r, DecBase)[m]
             p == Power(DecBase, m)
             q == n \div p
             u == q \div DecBase
             e == q % DecBase
  <2>3. Sum(r, DecBase)[m + 1] = s + r[m + 1] * p
    BY <1>0, <1>5, <2>2, SumFacts
  <2>4. p \in Nat /\ 0 < p /\ Power(DecBase, m + 1) = DecBase * p
    <3>1. p \in Nat /\ Power(DecBase, m + 1) = DecBase * p
      BY <1>0, PowerFacts
    <3>2. m < p
      BY BaseFacts, PowerGrows
    <3> QED  BY <3>1, <3>2
  <2>5. r[m + 1] = e
    BY <1>6, <2>2
  <2>6. s + p * q = n
    BY <1>8, <2>2
  <2>7. s \in Nat
    BY <1>0, <1>5, <2>2, SumFacts
  <2> HIDE DEF s, p
  <2>8. n \div (DecBase * p) = u
    BY <1>0, <2>4, DivisionTwice
  <2>9. q \in Nat
    BY <2>4, DivisionFacts
  <2> HIDE DEF q
  <2>10. u \in Nat /\ e \in Nat /\ e + DecBase * u = q
    BY <1>0, <2>9, DivisionFacts
  <2> HIDE DEF u, e
  <2>11. (s + e * p) + (DecBase * p) * u = n
    <3>1. p * (e + DecBase * u) = e * p + (DecBase * p) * u
      BY <1>0, <2>4, <2>10
    <3>2. e * p \in Nat /\ (DecBase * p) * u \in Nat
      BY <1>0, <2>4, <2>10
    <3>3. s + (e * p + (DecBase * p) * u) = n
      BY <2>6, <2>10, <3>1
    <3> QED  BY <2>7, <3>2, <3>3
  <2> QED  BY <2>3, <2>4, <2>5, <2>8, <2>11
<1> HIDE DEF P
<1>9. \A m \in Nat : m \in P
  BY <1>7, <1>8, SetInduction
<1>10. Sum(r, DecBase)[l] + Power(DecBase, l) * (n \div Power(DecBase, l)) = n
  <2>1. l \in P /\ l <= l
    BY <1>1, <1>9
  <2> QED  BY <2>1 DEF P
<1>11. n \div Power(DecBase, l) = 0
  <2> DEFINE p == Power(DecBase, l)
  <2>1. p \in Nat /\ n < p
    BY <1>0, <1>1, PowerFacts
  <2> HIDE DEF p
  <2>2. 0 < p /\ n \div p \in Nat /\ n % p \in Nat /\ (n % p) + p * (n \div p) = n
    BY <2>1, DivisionFacts
  <2> DEFINE q == n \div p
  <2>3. q >= 1 => p * q >= p
    <3>1. q \in Nat /\ p \in Nat
      BY <2>1, <2>2
    <3> HIDE DEF q
    <3> QED  BY <3>1
  <2>4. q \in Nat /\ p * q \in Nat
    BY <2>1, <2>2
  <2>5. p * q <= n
    BY <2>2, <2>4
  <2> HIDE DEF q
  <2>6. q = 0
    BY <2>1, <2>3, <2>4, <2>5
  <2> QED  BY <2>6 DEF q, p
<1>12. ValueOf(r, DecBase) = n
  <2>1. Power(DecBase, l) \in Nat /\ Power(DecBase, l) * 0 = 0
    BY <1>0, <1>1, PowerFacts
  <2>2. l \in 0 .. Len(r)
    BY <1>1, <1>5
  <2>3. Sum(r, DecBase)[l] \in Nat
    BY <1>0, <1>5, <2>2, SumFacts
  <2>4. ValueOf(r, DecBase) = Sum(r, DecBase)[l]
    BY <1>0, <1>5, SumFacts
  <2> QED  BY <1>10, <1>11, <2>1, <2>3, <2>4
<1> QED  BY <1>3, <1>12

\* What is left of a hash is a number.
LEMMA ShortenedFacts ==
    ASSUME NEW n \in Nat
    PROVE  Shortened(n) \in Nat
<1> DEFINE s == Numeral(n)
           m == IF Kept < Len(s) THEN Kept ELSE Len(s)
           t == SubSeq(s, 1, m)
<1>1. /\ s \in Seq(Nat) /\ Len(s) \in Nat
      /\ \A i \in 1 .. Len(s) : s[i] \in Digits
  BY NumeralFacts
<1> HIDE DEF s
<1>2. m \in Nat /\ m <= Len(s)
  BY <1>1, BaseFacts
<1> HIDE DEF m
<1>3. /\ t \in Seq(Nat) /\ Len(t) = m
      /\ \A i \in 1 .. m : t[i] = s[i]
  <2>1. 1 \in Int /\ m \in Int /\ \A i \in 1 .. m : s[i] \in Nat
    BY <1>1, <1>2
  <2>2. /\ SubSeq(s, 1, m) \in Seq(Nat)
        /\ Len(SubSeq(s, 1, m)) = IF 1 <= m THEN m - 1 + 1 ELSE 0
        /\ \A i \in 1 .. m - 1 + 1 : SubSeq(s, 1, m)[i] = s[1 + i - 1]
    BY <1>1, <1>2, <2>1, SubSeqProperties
  <2>3. m - 1 + 1 = m /\ (~(1 <= m) => m = 0) /\ \A i \in 1 .. m : 1 + i - 1 = i
    BY <1>2
  <2> QED  BY <1>2, <2>2, <2>3
<1> HIDE DEF t
<1>4. \A i \in 1 .. Len(t) : t[i] \in Digits
  <2>1. \A i \in 1 .. m : i \in 1 .. Len(s)
    BY <1>1, <1>2
  <2> QED  BY <1>1, <1>3, <2>1
<1>5. PICK v \in Nat : FromNumeral(t) = Number(v)
  BY <1>3, <1>4, FromNumeralFacts
<1>6. Number(v).seq[1] = v
  BY DEF Number
<1>7. Shortened(n) = FromNumeral(t).seq[1]
  BY DEF Shortened, t, m, s
<1> QED  BY <1>5, <1>6, <1>7

-----------------------------------------------------------------------------
(***************************************************************************)
(* Version and checksum.                                                   *)
(***************************************************************************)

\* A first digit past the base carries to one before it.
Carried(s, b) ==
    [i \in 1 .. Len(s) + 1 |->
        IF i = 1 THEN s[1] \div b ELSE IF i = 2 THEN s[1] % b ELSE s[i - 1]]

\* It keeps the value.
LEMMA CarriedFacts ==
    ASSUME NEW s \in Seq(Nat), 1 <= Len(s), NEW b \in Nat, 2 <= b
    PROVE  /\ Carried(s, b) \in Seq(Nat)
           /\ Len(Carried(s, b)) = Len(s) + 1
           /\ ValueOf(Reverse(Carried(s, b)), b) = ValueOf(Reverse(s), b)
<1> DEFINE l == Len(s)
           c == Carried(s, b)
           q == s[1] \div b
           e == s[1] % b
           r == Reverse(s)
           t == Reverse(c)
<1>0. l \in Nat /\ s[1] \in Nat
  OBVIOUS
<1>1. q \in Nat /\ e \in Nat /\ e + b * q = s[1]
  <2> DEFINE x == s[1]
  <2>1. x \in Nat /\ 0 < b
    BY <1>0
  <2> HIDE DEF x
  <2>2. x % b \in Nat /\ x \div b \in Nat /\ (x % b) + b * (x \div b) = x
    BY <2>1, DivisionFacts
  <2> QED  BY <2>2 DEF x
<1> HIDE DEF q, e
<1>2. c \in [1 .. l + 1 -> Nat] /\ c[1] = q /\ c[2] = e
      /\ \A i \in 1 .. l + 1 : 2 < i => c[i] = s[i - 1]
  <2>1. \A i \in 1 .. l + 1 : c[i] = IF i = 1 THEN q ELSE IF i = 2 THEN e ELSE s[i - 1]
    BY DEF Carried, q, e
  <2>2. \A i \in 1 .. l + 1 : 2 < i => s[i - 1] \in Nat
    BY <1>0
  <2>3. c = [i \in 1 .. l + 1 |-> c[i]]
    BY DEF Carried
  <2>4. ASSUME NEW i \in 1 .. l + 1
        PROVE  c[i] \in Nat
    <3>1. c[i] = IF i = 1 THEN q ELSE IF i = 2 THEN e ELSE s[i - 1]
      BY <2>1
    <3>2. i = 1 \/ i = 2 \/ 2 < i
      BY <1>0, <2>4
    <3> HIDE DEF c
    <3> QED  BY <1>1, <2>2, <3>1, <3>2
  <2>5. 1 \in 1 .. l + 1 /\ 2 \in 1 .. l + 1
    BY <1>0
  <2>6. c[1] = q /\ c[2] = e
    BY <2>1, <2>5
  <2>7. \A i \in 1 .. l + 1 : 2 < i => c[i] = s[i - 1]
    BY <2>1
  <2> HIDE DEF c
  <2> QED  BY <2>3, <2>4, <2>6, <2>7
<1>3. c \in Seq(Nat) /\ Len(c) = l + 1
  <2>1. \A m \in Nat : \A f \in [1 .. m -> Nat] : f \in Seq(Nat) /\ Len(f) = m
    OBVIOUS
  <2>2. l + 1 \in Nat
    BY <1>0
  <2> QED  BY <1>2, <2>1, <2>2
<1> HIDE DEF c
<1>4. /\ r \in Seq(Nat) /\ Len(r) = l
      /\ \A i \in 1 .. l : r[i] = s[l - i + 1]
  BY ReverseFacts
<1>5. /\ t \in Seq(Nat) /\ Len(t) = l + 1
      /\ \A i \in 1 .. l + 1 : t[i] = c[(l + 1) - i + 1]
  <2>1. /\ t \in Seq(Nat) /\ Len(t) = Len(c)
        /\ \A i \in 1 .. Len(c) : t[i] = c[Len(c) - i + 1]
    BY <1>3, ReverseFacts
  <2> HIDE DEF t, l
  <2> QED  BY <1>3, <2>1
<1> HIDE DEF r, t
<1> DEFINE m == l - 1
<1>6. m \in Nat /\ m + 1 = l /\ m < l /\ m <= l /\ m <= l + 1 /\ l < l + 1 /\ m \in 0 .. m
      /\ m < l + 1
  BY <1>0
<1>7. \A i \in 1 .. m : t[i] = r[i]
  <2>1. ASSUME NEW i \in 1 .. m
        PROVE  t[i] = r[i]
    <3>1. /\ i \in 1 .. l /\ i \in 1 .. l + 1
          /\ (l + 1) - i + 1 \in 1 .. l + 1 /\ 2 < (l + 1) - i + 1
          /\ ((l + 1) - i + 1) - 1 = l - i + 1
      BY <1>0, <2>1
    <3> QED  BY <1>2, <1>4, <1>5, <3>1
  <2> QED  BY <2>1
<1>8. r[l] = s[1] /\ t[l] = e /\ t[l + 1] = q
  <2>1. /\ l \in 1 .. l /\ l \in 1 .. l + 1 /\ l + 1 \in 1 .. l + 1
        /\ l - l + 1 = 1 /\ (l + 1) - l + 1 = 2 /\ (l + 1) - (l + 1) + 1 = 1
    BY <1>0
  <2> QED  BY <1>2, <1>4, <1>5, <2>1
<1> HIDE DEF l, m
<1>9. Sum(t, b)[m] = Sum(r, b)[m]
  BY <1>4, <1>5, <1>6, <1>7, SumAgrees
<1> DEFINE p == Power(b, m)
           a == Sum(r, b)[m]
<1>10. p \in Nat /\ Power(b, l) = b * p
  <2>1. p \in Nat /\ Power(b, m + 1) = b * p
    BY <1>6, PowerFacts
  <2> QED  BY <1>6, <2>1
<1>11. a \in Nat /\ ValueOf(r, b) = a + s[1] * p
  <2>1. m \in Nat /\ m < Len(r) /\ m \in 0 .. Len(r)
    BY <1>4, <1>6
  <2>2. Sum(r, b)[m + 1] = a + r[m + 1] * p
    BY <1>4, <2>1, SumFacts
  <2>3. a \in Nat
    BY <1>4, <2>1, SumFacts
  <2>4. ValueOf(r, b) = Sum(r, b)[l]
    BY <1>4, SumFacts
  <2> QED  BY <1>6, <1>8, <2>2, <2>3, <2>4
<1>12. ValueOf(t, b) = (a + e * p) + q * (b * p)
  <2>1. m \in Nat /\ m < Len(t) /\ l \in Nat /\ l < Len(t)
    BY <1>0, <1>5, <1>6 DEF l
  <2>2. Sum(t, b)[m + 1] = Sum(t, b)[m] + t[m + 1] * p
    BY <1>5, <2>1, SumFacts
  <2>3. Sum(t, b)[l + 1] = Sum(t, b)[l] + t[l + 1] * Power(b, l)
    BY <1>5, <2>1, SumFacts
  <2>4. ValueOf(t, b) = Sum(t, b)[l + 1]
    BY <1>5, SumFacts
  <2> QED  BY <1>6, <1>8, <1>9, <1>10, <2>2, <2>3, <2>4
<1> HIDE DEF p, a
<1>13. (a + e * p) + q * (b * p) = a + (e + b * q) * p
  <2>1. (e + b * q) * p = e * p + q * (b * p)
    BY <1>1, <1>10
  <2>2. e * p \in Nat /\ q * (b * p) \in Nat
    BY <1>1, <1>10
  <2>3. \A x, y, z \in Nat : (x + y) + z = x + (y + z)
    OBVIOUS
  <2> QED  BY <1>11, <2>1, <2>2, <2>3
<1>14. ValueOf(t, b) = ValueOf(r, b)
  BY <1>1, <1>11, <1>12, <1>13
<1> QED  BY <1>3, <1>14 DEF c, l, r, t

\* What is read of a text, as its bytes are.
LEMMA CheckedFacts ==
    ASSUME NEW t, NEW d \in Seq(Nat), FromBase58(t) = Bytes(d), NEW r
    PROVE  FromBase58Check(t, r) =
              IF \/ Len(d) < 2
                 \/ d[Len(d)] # Checksum(Front(d))
                 \/ d[1] # r
              THEN Thrown ELSE Bytes(Tail(Front(d)))
<1>1. Bytes(d).seq = d /\ Bytes(d) # Thrown
  BY DEF Bytes, Thrown
<1>2. ~(Len(d) < 2) => Front(d)[1] = d[1]
  <2>1. SUFFICES ASSUME ~(Len(d) < 2)
                 PROVE  SubSeq(d, 1, Len(d) - 1)[1] = d[1]
    BY DEF Front
  <2> QED  BY <2>1
<1>3. Last(d) = d[Len(d)]
  BY DEF Last
<1> QED  BY <1>1, <1>2, <1>3 DEF FromBase58Check

\* The whole that is encoded, with its version and its checksum.
WholeBytes(n, v) == (<<v>> \o Numeral(n)) \o <<Checksum(<<v>> \o Numeral(n))>>

\* The number's characters are between the version and the checksum, and only the
\* version may be past the base.
LEMMA WholeFacts ==
    ASSUME NEW n \in Nat, NEW v \in Nat \ {0},
           Checksum(<<v>> \o Numeral(n)) \in 0 .. ByteBase - 1
    PROVE  /\ WholeBytes(n, v) \in Seq(Nat)
           /\ 3 <= Len(WholeBytes(n, v))
           /\ WholeBytes(n, v)[1] = v
           /\ \A i \in 1 .. Len(WholeBytes(n, v)) :
                 1 < i => WholeBytes(n, v)[i] < ByteBase
           /\ Front(WholeBytes(n, v)) = <<v>> \o Numeral(n)
           /\ WholeBytes(n, v)[Len(WholeBytes(n, v))]
                 = Checksum(Front(WholeBytes(n, v)))
           /\ Tail(Front(WholeBytes(n, v))) = Numeral(n)
           /\ Leading(WholeBytes(n, v)) = 0
           /\ Whole(n, v) = ValueOf(Reverse(WholeBytes(n, v)), ByteBase)
           /\ ToBase58Check(Numeral(n), v) = ToBase58(WholeBytes(n, v))
<1> DEFINE s == Numeral(n)
           f == <<v>> \o s
           k == Checksum(f)
           w == WholeBytes(n, v)
<1>1. /\ s \in Seq(Nat) /\ 1 <= Len(s) /\ Len(s) \in Nat
      /\ \A i \in 1 .. Len(s) : s[i] \in Digits
  BY LengthFacts, NumeralFacts
<1>2. k \in Nat /\ k < ByteBase
  BY BaseFacts
<1>3. w = f \o <<k>>
  BY DEF WholeBytes
<1>4. /\ Whole(n, v) = ValueOf(Reverse(w), ByteBase)
      /\ ToBase58Check(s, v) = ToBase58(w)
  BY DEF Whole, ToBase58Check, WholeBytes
<1> HIDE DEF s, w, k
<1>5. /\ f \in Seq(Nat) /\ Len(f) = Len(s) + 1
      /\ f[1] = v
      /\ \A i \in 1 .. Len(s) : f[i + 1] = s[i]
      /\ Tail(f) = s
  <2>1. <<v>> \in Seq(Nat) /\ Len(<<v>>) = 1 /\ <<v>>[1] = v
    OBVIOUS
  <2>2. f \in Seq(Nat) /\ Len(f) = Len(s) + 1
    BY <1>1, <2>1
  <2>3. \A i \in 1 .. Len(s) : f[i + 1] = s[i]
    BY <1>1, <2>1
  <2>4. f[1] = v
    BY <1>1, <2>1
  <2>5. Tail(f) \in Seq(Nat) /\ Len(Tail(f)) = Len(s)
        /\ \A i \in 1 .. Len(s) : Tail(f)[i] = f[i + 1]
    <3> HIDE DEF f
    <3> QED  BY <1>1, <2>2
  <2>6. Tail(f) = s
    <3> DEFINE u == Tail(f)
    <3>1. \A i \in 1 .. Len(s) : u[i] = s[i]
      BY <2>3, <2>5
    <3>2. u \in Seq(Nat) /\ Len(u) = Len(s)
      BY <2>5
    <3> HIDE DEF u
    <3>3. u = s
      BY <1>1, <3>1, <3>2, SeqEqual
    <3> QED  BY <3>3 DEF u
  <2> QED  BY <2>2, <2>3, <2>4, <2>6
<1> HIDE DEF f
<1>6. /\ w \in Seq(Nat) /\ Len(w) = Len(f) + 1
      /\ \A i \in 1 .. Len(f) : w[i] = f[i]
      /\ w[Len(f) + 1] = k
  BY <1>2, <1>3, <1>5
<1>7. \A i \in 1 .. Len(w) : 1 < i => w[i] < ByteBase
  <2>1. ASSUME NEW i \in 1 .. Len(w), 1 < i
        PROVE  w[i] < ByteBase
    <3>1. CASE i = Len(w)
      BY <1>2, <1>6, <3>1
    <3>2. CASE i # Len(w)
      <4>1. i - 1 \in 1 .. Len(s) /\ (i - 1) + 1 = i /\ i \in 1 .. Len(f)
        BY <1>1, <1>5, <1>6, <2>1, <3>2
      <4>2. w[i] = s[i - 1] /\ s[i - 1] \in Digits
        BY <1>1, <1>5, <1>6, <4>1
      <4>3. \A x \in Digits : x < ByteBase
        BY BaseFacts DEF Digits
      <4> QED  BY <4>2, <4>3
    <3> QED  BY <3>1, <3>2
  <2> QED  BY <2>1
<1>8. Front(w) = f
  <2> DEFINE u == SubSeq(w, 1, Len(w) - 1)
  <2>1. Len(w) - 1 = Len(f) /\ Len(f) \in Nat /\ 1 <= Len(f)
    BY <1>1, <1>5, <1>6
  <2>2. 1 \in Int /\ Len(f) \in Int /\ \A i \in 1 .. Len(f) : w[i] \in Nat
    BY <1>6, <2>1
  <2>3. /\ SubSeq(w, 1, Len(f)) \in Seq(Nat)
        /\ Len(SubSeq(w, 1, Len(f))) = IF 1 <= Len(f) THEN Len(f) - 1 + 1 ELSE 0
        /\ \A i \in 1 .. Len(f) - 1 + 1 : SubSeq(w, 1, Len(f))[i] = w[1 + i - 1]
    BY <1>6, <2>1, <2>2, SubSeqProperties
  <2>4. Len(f) - 1 + 1 = Len(f) /\ \A i \in 1 .. Len(f) : 1 + i - 1 = i
    BY <2>1
  <2>5. u \in Seq(Nat) /\ Len(u) = Len(f) /\ \A i \in 1 .. Len(f) : u[i] = f[i]
    BY <1>6, <2>1, <2>3, <2>4
  <2>6. Front(w) = u
    BY DEF Front
  <2> HIDE DEF u
  <2>7. u = f
    BY <1>5, <2>5, SeqEqual
  <2> QED  BY <2>6, <2>7
<1>9. w[1] = v /\ 3 <= Len(w) /\ w[Len(w)] = k
  <2>1. 1 \in 1 .. Len(f)
    BY <1>1, <1>5
  <2> QED  BY <1>1, <1>5, <1>6, <2>1
<1>10. Leading(w) = 0
  <2>1. 0 \in 0 .. Len(w) /\ w[0 + 1] # 0
    BY <1>6, <1>9
  <2>2. LeadsWith(w, 0)
    BY <2>1 DEF LeadsWith
  <2> QED  BY <1>6, <2>2, LeadingFacts
<1>11. k = Checksum(f)
  BY DEF k
<1> QED  BY <1>4, <1>5, <1>6, <1>7, <1>8, <1>9, <1>10, <1>11 DEF s, f, w

\* What is made of a number with a version is read, with a version byte, as the
\* number's characters if that is the version it was made with and toBase splits
\* the whole, and is thrown out if not.
LEMMA ReadFacts ==
    ASSUME NEW n \in Nat, NEW v \in Versions, NEW r \in VersionBytes,
           Checksum(<<v>> \o Numeral(n)) \in 0 .. ByteBase - 1
    PROVE  FromBase58Check(ToBase58Check(Numeral(n), v).seq, r) =
              IF r = v /\ ~Unsplit(Whole(n, v), {ByteBase, TextBase})
              THEN Bytes(Numeral(n)) ELSE Thrown
<1> DEFINE w == WholeBytes(n, v)
           x == Whole(n, v)
           t == ToBase58(w).seq
           d == FromBase58(t).seq
           y == ValueOf(Reverse(t), TextBase)
<1>0. /\ ByteBase \in Nat /\ 1 <= ByteBase /\ 2 <= ByteBase /\ 0 < ByteBase
      /\ TextBase \in Nat /\ 2 <= TextBase /\ TextBase < ByteBase
      /\ 0 \in Nat
  BY BaseFacts
<1>1. /\ v \in Nat \ {0} /\ v < ByteBase * ByteBase /\ v \div ByteBase \notin VersionBytes
      /\ r \in Nat /\ 0 < r /\ r < ByteBase
  <2>1. v \in 1 .. ByteBase * ByteBase - 1 /\ r \in 1 .. ByteBase - 1
    BY VersionsAssumption
  <2>2. ByteBase * ByteBase \in Nat
    BY <1>0
  <2>3. \A m, i \in Nat : i \in 1 .. m - 1 => i \in Nat /\ i # 0 /\ 0 < i /\ i < m
    OBVIOUS
  <2>4. v \in Nat /\ r \in Nat
    BY <1>0, <2>1, <2>2
  <2>5. v # 0 /\ v < ByteBase * ByteBase
    BY <2>1, <2>2, <2>3, <2>4, Zenon
  <2>6. 0 < r /\ r < ByteBase
    BY <1>0, <2>1, <2>3, <2>4, Zenon
  <2>7. v \div ByteBase \notin VersionBytes
    BY VersionsAssumption
  <2> QED  BY <2>4, <2>5, <2>6, <2>7
<1>2. /\ w \in Seq(Nat) /\ 3 <= Len(w) /\ w[1] = v
      /\ \A i \in 1 .. Len(w) : 1 < i => w[i] < ByteBase
      /\ w[Len(w)] = Checksum(Front(w))
      /\ Tail(Front(w)) = Numeral(n)
      /\ Leading(w) = 0
      /\ x = ValueOf(Reverse(w), ByteBase)
      /\ ToBase58Check(Numeral(n), v) = ToBase58(w)
  BY <1>1, WholeFacts
<1> HIDE DEF w, x
<1>3. /\ x \in Nat
      /\ t \in Seq(Nat)
      /\ \A i \in 1 .. Len(t) : t[i] < TextBase
      /\ ~Unsplit(x, {TextBase}) => Leading(t) = 0 /\ y = x
      /\ Unsplit(x, {TextBase}) => \A i \in 1 .. Len(t) : t[i] = 0
  BY <1>2, EncodedFacts
<1> HIDE DEF t
<1>4. /\ y \in Nat
      /\ FromBase58(t) = Bytes(d)
      /\ d \in Seq(Nat)
      /\ Leading(d) = Leading(t)
      /\ ValueOf(Reverse(d), ByteBase) = y
      /\ ~Unsplit(y, {ByteBase}) => \A i \in 1 .. Len(d) : d[i] < ByteBase
      /\ Unsplit(y, {ByteBase}) => \A i \in 1 .. Len(d) : d[i] \in {0, ByteBase}
  BY <1>3, DecodedFacts
<1> HIDE DEF d, y
<1>5. /\ Unsplit(x, {ByteBase, TextBase}) <=> Unsplit(x, {ByteBase}) \/ Unsplit(x, {TextBase})
      /\ y = 0 => ~Unsplit(y, {ByteBase})
  BY <1>0, <1>3, <1>4, UnsplitFacts
<1>6. FromBase58Check(t, r) =
         IF Len(d) < 2 \/ d[Len(d)] # Checksum(Front(d)) \/ d[1] # r
         THEN Thrown ELSE Bytes(Tail(Front(d)))
  BY <1>4, CheckedFacts
<1>7. d[1] # r => FromBase58Check(t, r) = Thrown
  BY <1>6
<1>8. Len(d) < 2 => FromBase58Check(t, r) = Thrown
  BY <1>6
<1>9. SUFFICES FromBase58Check(t, r) =
                 IF r = v /\ ~Unsplit(x, {ByteBase, TextBase})
                 THEN Bytes(Numeral(n)) ELSE Thrown
  BY <1>2 DEF t, x
\* The text of a number that is unsplit as text is of zeros.
<1>10. CASE Unsplit(x, {TextBase})
  <2>1. \A i \in 1 .. Len(t) : t[i] = 0
    BY <1>3, <1>10
  <2>2. y = 0
    BY <1>0, <1>3, <2>1, NoValue DEF y
  <2>3. \A i \in 1 .. Len(d) : d[i] < ByteBase
    BY <1>4, <1>5, <2>2
  <2>4. \A i \in 1 .. Len(t) : t[i] < ByteBase
    BY <1>0, <2>1
  <2>5. ValueOf(Reverse(t), ByteBase) = 0
    BY <1>0, <1>3, <2>1, NoValue
  <2>6. d = t
    BY <1>0, <1>3, <1>4, <2>2, <2>3, <2>4, <2>5, DigitsUnique
  <2>7. ~(Len(d) < 2) => d[1] = 0
    <3>1. SUFFICES ASSUME ~(Len(d) < 2)
                   PROVE  1 \in 1 .. Len(t)
      BY <2>1, <2>6
    <3> QED  BY <1>4, <2>6, <3>1
  <2>8. FromBase58Check(t, r) = Thrown
    BY <1>1, <1>7, <1>8, <2>7
  <2> QED  BY <1>5, <1>10, <2>8
\* The first byte of a number that is unsplit as bytes is none.
<1>11. CASE ~Unsplit(x, {TextBase}) /\ Unsplit(x, {ByteBase})
  <2>1. \A i \in 1 .. Len(d) : d[i] \in {0, ByteBase}
    BY <1>3, <1>4, <1>11
  <2>2. ~(Len(d) < 2) => d[1] \in {0, ByteBase}
    <3>1. SUFFICES ASSUME ~(Len(d) < 2)
                   PROVE  1 \in 1 .. Len(d)
      BY <2>1
    <3> QED  BY <1>4, <3>1
  <2>3. r # 0 /\ r # ByteBase
    BY <1>0, <1>1
  <2>4. FromBase58Check(t, r) = Thrown
    BY <1>7, <1>8, <2>2, <2>3
  <2> QED  BY <1>5, <1>11, <2>4
<1>12. CASE ~Unsplit(x, {TextBase}) /\ ~Unsplit(x, {ByteBase}) /\ v < ByteBase
  <2>1. Leading(d) = Leading(w) /\ ValueOf(Reverse(d), ByteBase) = ValueOf(Reverse(w), ByteBase)
    BY <1>2, <1>3, <1>4, <1>12
  <2>2. \A i \in 1 .. Len(d) : d[i] < ByteBase
    BY <1>3, <1>4, <1>12
  <2>3. ASSUME NEW i \in 1 .. Len(w)
        PROVE  w[i] < ByteBase
    <3>1. i = 1 \/ 1 < i
      BY <2>3
    <3> QED  BY <1>2, <1>12, <3>1
  <2>4. d = w
    BY <1>0, <1>2, <1>4, <2>1, <2>2, <2>3, DigitsUnique
  <2>5. ~(Len(d) < 2)
    BY <1>2, <1>4, <2>4
  <2>6. d[Len(d)] = Checksum(Front(d)) /\ d[1] = v /\ Tail(Front(d)) = Numeral(n)
    BY <1>2, <2>4
  <2>7. FromBase58Check(t, r) = IF r = v THEN Bytes(Numeral(n)) ELSE Thrown
    BY <1>6, <2>5, <2>6, Zenon
  <2>8. ~Unsplit(x, {ByteBase, TextBase})
    BY <1>5, <1>12
  <2> QED  BY <2>7, <2>8
\* A version that is not a byte is read as two.
<1>13. CASE ~Unsplit(x, {TextBase}) /\ ~Unsplit(x, {ByteBase}) /\ ~(v < ByteBase)
  <2> DEFINE c == Carried(w, ByteBase)
             q == v \div ByteBase
  <2>1. q \in Nat /\ q < ByteBase /\ v % ByteBase \in Nat /\ v % ByteBase < ByteBase
        /\ (v % ByteBase) + ByteBase * q = v
    BY <1>0, <1>1, DivisionFacts
  <2>2. q # 0
    <3>1. q = 0 => ByteBase * q = 0
      BY <1>0
    <3>2. (v % ByteBase) + 0 = v % ByteBase
      BY <2>1
    <3> QED  BY <1>13, <2>1, <3>1, <3>2
  <2>3. c \in Seq(Nat) /\ Len(c) = Len(w) + 1
        /\ ValueOf(Reverse(c), ByteBase) = x
    <3>1. 1 <= Len(w)
      BY <1>2
    <3> QED  BY <1>0, <1>2, <3>1, CarriedFacts
  <2>4. \A i \in 1 .. Len(w) + 1 :
           c[i] = IF i = 1 THEN q ELSE IF i = 2 THEN v % ByteBase ELSE w[i - 1]
    BY <1>2 DEF Carried
  <2> HIDE DEF c, q
  <2>5. ASSUME NEW i \in 1 .. Len(c)
        PROVE  c[i] < ByteBase
    <3>1. c[i] = IF i = 1 THEN q ELSE IF i = 2 THEN v % ByteBase ELSE w[i - 1]
      BY <2>3, <2>4
    <3>2. i = 1 \/ i = 2 \/ (i # 1 /\ i # 2 /\ i - 1 \in 1 .. Len(w) /\ 1 < i - 1)
      BY <1>2, <2>3, <2>5
    <3> QED  BY <1>2, <2>1, <3>1, <3>2
  <2>6. c[1] = q
    <3>1. 1 \in 1 .. Len(w) + 1
      BY <1>2
    <3> QED  BY <2>4, <3>1
  <2>7. Leading(c) = 0
    <3>1. LeadsWith(c, 0)
      BY <1>2, <2>2, <2>3, <2>6 DEF LeadsWith
    <3> QED  BY <2>3, <3>1, LeadingFacts
  <2>8. Leading(d) = Leading(c) /\ ValueOf(Reverse(d), ByteBase) = ValueOf(Reverse(c), ByteBase)
    BY <1>3, <1>4, <1>13, <2>3, <2>7
  <2>9. \A i \in 1 .. Len(d) : d[i] < ByteBase
    BY <1>3, <1>4, <1>13
  <2>10. d = c
    BY <1>0, <1>4, <2>3, <2>5, <2>8, <2>9, DigitsUnique
  <2>11. d[1] # r
    BY <1>1, <2>6, <2>10 DEF q
  <2>12. r # v
    BY <1>1, <1>13
  <2> QED  BY <1>7, <2>11, <2>12
<1> QED  BY <1>10, <1>11, <1>12, <1>13

-----------------------------------------------------------------------------
(***************************************************************************)
(* The stages of the conversions, which the inductive invariant tells apart.*)
(***************************************************************************)

\* Nothing is converted yet.
Given ==
    /\ steps = 0 /\ version = 0 /\ read = 0
    /\ origin \in Origins /\ value = origin

\* Bytes were encoded, or a text decoded.
ConvertedOnce ==
    /\ steps = 1 /\ version = 0 /\ read = 0
    /\ origin \in Origins
    /\ \/ origin.is = "bytes" /\ value = ToBase58(origin.seq)
       \/ origin.is = "text" /\ value = FromBase58(origin.seq)

\* And back.
ConvertedBack ==
    /\ steps = 2 /\ version = 0 /\ read = 0
    /\ origin \in Origins
    /\ \/ /\ origin.is = "bytes"
          /\ value = FromBase58(ToBase58(origin.seq).seq)
       \/ /\ origin.is = "text"
          /\ FromBase58(origin.seq) # Thrown
          /\ value = ToBase58(FromBase58(origin.seq).seq)

\* An id was made of a number.
Made ==
    /\ steps = 1 /\ version \in Versions /\ read = 0
    /\ \E n \in Numbers : /\ origin = Number(n)
                          /\ value = ToBase58Check(Numeral(n), version)

\* payloadFromBase58.
ReadOf(text, v) ==
    LET bytes == FromBase58Check(text, v)
    IN IF bytes = Thrown THEN Thrown ELSE FromNumeral(bytes.seq)

\* It was read.
MadeAndRead ==
    /\ steps = 2 /\ version \in Versions /\ read \in VersionBytes
    /\ \E n \in Numbers :
          /\ origin = Number(n)
          /\ value = ReadOf(ToBase58Check(Numeral(n), version).seq, read)

\* A text that was given was read.
GivenAndRead == steps = 1 /\ version = 0 /\ read \in VersionBytes

\* What the value is of, at every stage of the conversions.
ConversionInv ==
    \/ Given
    \/ ConvertedOnce
    \/ ConvertedBack
    \/ Made
    \/ MadeAndRead
    \/ GivenAndRead

-----------------------------------------------------------------------------
(***************************************************************************)
(* What is true of each.                                                   *)
(***************************************************************************)

\* Versions are not 0.
LEMMA VersionFacts ==
    /\ \A v \in Versions : v \in Nat \ {0}
    /\ \A v \in VersionBytes : v \in Nat \ {0} /\ v \in Versions
<1>1. ByteBase * ByteBase \in Nat
  BY BaseFacts
<1>2. \A m \in Nat : \A v \in 1 .. m - 1 : v \in Nat \ {0}
  OBVIOUS
<1> QED  BY <1>1, <1>2, VersionsAssumption

\* What a value is, and what it is of.
LEMMA Tags ==
    /\ \A s : /\ Bytes(s).is = "bytes" /\ Bytes(s).seq = s /\ Bytes(s) # Thrown
              /\ Text(s).is = "text" /\ Text(s).seq = s /\ Text(s) # Thrown
    /\ \A n : /\ Number(n).is = "number" /\ Number(n).seq[1] = n
              /\ Number(n) # Thrown
    /\ Thrown.is = "thrown"
BY DEF Bytes, Text, Number, Thrown

\* What is given.
LEMMA OriginFacts ==
    ASSUME NEW o \in Origins
    PROVE  /\ o.is = "bytes" => /\ o = Bytes(o.seq) /\ o.seq \in Seq(Nat)
                                /\ \A i \in 1 .. Len(o.seq) : o.seq[i] < ByteBase
           /\ o.is = "text" => o = Text(o.seq) /\ o.seq \in Seq(Nat)
           /\ o.is = "number" => /\ o = Number(o.seq[1])
                                 /\ o.seq[1] \in Numbers
                                 /\ Shortened(o.seq[1]) \in Numbers
           /\ o.is \in {"bytes", "text", "number"}
<1>1. \/ o = Bytes(o.seq) /\ o.seq \in Seq(0 .. ByteBase - 1)
      \/ o = Text(o.seq) /\ o.seq \in Seq(0 .. TextBase)
      \/ o = Number(o.seq[1]) /\ o.seq[1] \in Nat
  BY OriginsAssumption
<1>2. \A m \in Nat : \A s \in Seq(0 .. m) : s \in Seq(Nat) /\ \A i \in 1 .. Len(s) : s[i] <= m
  <2>1. ASSUME NEW m \in Nat, NEW s \in Seq(0 .. m)
        PROVE  s \in Seq(Nat) /\ \A i \in 1 .. Len(s) : s[i] <= m
    <3>1. Len(s) \in Nat /\ s \in [1 .. Len(s) -> 0 .. m]
      OBVIOUS
    <3>2. \A i \in 1 .. Len(s) : s[i] \in Nat /\ s[i] <= m
      BY <3>1
    <3>3. s \in [1 .. Len(s) -> Nat]
      BY <3>1, <3>2
    <3>4. \A k \in Nat : \A f \in [1 .. k -> Nat] : f \in Seq(Nat)
      OBVIOUS
    <3> QED  BY <3>1, <3>2, <3>3, <3>4
  <2> QED  BY <2>1
<1>3. ByteBase - 1 \in Nat /\ TextBase \in Nat
  BY BaseFacts
<1>4. CASE o = Bytes(o.seq) /\ o.seq \in Seq(0 .. ByteBase - 1)
  <2>1. o.is = "bytes"
    BY <1>4, Tags
  <2> DEFINE s == o.seq
  <2>2. s \in Seq(Nat) /\ \A i \in 1 .. Len(s) : s[i] <= ByteBase - 1
    BY <1>2, <1>3, <1>4
  <2> HIDE DEF s
  <2>3. \A i \in 1 .. Len(s) : s[i] < ByteBase
    BY <2>2, BaseFacts
  <2> QED  BY <1>4, <2>1, <2>2, <2>3 DEF s
<1>5. CASE o = Text(o.seq) /\ o.seq \in Seq(0 .. TextBase)
  <2>1. o.is = "text"
    BY <1>5, Tags
  <2>2. o.seq \in Seq(Nat)
    BY <1>2, <1>3, <1>5
  <2> QED  BY <1>5, <2>1, <2>2
<1>6. CASE o = Number(o.seq[1]) /\ o.seq[1] \in Nat
  <2>1. o.is = "number"
    BY <1>6, Tags
  <2>2. o.seq[1] \in Numbers /\ Shortened(o.seq[1]) \in Numbers
    BY <2>1 DEF Numbers
  <2> QED  BY <1>6, <2>1, <2>2
<1> QED  BY <1>1, <1>4, <1>5, <1>6

\* The numbers that ids are made of, and their checksums.
LEMMA NumbersFacts ==
    ASSUME NEW n \in Numbers
    PROVE  /\ n \in Nat
           /\ \A v \in Versions :
                 Checksum(<<v>> \o Numeral(n)) \in 0 .. ByteBase - 1
<1>1. ASSUME NEW o \in Origins, o.is = "number"
      PROVE  o.seq[1] \in Nat /\ Shortened(o.seq[1]) \in Nat
  <2>1. o.seq[1] \in Nat
    BY <1>1, OriginsAssumption, Tags
  <2> QED  BY <2>1, ShortenedFacts
<1>2. n \in Nat
  BY <1>1 DEF Numbers
<1> QED  BY <1>2, ChecksumAssumption

\* What was made of a number is read as the number with its version, if toBase
\* splits it, and thrown out otherwise.
LEMMA ReadOfMade ==
    ASSUME NEW n \in Numbers, NEW v \in Versions, NEW r \in VersionBytes
    PROVE  /\ ReadOf(ToBase58Check(Numeral(n), v).seq, r) =
                 IF r = v /\ ~Unsplit(Whole(n, v), {ByteBase, TextBase})
                 THEN Number(n) ELSE Thrown
           /\ FromBase58Check(ToBase58Check(Numeral(n), v).seq, r) # Thrown =>
                 FromNumeral(FromBase58Check(ToBase58Check(Numeral(n), v).seq, r).seq)
                    = Number(n)
<1> DEFINE bytes == FromBase58Check(ToBase58Check(Numeral(n), v).seq, r)
           Whether == r = v /\ ~Unsplit(Whole(n, v), {ByteBase, TextBase})
<1>1. n \in Nat /\ Checksum(<<v>> \o Numeral(n)) \in 0 .. ByteBase - 1
  BY NumbersFacts
<1>2. bytes = IF Whether THEN Bytes(Numeral(n)) ELSE Thrown
  BY <1>1, ReadFacts
<1>3. FromNumeral(Numeral(n)) = Number(n)
  BY <1>1, NumeralReads
<1>4. ReadOf(ToBase58Check(Numeral(n), v).seq, r)
         = IF bytes = Thrown THEN Thrown ELSE FromNumeral(bytes.seq)
  BY DEF ReadOf
<1> HIDE DEF bytes, Whether
<1>5. CASE Whether
  <2>1. bytes # Thrown /\ bytes.seq = Numeral(n)
    BY <1>2, <1>5, Tags
  <2> QED  BY <1>3, <1>4, <1>5, <2>1 DEF bytes, Whether
<1>6. CASE ~Whether
  <2>1. bytes = Thrown
    BY <1>2, <1>6
  <2> QED  BY <1>4, <1>6, <2>1 DEF bytes, Whether
<1> QED  BY <1>5, <1>6

-----------------------------------------------------------------------------
(***************************************************************************)
(* Theorems.                                                               *)
(***************************************************************************)

\* Every conversion leads from one stage to the next.
THEOREM ConversionInvariant == Spec => []ConversionInv
<1>1. Init => ConversionInv
  BY DEF Init, ConversionInv, Given
<1>2. ConversionInv /\ [Next]_vars => ConversionInv'
  <2> SUFFICES ASSUME ConversionInv, [Next]_vars
               PROVE  ConversionInv'
    OBVIOUS
  <2>1. \A v \in Versions : v # 0
    BY VersionFacts
  <2>2. \A v \in VersionBytes : v # 0 /\ v \in Versions
    BY VersionFacts
  <2>3. CASE Encode
    <3>1. CASE Given
      <4>1. origin.is = "bytes" /\ ConvertedOnce'
        BY <2>3, <3>1 DEF Encode, Converts, Given, ConvertedOnce
      <4> QED  BY <4>1 DEF ConversionInv
    <3>2. CASE ConvertedOnce
      <4>1. origin.is = "text" /\ FromBase58(origin.seq) # Thrown
        <5>1. value.is = "bytes"
          BY <2>3 DEF Encode
        <5>2. ToBase58(origin.seq).is = "text"
          BY Tags DEF ToBase58
        <5> QED  BY <3>2, <5>1, <5>2, Tags DEF ConvertedOnce
      <4>2. ConvertedBack'
        BY <2>3, <3>2, <4>1 DEF Encode, Converts, ConvertedOnce, ConvertedBack
      <4> QED  BY <4>2 DEF ConversionInv
    <3> QED  BY <2>1, <2>2, <2>3, <3>1, <3>2
             DEF ConversionInv, Encode, ConvertedBack, Made, MadeAndRead, GivenAndRead
  <2>4. CASE Decode
    <3>1. CASE Given
      <4>1. origin.is = "text" /\ ConvertedOnce'
        BY <2>4, <3>1 DEF Decode, Converts, Given, ConvertedOnce
      <4> QED  BY <4>1 DEF ConversionInv
    <3>2. CASE ConvertedOnce
      <4>1. origin.is = "bytes"
        <5>1. value.is = "text"
          BY <2>4 DEF Decode
        <5>2. FromBase58(origin.seq).is # "text"
          BY Tags DEF FromBase58
        <5> QED  BY <3>2, <5>1, <5>2 DEF ConvertedOnce
      <4>2. ConvertedBack'
        BY <2>4, <3>2, <4>1, Tags DEF Decode, Converts, ConvertedOnce, ConvertedBack
      <4> QED  BY <4>2 DEF ConversionInv
    <3> QED  BY <2>1, <2>2, <2>4, <3>1, <3>2
             DEF ConversionInv, Decode, ConvertedBack, Made, MadeAndRead, GivenAndRead
  <2>5. ASSUME NEW v \in Versions, FromField(v)
        PROVE  ConversionInv'
    <3>1. Given
      BY <2>5 DEF FromField, ConversionInv, ConvertedOnce, ConvertedBack, Made,
                  MadeAndRead, GivenAndRead
    <3>2. origin = Number(value.seq[1]) /\ value.seq[1] \in Numbers
      BY <2>5, <3>1, OriginFacts DEF FromField, Given
    <3>3. Made'
      BY <2>5, <3>1, <3>2 DEF FromField, Converts, Given, Made
    <3> QED  BY <3>3 DEF ConversionInv
  <2>6. ASSUME NEW v \in VersionBytes, FromPublicKey(v)
        PROVE  ConversionInv'
    <3> DEFINE n == Shortened(value.seq[1])
               made == ToBase58Check(Numeral(n), v)
               bytes == FromBase58Check(made.seq, v)
    <3>1. /\ steps = 0 /\ value.is = "number" /\ bytes # Thrown
          /\ origin' = FromNumeral(bytes.seq) /\ value' = made /\ steps' = steps + 1
          /\ version' = v /\ read' = read
      BY <2>6 DEF FromPublicKey, Converts
    <3>2. Given
      BY <3>1 DEF ConversionInv, ConvertedOnce, ConvertedBack, Made, MadeAndRead, GivenAndRead
    <3>3. n \in Numbers
      BY <3>1, <3>2, OriginFacts DEF Given
    <3> HIDE DEF n
    <3>4. FromNumeral(bytes.seq) = Number(n)
      BY <2>2, <3>1, <3>3, ReadOfMade
    <3> HIDE DEF bytes
    <3>5. steps' = 1 /\ version' \in Versions /\ read' = 0 /\ origin' = Number(n)
          /\ value' = ToBase58Check(Numeral(n), version')
      BY <2>2, <3>1, <3>2, <3>4 DEF Given
    <3>6. Made'
      BY <3>3, <3>5 DEF Made
    <3> QED  BY <3>6 DEF ConversionInv
  <2>7. ASSUME NEW v \in VersionBytes, ToField(v)
        PROVE  ConversionInv'
    <3>1. /\ value.is = "text" /\ (version # 0 \/ steps = 0)
          /\ value' = ReadOf(value.seq, v) /\ steps' = steps + 1 /\ read' = v
          /\ origin' = origin /\ version' = version
      BY <2>7 DEF ToField, Converts, ReadOf
    <3>2. CASE Given
      <4>1. GivenAndRead'
        BY <3>1, <3>2 DEF Given, GivenAndRead
      <4> QED  BY <4>1 DEF ConversionInv
    <3>3. CASE Made
      <4>1. PICK n \in Numbers : /\ origin = Number(n)
                                 /\ value = ToBase58Check(Numeral(n), version)
        BY <3>3 DEF Made
      <4>2. steps' = 2 /\ version' \in Versions /\ read' \in VersionBytes
        BY <3>1, <3>3 DEF Made
      <4>3. MadeAndRead'
        BY <3>1, <4>1, <4>2 DEF MadeAndRead
      <4> QED  BY <4>3 DEF ConversionInv
    <3>4. ~MadeAndRead
      <4>1. ASSUME MadeAndRead
            PROVE  value.is # "text"
        <5>1. PICK n \in Numbers :
                 value = ReadOf(ToBase58Check(Numeral(n), version).seq, read)
          BY <4>1 DEF MadeAndRead
        <5>2. value = Number(n) \/ value = Thrown
          BY <4>1, <5>1, ReadOfMade DEF MadeAndRead
        <5> QED  BY <5>2, Tags
      <4> QED  BY <3>1, <4>1
    <3> QED  BY <3>1, <3>2, <3>3, <3>4
             DEF ConversionInv, ConvertedOnce, ConvertedBack, GivenAndRead
  <2>8. CASE UNCHANGED vars
    BY <2>8 DEF vars, ConversionInv, Given, ConvertedOnce, ConvertedBack, Made,
                MadeAndRead, GivenAndRead
  <2> QED  BY <2>3, <2>4, <2>5, <2>6, <2>7, <2>8 DEF Next
<1> QED  BY <1>1, <1>2, PTL DEF Spec

\* A change of base by pairs of digits, in toBase58 and fromBase58, is the change
\* that the naive sum defines, for every number and any two bases, except where
\* toBase leaves the number unsplit.
THEOREM SameNumberHolds == Spec => []SameNumber
<1>1. ConversionInv => SameNumber
  <2> SUFFICES ASSUME ConversionInv, steps = 1, version = 0, read = 0, value # Thrown
               PROVE  LET x == ValueOf(Reverse(origin.seq), BaseOf(origin))
                      IN \/ Unsplit(x, {BaseOf(value)})
                         \/ /\ x = ValueOf(Reverse(value.seq), BaseOf(value))
                            /\ \A n \in DOMAIN value.seq :
                                  value.seq[n] < BaseOf(value)
    BY DEF SameNumber
  <2> DEFINE s == origin.seq
             t == value.seq
             x == ValueOf(Reverse(s), BaseOf(origin))
  <2>1. ConvertedOnce
    BY VersionFacts DEF ConversionInv, Given, ConvertedBack, Made, MadeAndRead, GivenAndRead
  <2>2. CASE origin.is = "bytes" /\ value = ToBase58(origin.seq)
    <3>1. s \in Seq(Nat)
      BY <2>1, <2>2, OriginFacts DEF ConvertedOnce
    <3>2. BaseOf(origin) = ByteBase
      BY <2>2 DEF BaseOf
    <3>3. value = ToBase58(s)
      BY <2>2
    <3> HIDE DEF s
    <3>4. value = Text(t) /\ t \in Seq(Nat) /\ (\A i \in 1 .. Len(t) : t[i] < TextBase)
      BY <3>1, <3>2, <3>3, EncodedFacts
    <3>5. ~Unsplit(x, {TextBase}) => ValueOf(Reverse(t), TextBase) = x
      BY <3>1, <3>2, <3>3, EncodedFacts
    <3>6. BaseOf(value) = TextBase
      BY <3>4, Tags DEF BaseOf
    <3>7. DOMAIN t = 1 .. Len(t)
      BY <3>4
    <3> HIDE DEF x, t
    <3>8. \/ Unsplit(x, {BaseOf(value)})
          \/ /\ x = ValueOf(Reverse(t), BaseOf(value))
             /\ \A n \in DOMAIN t : t[n] < BaseOf(value)
      BY <3>4, <3>5, <3>6, <3>7
    <3> QED  BY <3>8 DEF x, t, s
  <2>3. CASE origin.is = "text" /\ value = FromBase58(origin.seq)
    <3>1. s \in Seq(Nat)
      BY <2>1, <2>3, OriginFacts DEF ConvertedOnce
    <3>2. BaseOf(origin) = TextBase
      BY <2>3 DEF BaseOf
    <3>3. value = FromBase58(s)
      BY <2>3
    <3> HIDE DEF s
    <3>4. \A i \in 1 .. Len(s) : s[i] < TextBase
      <4>1. ~ \E i \in DOMAIN s : s[i] >= TextBase
        BY <3>3 DEF FromBase58
      <4>2. DOMAIN s = 1 .. Len(s) /\ \A i \in 1 .. Len(s) : s[i] \in Nat
        BY <3>1
      <4> QED  BY <4>1, <4>2, BaseFacts
    <3>5. value = Bytes(t) /\ t \in Seq(Nat)
      BY <3>1, <3>3, <3>4, DecodedFacts
    <3>6. ValueOf(Reverse(t), ByteBase) = x
      BY <3>1, <3>2, <3>3, <3>4, DecodedFacts
    <3>7. ~Unsplit(x, {ByteBase}) => \A i \in 1 .. Len(t) : t[i] < ByteBase
      BY <3>1, <3>2, <3>3, <3>4, DecodedFacts
    <3>8. BaseOf(value) = ByteBase
      BY <3>5, Tags DEF BaseOf
    <3>9. DOMAIN t = 1 .. Len(t)
      BY <3>5
    <3> HIDE DEF x, t
    <3>10. \/ Unsplit(x, {BaseOf(value)})
           \/ /\ x = ValueOf(Reverse(t), BaseOf(value))
              /\ \A n \in DOMAIN t : t[n] < BaseOf(value)
      BY <3>6, <3>7, <3>8, <3>9
    <3> QED  BY <3>10 DEF x, t, s
  <2> QED  BY <2>1, <2>2, <2>3 DEF ConvertedOnce
<1> QED  BY <1>1, ConversionInvariant, PTL

\* fromBase58 undoes toBase58, and toBase58 undoes fromBase58, leading zeros
\* included, exactly for the numbers that toBase does split.
THEOREM RoundTripsHolds == Spec => []RoundTrips
<1>1. ConversionInv => RoundTrips
  <2> SUFFICES ASSUME ConversionInv, steps = 2, version = 0, value # Thrown
               PROVE  value = origin <=>
                         ~Unsplit(ValueOf(Reverse(origin.seq), BaseOf(origin)),
                                  {TextBase, BaseOf(origin)})
    BY DEF RoundTrips
  <2> DEFINE s == origin.seq
  <2>1. ConvertedBack
    BY VersionFacts DEF ConversionInv, Given, ConvertedOnce, Made, MadeAndRead, GivenAndRead
  <2>2. CASE /\ origin.is = "bytes"
             /\ value = FromBase58(ToBase58(origin.seq).seq)
    <3>1. /\ origin = Bytes(s) /\ s \in Seq(Nat)
          /\ \A i \in 1 .. Len(s) : s[i] < ByteBase
      BY <2>1, <2>2, OriginFacts DEF ConvertedBack
    <3>2. BaseOf(origin) = ByteBase
      BY <2>2 DEF BaseOf
    <3>3. value = FromBase58(ToBase58(s).seq)
      BY <2>2
    <3> HIDE DEF s
    <3>4. FromBase58(ToBase58(s).seq) = Bytes(s)
             <=> ~Unsplit(ValueOf(Reverse(s), ByteBase), {TextBase, ByteBase})
      BY <3>1, BytesComeBack
    <3> QED  BY <3>1, <3>2, <3>3, <3>4 DEF s
  <2>3. CASE /\ origin.is = "text"
             /\ FromBase58(origin.seq) # Thrown
             /\ value = ToBase58(FromBase58(origin.seq).seq)
    <3>1. origin = Text(s) /\ s \in Seq(Nat)
      BY <2>1, <2>3, OriginFacts DEF ConvertedBack
    <3>2. BaseOf(origin) = TextBase
      BY <2>3 DEF BaseOf
    <3>3. value = ToBase58(FromBase58(s).seq) /\ FromBase58(s) # Thrown
      BY <2>3
    <3> HIDE DEF s
    <3>4. \A i \in 1 .. Len(s) : s[i] < TextBase
      <4>1. ~ \E i \in DOMAIN s : s[i] >= TextBase
        BY <3>3 DEF FromBase58
      <4>2. DOMAIN s = 1 .. Len(s) /\ \A i \in 1 .. Len(s) : s[i] \in Nat
        BY <3>1
      <4> QED  BY <4>1, <4>2, BaseFacts
    <3>5. ToBase58(FromBase58(s).seq) = Text(s)
             <=> ~Unsplit(ValueOf(Reverse(s), TextBase), {TextBase})
      BY <3>1, <3>4, TextComesBack
    <3>6. {TextBase, BaseOf(origin)} = {TextBase}
      BY <3>2
    <3> QED  BY <3>1, <3>2, <3>3, <3>5, <3>6 DEF s
  <2> QED  BY <2>1, <2>2, <2>3 DEF ConvertedBack
<1> QED  BY <1>1, ConversionInvariant, PTL

\* fromBase58Check returns what was given to toBase58Check exactly if the version
\* byte is the same and toBase splits the whole; every other id is thrown out.
THEOREM VersionsApartHolds == Spec => []VersionsApart
<1>1. ConversionInv => VersionsApart
  <2> SUFFICES ASSUME ConversionInv, read # 0, version # 0
               PROVE  value =
                         IF /\ read = version
                            /\ ~Unsplit(Whole(origin.seq[1], version),
                                        {ByteBase, TextBase})
                         THEN origin ELSE Thrown
    BY DEF VersionsApart
  <2>1. MadeAndRead
    BY DEF ConversionInv, Given, ConvertedOnce, ConvertedBack, Made, GivenAndRead
  <2>2. PICK n \in Numbers :
           /\ origin = Number(n)
           /\ value = ReadOf(ToBase58Check(Numeral(n), version).seq, read)
    BY <2>1 DEF MadeAndRead
  <2>3. origin.seq[1] = n
    BY <2>2, Tags
  <2>4. value = IF read = version /\ ~Unsplit(Whole(n, version), {ByteBase, TextBase})
                THEN Number(n) ELSE Thrown
    BY <2>1, <2>2, ReadOfMade DEF MadeAndRead
  <2> QED  BY <2>2, <2>3, <2>4
<1> QED  BY <1>1, ConversionInvariant, PTL

=============================================================================
