--------------------------- MODULE SequenceLemmas ---------------------------
(***************************************************************************)
(* Sequences with one element more or less, as the specifications of the   *)
(* web app keep the runs that are under way, and sets of positions in one; *)
(* numbers, and functions of them that are defined by recursion.           *)
(***************************************************************************)
EXTENDS SequencesExt, SequenceTheorems, FiniteSetTheorems, TLAPS

\* What is left of a sequence without one of its elements.
LEMMA RemoveAtFacts ==
    ASSUME NEW S, NEW s \in Seq(S), NEW n \in 1 .. Len(s)
    PROVE  /\ RemoveAt(s, n) \in Seq(S)
           /\ Len(RemoveAt(s, n)) = Len(s) - 1
           /\ \A m \in 1 .. Len(s) - 1 :
                 RemoveAt(s, n)[m] = IF m < n THEN s[m] ELSE s[m + 1]
<1> DEFINE before == SubSeq(s, 1, n - 1)
           after  == SubSeq(s, n + 1, Len(s))
<1>1. /\ before \in Seq(S)
      /\ Len(before) = n - 1
      /\ \A m \in 1 .. n - 1 : before[m] = s[m]
  BY SubSeqProperties
<1>2. /\ after \in Seq(S)
      /\ Len(after) = Len(s) - n
      /\ \A m \in 1 .. Len(s) - n : after[m] = s[n + m]
  <2>1. Len(s) \in Nat /\ n + 1 \in 1 .. Len(s) + 1 /\ Len(s) \in n .. Len(s)
    OBVIOUS
  <2>2. after \in Seq(S) /\ Len(after) = Len(s) - n
    BY <2>1, SubSeqProperties
  <2>3. ASSUME NEW m \in 1 .. Len(s) - n
        PROVE  after[m] = s[n + m]
    BY <2>1, SubSeqProperties
  <2> QED  BY <2>2, <2>3
<1>3. RemoveAt(s, n) = before \o after
  BY DEF RemoveAt
<1> HIDE DEF before, after
<1>4. /\ before \o after \in Seq(S)
      /\ Len(before \o after) = Len(before) + Len(after)
      /\ \A m \in 1 .. Len(before) + Len(after) :
            (before \o after)[m] = IF m <= Len(before) THEN before[m]
                                  ELSE after[m - Len(before)]
  BY <1>1, <1>2, ConcatProperties, Zenon
<1> QED  BY <1>1, <1>2, <1>3, <1>4

\* Each element that is left was there, and is where it was or one further.
LEMMA RemoveAtMembers ==
    ASSUME NEW S, NEW s \in Seq(S), NEW n \in DOMAIN s
    PROVE  /\ RemoveAt(s, n) \in Seq(S)
           /\ Len(RemoveAt(s, n)) = Len(s) - 1
           /\ \A m \in DOMAIN RemoveAt(s, n) :
                 \E k \in DOMAIN s : RemoveAt(s, n)[m] = s[k]
<1>0. DOMAIN s = 1 .. Len(s) /\ Len(s) \in Nat /\ n \in 1 .. Len(s)
  OBVIOUS
<1>1. /\ RemoveAt(s, n) \in Seq(S)
      /\ Len(RemoveAt(s, n)) = Len(s) - 1
      /\ \A m \in 1 .. Len(s) - 1 :
            RemoveAt(s, n)[m] = IF m < n THEN s[m] ELSE s[m + 1]
  BY <1>0, RemoveAtFacts
<1>2. DOMAIN RemoveAt(s, n) = 1 .. Len(s) - 1
  BY <1>1
<1>3. ASSUME NEW m \in 1 .. Len(s) - 1
      PROVE  m \in DOMAIN s /\ m + 1 \in DOMAIN s
  BY <1>0
<1> QED  BY <1>1, <1>2, <1>3

\* A sequence with one more element.
LEMMA AppendFacts ==
    ASSUME NEW S, NEW s \in Seq(S), NEW e \in S
    PROVE  /\ Append(s, e) \in Seq(S)
           /\ Append(s, e) # <<>>
           /\ Len(Append(s, e)) = Len(s) + 1
           /\ DOMAIN s \subseteq DOMAIN Append(s, e)
           /\ DOMAIN Append(s, e) = DOMAIN s \cup {Len(s) + 1}
           /\ Len(s) + 1 \notin DOMAIN s
           /\ \A n \in DOMAIN s : Append(s, e)[n] = s[n]
           /\ Append(s, e)[Len(s) + 1] = e
<1>1. /\ Append(s, e) \in Seq(S)
      /\ Len(Append(s, e)) = Len(s) + 1
      /\ \A n \in 1 .. Len(s) : Append(s, e)[n] = s[n]
      /\ Append(s, e)[Len(s) + 1] = e
  BY AppendProperties
<1>2. /\ DOMAIN s = 1 .. Len(s) /\ Len(s) \in Nat
      /\ DOMAIN Append(s, e) = 1 .. Len(s) + 1
  BY <1>1
<1>3. Append(s, e) # <<>>
  BY <1>1
<1> QED  BY <1>1, <1>2, <1>3

\* A set of positions has a last one.
LEMMA LastExists ==
    ASSUME NEW n \in Nat, NEW T \in SUBSET (1 .. n), T # {}
    PROVE  \E m \in T : \A k \in T : k <= m
<1> DEFINE From(m) == {k \in T : m <= k}
           Tails   == {From(m) : m \in T}
           R       == StrictSubsetOrdering(Nat)
<1>0. \A k \in T : k \in Nat /\ k <= n
  OBVIOUS
<1>1. ASSUME NEW m \in T
      PROVE  From(m) \in FiniteSubsetsOf(Nat)
  <2>1. From(m) \in SUBSET Nat /\ \A k \in From(m) : k <= n
    <3> HIDE DEF Tails, R
    <3> QED
      BY <1>0 DEF From
  <2> HIDE DEF From
  <2>2. IsFiniteSet(From(m))
    BY <2>1, FS_BoundedSetOfNaturals
  <2> QED
    BY <2>1, <2>2 DEF FiniteSubsetsOf
<1> HIDE DEF From
<1>2. Tails \subseteq FiniteSubsetsOf(Nat) /\ Tails # {}
  BY <1>1
<1>3. PICK U \in Tails : \A V \in Tails : ~ (<<V, U>> \in R)
  <2>1. IsWellFoundedOn(R, FiniteSubsetsOf(Nat))
    BY FS_StrictSubsetOrderingWellFounded
  <2> HIDE DEF R, Tails
  <2> QED
    BY <1>2, <2>1, WFMin
<1>4. PICK m \in T : U = From(m)
  BY <1>3
<1>5. ASSUME NEW k \in T, ~(k <= m)
      PROVE  FALSE
  <2>1. From(k) \in Tails
    OBVIOUS
  <2>2. /\ From(k) \subseteq From(m) /\ m \in From(m) /\ m \notin From(k)
        /\ From(k) \in SUBSET Nat /\ From(m) \in SUBSET Nat
    <3> HIDE DEF Tails, R
    <3>1. m \in Nat /\ k \in Nat /\ m < k
      BY <1>0, <1>5
    <3>2. \A j \in T : k <= j => m <= j
      BY <1>0, <3>1
    <3>3. ~(k <= m) /\ m <= m
      BY <3>1
    <3>4. T \subseteq Nat
      BY <1>0
    <3> QED
      BY <3>2, <3>3, <3>4, Zenon DEF From
  <2>3. <<From(k), From(m)>> \in R
    BY <2>2 DEF StrictSubsetOrdering
  <2> QED
    BY <1>3, <1>4, <2>1, <2>3
<1> QED
  BY <1>5

\* ... and a first one.
LEMMA FirstExists ==
    ASSUME NEW n \in Nat, NEW T \in SUBSET (1 .. n), T # {}
    PROVE  \E m \in T : \A k \in T : m <= k
<1> DEFINE Back == {l \in 1 .. n : n + 1 - l \in T}
<1>0. \A k \in T : k \in Nat /\ n + 1 - k \in 1 .. n /\ n + 1 - (n + 1 - k) = k
  OBVIOUS
<1>1. Back \in SUBSET (1 .. n) /\ Back # {}
  BY <1>0
<1>2. PICK l \in Back : \A j \in Back : j <= l
  <2> HIDE DEF Back
  <2> QED  BY <1>1, LastExists
<1>3. n + 1 - l \in T /\ l \in 1 .. n
  BY <1>2
<1>4. ASSUME NEW k \in T
      PROVE  n + 1 - l <= k
  <2>1. n + 1 - k \in Back
    BY <1>0, <1>4
  <2>2. n + 1 - k <= l
    BY <1>2, <2>1
  <2> QED  BY <1>0, <1>3, <1>4, <2>2
<1> QED  BY <1>3, <1>4

-----------------------------------------------------------------------------
\* Induction, over a set that is closed under successor.
LEMMA SetInduction ==
    ASSUME NEW S, 0 \in S, \A n \in Nat : n \in S => n + 1 \in S
    PROVE  \A n \in Nat : n \in S
<1>1. SUFFICES ASSUME NEW n \in Nat, n \notin S
               PROVE  FALSE
  OBVIOUS
<1> DEFINE Missing == {k \in 1 .. n : k \notin S}
<1>2. n \in Missing
  BY <1>1
<1>3. PICK m \in Missing : \A k \in Missing : m <= k
  <2>1. Missing \in SUBSET (1 .. n) /\ Missing # {}
    BY <1>2
  <2> HIDE DEF Missing
  <2> QED  BY <2>1, FirstExists
<1>4. m \in 1 .. n /\ m \notin S /\ m - 1 \in Nat /\ (m - 1) + 1 = m
  BY <1>3
<1>5. m - 1 \in S
  <2>1. CASE m - 1 = 0
    BY <2>1
  <2>2. CASE m - 1 # 0
    BY <1>3, <1>4, <2>2
  <2> QED  BY <2>1, <2>2
<1> QED  BY <1>4, <1>5

\* A set of numbers that is not empty has a least one.
LEMMA LeastExists ==
    ASSUME NEW S \in SUBSET Nat, NEW n \in S
    PROVE  \E m \in S : m <= n /\ \A k \in Nat : k < m => k \notin S
<1>1. CASE 0 \in S
  BY <1>1
<1>2. CASE 0 \notin S
  <2> DEFINE Low == {k \in 1 .. n : k \in S}
  <2>1. Low \in SUBSET (1 .. n) /\ n \in Low /\ n \in Nat
    BY <1>2
  <2>2. PICK m \in Low : \A k \in Low : m <= k
    <3> HIDE DEF Low
    <3> QED  BY <2>1, FirstExists
  <2>3. m \in S /\ m \in Nat /\ m <= n
    OBVIOUS
  <2>4. ASSUME NEW k \in Nat, k < m, k \in S
        PROVE  FALSE
    BY <1>2, <2>1, <2>2, <2>4
  <2> QED  BY <2>3, <2>4
<1> QED  BY <1>1, <1>2

\* f is a, and step G further on from each number to the next.
Follows(f, a, G) ==
    f[0] = a /\ \A n \in Nat : f[n + 1] = G[<<n, f[n]>>]

\* A function from the numbers is defined by its value at 0 and its step.
LEMMA RecursionExists ==
    ASSUME NEW S, NEW a \in S, NEW G \in [Nat \X S -> S]
    PROVE  \E f \in [Nat -> S] : Follows(f, a, G)
<1> DEFINE IsPart(g, n) == /\ g \in [0 .. n -> S] /\ g[0] = a
                           /\ \A m \in Nat : m < n => g[m + 1] = G[<<m, g[m]>>]
<1>1. \A n \in Nat : \E g : IsPart(g, n)
  <2> DEFINE P == {n \in Nat : \E g : IsPart(g, n)}
  <2>1. 0 \in P
    <3>1. IsPart([m \in 0 .. 0 |-> a], 0)
      OBVIOUS
    <3> QED  BY <3>1
  <2>2. ASSUME NEW n \in Nat, n \in P
        PROVE  n + 1 \in P
    <3>1. PICK g : IsPart(g, n)
      BY <2>2
    <3> DEFINE h == [m \in 0 .. n + 1 |-> IF m <= n THEN g[m] ELSE G[<<n, g[n]>>]]
    <3>2. \A m \in 0 .. n : m \in 0 .. n + 1 /\ h[m] = g[m] /\ g[m] \in S
      BY <3>1
    <3>3. h[n + 1] = G[<<n, h[n]>>] /\ h[n + 1] \in S
      <4>0. n \in 0 .. n
        OBVIOUS
      <4>1. h[n] = g[n] /\ g[n] \in S
        <5> HIDE DEF h, IsPart
        <5> QED  BY <3>2, <4>0
      <4>2. h[n + 1] = G[<<n, g[n]>>]
        OBVIOUS
      <4>3. <<n, g[n]>> \in Nat \X S
        BY <4>1
      <4> HIDE DEF h, IsPart
      <4> QED  BY <4>1, <4>2, <4>3
    <3>4. h \in [0 .. n + 1 -> S] /\ h[0] = a
      BY <3>1, <3>2, <3>3
    <3>5. ASSUME NEW m \in Nat, m < n + 1
          PROVE  h[m + 1] = G[<<m, h[m]>>]
      <4>1. CASE m = n
        BY <3>3, <4>1
      <4>2. CASE m < n
        <5>1. h[m] = g[m] /\ h[m + 1] = g[m + 1] /\ g[m + 1] = G[<<m, g[m]>>]
          <6> HIDE DEF h
          <6> QED  BY <3>1, <3>2, <4>2
        <5> HIDE DEF h
        <5> QED  BY <5>1
      <4> QED  BY <3>5, <4>1, <4>2
    <3> HIDE DEF h
    <3>6. IsPart(h, n + 1)
      BY <3>4, <3>5
    <3> HIDE DEF IsPart
    <3> QED  BY <3>6
  <2> HIDE DEF P
  <2>3. \A n \in Nat : n \in P
    BY <2>1, <2>2, SetInduction
  <2> QED  BY <2>3 DEF P
<1> DEFINE Part(n) == CHOOSE g : IsPart(g, n)
<1>2. \A n \in Nat : IsPart(Part(n), n)
  <2> HIDE DEF IsPart
  <2> QED  BY <1>1
<1>3. ASSUME NEW n \in Nat
      PROVE  Part(n + 1)[n] = Part(n)[n]
  <2> DEFINE P == {m \in Nat : m <= n => Part(n + 1)[m] = Part(n)[m]}
  <2> HIDE DEF Part
  <2>1. 0 \in P
    BY <1>2
  <2>2. ASSUME NEW m \in Nat, m \in P
        PROVE  m + 1 \in P
    <3>1. SUFFICES ASSUME m + 1 <= n
                   PROVE  Part(n + 1)[m + 1] = Part(n)[m + 1]
      OBVIOUS
    <3>2. m < n /\ m < n + 1 /\ m <= n
      BY <3>1
    <3>3. Part(n + 1)[m + 1] = G[<<m, Part(n + 1)[m]>>]
      BY <1>2, <3>2
    <3>4. Part(n)[m + 1] = G[<<m, Part(n)[m]>>]
      BY <1>2, <3>2
    <3> QED  BY <2>2, <3>2, <3>3, <3>4
  <2> HIDE DEF P
  <2>3. \A m \in Nat : m \in P
    BY <2>1, <2>2, SetInduction
  <2> QED  BY <2>3 DEF P
<1> DEFINE f == [n \in Nat |-> Part(n)[n]]
<1>4. f \in [Nat -> S] /\ f[0] = a
  <2> HIDE DEF Part
  <2> QED  BY <1>2
<1>5. ASSUME NEW n \in Nat
      PROVE  f[n + 1] = G[<<n, f[n]>>]
  <2> HIDE DEF Part
  <2>1. n + 1 \in Nat /\ n < n + 1
    OBVIOUS
  <2>2. Part(n + 1)[n + 1] = G[<<n, Part(n + 1)[n]>>]
    BY <1>2, <2>1
  <2>3. f[n + 1] = Part(n + 1)[n + 1] /\ f[n] = Part(n)[n]
    BY <2>1
  <2> QED  BY <1>3, <2>2, <2>3
<1> QED
  <2> HIDE DEF f
  <2> QED  BY <1>4, <1>5 DEF Follows

=============================================================================
