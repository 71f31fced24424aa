---------------------------- MODULE TablesProofs ----------------------------
(* Facts about natural numbers and tables that the proofs share.           *)
EXTENDS Tables, FiniteSetTheorems, WellFoundedInduction, TLAPS

\* Every non-empty set of naturals has a least element.
LEMMA LeastNumber == ASSUME NEW T, T \subseteq Nat, T # {}
                     PROVE  \E n \in T : \A m \in T : n <= m
  <1> DEFINE R == OpToRel(<, Nat)
  <1>1. PICK n \in T : \A m \in T : ~(<<m, n>> \in R)
    <2>1. IsWellFoundedOn(R, Nat)
      BY NatLessThanWellFounded
    <2> HIDE DEF R
    <2> QED
      BY <2>1, WFMin
  <1>2. \A m \in T : ~(m < n)
    BY <1>1 DEF OpToRel
  <1> QED
    BY <1>2

\* A set that holds 0, and n + 1 for every n below N that it holds, holds all
\* numbers up to N.
LEMMA UpTo == ASSUME NEW N \in Nat, NEW G, 0 \in G,
                     \A n \in 0 .. N - 1 : n \in G => n + 1 \in G
              PROVE  \A n \in 0 .. N : n \in G
  <1> SUFFICES ASSUME NEW b \in 0 .. N, b \notin G PROVE FALSE
    OBVIOUS
  <1> DEFINE B == {n \in 0 .. N : n \notin G}
  <1>1. PICK m \in B : \A n \in B : m <= n
    <2>1. B \subseteq Nat /\ B # {}
      OBVIOUS
    <2> HIDE DEF B
    <2> QED
      BY <2>1, LeastNumber
  <1>2. m \in 0 .. N /\ m \notin G /\ m # 0
    BY <1>1
  <1>3. m - 1 \in 0 .. N - 1 /\ ~(m <= m - 1) /\ m = (m - 1) + 1
    BY <1>2
  <1>4. m - 1 \in G
    BY <1>1, <1>3
  <1> QED
    BY <1>2, <1>3, <1>4

\* The number a table gives out is not in use.
LEMMA LeastFreeFacts == ASSUME NEW used, IsFiniteSet(used)
                        PROVE  /\ LeastFree(used) \in Nat \ {0}
                               /\ LeastFree(used) \notin used
                               /\ LeastFree(used) <= Cardinality(used) + 1
  <1> DEFINE N == Cardinality(used) + 1
             F == {n \in 1 .. N : n \notin used}
  <1>1. Cardinality(used) \in Nat
    BY FS_CardinalityType
  <1>2. IsFiniteSet(1 .. N) /\ Cardinality(1 .. N) = N
    BY <1>1, FS_Interval
  <1>3. F # {}
    <2> SUFFICES ASSUME 1 .. N \subseteq used PROVE FALSE
      OBVIOUS
    <2>1. Cardinality(1 .. N) <= Cardinality(used)
      BY FS_Subset
    <2> QED
      BY <1>1, <1>2, <2>1
  <1>4. PICK n \in F : \A m \in F : n <= m
    <2>1. F \subseteq Nat
      BY <1>1
    <2> HIDE DEF F
    <2> QED
      BY <1>3, <2>1, LeastNumber
  <1>5. \A j \in 1 .. n - 1 : j \in used
    BY <1>1, <1>4
  <1>6. \E m \in 1 .. N : m \notin used /\ \A j \in 1 .. m - 1 : j \in used
    BY <1>4, <1>5
  <1>7. LeastFree(used) \in 1 .. N /\ LeastFree(used) \notin used
    BY <1>6 DEF LeastFree
  <1> QED
    BY <1>1, <1>7
-----------------------------------------------------------------------------
(* Sweeps *)

\* No descriptor has two entries.
OneEach(s, no) == \A j, k \in DOMAIN s : s[j].fd # no /\ s[j].fd = s[k].fd => j = k

\* q is what is left of the first n entries of s.
Left(s, n, q, T, no) ==
  /\ q \in Seq(T)
  /\ Len(q) <= n
  /\ \A k \in 1 .. Len(q) : q[k].fd # no /\ \E j \in 1 .. n : q[k] = s[j]
  /\ \A j \in 1 .. n : s[j].fd # no => \E k \in 1 .. Len(q) : q[k] = s[j]
  /\ OneEach(s, no) => OneEach(q, no)

\* One iteration of remove_if: the entry is dropped or kept.
KeptNext(s, n, f, no) == IF n = 0 THEN <<>>
                     ELSE IF s[n].fd = no THEN f[n - 1]
                     ELSE Append(f[n - 1], s[n])

\* There is a function that KeptNext defines, up to any length.
LEMMA KeptExists == ASSUME NEW T, NEW no, NEW s \in Seq(T)
                    PROVE  \E f : f = [n \in 0 .. Len(s) |-> KeptNext(s, n, f, no)]
  <1> DEFINE Def(m, f) == f = [n \in 0 .. m |-> KeptNext(s, n, f, no)]
             G == {m \in Nat : \E f : Def(m, f)}
  <1>1. 0 \in G
    <2> DEFINE f == [n \in 0 .. 0 |-> <<>>]
    <2>1. Def(0, f)
      BY DEF KeptNext
    <2> QED
      BY <2>1
  <1>2. ASSUME NEW m \in 0 .. Len(s) - 1, m \in G PROVE m + 1 \in G
    <2>1. m \in Nat /\ m + 1 \in Nat /\ m + 1 # 0 /\ (m + 1) - 1 = m /\ Len(s) \in Nat
      OBVIOUS
    <2>2. PICK f : Def(m, f)
      BY <1>2
    <2> DEFINE g == [n \in 0 .. m + 1 |-> IF n = m + 1 THEN KeptNext(s, m + 1, f, no) ELSE f[n]]
    <2>3. \A n \in 0 .. m : f[n] = KeptNext(s, n, f, no) /\ g[n] = f[n]
      <3>1. \A n \in 0 .. m : f[n] = KeptNext(s, n, f, no)
        BY <2>2, Zenon
      <3>2. \A n \in 0 .. m : g[n] = f[n]
        BY <2>1
      <3> QED
        BY <3>1, <3>2
    <2>4. \A n \in 0 .. m + 1 : g[n] = KeptNext(s, n, g, no)
      <3> SUFFICES ASSUME NEW n \in 0 .. m + 1 PROVE g[n] = KeptNext(s, n, g, no)
        OBVIOUS
      <3>1. n # 0 => n - 1 \in 0 .. m
        BY <2>1
      <3>2. n # 0 => g[n - 1] = f[n - 1]
        BY <3>1, <2>3
      <3>3. KeptNext(s, n, g, no) = KeptNext(s, n, f, no)
        BY <3>2 DEF KeptNext
      <3>4. CASE n = m + 1
        BY <3>3, <3>4
      <3>5. CASE n # m + 1
        <4>1. n \in 0 .. m
          BY <3>5, <2>1
        <4> QED
          BY <4>1, <3>3, <2>3
      <3> QED
        BY <3>4, <3>5
    <2>5. Def(m + 1, g)
      BY <2>4
    <2> QED
      BY <2>1, <2>5
  <1>3. Len(s) \in G
    <2>1. Len(s) \in Nat /\ Len(s) \in 0 .. Len(s)
      OBVIOUS
    <2>2. \A m \in 0 .. Len(s) - 1 : m \in G => m + 1 \in G
      BY <1>2
    <2> HIDE DEF G
    <2> QED
      BY <1>1, <2>1, <2>2, UpTo
  <1> QED
    BY <1>3

\* The sweep drops the retired entries and no others.
LEMMA SweptFacts == ASSUME NEW T, NEW no, NEW s \in Seq(T)
                    PROVE  Left(s, Len(s), Swept(s, no), T, no)
  <1> DEFINE K == CHOOSE f : f = [n \in 0 .. Len(s) |-> KeptNext(s, n, f, no)]
  <1>1. Swept(s, no) = K[Len(s)]
    BY DEF Swept, KeptNext
  <1>2. K = [n \in 0 .. Len(s) |-> KeptNext(s, n, K, no)]
    BY KeptExists
  <1> HIDE DEF K
  <1>3. \A n \in 0 .. Len(s) : K[n] = KeptNext(s, n, K, no)
    BY <1>2
  <1> DEFINE G == {n \in 0 .. Len(s) : Left(s, n, K[n], T, no)}
  <1>4. 0 \in G
    <2>1. K[0] = <<>>
      BY <1>3 DEF KeptNext
    <2>2. Left(s, 0, <<>>, T, no)
      BY DEF Left, OneEach
    <2> QED
      BY <2>1, <2>2
  <1>5. ASSUME NEW n \in 0 .. Len(s) - 1, n \in G PROVE n + 1 \in G
    <2> DEFINE m == n + 1
               q == K[n]
    <2>1. m \in 1 .. Len(s) /\ m - 1 = n /\ n \in Nat /\ s[m] \in T
      OBVIOUS
    <2>2. Left(s, n, q, T, no)
      BY <1>5
    <2>3. K[m] = IF s[m].fd = no THEN q ELSE Append(q, s[m])
      BY <1>3, <2>1 DEF KeptNext
    <2> HIDE DEF q
    <2>4. CASE s[m].fd = no
      <3>1. Left(s, m, q, T, no)
        BY <2>1, <2>2, <2>4 DEF Left
      <3> QED
        BY <2>1, <2>3, <2>4, <3>1
    <2>5. CASE s[m].fd # no
      <3> DEFINE r == Append(q, s[m])
      <3>1. /\ r \in Seq(T)
            /\ Len(r) = Len(q) + 1
            /\ \A k \in 1 .. Len(q) : r[k] = q[k]
            /\ r[Len(q) + 1] = s[m]
            /\ Len(q) \in Nat
        BY <2>1, <2>2 DEF Left
      <3> HIDE DEF r
      <3>2. \A k \in 1 .. Len(r) : k \in 1 .. Len(q) \/ k = Len(q) + 1
        BY <3>1
      <3>3. \A k \in 1 .. Len(r) : r[k].fd # no /\ \E j \in 1 .. m : r[k] = s[j]
        BY <2>1, <2>2, <2>5, <3>1, <3>2 DEF Left
      <3>4. ASSUME NEW j \in 1 .. m, s[j].fd # no PROVE \E k \in 1 .. Len(r) : r[k] = s[j]
        <4>1. CASE j = m
          BY <3>1, <4>1
        <4>2. CASE j # m
          <5>1. j \in 1 .. n
            BY <2>1, <4>2
          <5>2. PICK k \in 1 .. Len(q) : q[k] = s[j]
            BY <2>2, <3>4, <5>1 DEF Left
          <5>3. k \in 1 .. Len(r) /\ r[k] = s[j]
            BY <3>1, <5>2
          <5> QED
            BY <5>3
        <4> QED
          BY <4>1, <4>2
      <3>5. ASSUME OneEach(s, no) PROVE OneEach(r, no)
        <4>1. \A k \in 1 .. Len(q) : q[k].fd # s[m].fd
          <5> SUFFICES ASSUME NEW k \in 1 .. Len(q), q[k].fd = s[m].fd PROVE FALSE
            OBVIOUS
          <5>1. PICK j \in 1 .. n : q[k] = s[j]
            BY <2>2 DEF Left
          <5>2. j \in DOMAIN s /\ m \in DOMAIN s /\ j # m
            BY <2>1
          <5> QED
            BY <5>1, <5>2, <3>5, <2>5 DEF OneEach
        <4>2. DOMAIN r = 1 .. Len(r) /\ DOMAIN q = 1 .. Len(q)
          BY <3>1, <2>2 DEF Left
        <4>3. OneEach(q, no)
          BY <2>2, <3>5 DEF Left
        <4> QED
          BY <3>1, <3>2, <4>1, <4>2, <4>3 DEF OneEach
      <3>6. Left(s, m, r, T, no)
        BY <2>1, <2>2, <3>1, <3>3, <3>4, <3>5 DEF Left
      <3> QED
        <4>1. K[m] = r
          BY <2>3, <2>5 DEF r
        <4>2. m \in 0 .. Len(s)
          BY <2>1
        <4> QED
          BY <3>6, <4>1, <4>2
    <2> QED
      BY <2>4, <2>5
  <1>6. Len(s) \in G
    <2>1. Len(s) \in Nat /\ Len(s) \in 0 .. Len(s)
      OBVIOUS
    <2>2. \A n \in 0 .. Len(s) - 1 : n \in G => n + 1 \in G
      BY <1>5
    <2> HIDE DEF G
    <2> QED
      BY <1>4, <2>1, <2>2, UpTo
  <1> QED
    BY <1>1, <1>6
=============================================================================
