----------------------------- MODULE DataLemmas -----------------------------
(***************************************************************************)
(* Facts about numbers and sequences that the proofs share.  Induction is  *)
(* stated over sets: a set of naturals that holds 0 and is closed under    *)
(* successor is Nat.                                                       *)
(***************************************************************************)
EXTENDS SeqFilter, FiniteSetsExt, SequenceTheorems, WellFoundedInduction, TLAPS

\* Every nonempty set of naturals has a least element.
LEMMA LeastNatural ==
  ASSUME NEW S, S \subseteq Nat, S # {}
  PROVE  \E m \in S : \A k \in S : m <= k
<1>1. PICK m \in S : \A y \in S : ~(<<y, m>> \in OpToRel(<, Nat))
  BY NatLessThanWellFounded, WFMin, Zenon
<1>2. \A y \in S : ~(y < m)
  BY <1>1 DEF OpToRel
<1> QED
  BY <1>2

\* Min is what its name says, on naturals.
LEMMA MinIsLeast ==
  ASSUME NEW S, S \subseteq Nat, S # {}
  PROVE  Min(S) \in S /\ \A k \in S : Min(S) <= k
  BY LeastNatural DEF Min

\* An element below all others is the minimum.
LEMMA MinIs ==
  ASSUME NEW S, S \subseteq Int, NEW m \in S, \A k \in S : m <= k
  PROVE  Min(S) = m
<1>1. Min(S) \in S /\ \A k \in S : Min(S) <= k
  BY DEF Min
<1>2. Min(S) \in Int /\ m \in Int /\ Min(S) <= m /\ m <= Min(S)
  BY <1>1
<1> QED
  BY <1>2

\* An element above all others is the maximum.
LEMMA MaxIs ==
  ASSUME NEW S, S \subseteq Int, NEW m \in S, \A k \in S : k <= m
  PROVE  Max(S) = m
<1>1. Max(S) \in S /\ \A k \in S : Max(S) >= k
  BY DEF Max
<1>2. Max(S) \in Int /\ m \in Int /\ Max(S) <= m /\ m <= Max(S)
  BY <1>1
<1> QED
  BY <1>2

\* A set of naturals with an upper bound has a maximum.
LEMMA MaxIsGreatest ==
  ASSUME NEW S, S \subseteq Nat, S # {}, NEW b \in Nat, \A k \in S : k <= b
  PROVE  Max(S) \in S /\ \A k \in S : k <= Max(S)
<1> DEFINE D == {e \in Nat : b - e \in S}
<1>1. \A k \in S : b - k \in D
  <2> SUFFICES ASSUME NEW k \in S PROVE b - k \in D
    OBVIOUS
  <2>1. k \in Nat /\ k <= b
    OBVIOUS
  <2>2. b - k \in Nat /\ b - (b - k) = k
    BY <2>1
  <2> QED
    BY <2>2
<1>2. PICK d \in D : \A e \in D : d <= e
  BY <1>1, LeastNatural
<1>3. PICK m \in S : m = b - d
  BY <1>2
<1>4. ASSUME NEW k \in S PROVE k <= m
  <2>1. d <= b - k /\ d \in Nat /\ k \in Nat
    BY <1>1, <1>2
  <2> QED
    BY <1>3, <2>1
<1>5. S \subseteq Int /\ \A k \in S : k <= m
  BY <1>4
<1>6. Max(S) = m
  BY <1>5, MaxIs
<1> QED
  BY <1>4, <1>6

\* The minimum of two integers.
LEMMA MinOfTwo ==
  ASSUME NEW a \in Int, NEW b \in Int
  PROVE  Min({a, b}) = IF a <= b THEN a ELSE b
<1>1. CASE a <= b
  BY <1>1, MinIs
<1>2. CASE ~(a <= b)
  BY <1>2, MinIs
<1> QED
  BY <1>1, <1>2

\* Induction over the naturals, for a set.
LEMMA NatInduct ==
  ASSUME NEW Q, Q \subseteq Nat, 0 \in Q, \A n \in Q : n + 1 \in Q
  PROVE  Q = Nat
<1> SUFFICES ASSUME Nat \ Q # {} PROVE FALSE
  OBVIOUS
<1>1. PICK m \in Nat \ Q : \A k \in Nat \ Q : m <= k
  <2>1. Nat \ Q \subseteq Nat
    OBVIOUS
  <2> QED
    BY <2>1, LeastNatural
<1>2. m # 0 /\ m - 1 \in Nat
  BY <1>1
<1>3. m - 1 \in Q
  BY <1>1, <1>2
<1> QED
  BY <1>1, <1>2, <1>3

\* Induction over sequences, for a set.
LEMMA SeqInduct ==
  ASSUME NEW S, NEW Q, Q \subseteq Seq(S), <<>> \in Q,
         \A s \in Q, e \in S : Append(s, e) \in Q
  PROVE  Q = Seq(S)
<1> DEFINE N == {n \in Nat : \A s \in Seq(S) : Len(s) = n => s \in Q}
<1>1. 0 \in N
  BY EmptySeq
<1>2. ASSUME NEW n \in N PROVE n + 1 \in N
  <2> SUFFICES ASSUME NEW s \in Seq(S), Len(s) = n + 1 PROVE s \in Q
    OBVIOUS
  <2>1. n + 1 # 0 /\ s # <<>>
    BY EmptySeq
  <2>2. PICK r \in Seq(S), e \in S : s = Append(r, e)
    BY <2>1, SequenceEmptyOrAppend
  <2>3. Len(r) = n
    BY <2>2, AppendProperties, LenProperties
  <2> QED
    BY <2>2, <2>3
<1>3. N = Nat
  <2> HIDE DEF N
  <2>1. N \subseteq Nat
    BY DEF N
  <2> QED
    BY <1>1, <1>2, <2>1, NatInduct
<1>4. ASSUME NEW s \in Seq(S) PROVE s \in Q
  <2>1. Len(s) \in N
    BY <1>3, LenProperties
  <2> QED
    BY <2>1
<1> QED
  BY <1>4
-----------------------------------------------------------------------------
(* Filter. *)

\* The recursion that defines Filter, up to the n-th element.
Kept(f, s, T, n) ==
  f = [k \in 0..n |-> IF k = 0 THEN <<>> ELSE PushIf(f[k - 1], s[k], T)]

\* One step of the recursion.
LEMMA KeptValue ==
  ASSUME NEW s, NEW T, NEW n \in Nat, NEW f, Kept(f, s, T, n), NEW k \in 0..n
  PROVE  f[k] = IF k = 0 THEN <<>> ELSE PushIf(f[k - 1], s[k], T)
  BY Zenon DEF Kept

\* The same for a successor.
LEMMA KeptSucc ==
  ASSUME NEW s, NEW T, NEW n \in Nat, NEW f, Kept(f, s, T, n), NEW k \in 0..(n - 1)
  PROVE  f[k + 1] = PushIf(f[k], s[k + 1], T)
<1>1. k + 1 \in 0..n /\ k + 1 # 0 /\ (k + 1) - 1 = k
  OBVIOUS
<1>2. f[k + 1] = IF k + 1 = 0 THEN <<>> ELSE PushIf(f[(k + 1) - 1], s[k + 1], T)
  BY <1>1, KeptValue, ZenonT(40)
<1> QED
  BY <1>1, <1>2

\* A function satisfies the recursion.
LEMMA KeptExists ==
  ASSUME NEW s, NEW T, NEW n \in Nat
  PROVE  \E f : Kept(f, s, T, n)
<1> DEFINE Q == {k \in Nat : \E f : Kept(f, s, T, k)}
<1>1. 0 \in Q
  <2> DEFINE f == [k \in 0..0 |-> <<>>]
  <2>1. Kept(f, s, T, 0)
    BY DEF Kept
  <2> QED
    BY <2>1
<1>2. ASSUME NEW k \in Nat, NEW f, Kept(f, s, T, k) PROVE k + 1 \in Q
  <2> DEFINE g == [j \in 0..(k + 1) |->
                     IF j <= k THEN f[j] ELSE PushIf(f[j - 1], s[j], T)]
  <2>2. \A j \in 0..(k + 1) : j # 0 => j - 1 \in 0..k /\ g[j - 1] = f[j - 1]
    OBVIOUS
  <2>3. ASSUME NEW j \in 0..(k + 1)
        PROVE  g[j] = IF j = 0 THEN <<>> ELSE PushIf(g[j - 1], s[j], T)
    <3>1. CASE j <= k
      <4>1. j \in 0..k
        BY <3>1
      <4>3. g[j] = f[j]
        BY <3>1
      <4>2. f[j] = IF j = 0 THEN <<>> ELSE PushIf(f[j - 1], s[j], T)
        BY <1>2, <4>1, KeptValue, ZenonT(40)
      <4> QED
        BY <2>2, <4>2, <4>3
    <3>2. CASE ~(j <= k)
      <4>1. j # 0 /\ g[j] = PushIf(f[j - 1], s[j], T)
        BY <3>2
      <4> QED
        BY <2>2, <4>1
    <3> QED
      BY <3>1, <3>2
  <2>4. Kept(g, s, T, k + 1)
    <3> HIDE DEF g
    <3>1. g = [j \in 0..(k + 1) |-> g[j]]
      BY DEF g
    <3> QED
      BY <2>3, <3>1 DEF Kept
  <2> QED
    BY <2>4
<1>3. Q = Nat
  <2> HIDE DEF Q
  <2>1. Q \subseteq Nat
    BY DEF Q
  <2>2. \A k \in Q : k + 1 \in Q
    BY <1>2 DEF Q
  <2> QED
    BY <1>1, <2>1, <2>2, NatInduct
<1> QED
  BY <1>3

\* It is unique, also among functions of longer recursions over a sequence
\* that begins with the same n elements.
LEMMA KeptUnique ==
  ASSUME NEW s, NEW r, NEW T, NEW m \in Nat, NEW n \in 0..m, NEW f, NEW g,
         Kept(f, s, T, n), Kept(g, r, T, m), \A k \in 1..n : s[k] = r[k]
  PROVE  f[n] = g[n]
<1> DEFINE Q == {k \in Nat : k <= n => f[k] = g[k]}
<1>1. 0 \in Q
  BY DEF Kept
<1>2. ASSUME NEW k \in Q, k + 1 <= n PROVE f[k + 1] = g[k + 1]
  <2>1. f[k] = g[k] /\ s[k + 1] = r[k + 1] /\ n \in Nat /\ k \in 0..(n - 1) /\ k \in 0..(m - 1)
    BY <1>2
  <2>2. f[k + 1] = PushIf(f[k], s[k + 1], T)
    BY <2>1, KeptSucc
  <2>3. g[k + 1] = PushIf(g[k], r[k + 1], T)
    BY <2>1, KeptSucc
  <2> QED
    BY <2>1, <2>2, <2>3
<1>3. Q = Nat
  <2>1. \A k \in Q : k + 1 \in Q
    BY <1>2
  <2> HIDE DEF Q
  <2>2. Q \subseteq Nat
    BY DEF Q
  <2> QED
    BY <1>1, <2>1, <2>2, NatInduct
<1> QED
  BY <1>3

\* Filter is the last value of the recursion.
LEMMA FilterKept ==
  ASSUME NEW S, NEW s \in Seq(S), NEW T
  PROVE  \E f : Kept(f, s, T, Len(s)) /\ Filter(s, T) = f[Len(s)]
<1> DEFINE f == CHOOSE f : Kept(f, s, T, Len(s))
<1>1. Kept(f, s, T, Len(s))
  BY KeptExists, LenProperties
<1>2. Filter(s, T) = f[Len(s)]
  BY DEF Filter, Kept
<1> QED
  BY <1>1, <1>2

\* The first equation of Filter.
LEMMA FilterEmpty == \A T : Filter(<<>>, T) = <<>>
<1> TAKE T
<1>1. PICK f : Kept(f, <<>>, T, Len(<<>>)) /\ Filter(<<>>, T) = f[Len(<<>>)]
  BY FilterKept, EmptySeq
<1>2. Len(<<>>) = 0
  OBVIOUS
<1> QED
  BY <1>1, <1>2 DEF Kept

\* The second equation of Filter.
LEMMA FilterAppend ==
  ASSUME NEW S, NEW s \in Seq(S), NEW e \in S, NEW T
  PROVE  Filter(Append(s, e), T) =
           IF e \in T THEN Append(Filter(s, T), e) ELSE Filter(s, T)
<1> DEFINE r == Append(s, e)
           n == Len(s)
<1>1. /\ n \in Nat /\ r \in Seq(S) /\ Len(r) = n + 1 /\ r[n + 1] = e
      /\ \A k \in 1..n : s[k] = r[k]
  BY LenProperties, AppendProperties
<1>2. PICK f : Kept(f, s, T, n) /\ Filter(s, T) = f[n]
  BY FilterKept
<1>3. PICK g : Kept(g, r, T, n + 1) /\ Filter(r, T) = g[n + 1]
  BY <1>1, FilterKept
<1> HIDE DEF r, n
<1>4. f[n] = g[n]
  BY <1>1, <1>2, <1>3, KeptUnique
<1>5. g[n + 1] = PushIf(g[n], r[n + 1], T)
  <2>1. n + 1 \in Nat /\ n \in 0..((n + 1) - 1)
    BY <1>1
  <2> QED
    BY <1>3, <2>1, KeptSucc, Zenon
<1> QED
  BY <1>1, <1>2, <1>3, <1>4, <1>5 DEF r, PushIf

\* What is kept are elements of s that lie in T.
LEMMA FilterType ==
  ASSUME NEW S, NEW s \in Seq(S), NEW T
  PROVE  Filter(s, T) \in Seq(S \cap T)
<1> DEFINE Q == {r \in Seq(S) : Filter(r, T) \in Seq(S \cap T)}
<1>1. <<>> \in Q
  BY EmptySeq, FilterEmpty
<1>2. \A r \in Q, e \in S : Append(r, e) \in Q
  <2> SUFFICES ASSUME NEW r \in Q, NEW e \in S PROVE Append(r, e) \in Q
    OBVIOUS
  <2>1. r \in Seq(S) /\ Append(r, e) \in Seq(S)
    BY AppendProperties
  <2>2. e \in T => Append(Filter(r, T), e) \in Seq(S \cap T)
    BY AppendProperties
  <2> QED
    BY <2>1, <2>2, FilterAppend, ZenonT(40)
<1>3. Q = Seq(S)
  <2> HIDE DEF Q
  <2>1. Q \subseteq Seq(S)
    BY DEF Q
  <2> QED
    BY <1>1, <1>2, <2>1, SeqInduct
<1> QED
  BY <1>3

\* Where the elements of a filtered sequence come from: idx is strictly
\* increasing and its range is the set of positions of elements in T.
Picks(idx, s, T) ==
  /\ idx \in [1..Len(Filter(s, T)) -> 1..Len(s)]
  /\ \A i \in 1..Len(Filter(s, T)) : Filter(s, T)[i] = s[idx[i]]
  /\ \A i, j \in 1..Len(Filter(s, T)) : i < j => idx[i] < idx[j]
  /\ \A k \in 1..Len(s) : s[k] \in T <=> \E i \in 1..Len(Filter(s, T)) : idx[i] = k

\* Filter keeps the elements that lie in T, each as often as it occurs, and
\* their order.
LEMMA FilterPicks ==
  ASSUME NEW S, NEW s \in Seq(S), NEW T
  PROVE  \E idx : Picks(idx, s, T)
<1> DEFINE Q == {r \in Seq(S) : \E idx : Picks(idx, r, T)}
<1>1. <<>> \in Q
  <2>1. Picks(<<>>, <<>>, T)
    BY FilterEmpty DEF Picks
  <2> QED
    BY <2>1, EmptySeq
<1>2. ASSUME NEW r \in Seq(S), NEW idx, Picks(idx, r, T), NEW e \in S
      PROVE  Append(r, e) \in Q
  <2> DEFINE F == Filter(r, T)
             m == Len(F)
             n == Len(r)
             a == Append(r, e)
             b == Append(F, e)
  <2>1. F \in Seq(S) /\ n \in Nat /\ m \in Nat
    <3>1. F \in Seq(S \cap T) /\ S \cap T \subseteq S
      BY FilterType
    <3>2. F \in Seq(S)
      BY <3>1, SeqMonotonic
    <3> QED
      BY <3>2, LenProperties
  <2>2. a \in Seq(S) /\ Len(a) = n + 1 /\ a[n + 1] = e /\ \A k \in 1..n : a[k] = r[k]
    BY AppendProperties
  <2>3. Filter(a, T) = IF e \in T THEN b ELSE F
    BY FilterAppend
  <2>4. /\ idx \in [1..m -> 1..n]
        /\ \A i \in 1..m : F[i] = r[idx[i]]
        /\ \A i, j \in 1..m : i < j => idx[i] < idx[j]
        /\ \A k \in 1..n : r[k] \in T <=> \E i \in 1..m : idx[i] = k
    BY <1>2 DEF Picks
  <2>5. Len(b) = m + 1 /\ b[m + 1] = e /\ \A i \in 1..m : b[i] = F[i]
    BY <2>1, AppendProperties
  <2> HIDE DEF F, m, n, a, b
  <2>n. m \in Nat /\ n \in Nat
    BY <2>1
  <2>6. CASE e \notin T
    <3>1. Filter(a, T) = F /\ Len(Filter(a, T)) = m
      BY <2>3, <2>6 DEF m
    <3>2. Picks(idx, a, T)
      <4>1. idx \in [1..m -> 1..(n + 1)]
        BY <2>n, <2>4
      <4>2. \A i \in 1..m : F[i] = a[idx[i]]
        BY <2>n, <2>2, <2>4
      <4>3. \A k \in 1..(n + 1) : a[k] \in T <=> \E i \in 1..m : idx[i] = k
        BY <2>n, <2>2, <2>4, <2>6, SMTT(40)
      <4> QED
        BY <2>2, <2>4, <3>1, <4>1, <4>2, <4>3 DEF Picks
    <3> QED
      BY <2>2, <3>2 DEF a
  <2>7. CASE e \in T
    <3> DEFINE idy == [i \in 1..(m + 1) |-> IF i <= m THEN idx[i] ELSE n + 1]
    <3>1. Filter(a, T) = b /\ Len(Filter(a, T)) = m + 1
      BY <2>3, <2>5, <2>7
    <3>2. idy \in [1..(m + 1) -> 1..(n + 1)] /\ idy[m + 1] = n + 1
          /\ \A i \in 1..m : idy[i] = idx[i]
      BY <2>n, <2>4
    <3> HIDE DEF idy
    <3>3. Picks(idy, a, T)
      <4>1. \A i \in 1..(m + 1) : b[i] = a[idy[i]]
        <5> SUFFICES ASSUME NEW i \in 1..(m + 1) PROVE b[i] = a[idy[i]]
          OBVIOUS
        <5>1. CASE i \in 1..m
          <6>1. idy[i] = idx[i] /\ idx[i] \in 1..n /\ b[i] = F[i] /\ F[i] = r[idx[i]]
            BY <2>4, <2>5, <3>2, <5>1
          <6> QED
            BY <2>2, <6>1
        <5>2. CASE i = m + 1
          BY <2>2, <2>5, <3>2, <5>2
        <5> QED
          BY <2>n, <5>1, <5>2
      <4>2. \A i, j \in 1..(m + 1) : i < j => idy[i] < idy[j]
        <5> SUFFICES ASSUME NEW i \in 1..(m + 1), NEW j \in 1..(m + 1), i < j PROVE idy[i] < idy[j]
          OBVIOUS
        <5>1. i \in 1..m /\ idy[i] = idx[i] /\ idx[i] \in 1..n
          BY <2>n, <2>4, <3>2
        <5> QED
          BY <2>n, <2>4, <3>2, <5>1, SMTT(40)
      <4>3. \A k \in 1..(n + 1) : a[k] \in T <=> \E i \in 1..(m + 1) : idy[i] = k
        <5> SUFFICES ASSUME NEW k \in 1..(n + 1)
                     PROVE  a[k] \in T <=> \E i \in 1..(m + 1) : idy[i] = k
          OBVIOUS
        <5>1. CASE k \in 1..n
          <6>1. (\E i \in 1..(m + 1) : idy[i] = k) <=> \E i \in 1..m : idx[i] = k
            BY <2>n, <3>2, <5>1, SMTT(40)
          <6> QED
            BY <2>2, <2>4, <5>1, <6>1
        <5>2. CASE k = n + 1
          <6>1. m + 1 \in 1..(m + 1)
            BY <2>n
          <6> QED
            BY <2>2, <2>7, <3>2, <5>2, <6>1
        <5> QED
          BY <2>n, <5>1, <5>2
      <4> QED
        BY <2>2, <3>1, <3>2, <4>1, <4>2, <4>3 DEF Picks
    <3> QED
      BY <2>2, <3>3 DEF a
  <2> QED
    BY <2>6, <2>7
<1>3. Q = Seq(S)
  <2> HIDE DEF Q
  <2>1. Q \subseteq Seq(S)
    BY DEF Q
  <2>2. \A r \in Q, e \in S : Append(r, e) \in Q
    BY <1>2 DEF Q
  <2> QED
    BY <1>1, <2>1, <2>2, SeqInduct
<1> QED
  BY <1>3

\* A filtered sequence is a sequence.
LEMMA FilterSeq ==
  ASSUME NEW S, NEW s \in Seq(S), NEW T
  PROVE  Filter(s, T) \in Seq(S)
<1>1. Filter(s, T) \in Seq(S \cap T) /\ S \cap T \subseteq S
  BY FilterType
<1> QED
  BY <1>1, SeqMonotonic

\* Which elements are kept, without their positions.
LEMMA FilterElements ==
  ASSUME NEW S, NEW s \in Seq(S), NEW T
  PROVE  /\ \A i \in 1..Len(Filter(s, T)) :
              Filter(s, T)[i] \in T /\ \E k \in 1..Len(s) : Filter(s, T)[i] = s[k]
         /\ \A k \in 1..Len(s) : s[k] \in T => \E i \in 1..Len(Filter(s, T)) : Filter(s, T)[i] = s[k]
<1>1. PICK idx : Picks(idx, s, T)
  BY FilterPicks
<1> QED
  BY <1>1, SMTT(40) DEF Picks

\* What occurs once is kept at most once.
LEMMA FilterInjective ==
  ASSUME NEW S, NEW s \in Seq(S), NEW T, \A i, j \in 1..Len(s) : s[i] = s[j] => i = j
  PROVE  \A i, j \in 1..Len(Filter(s, T)) : Filter(s, T)[i] = Filter(s, T)[j] => i = j
<1>1. PICK idx : Picks(idx, s, T)
  BY FilterPicks
<1>2. Len(Filter(s, T)) \in Nat /\ Len(s) \in Nat
  BY FilterSeq, LenProperties
<1> SUFFICES ASSUME NEW i \in 1..Len(Filter(s, T)), NEW j \in 1..Len(Filter(s, T)),
                    Filter(s, T)[i] = Filter(s, T)[j]
             PROVE  i = j
  OBVIOUS
<1>3. idx[i] \in 1..Len(s) /\ idx[j] \in 1..Len(s) /\ idx[i] = idx[j]
  BY <1>1, SMTT(40) DEF Picks
<1>4. ~(i < j) /\ ~(j < i)
  BY <1>1, <1>2, <1>3 DEF Picks
<1> QED
  BY <1>2, <1>4

\* Only what the sequence holds matters.
LEMMA FilterSame ==
  ASSUME NEW S, NEW s \in Seq(S), NEW A, NEW B, \A k \in 1..Len(s) : s[k] \in A <=> s[k] \in B
  PROVE  Filter(s, A) = Filter(s, B)
<1> DEFINE Same(r) == \A k \in 1..Len(r) : r[k] \in A <=> r[k] \in B
           Q == {r \in Seq(S) : Same(r) => Filter(r, A) = Filter(r, B)}
<1>1. <<>> \in Q
  BY EmptySeq, FilterEmpty
<1>2. ASSUME NEW r \in Q, NEW e \in S PROVE Append(r, e) \in Q
  <2> DEFINE a == Append(r, e)
  <2>1. r \in Seq(S) /\ a \in Seq(S)
    BY AppendProperties
  <2> SUFFICES ASSUME Same(a) PROVE Filter(a, A) = Filter(a, B)
    BY <2>1
  <2>2. Len(r) \in Nat /\ Len(a) = Len(r) + 1 /\ a[Len(r) + 1] = e /\ \A k \in 1..Len(r) : a[k] = r[k]
    BY <2>1, LenProperties, AppendProperties
  <2> HIDE DEF a
  <2>3. Same(r) /\ (e \in A <=> e \in B)
    BY <2>2
  <2>4. Filter(r, A) = Filter(r, B)
    BY <2>3
  <2>5. Filter(a, A) = IF e \in A THEN Append(Filter(r, A), e) ELSE Filter(r, A)
    BY <2>1, FilterAppend DEF a
  <2>6. Filter(a, B) = IF e \in B THEN Append(Filter(r, B), e) ELSE Filter(r, B)
    BY <2>1, FilterAppend DEF a
  <2> QED
    BY <2>3, <2>4, <2>5, <2>6, Zenon
<1>3. Q = Seq(S)
  <2> HIDE DEF Q
  <2>1. Q \subseteq Seq(S)
    BY DEF Q
  <2> QED
    BY <1>1, <1>2, <2>1, SeqInduct
<1> QED
  BY <1>3

\* Nothing is kept when nothing lies in T, everything when everything does.
LEMMA FilterNone ==
  ASSUME NEW S, NEW s \in Seq(S), NEW T, \A k \in 1..Len(s) : s[k] \notin T
  PROVE  Filter(s, T) = <<>>
<1>1. Len(Filter(s, T)) \in Nat /\ Filter(s, T) \in Seq(S)
  BY FilterSeq, LenProperties
<1>2. Filter(s, T) # <<>> => 1 \in 1..Len(Filter(s, T))
  BY <1>1, EmptySeq
<1> QED
  BY <1>2, FilterElements

\* Two conditions one after the other.
LEMMA FilterFilter ==
  ASSUME NEW S, NEW s \in Seq(S), NEW A, NEW B
  PROVE  Filter(Filter(s, A), B) = Filter(s, A \cap B)
<1> DEFINE Q == {r \in Seq(S) : Filter(Filter(r, A), B) = Filter(r, A \cap B)}
<1>1. <<>> \in Q
  BY EmptySeq, FilterEmpty
<1>2. ASSUME NEW r \in Q, NEW e \in S PROVE Append(r, e) \in Q
  <2> DEFINE a == Append(r, e)
             F == Filter(r, A)
  <2>1. r \in Seq(S) /\ a \in Seq(S) /\ F \in Seq(S)
    BY AppendProperties, FilterSeq
  <2>2. Filter(a, A \cap B) = IF e \in A \cap B THEN Append(Filter(r, A \cap B), e) ELSE Filter(r, A \cap B)
    BY <2>1, FilterAppend
  <2>3. Filter(a, A) = IF e \in A THEN Append(F, e) ELSE F
    BY <2>1, FilterAppend
  <2>4. Filter(Append(F, e), B) = IF e \in B THEN Append(Filter(F, B), e) ELSE Filter(F, B)
    BY <2>1, FilterAppend, ZenonT(40)
  <2>5. Filter(F, B) = Filter(r, A \cap B)
    OBVIOUS
  <2> HIDE DEF a, F
  <2>6. Filter(Filter(a, A), B) = Filter(a, A \cap B)
    <3>1. CASE e \in A /\ e \in B
      BY <2>2, <2>3, <2>4, <2>5, <3>1, Zenon
    <3>2. CASE e \notin A
      BY <2>2, <2>3, <2>5, <3>2, Zenon
    <3>3. CASE e \in A /\ e \notin B
      BY <2>2, <2>3, <2>4, <2>5, <3>3, Zenon
    <3> QED
      BY <3>1, <3>2, <3>3
  <2> QED
    BY <2>1, <2>6 DEF a
<1>3. Q = Seq(S)
  <2> HIDE DEF Q
  <2>1. Q \subseteq Seq(S)
    BY DEF Q
  <2> QED
    BY <1>1, <1>2, <2>1, SeqInduct
<1> QED
  BY <1>3
\* The front of a concatenation is the front of its first part.
LEMMA ConcatHeadTail ==
  ASSUME NEW S, NEW a \in Seq(S), NEW b \in Seq(S), a # <<>>
  PROVE  a \o b # <<>> /\ Head(a \o b) = Head(a) /\ Tail(a \o b) = Tail(a) \o b
<1> DEFINE c == a \o b
           m == Len(a)
           n == Len(b)
<1>1. m \in Nat \ {0} /\ n \in Nat
  BY EmptySeq, LenProperties
<1>2. c \in Seq(S) /\ Len(c) = m + n /\ \A k \in 1..(m + n) : c[k] = IF k <= m THEN a[k] ELSE b[k - m]
  BY ConcatProperties
<1>3. /\ Head(a) = a[1] /\ Tail(a) \in Seq(S) /\ Len(Tail(a)) = m - 1
      /\ \A k \in 1..(m - 1) : Tail(a)[k] = a[k + 1]
  BY <1>1, HeadTailProperties
<1> HIDE DEF c
<1>4. c # <<>>
  BY <1>1, <1>2, EmptySeq
<1>5. /\ Head(c) = c[1] /\ Tail(c) \in Seq(S) /\ Len(Tail(c)) = m + n - 1
      /\ \A k \in 1..(m + n - 1) : Tail(c)[k] = c[k + 1]
  BY <1>1, <1>2, <1>4, HeadTailProperties
<1> DEFINE d == Tail(a) \o b
<1>6. /\ d \in Seq(S) /\ Len(d) = m - 1 + n
      /\ \A k \in 1..(m - 1 + n) : d[k] = IF k <= m - 1 THEN Tail(a)[k] ELSE b[k - (m - 1)]
  BY <1>3, ConcatProperties
<1> HIDE DEF d, m, n
<1>7. ASSUME NEW k \in 1..(m + n - 1) PROVE Tail(c)[k] = d[k]
  <2>1. k + 1 \in 1..(m + n) /\ k \in 1..(m - 1 + n) /\ k + 1 - m = k - (m - 1)
    BY <1>1
  <2>2. CASE k <= m - 1
    BY <1>1, <1>2, <1>3, <1>5, <1>6, <2>1, <2>2
  <2>3. CASE ~(k <= m - 1)
    <3>1. PICK j \in 1..(m + n) : j = k + 1
      BY <2>1
    <3>2. Tail(c)[k] = c[j]
      BY <1>5, <3>1
    <3>3. c[j] = b[j - m]
      BY <1>1, <1>2, <2>3, <3>1
    <3>4. d[k] = b[k - (m - 1)]
      BY <1>6, <2>1, <2>3
    <3>5. j - m = k - (m - 1)
      BY <1>1, <3>1
    <3> QED
      BY <3>2, <3>3, <3>4, <3>5, Zenon
  <2> QED
    BY <2>2, <2>3
<1>8. Len(Tail(c)) = Len(d)
  BY <1>1, <1>5, <1>6
<1>9. Tail(c) = d
  BY <1>1, <1>5, <1>6, <1>7, <1>8, SeqEqual
<1>10. Head(c) = Head(a)
  BY <1>1, <1>2, <1>3, <1>5
<1> QED
  BY <1>4, <1>9, <1>10 DEF c, d

\* A piece of a sequence.
LEMMA PieceIs ==
  ASSUME NEW S, NEW s \in Seq(S), NEW k \in Nat, NEW n \in Nat, k + n <= Len(s)
  PROVE  /\ SubSeq(s, k + 1, k + n) \in Seq(S) /\ Len(SubSeq(s, k + 1, k + n)) = n
         /\ \A i \in 1..n : SubSeq(s, k + 1, k + n)[i] = s[k + i]
<1> DEFINE b == k + 1
           e == k + n
           r == SubSeq(s, b, e)
<1>1. b \in Int /\ e \in Int /\ e - b + 1 = n /\ (b <= e \/ n = 0) /\ Len(s) \in Nat
  BY LenProperties
<1>2. \A i \in b..e : s[i] \in S
  BY <1>1, ElementOfSeq
<1>3. r \in Seq(S)
  BY <1>1, <1>2, SubSeqProperties
<1>4. Len(r) = IF b <= e THEN e - b + 1 ELSE 0
  BY <1>1, <1>2, SubSeqProperties
<1>5. \A i \in 1..n : r[i] = s[b + i - 1]
  <2>1. \A i \in 1..(e - b + 1) : r[i] = s[b + i - 1]
    <3> HIDE DEF b, e
    <3> QED
      BY <1>1, <1>2, SubSeqProperties
  <2>2. e - b + 1 = n
    BY <1>1
  <2> HIDE DEF b, e, r
  <2> QED
    BY <2>1, <2>2, Zenon
<1>6. ASSUME NEW i \in 1..n PROVE r[i] = s[k + i]
  <2>1. b + i - 1 = k + i
    OBVIOUS
  <2> QED
    BY <1>5, <2>1
<1>7. Len(r) = n
  BY <1>1, <1>4
<1> QED
  BY <1>3, <1>6, <1>7

\* The whole of a sequence.
LEMMA PieceAll ==
  ASSUME NEW S, NEW s \in Seq(S)
  PROVE  SubSeq(s, 1, Len(s)) = s
<1>1. PICK n \in Nat : n = Len(s)
  BY LenProperties
<1>2. 0 + 1 = 1 /\ 0 + n = n /\ 0 + n <= Len(s) /\ \A i \in 1..n : 0 + i = i
  BY <1>1
<1>3. /\ SubSeq(s, 0 + 1, 0 + n) \in Seq(S) /\ Len(SubSeq(s, 0 + 1, 0 + n)) = n
      /\ \A i \in 1..n : SubSeq(s, 0 + 1, 0 + n)[i] = s[0 + i]
  BY <1>2, PieceIs
<1> DEFINE r == SubSeq(s, 1, n)
<1>4. r \in Seq(S) /\ Len(r) = n /\ \A i \in 1..n : r[i] = s[i]
  BY <1>2, <1>3
<1> HIDE DEF r
<1>5. r = s
  BY <1>1, <1>4, SeqEqual
<1> QED
  BY <1>1, <1>5 DEF r

\* Two pieces that meet.
LEMMA PieceJoin ==
  ASSUME NEW S, NEW s \in Seq(S), NEW k \in Nat, NEW n \in Nat, k + n <= Len(s)
  PROVE  SubSeq(s, 1, k) \o SubSeq(s, k + 1, k + n) = SubSeq(s, 1, k + n)
<1> DEFINE m == k + n
           a == SubSeq(s, 0 + 1, 0 + k)
           b == SubSeq(s, k + 1, k + n)
           c == SubSeq(s, 0 + 1, 0 + m)
           d == a \o b
<1>1. Len(s) \in Nat /\ m \in Nat /\ 0 + k <= Len(s) /\ 0 + m <= Len(s)
  BY LenProperties
<1>2. a \in Seq(S) /\ Len(a) = k /\ \A i \in 1..k : a[i] = s[0 + i]
  BY <1>1, PieceIs
<1>3. b \in Seq(S) /\ Len(b) = n /\ \A i \in 1..n : b[i] = s[k + i]
  BY <1>1, PieceIs
<1>4. c \in Seq(S) /\ Len(c) = m /\ \A i \in 1..m : c[i] = s[0 + i]
  <2> HIDE DEF m
  <2> QED
    BY <1>1, PieceIs
<1> HIDE DEF a, b, c
<1>5. d \in Seq(S) /\ Len(d) = m /\ \A i \in 1..m : d[i] = IF i <= k THEN a[i] ELSE b[i - k]
  BY <1>2, <1>3, ConcatProperties, ZenonT(40)
<1> HIDE DEF d
<1>6. ASSUME NEW i \in 1..m PROVE d[i] = c[i]
  <2>1. CASE i <= k
    BY <1>2, <1>4, <1>5, <2>1
  <2>2. CASE ~(i <= k)
    <3>1. PICK j \in 1..n : j = i - k /\ k + j = 0 + i
      BY <2>2
    <3>2. d[i] = b[j]
      BY <1>5, <2>2, <3>1
    <3>3. b[j] = s[k + j] /\ c[i] = s[0 + i]
      BY <1>3, <1>4
    <3> QED
      BY <3>1, <3>2, <3>3
  <2> QED
    BY <2>1, <2>2
<1>7. d = c
  BY <1>4, <1>5, <1>6, SeqEqual
<1>8. 0 + 1 = 1 /\ 0 + k = k /\ 0 + m = m
  BY <1>1
<1> QED
  BY <1>7, <1>8 DEF a, b, c, d
=============================================================================
