--------------------------- MODULE Chunking_proofs ---------------------------
(***************************************************************************)
(* Proofs about Chunking for every body, whatever its length, and the      *)
(* lemmas about lists (Listing) that they and Answering_proofs rest on.    *)
(*                                                                         *)
(* What the loop of chunk_markdown computes is shown by induction over the *)
(* lines: after line i its stack holds the headings that are open there,   *)
(* and its chunks are the text of the sections so far, each under the      *)
(* outline of its own text (LoopInv).  The library's induction theorems    *)
(* take a predicate, which cannot be instantiated here; SetInduction takes *)
(* a set of numbers in its place.                                          *)
(***************************************************************************)
EXTENDS Chunking, SequenceTheorems, FiniteSetTheorems, TLAPS

\* Induction over the naturals with a set in the place of a predicate.
LEMMA SetInduction ==
  ASSUME NEW T, 0 \in T, \A n \in Nat : n \in T => n + 1 \in T
  PROVE  \A n \in Nat : n \in T
<1> SUFFICES ASSUME Nat \ T # {} PROVE FALSE
  OBVIOUS
<1> DEFINE U == Nat \ T
<1>1. PICK x \in U : \A y \in U : ~ (<<y, x>> \in OpToRel(<, Nat))
  <2>1. IsWellFoundedOn(OpToRel(<, Nat), Nat)
    BY NatLessThanWellFounded
  <2> QED
    BY <2>1, WFMin
<1>2. x \in Nat \ {0}
  OBVIOUS
<1>3. x - 1 \in Nat /\ x - 1 < x
  BY <1>2
<1>4. <<x - 1, x>> \in OpToRel(<, Nat)
  BY <1>2, <1>3 DEF OpToRel
<1>5. x - 1 \in T
  BY <1>1, <1>3, <1>4
<1>6. (x - 1) + 1 = x
  BY <1>2
<1> QED
  BY <1>3, <1>5, <1>6

\* A function over an interval from 1 is a sequence.
LEMMA FunctionIsSeq ==
  ASSUME NEW S, NEW n \in Nat, NEW f \in [1 .. n -> S]
  PROVE  f \in Seq(S) /\ Len(f) = n /\ DOMAIN f = 1 .. n
<1>1. f \in Seq(S)
  BY SeqDef
<1>2. Len(f) \in Nat /\ DOMAIN f = 1 .. Len(f) /\ DOMAIN f = 1 .. n
  BY <1>1, LenProperties
<1> QED
  BY <1>1, <1>2

LEMMA Singles == ASSUME NEW V, NEW x \in V PROVE <<x>> \in Seq(V)
OBVIOUS

LEMMA FirstNumbers ==
  ASSUME NEW n \in Nat
  PROVE  IsFiniteSet(1 .. n) /\ Cardinality(1 .. n) = n /\ 1 .. n \in SUBSET Int
<1>1. IsFiniteSet(1 .. n) /\ Cardinality(1 .. n) = IF 1 > n THEN 0 ELSE n - 1 + 1
  BY FS_Interval
<1> QED
  BY <1>1

\* The elements of two lists, one after the other.
LEMMA Concats ==
  ASSUME NEW V
  PROVE  \A s, t \in Seq(V) :
           /\ s \o t \in Seq(V) /\ Len(s \o t) = Len(s) + Len(t)
           /\ \A n \in 1 .. Len(s) + Len(t) :
                (s \o t)[n] = IF n <= Len(s) THEN s[n] ELSE t[n - Len(s)]
BY ConcatProperties

\* A list that is continued keeps its beginning.
LEMMA ConcatKeepsFront ==
  ASSUME NEW V, NEW s \in Seq(V), NEW t \in Seq(V)
  PROVE  /\ s \o t \in Seq(V)
         /\ Len(s \o t) = Len(s) + Len(t)
         /\ Len(s) \in Nat /\ Len(t) \in Nat
         /\ \A n \in 1 .. Len(s) : (s \o t)[n] = s[n]
         /\ \A n \in 1 .. Len(t) : (s \o t)[Len(s) + n] = t[n]
<1>1. Len(s) \in Nat /\ Len(t) \in Nat
  BY LenProperties
<1>2. /\ s \o t \in Seq(V) /\ Len(s \o t) = Len(s) + Len(t)
      /\ \A i \in 1 .. Len(s) + Len(t) :
           (s \o t)[i] = IF i <= Len(s) THEN s[i] ELSE t[i - Len(s)]
  BY ConcatProperties
<1> QED
  BY <1>1, <1>2

-----------------------------------------------------------------------------
StrictOrder(R, S) ==
  /\ \A i \in S : <<i, i>> \notin R
  /\ \A i, j, k \in S : <<i, j>> \in R /\ <<j, k>> \in R => <<i, k>> \in R
  /\ \A i, j \in S : i # j => <<i, j>> \in R \/ <<j, i>> \in R

\* The elements before i.
Before(i, S, R) == {j \in S : <<j, i>> \in R}

\* Ranks in a strict order are different, and every number has its element.
LEMMA Ranks ==
  ASSUME NEW S, IsFiniteSet(S), NEW R, StrictOrder(R, S)
  PROVE  /\ Cardinality(S) \in Nat
         /\ \A i \in S : Cardinality(Before(i, S, R)) \in 0 .. Cardinality(S) - 1
         /\ \A i, j \in S : <<i, j>> \in R =>
              Cardinality(Before(i, S, R)) < Cardinality(Before(j, S, R))
         /\ \A n \in 1 .. Cardinality(S) : \E i \in S : Cardinality(Before(i, S, R)) = n - 1
<1> DEFINE N == Cardinality(S)
           rank == [i \in S |-> Cardinality(Before(i, S, R)) + 1]
<1>1. N \in Nat
  BY FS_CardinalityType
<1>2. ASSUME NEW i \in S
      PROVE  IsFiniteSet(Before(i, S, R)) /\ Cardinality(Before(i, S, R)) \in 0 .. N - 1
  <2>1. Before(i, S, R) \in SUBSET (S \ {i})
    BY DEF Before, StrictOrder
  <2>2. IsFiniteSet(S \ {i}) /\ Cardinality(S \ {i}) = N - 1
    BY FS_RemoveElement
  <2>3. IsFiniteSet(Before(i, S, R)) /\ Cardinality(Before(i, S, R)) <= N - 1
    BY <2>1, <2>2, FS_Subset
  <2> QED
    BY <2>3, <1>1, FS_CardinalityType
<1>3. ASSUME NEW i \in S, NEW j \in S, <<i, j>> \in R
      PROVE  Cardinality(Before(i, S, R)) < Cardinality(Before(j, S, R))
  <2>1. Before(i, S, R) \in SUBSET Before(j, S, R)
    BY <1>3 DEF Before, StrictOrder
  <2>2. i \in Before(j, S, R) /\ i \notin Before(i, S, R)
    BY <1>3 DEF Before, StrictOrder
  <2>3. /\ Cardinality(Before(i, S, R)) <= Cardinality(Before(j, S, R))
        /\ Cardinality(Before(i, S, R)) # Cardinality(Before(j, S, R))
    BY <1>2, <2>1, <2>2, FS_Subset
  <2> QED
    BY <1>2, <2>3
<1>4. rank \in Injection(S, 1 .. N)
  <2>1. rank \in [S -> 1 .. N]
    BY <1>1, <1>2
  <2>2. ASSUME NEW i \in S, NEW j \in S, rank[i] = rank[j]
        PROVE  i = j
    <3>1. Cardinality(Before(i, S, R)) \in Int /\ Cardinality(Before(j, S, R)) \in Int
      BY <1>2
    <3>2. Cardinality(Before(i, S, R)) = Cardinality(Before(j, S, R))
      BY <2>2, <3>1
    <3>3. <<i, j>> \notin R /\ <<j, i>> \notin R
      BY <1>3, <3>1, <3>2
    <3> QED
      BY <3>3 DEF StrictOrder
  <2> QED
    BY <2>1, <2>2 DEF Injection, IsInjective
<1>5. rank \in Surjection(S, 1 .. N)
  <2>1. IsFiniteSet(1 .. N) /\ Cardinality(1 .. N) = N
    BY <1>1, FS_Interval
  <2> QED
    BY <1>4, <2>1, FS_Injection
<1>6. ASSUME NEW n \in 1 .. N
      PROVE  \E i \in S : Cardinality(Before(i, S, R)) = n - 1
  <2>1. PICK i \in S : rank[i] = n
    BY <1>5 DEF Surjection
  <2>2. Cardinality(Before(i, S, R)) + 1 = n
    BY <2>1
  <2> QED
    BY <1>1, <1>2, <2>2
<1> QED
  BY <1>1, <1>2, <1>3, <1>6

\* Sorted lists every element once, and in the order.
LEMMA SortedSorts ==
  ASSUME NEW S, IsFiniteSet(S), NEW R, StrictOrder(R, S)
  PROVE  LET s == Sorted(S, R)
         IN /\ Cardinality(S) \in Nat
            /\ s \in [1 .. Cardinality(S) -> S]
            /\ \A i \in S : \E n \in 1 .. Cardinality(S) : s[n] = i
            /\ \A m, n \in 1 .. Cardinality(S) : m < n => <<s[m], s[n]>> \in R
<1> DEFINE s == Sorted(S, R)
           N == Cardinality(S)
<1>0. N \in Nat
  BY Ranks
<1>1. s = [n \in 1 .. N |-> CHOOSE i \in S : Cardinality(Before(i, S, R)) = n - 1]
  BY DEF Sorted, Before
<1>2. ASSUME NEW n \in 1 .. N
      PROVE  s[n] \in S /\ Cardinality(Before(s[n], S, R)) = n - 1
  <2>1. \E i \in S : Cardinality(Before(i, S, R)) = n - 1
    BY Ranks
  <2>2. s[n] = CHOOSE i \in S : Cardinality(Before(i, S, R)) = n - 1
    BY <1>1
  <2> QED
    BY <2>1, <2>2
<1> HIDE DEF s
<1>3. ASSUME NEW i \in S
      PROVE  \E n \in 1 .. N : s[n] = i
  <2> DEFINE n == Cardinality(Before(i, S, R)) + 1
  <2>1. n \in 1 .. N /\ Cardinality(Before(i, S, R)) = n - 1
    <3>1. Cardinality(Before(i, S, R)) \in 0 .. N - 1
      BY Ranks
    <3> QED
      BY <3>1, <1>0
  <2>2. s[n] \in S /\ Cardinality(Before(s[n], S, R)) = Cardinality(Before(i, S, R))
    BY <1>2, <2>1
  <2>3. s[n] = i
    <3>1. \A j, k \in S : <<j, k>> \in R => Cardinality(Before(j, S, R)) < Cardinality(Before(k, S, R))
      BY Ranks
    <3>2. Cardinality(Before(i, S, R)) \in Int
      BY Ranks
    <3>3. <<s[n], i>> \notin R /\ <<i, s[n]>> \notin R
      BY <2>2, <3>1, <3>2
    <3> QED
      BY <2>2, <3>3 DEF StrictOrder
  <2> QED
    BY <2>1, <2>3
<1>4. ASSUME NEW m \in 1 .. N, NEW n \in 1 .. N, m < n
      PROVE  <<s[m], s[n]>> \in R
  <2>1. s[m] \in S /\ s[n] \in S
    BY <1>2
  <2>2. Cardinality(Before(s[m], S, R)) < Cardinality(Before(s[n], S, R))
    BY <1>2, <1>4, <1>0
  <2>3. \A j, k \in S : <<j, k>> \in R => Cardinality(Before(j, S, R)) < Cardinality(Before(k, S, R))
    BY Ranks
  <2>4. Cardinality(Before(s[m], S, R)) \in Nat /\ Cardinality(Before(s[n], S, R)) \in Nat
    BY Ranks, <2>1
  <2>5. s[m] # s[n] /\ <<s[n], s[m]>> \notin R
    BY <2>1, <2>2, <2>3, <2>4
  <2> QED
    BY <2>1, <2>5 DEF StrictOrder
<1>5. s \in [1 .. N -> S]
  BY <1>1, <1>2
<1> QED
  BY <1>0, <1>3, <1>4, <1>5 DEF s

\* Ascending lists every element once, the smaller ones first.
LEMMA AscendingSorts ==
  ASSUME NEW S \in SUBSET Int, IsFiniteSet(S)
  PROVE  LET a == Ascending(S)
         IN /\ Cardinality(S) \in Nat
            /\ a \in [1 .. Cardinality(S) -> S]
            /\ \A i \in S : \E n \in 1 .. Cardinality(S) : a[n] = i
            /\ \A m, n \in 1 .. Cardinality(S) : m < n => a[m] < a[n]
<1> DEFINE R == {p \in S \X S : p[1] < p[2]}
<1>1. \A i, j \in S : <<i, j>> \in R <=> i < j
  OBVIOUS
<1>2. StrictOrder(R, S)
  <2>1. \A i, j \in S : i \in Int /\ j \in Int
    OBVIOUS
  <2> QED
    BY <1>1, <2>1 DEF StrictOrder
<1>3. Ascending(S) = Sorted(S, R)
  BY DEF Ascending
<1> DEFINE a == Ascending(S)
<1> HIDE DEF R
<1>4. /\ Cardinality(S) \in Nat
      /\ a \in [1 .. Cardinality(S) -> S]
      /\ \A i \in S : \E n \in 1 .. Cardinality(S) : a[n] = i
      /\ \A m, n \in 1 .. Cardinality(S) : m < n => <<a[m], a[n]>> \in R
  BY <1>2, <1>3, SortedSorts
<1>5. \A m, n \in 1 .. Cardinality(S) : a[m] \in S /\ a[n] \in S
  BY <1>4
<1> QED
  BY <1>1, <1>4, <1>5

\* ... and is the only list that does.
LEMMA AscendingIsOnly ==
  ASSUME NEW S \in SUBSET Int, IsFiniteSet(S), NEW k \in Nat, NEW f \in [1 .. k -> S],
         \A i \in S : \E n \in 1 .. k : f[n] = i,
         \A m, n \in 1 .. k : m < n => f[m] < f[n]
  PROVE  k = Cardinality(S) /\ f = Ascending(S)
<1> DEFINE a == Ascending(S)
<1>1. Cardinality(S) = k
  <2>1. \A m, n \in 1 .. k : f[m] = f[n] => m = n
    <3> SUFFICES ASSUME NEW m \in 1 .. k, NEW n \in 1 .. k, m # n
                 PROVE  f[m] # f[n]
      OBVIOUS
    <3>1. m < n \/ n < m
      OBVIOUS
    <3>2. f[m] \in Int /\ f[n] \in Int
      OBVIOUS
    <3>3. f[m] < f[n] \/ f[n] < f[m]
      BY <3>1
    <3> QED
      BY <3>2, <3>3
  <2>2. f \in Bijection(1 .. k, S)
    BY <2>1 DEF Bijection, Injection, Surjection, IsInjective
  <2> QED
    BY <2>2, FS_CountingElements DEF ExistsBijection
<1>2. /\ a \in [1 .. k -> S]
      /\ \A i \in S : \E n \in 1 .. k : a[n] = i
      /\ \A m, n \in 1 .. k : m < n => a[m] < a[n]
  BY <1>1, AscendingSorts
<1> HIDE DEF a
<1> DEFINE T == {n \in Nat : \A m \in 1 .. k : m <= n => f[m] = a[m]}
<1>3. 0 \in T
  OBVIOUS
<1>4. ASSUME NEW n \in Nat, n \in T
      PROVE  n + 1 \in T
  <2> SUFFICES ASSUME n + 1 \in 1 .. k
               PROVE  f[n + 1] = a[n + 1]
    BY <1>4
  <2> DEFINE m == n + 1
  <2>1. f[m] \in S /\ a[m] \in S /\ f[m] \in Int /\ a[m] \in Int
    BY <1>2
  <2>2. ASSUME f[m] < a[m] PROVE FALSE
    <3>1. PICK p \in 1 .. k : a[p] = f[m]
      BY <1>2, <2>1
    <3>2. p < m
      <4>1. p # m
        BY <2>2, <2>1, <3>1
      <4>2. m < p => a[m] < a[p]
        BY <1>2
      <4> QED
        BY <2>1, <2>2, <3>1, <4>1, <4>2
    <3>3. f[p] = a[p] /\ f[p] < f[m]
      BY <1>4, <3>2
    <3> QED
      BY <2>1, <3>1, <3>3
  <2>3. ASSUME a[m] < f[m] PROVE FALSE
    <3>1. PICK p \in 1 .. k : f[p] = a[m]
      BY <2>1
    <3>2. p < m
      <4>1. p # m
        BY <2>3, <2>1, <3>1
      <4>2. m < p => f[m] < f[p]
        OBVIOUS
      <4> QED
        BY <2>1, <2>3, <3>1, <4>1, <4>2
    <3>3. f[p] = a[p] /\ a[p] < a[m]
      BY <1>2, <1>4, <3>2
    <3> QED
      BY <2>1, <3>1, <3>3
  <2> QED
    BY <2>1, <2>2, <2>3
<1>5. \A n \in Nat : n \in T
  <2> HIDE DEF T
  <2> QED
    BY <1>3, <1>4, SetInduction
<1>6. k \in T
  BY <1>5
<1>7. \A m \in 1 .. k : f[m] = a[m]
  BY <1>6
<1>8. f = a
  BY <1>2, <1>7
<1> QED
  BY <1>1, <1>8 DEF a

\* A finite set of integers has a largest element.
LEMMA Largest ==
  ASSUME NEW S \in SUBSET Int, IsFiniteSet(S), S # {}
  PROVE  \E i \in S : \A j \in S : j <= i
<1> DEFINE a == Ascending(S)
           c == Cardinality(S)
<1>1. /\ c \in Nat /\ a \in [1 .. c -> S]
      /\ \A i \in S : \E n \in 1 .. c : a[n] = i
      /\ \A m, n \in 1 .. c : m < n => a[m] < a[n]
  BY AscendingSorts
<1>2. c # 0
  BY FS_EmptySet
<1> HIDE DEF a, c
<1>3. c \in 1 .. c
  BY <1>1, <1>2
<1>4. ASSUME NEW j \in S PROVE j <= a[c]
  <2>1. PICK n \in 1 .. c : a[n] = j
    BY <1>1
  <2>2. a[n] \in Int /\ a[c] \in Int
    BY <1>1, <1>3
  <2>3. CASE n = c
    BY <2>1, <2>2, <2>3
  <2>4. CASE n < c
    <3>1. a[n] < a[c]
      BY <1>1, <1>3, <2>4
    <3> QED
      BY <2>1, <2>2, <3>1
  <2> QED
    BY <1>1, <2>3, <2>4
<1> QED
  BY <1>1, <1>3, <1>4

\* A finite set of integers has a smallest element.
LEMMA Smallest ==
  ASSUME NEW S \in SUBSET Int, IsFiniteSet(S), S # {}
  PROVE  \E i \in S : \A j \in S : i <= j
<1> DEFINE a == Ascending(S)
           c == Cardinality(S)
<1>1. /\ c \in Nat /\ a \in [1 .. c -> S]
      /\ \A i \in S : \E n \in 1 .. c : a[n] = i
      /\ \A m, n \in 1 .. c : m < n => a[m] < a[n]
  BY AscendingSorts
<1>2. c # 0
  BY FS_EmptySet
<1> HIDE DEF a, c
<1>3. 1 \in 1 .. c
  BY <1>1, <1>2
<1>4. ASSUME NEW j \in S PROVE a[1] <= j
  <2>1. PICK n \in 1 .. c : a[n] = j
    BY <1>1
  <2>2. a[n] \in Int /\ a[1] \in Int
    BY <1>1, <1>3
  <2>3. CASE n = 1
    BY <2>1, <2>2, <2>3
  <2>4. CASE 1 < n
    <3>1. a[1] < a[n]
      BY <1>1, <1>3, <2>4
    <3> QED
      BY <2>1, <2>2, <3>1
  <2> QED
    BY <1>1, <2>3, <2>4
<1> QED
  BY <1>1, <1>3, <1>4

\* What Kept keeps, and where it stood.
LEMMA KeptKeeps ==
  ASSUME NEW V, NEW s \in Seq(V), NEW keep \in SUBSET DOMAIN s
  PROVE  LET t == Kept(s, keep)
             at == Ascending(keep)
         IN /\ IsFiniteSet(keep)
            /\ t \in Seq(V)
            /\ Len(t) = Cardinality(keep) /\ Cardinality(keep) \in Nat
            /\ DOMAIN t = 1 .. Len(t)
            /\ at \in [DOMAIN t -> keep]
            /\ \A n \in DOMAIN t : t[n] = s[at[n]]
            /\ \A i \in keep : \E n \in DOMAIN t : at[n] = i
            /\ \A m, n \in DOMAIN t : m < n => at[m] < at[n]
<1> DEFINE t == Kept(s, keep)
           at == Ascending(keep)
           c == Cardinality(keep)
<1>1. Len(s) \in Nat /\ DOMAIN s = 1 .. Len(s) /\ s \in [1 .. Len(s) -> V]
  BY LenProperties
<1>2. IsFiniteSet(keep) /\ keep \in SUBSET Int
  <2>1. IsFiniteSet(1 .. Len(s))
    BY <1>1, FS_Interval
  <2> QED
    BY <1>1, <2>1, FS_Subset
<1>3. /\ c \in Nat
      /\ at \in [1 .. c -> keep]
      /\ \A i \in keep : \E n \in 1 .. c : at[n] = i
      /\ \A m, n \in 1 .. c : m < n => at[m] < at[n]
  BY <1>2, AscendingSorts
<1>4. t = [n \in 1 .. c |-> s[at[n]]]
  BY <1>3 DEF Kept
<1>5. t \in [1 .. c -> V]
  BY <1>1, <1>3, <1>4
<1>6. t \in Seq(V) /\ Len(t) = c /\ DOMAIN t = 1 .. c
  BY <1>3, <1>5, FunctionIsSeq
<1> HIDE DEF at, c
<1> QED
  BY <1>2, <1>3, <1>4, <1>6 DEF at, c

\* t is s without some of its elements, f says where those of t stood, and L
\* holds the places in t of the positions K of s, all of them still there.
Embeds(f, t, s) ==
  /\ f \in [DOMAIN t -> DOMAIN s]
  /\ \A m, n \in DOMAIN t : m < n => f[m] < f[n]
  /\ \A n \in DOMAIN t : t[n] = s[f[n]]
Carries(f, t, L, K) ==
  /\ \A n \in DOMAIN t : n \in L <=> f[n] \in K
  /\ \A i \in K : \E n \in DOMAIN t : f[n] = i

\* What K keeps of s is then what L keeps of t.
LEMMA KeptOfPart ==
  ASSUME NEW V, NEW s \in Seq(V), NEW t \in Seq(V), NEW f, Embeds(f, t, s),
         NEW K \in SUBSET DOMAIN s, NEW L \in SUBSET DOMAIN t, Carries(f, t, L, K)
  PROVE  Kept(t, L) = Kept(s, K)
<1>0. /\ f \in [DOMAIN t -> DOMAIN s]
      /\ \A m, n \in DOMAIN t : m < n => f[m] < f[n]
      /\ \A n \in DOMAIN t : t[n] = s[f[n]]
      /\ \A n \in DOMAIN t : n \in L <=> f[n] \in K
      /\ \A i \in K : \E n \in DOMAIN t : f[n] = i
  BY DEF Embeds, Carries
<1> DEFINE l == Ascending(L)
           c == Cardinality(L)
           g == [n \in 1 .. c |-> f[l[n]]]
<1>1. Len(s) \in Nat /\ DOMAIN s = 1 .. Len(s) /\ Len(t) \in Nat /\ DOMAIN t = 1 .. Len(t)
  BY LenProperties
<1>2. /\ c \in Nat /\ l \in [1 .. c -> L]
      /\ \A i \in L : \E n \in 1 .. c : l[n] = i
      /\ \A m, n \in 1 .. c : m < n => l[m] < l[n]
  <2>1. IsFiniteSet(L) /\ L \in SUBSET Int
    BY <1>1, KeptKeeps
  <2> QED
    BY <2>1, AscendingSorts
<1>3. IsFiniteSet(K) /\ K \in SUBSET Int
  BY <1>1, KeptKeeps
<1>4. Kept(t, L) = [n \in 1 .. c |-> t[l[n]]]
  BY <1>2 DEF Kept
<1> HIDE DEF l, c
<1>5. g \in [1 .. c -> K]
  BY <1>0, <1>2
<1>6. \A m, n \in 1 .. c : m < n => g[m] < g[n]
  BY <1>0, <1>2
<1>7. ASSUME NEW i \in K
      PROVE  \E n \in 1 .. c : g[n] = i
  <2>1. PICK n \in DOMAIN t : f[n] = i
    BY <1>0
  <2>2. PICK m \in 1 .. c : l[m] = n
    BY <1>0, <1>2, <2>1
  <2>3. g[m] = i
    BY <2>1, <2>2
  <2> QED
    BY <2>3
<1>8. c = Cardinality(K) /\ g = Ascending(K)
  <2> HIDE DEF g
  <2> QED
    BY <1>2, <1>3, <1>5, <1>6, <1>7, AscendingIsOnly
<1>9. Kept(s, K) = [n \in 1 .. c |-> s[g[n]]]
  <2>1. DOMAIN g = 1 .. c
    OBVIOUS
  <2> HIDE DEF g
  <2> QED
    BY <1>8, <2>1 DEF Kept
<1>10. \A n \in 1 .. c : t[l[n]] = s[g[n]]
  BY <1>0, <1>2
<1> QED
  BY <1>4, <1>9, <1>10

-----------------------------------------------------------------------------
\* The lists joined so far, and the next one.
Steps(f, n, g) == [i \in 0 .. n |-> IF i = 0 THEN <<>> ELSE g[i - 1] \o f[i]]
Upto(f, n) == CHOOSE g : g = Steps(f, n, g)

\* Joined follows its recursion: there is a function that does.
LEMMA StepsExist ==
  ASSUME NEW n \in Nat, NEW f
  PROVE  \E g : g = Steps(f, n, g)
<1> DEFINE T == {m \in Nat : \E g : g = Steps(f, m, g)}
<1>1. 0 \in T
  <2> DEFINE g == [i \in 0 .. 0 |-> <<>>]
  <2>1. g = Steps(f, 0, g)
    BY DEF Steps
  <2> HIDE DEF g
  <2> QED
    BY <2>1
<1>2. ASSUME NEW m \in Nat, m \in T
      PROVE  m + 1 \in T
  <2>1. PICK g : g = Steps(f, m, g)
    BY <1>2
  <2> DEFINE h == [i \in 0 .. m + 1 |-> IF i <= m THEN g[i] ELSE g[m] \o f[m + 1]]
             k == Steps(f, m + 1, h)
  <2>2. \A i \in 0 .. m : g[i] = IF i = 0 THEN <<>> ELSE g[i - 1] \o f[i]
    BY <2>1 DEF Steps
  <2>3. ASSUME NEW i \in 0 .. m + 1
        PROVE  h[i] = k[i]
    <3>1. k[i] = IF i = 0 THEN <<>> ELSE h[i - 1] \o f[i]
      BY DEF Steps
    <3>2. CASE i = 0
      BY <2>2, <3>1, <3>2
    <3>3. CASE i \in 1 .. m
      <4>1. i \in 0 .. m /\ i # 0 /\ i - 1 \in 0 .. m + 1 /\ i - 1 <= m /\ i <= m
        BY <3>3
      <4>2. h[i] = g[i] /\ h[i - 1] = g[i - 1]
        BY <4>1
      <4>3. g[i] = g[i - 1] \o f[i]
        BY <2>2, <4>1
      <4> HIDE DEF h, k
      <4> QED
        BY <3>1, <4>1, <4>2, <4>3
    <3>4. CASE i = m + 1
      <4>1. i # 0 /\ i - 1 = m /\ m \in 0 .. m + 1 /\ m <= m /\ ~ i <= m
        BY <3>4
      <4>2. h[i] = g[m] \o f[i] /\ h[m] = g[m]
        BY <3>4, <4>1
      <4> HIDE DEF h, k
      <4> QED
        BY <3>1, <4>1, <4>2
    <3> QED
      BY <3>2, <3>3, <3>4
  <2>4. h = k
    BY <2>3 DEF Steps
  <2> HIDE DEF h
  <2> QED
    BY <2>4
<1>3. n \in T
  <2> HIDE DEF T
  <2> QED
    BY <1>1, <1>2, SetInduction
<1> QED
  BY <1>3

LEMMA UptoDef ==
  ASSUME NEW n \in Nat, NEW f
  PROVE  /\ Upto(f, n)[0] = <<>>
         /\ \A i \in 1 .. n : Upto(f, n)[i] = Upto(f, n)[i - 1] \o f[i]
<1> DEFINE g == Upto(f, n)
<1>1. g = Steps(f, n, g)
  BY StepsExist DEF Upto
<1> HIDE DEF g
<1>2. g[0] = <<>> /\ \A i \in 1 .. n : g[i] = g[i - 1] \o f[i]
  BY <1>1 DEF Steps
<1> QED
  BY <1>2 DEF g

LEMMA JoinedIsUpto == \A ss : Joined(ss) = Upto(ss, Len(ss))[Len(ss)]
BY DEF Joined, Upto, Steps

\* Upto does not depend on what comes later.
LEMMA UptoPrefix ==
  ASSUME NEW m \in Nat, NEW n \in Nat, NEW f, NEW g, NEW k \in Nat, k <= m, k <= n,
         \A i \in 1 .. k : f[i] = g[i]
  PROVE  Upto(f, m)[k] = Upto(g, n)[k]
<1> DEFINE T == {j \in Nat : j <= k => Upto(f, m)[j] = Upto(g, n)[j]}
<1>1. 0 \in T
  BY UptoDef
<1>2. ASSUME NEW j \in Nat, j \in T PROVE j + 1 \in T
  <2> SUFFICES ASSUME j + 1 <= k
               PROVE  Upto(f, m)[j + 1] = Upto(g, n)[j + 1]
    OBVIOUS
  <2>1. j + 1 \in 1 .. k /\ j + 1 \in 1 .. m /\ j + 1 \in 1 .. n /\ (j + 1) - 1 = j
    OBVIOUS
  <2>2. /\ \A i \in 1 .. m : Upto(f, m)[i] = Upto(f, m)[i - 1] \o f[i]
        /\ \A i \in 1 .. n : Upto(g, n)[i] = Upto(g, n)[i - 1] \o g[i]
    BY UptoDef
  <2>3. Upto(f, m)[j + 1] = Upto(f, m)[j] \o f[j + 1]
    BY <2>1, <2>2
  <2>4. Upto(g, n)[j + 1] = Upto(g, n)[j] \o g[j + 1]
    BY <2>1, <2>2
  <2>5. Upto(f, m)[j] = Upto(g, n)[j]
    BY <1>2
  <2>6. f[j + 1] = g[j + 1]
    BY <2>1
  <2> QED
    BY <2>3, <2>4, <2>5, <2>6
<1>3. k \in T
  <2> HIDE DEF T
  <2> QED
    BY <1>1, <1>2, SetInduction
<1> QED
  BY <1>3

LEMMA JoinedEmpty == Joined(<<>>) = <<>>
<1>1. Len(<<>>) = 0
  OBVIOUS
<1> QED
  BY <1>1, JoinedIsUpto, UptoDef

LEMMA JoinedAppend ==
  ASSUME NEW V, NEW ss \in Seq(V), NEW x \in V
  PROVE  Joined(Append(ss, x)) = Joined(ss) \o x
<1> DEFINE n == Len(ss)
           tt == Append(ss, x)
<1>1. n \in Nat /\ Len(tt) = n + 1 /\ tt[n + 1] = x /\ \A i \in 1 .. n : tt[i] = ss[i]
  BY LenProperties, AppendProperties
<1>2. Joined(tt) = Upto(tt, n + 1)[n + 1]
  BY <1>1, JoinedIsUpto
<1>3. Joined(ss) = Upto(ss, n)[n]
  BY <1>1, JoinedIsUpto
<1> HIDE DEF tt, n
<1>4. n + 1 \in Nat /\ n + 1 \in 1 .. n + 1 /\ (n + 1) - 1 = n /\ n <= n + 1 /\ n <= n
  BY <1>1
<1>5. Upto(tt, n + 1)[n + 1] = Upto(tt, n + 1)[n] \o x
  <2>1. \A i \in 1 .. n + 1 : Upto(tt, n + 1)[i] = Upto(tt, n + 1)[i - 1] \o tt[i]
    BY <1>4, UptoDef
  <2> QED
    BY <1>1, <1>4, <2>1
<1>6. Upto(tt, n + 1)[n] = Upto(ss, n)[n]
  <2> DEFINE m == n + 1
  <2>1. m \in Nat /\ n <= m /\ n <= n
    BY <1>1
  <2> HIDE DEF m
  <2>2. Upto(tt, m)[n] = Upto(ss, n)[n]
    BY <1>1, <2>1, UptoPrefix
  <2> QED
    BY <2>2 DEF m
<1> QED
  BY <1>2, <1>3, <1>5, <1>6 DEF tt

LEMMA JoinedType ==
  ASSUME NEW V, NEW ss \in Seq(Seq(V))
  PROVE  Joined(ss) \in Seq(V)
<1> DEFINE T == {n \in Nat : \A tt \in Seq(Seq(V)) : Len(tt) = n => Joined(tt) \in Seq(V)}
<1>1. 0 \in T
  <2> SUFFICES ASSUME NEW tt \in Seq(Seq(V)), Len(tt) = 0
               PROVE  Joined(tt) \in Seq(V)
    OBVIOUS
  <2>1. tt = <<>>
    BY EmptySeq
  <2> QED
    BY <2>1, JoinedEmpty, EmptySeq
<1>2. ASSUME NEW n \in Nat, n \in T PROVE n + 1 \in T
  <2> SUFFICES ASSUME NEW tt \in Seq(Seq(V)), Len(tt) = n + 1
               PROVE  Joined(tt) \in Seq(V)
    OBVIOUS
  <2>1. PICK uu \in Seq(Seq(V)), x \in Seq(V) : tt = Append(uu, x)
    <3>1. tt # <<>>
      BY EmptySeq
    <3> QED
      BY <3>1, SequenceEmptyOrAppend
  <2>2. Len(uu) = n
    <3>1. Len(uu) \in Nat /\ Len(tt) = Len(uu) + 1
      BY <2>1, LenProperties, AppendProperties
    <3> QED
      BY <3>1
  <2>3. Joined(uu) \in Seq(V)
    BY <1>2, <2>2
  <2>4. Joined(tt) = Joined(uu) \o x
    BY <2>1, JoinedAppend
  <2> QED
    BY <2>3, <2>4, ConcatProperties
<1>3. Len(ss) \in T
  <2>1. Len(ss) \in Nat
    BY LenProperties
  <2> HIDE DEF T
  <2> QED
    BY <1>1, <1>2, <2>1, SetInduction
<1> QED
  BY <1>3

LEMMA ConcatAppend ==
  ASSUME NEW V, NEW s \in Seq(V), NEW t \in Seq(V), NEW x \in V
  PROVE  s \o Append(t, x) = Append(s \o t, x)
<1>1. s \o t \in Seq(V) /\ <<x>> \in Seq(V)
  BY ConcatProperties
<1>2. Append(t, x) = t \o <<x>> /\ Append(s \o t, x) = (s \o t) \o <<x>>
  BY <1>1, AppendIsConcat
<1>3. (s \o t) \o <<x>> = s \o (t \o <<x>>)
  BY <1>1, ConcatAssociative
<1> QED
  BY <1>2, <1>3

LEMMA JoinedAssociates ==
  ASSUME NEW V, NEW ss \in Seq(Seq(V)), NEW tt \in Seq(Seq(V)), NEW x \in Seq(V)
  PROVE  (Joined(ss) \o Joined(tt)) \o x = Joined(ss) \o (Joined(tt) \o x)
<1>1. Joined(ss) \in Seq(V) /\ Joined(tt) \in Seq(V)
  BY JoinedType
<1>2. \A a, b, c \in Seq(V) : (a \o b) \o c = a \o (b \o c)
  <2> SUFFICES ASSUME NEW a \in Seq(V), NEW b \in Seq(V), NEW c \in Seq(V)
               PROVE  (a \o b) \o c = a \o (b \o c)
    OBVIOUS
  <2> QED
    BY ConcatAssociative
<1> QED
  BY <1>1, <1>2

LEMMA JoinedConcatStep ==
  ASSUME NEW V, NEW ss \in Seq(Seq(V)), NEW tt \in Seq(Seq(V)), NEW x \in Seq(V),
         Joined(ss \o tt) = Joined(ss) \o Joined(tt)
  PROVE  Joined(ss \o Append(tt, x)) = Joined(ss) \o Joined(Append(tt, x))
<1>1. ss \o Append(tt, x) = Append(ss \o tt, x)
  BY ConcatAppend
<1>2. ss \o tt \in Seq(Seq(V))
  BY ConcatProperties
<1>3. Joined(ss \o Append(tt, x)) = Joined(ss \o tt) \o x
  BY <1>1, <1>2, JoinedAppend
<1>4. Joined(Append(tt, x)) = Joined(tt) \o x
  BY JoinedAppend
<1>5. (Joined(ss) \o Joined(tt)) \o x = Joined(ss) \o (Joined(tt) \o x)
  BY JoinedAssociates
<1> QED
  BY <1>3, <1>4, <1>5

LEMMA JoinedConcat ==
  ASSUME NEW V, NEW ss \in Seq(Seq(V)), NEW tt \in Seq(Seq(V))
  PROVE  Joined(ss \o tt) = Joined(ss) \o Joined(tt)
<1> DEFINE T == {n \in Nat : \A uu \in Seq(Seq(V)) :
                   Len(uu) = n => Joined(ss \o uu) = Joined(ss) \o Joined(uu)}
<1>1. 0 \in T
  <2> SUFFICES ASSUME NEW uu \in Seq(Seq(V)), Len(uu) = 0
               PROVE  Joined(ss \o uu) = Joined(ss) \o Joined(uu)
    OBVIOUS
  <2>1. uu = <<>>
    BY EmptySeq
  <2>2. ss \o <<>> = ss
    BY ConcatEmptySeq
  <2>3. Joined(ss) \o <<>> = Joined(ss)
    BY JoinedType, ConcatEmptySeq
  <2> QED
    BY <2>1, <2>2, <2>3, JoinedEmpty
<1>2. ASSUME NEW n \in Nat, n \in T PROVE n + 1 \in T
  <2> SUFFICES ASSUME NEW uu \in Seq(Seq(V)), Len(uu) = n + 1
               PROVE  Joined(ss \o uu) = Joined(ss) \o Joined(uu)
    OBVIOUS
  <2>1. PICK vv \in Seq(Seq(V)), x \in Seq(V) : uu = Append(vv, x)
    <3>1. uu # <<>>
      BY EmptySeq
    <3> QED
      BY <3>1, SequenceEmptyOrAppend
  <2>2. Len(vv) = n
    <3>1. Len(vv) \in Nat /\ Len(uu) = Len(vv) + 1
      BY <2>1, LenProperties, AppendProperties
    <3> QED
      BY <3>1
  <2>3. Joined(ss \o vv) = Joined(ss) \o Joined(vv)
    BY <1>2, <2>2
  <2> QED
    BY <2>1, <2>3, JoinedConcatStep
<1>3. Len(tt) \in T
  <2>1. Len(tt) \in Nat
    BY LenProperties
  <2> HIDE DEF T
  <2> QED
    BY <1>1, <1>2, <2>1, SetInduction
<1> QED
  BY <1>3

-----------------------------------------------------------------------------
(* chunk_markdown.                                                         *)

Line == Heading \cup Text
Char == Nat \X Nat

LEMMA LineKinds ==
  ASSUME NEW line \in Line
  PROVE  IF Marked(line) THEN line.level \in Nat /\ line.titled \in BOOLEAN
         ELSE line.length \in Nat
<1>1. CASE line \in Heading
  <2>1. "level" \in DOMAIN line /\ line.level \in Nat /\ line.titled \in BOOLEAN
    BY <1>1 DEF Heading
  <2> QED
    BY <2>1 DEF Marked
<1>2. CASE line \in Text
  <2>1. DOMAIN line = {"length"} /\ line.length \in Nat
    BY <1>2 DEF Text
  <2>2. "level" \notin DOMAIN line
    BY <2>1
  <2> QED
    BY <2>1, <2>2 DEF Marked
<1> QED
  BY <1>1, <1>2 DEF Line

LEMMA TextLengthType ==
  ASSUME NEW body \in Seq(Line), NEW k \in 1 .. Len(body)
  PROVE  TextLength(body, k) \in Nat
<1>1. body[k] \in Line
  BY LenProperties
<1>2. CASE k \in Taken(body) \cup HeadingLines(body)
  <2>1. TextLength(body, k) = 0
    BY <1>2 DEF TextLength
  <2> QED
    BY <2>1
<1>3. CASE k \notin Taken(body) \cup HeadingLines(body)
  <2>1. TextLength(body, k) = IF Marked(body[k]) THEN body[k].level ELSE body[k].length
    BY <1>3 DEF TextLength
  <2> QED
    BY <1>1, <2>1, LineKinds
<1> QED
  BY <1>2, <1>3

\* The title of a heading stands on some line, if it has one.
LEMMA TitleLineType ==
  ASSUME NEW body \in Seq(Line), NEW i \in 1 .. Len(body)
  PROVE  TitleLine(body, i) \in Nat
<1> DEFINE below == {j \in i + 1 .. Len(body) : ~Blank(body[j])}
<1>1. Len(body) \in Nat
  BY LenProperties
<1>2. below \in SUBSET Int /\ below \in SUBSET Nat /\ IsFiniteSet(below)
  <2>1. below \in SUBSET (1 .. Len(body)) /\ IsFiniteSet(1 .. Len(body))
    BY <1>1, FirstNumbers
  <2> HIDE DEF below
  <2>2. IsFiniteSet(below)
    BY <2>1, FS_Subset
  <2> QED
    BY <1>1, <2>1, <2>2
<1>3. TitleLine(body, i) = IF body[i].titled THEN i ELSE IF below = {} THEN 0
                           ELSE CHOOSE j \in below : \A k \in below : j <= k
  BY DEF TitleLine
<1> HIDE DEF below
<1>4. below # {} => \E j \in below : \A k \in below : j <= k
  BY <1>2, Smallest
<1>5. below # {} => (CHOOSE j \in below : \A k \in below : j <= k) \in below
  BY <1>4
<1>6. (CHOOSE j \in below : \A k \in below : j <= k) \in Nat \/ below = {}
  BY <1>2, <1>5
<1>7. i \in Nat
  BY <1>1
<1> QED
  BY <1>3, <1>6, <1>7

\* The characters of one line, and of the lines from i to j in a list each.
CharsOf(body, k) == [n \in 1 .. TextLength(body, k) |-> <<k, n>>]
ByLine(body, i, j) == [k \in 1 .. (j - i + 1) |-> CharsOf(body, i + k - 1)]

\* What a character of the lines from i to j may be.
CharIn(i, j) == {c \in Char : c[1] \in i .. j}

LEMMA CharsJoin ==
  ASSUME NEW body, NEW i, NEW j
  PROVE  Chars(body, i, j) = Joined(ByLine(body, i, j))
BY DEF Chars, ByLine, CharsOf

LEMMA ByLineType ==
  ASSUME NEW body \in Seq(Line), NEW i \in Nat \ {0}, NEW j \in Nat,
         i <= j + 1, j <= Len(body)
  PROVE  /\ ByLine(body, i, j) \in Seq(Seq(CharIn(i, j)))
         /\ Len(ByLine(body, i, j)) = j - i + 1
<1> DEFINE C == CharIn(i, j)
           f == ByLine(body, i, j)
<1>0. Len(body) \in Nat /\ body \in [1 .. Len(body) -> Line]
  BY LenProperties
<1>1. ASSUME NEW k \in 1 .. (j - i + 1)
      PROVE  CharsOf(body, i + k - 1) \in Seq(C)
  <2> DEFINE l == i + k - 1
  <2>1. l \in i .. j /\ l \in 1 .. Len(body) /\ l \in Nat
    BY <1>0
  <2> HIDE DEF l, C
  <2>2. TextLength(body, l) \in Nat
    BY <2>1, TextLengthType
  <2>3. CharsOf(body, l) = [n \in 1 .. TextLength(body, l) |-> <<l, n>>]
    BY DEF CharsOf
  <2>4. CharsOf(body, l) \in [1 .. TextLength(body, l) -> C]
    <3>1. \A n \in 1 .. TextLength(body, l) : <<l, n>> \in C
      BY <2>1, <2>2 DEF C, CharIn, Char
    <3> QED
      BY <2>3, <3>1
  <2>5. CharsOf(body, l) \in Seq(C)
    BY <2>2, <2>4, FunctionIsSeq
  <2> QED
    BY <2>5 DEF l
<1>2. f \in [1 .. (j - i + 1) -> Seq(C)]
  <2> HIDE DEF C
  <2> QED
    BY <1>1 DEF ByLine
<1>3. j - i + 1 \in Nat
  OBVIOUS
<1> HIDE DEF f
<1>4. f \in Seq(Seq(C)) /\ Len(f) = j - i + 1
  <2> HIDE DEF C
  <2> QED
    BY <1>2, <1>3, FunctionIsSeq
<1> QED
  BY <1>4 DEF f

LEMMA CharsType ==
  ASSUME NEW body \in Seq(Line), NEW i \in Nat \ {0}, NEW j \in Nat,
         i <= j + 1, j <= Len(body)
  PROVE  Chars(body, i, j) \in Seq(CharIn(i, j)) /\ Chars(body, i, j) \in Seq(Char)
<1> DEFINE C == CharIn(i, j)
           c == Chars(body, i, j)
<1>1. c \in Seq(C)
  <2>1. ByLine(body, i, j) \in Seq(Seq(C))
    BY ByLineType
  <2> HIDE DEF C
  <2> QED
    BY <2>1, CharsJoin, JoinedType
<1>2. C \subseteq Char
  BY DEF CharIn
<1> HIDE DEF C, c
<1>3. c \in Seq(Char)
  BY <1>1, <1>2, SeqMonotonic
<1> QED
  BY <1>1, <1>3 DEF C, c

\* The characters of a range of lines are those of its two parts.
LEMMA CharsSplit ==
  ASSUME NEW body \in Seq(Line), NEW i \in Nat \ {0}, NEW j \in Nat, NEW k \in Nat,
         i <= j + 1, j <= k, k <= Len(body)
  PROVE  Chars(body, i, k) = Chars(body, i, j) \o Chars(body, j + 1, k)
<1> DEFINE F == ByLine(body, i, j)
           G == ByLine(body, j + 1, k)
           H == ByLine(body, i, k)
           V == Char
<1>0. Len(body) \in Nat /\ j + 1 \in Nat \ {0}
  BY LenProperties
<1>1. ASSUME NEW a \in Nat \ {0}, NEW b \in Nat, a <= b + 1, b <= Len(body)
      PROVE  ByLine(body, a, b) \in Seq(Seq(V)) /\ Len(ByLine(body, a, b)) = b - a + 1
  <2>1. /\ ByLine(body, a, b) \in Seq(Seq(CharIn(a, b)))
        /\ Len(ByLine(body, a, b)) = b - a + 1
    BY <1>1, ByLineType
  <2>2. CharIn(a, b) \subseteq V
    BY DEF CharIn
  <2>3. Seq(CharIn(a, b)) \subseteq Seq(V)
    BY <2>2, SeqMonotonic
  <2>4. Seq(Seq(CharIn(a, b))) \subseteq Seq(Seq(V))
    BY <2>3, SeqMonotonic
  <2> QED
    BY <2>1, <2>4
<1>2. /\ F \in Seq(Seq(V)) /\ Len(F) = j - i + 1
      /\ G \in Seq(Seq(V)) /\ Len(G) = k - j
      /\ H \in Seq(Seq(V)) /\ Len(H) = k - i + 1
  <2>1. i <= k + 1 /\ j + 1 <= k + 1 /\ j <= Len(body) /\ k - (j + 1) + 1 = k - j
    BY <1>0
  <2> HIDE DEF V
  <2> QED
    BY <1>0, <1>1, <2>1
<1>3. H = F \o G
  <2>1. \A n \in 1 .. Len(F) : F[n] = CharsOf(body, i + n - 1)
    BY <1>2 DEF ByLine
  <2>2. \A n \in 1 .. Len(G) : G[n] = CharsOf(body, j + n)
    <3> SUFFICES ASSUME NEW n \in 1 .. (k - j) PROVE G[n] = CharsOf(body, j + n)
      BY <1>2
    <3>1. n \in 1 .. (k - (j + 1) + 1) /\ (j + 1) + n - 1 = j + n
      OBVIOUS
    <3> QED
      BY <3>1 DEF ByLine
  <2>3. \A n \in 1 .. Len(H) : H[n] = CharsOf(body, i + n - 1)
    BY <1>2 DEF ByLine
  <2> HIDE DEF F, G, H, V
  <2>4. F \o G \in Seq(Seq(V)) /\ Len(F \o G) = Len(F) + Len(G)
        /\ \A n \in 1 .. Len(F) + Len(G) :
             (F \o G)[n] = IF n <= Len(F) THEN F[n] ELSE G[n - Len(F)]
    <3>1. F \in Seq(Seq(V)) /\ G \in Seq(Seq(V))
      BY <1>2
    <3> QED
      BY <3>1, Concats, Zenon
  <2>5. Len(H) = Len(F) + Len(G) /\ Len(F) \in Nat /\ Len(G) \in Nat
    BY <1>2
  <2>6. ASSUME NEW n \in 1 .. Len(H) PROVE H[n] = (F \o G)[n]
    <3>1. CASE n <= Len(F)
      BY <2>1, <2>3, <2>4, <2>5, <3>1
    <3>2. CASE Len(F) < n
      <4>1. n - Len(F) \in 1 .. Len(G) /\ j + (n - Len(F)) = i + n - 1 /\ ~ n <= Len(F)
        BY <1>2, <2>5, <3>2
      <4>2. G[n - Len(F)] = CharsOf(body, i + n - 1)
        BY <2>2, <4>1
      <4> QED
        BY <2>3, <2>4, <2>5, <4>1, <4>2
    <3> QED
      BY <2>5, <3>1, <3>2
  <2>7. Len(H) = Len(F \o G)
    BY <2>4, <2>5
  <2> QED
    BY <1>2, <2>4, <2>6, <2>7, SeqEqual
<1>4. Joined(F \o G) = Joined(F) \o Joined(G)
  <2> HIDE DEF F, G, V
  <2> QED
    BY <1>2, JoinedConcat
<1> QED
  BY <1>3, <1>4, CharsJoin

\* The parts of a list up to a and from there to b are the list up to b.
LEMMA SubSeqsJoin ==
  ASSUME NEW V, NEW s \in Seq(V), NEW a \in Nat, NEW b \in Nat, a <= b, b <= Len(s)
  PROVE  /\ SubSeq(s, 1, a) \o SubSeq(s, a + 1, b) = SubSeq(s, 1, b)
         /\ SubSeq(s, a + 1, b) \in Seq(V)
         /\ Len(SubSeq(s, a + 1, b)) = b - a
         /\ \A i \in 1 .. b - a : SubSeq(s, a + 1, b)[i] = s[a + i]
<1> DEFINE x == SubSeq(s, 1, a)
           y == SubSeq(s, a + 1, b)
           z == SubSeq(s, 1, b)
<1>0. Len(s) \in Nat /\ s \in [1 .. Len(s) -> V]
  BY LenProperties
<1>1. x \in Seq(V) /\ Len(x) = a /\ \A i \in 1 .. a : x[i] = s[i]
  <2>1. 1 \in Int /\ a \in Int /\ \A i \in 1 .. a : s[i] \in V
    BY <1>0
  <2>2. /\ x \in Seq(V)
        /\ Len(x) = IF 1 <= a THEN a - 1 + 1 ELSE 0
        /\ \A i \in 1 .. a - 1 + 1 : x[i] = s[1 + i - 1]
    BY <2>1, SubSeqProperties
  <2> QED
    BY <2>2
<1>2. z \in Seq(V) /\ Len(z) = b /\ \A i \in 1 .. b : z[i] = s[i]
  <2>1. 1 \in Int /\ b \in Int /\ \A i \in 1 .. b : s[i] \in V
    BY <1>0
  <2>2. /\ z \in Seq(V)
        /\ Len(z) = IF 1 <= b THEN b - 1 + 1 ELSE 0
        /\ \A i \in 1 .. b - 1 + 1 : z[i] = s[1 + i - 1]
    BY <2>1, SubSeqProperties
  <2> QED
    BY <2>2
<1>3. y \in Seq(V) /\ Len(y) = b - a /\ \A i \in 1 .. b - a : y[i] = s[a + i]
  <2>1. a + 1 \in Int /\ b \in Int /\ \A i \in a + 1 .. b : s[i] \in V
    BY <1>0
  <2>2. /\ y \in Seq(V)
        /\ Len(y) = IF a + 1 <= b THEN b - (a + 1) + 1 ELSE 0
        /\ \A i \in 1 .. b - (a + 1) + 1 : y[i] = s[(a + 1) + i - 1]
    BY <2>1, SubSeqProperties
  <2> QED
    BY <2>2
<1> HIDE DEF x, y, z
<1>4. /\ x \o y \in Seq(V) /\ Len(x \o y) = a + (b - a)
      /\ \A n \in 1 .. a + (b - a) : (x \o y)[n] = IF n <= a THEN x[n] ELSE y[n - a]
  BY <1>1, <1>3, ConcatProperties
<1>5. Len(x \o y) = Len(z)
  BY <1>2, <1>4
<1>6. ASSUME NEW n \in 1 .. Len(z) PROVE z[n] = (x \o y)[n]
  <2>1. n \in 1 .. b /\ n \in 1 .. a + (b - a) /\ (n <= a \/ a < n)
    BY <1>2
  <2>0. z[n] = s[n]
    BY <1>2, <2>1
  <2>2. CASE n <= a
    <3>1. n \in 1 .. a
      BY <2>1, <2>2
    <3>2. (x \o y)[n] = x[n]
      BY <1>4, <2>1, <2>2
    <3>3. x[n] = s[n]
      BY <1>1, <3>1
    <3> QED
      BY <2>0, <3>2, <3>3
  <2>3. CASE a < n
    <3>1. n - a \in 1 .. b - a /\ a + (n - a) = n /\ ~ n <= a
      BY <2>1, <2>3
    <3>2. (x \o y)[n] = y[n - a]
      BY <1>4, <2>1, <3>1
    <3>3. y[n - a] = s[a + (n - a)]
      BY <1>3, <3>1
    <3> QED
      BY <2>0, <3>1, <3>2, <3>3
  <2> QED
    BY <2>1, <2>2, <2>3
<1>7. x \o y = z
  BY <1>2, <1>4, <1>5, <1>6, SeqEqual
<1> QED
  BY <1>3, <1>7 DEF x, y, z

\* How many pieces of M characters L characters make.
LEMMA PieceCount ==
  ASSUME NEW L \in Nat, NEW M \in Nat \ {0}, NEW P, P = (L + M - 1) \div M
  PROVE  /\ P \in Nat /\ L <= P * M
         /\ \A p \in 1 .. P : (p - 1) * M \in Nat /\ (p - 1) * M < L /\ p * M = (p - 1) * M + M
<1>1. P \in Int /\ M * P <= L + M - 1 /\ L + M - 1 < M * (P + 1)
  OBVIOUS
<1>2. M * (P + 1) = M * P + M
  BY <1>1
<1>3. L <= P * M
  BY <1>1, <1>2
<1>4. P >= 0
  <2> SUFFICES ASSUME P <= -1 PROVE FALSE
    BY <1>1
  <2>1. M * P <= M * (-1)
    BY <1>1
  <2> QED
    BY <1>3, <2>1
<1>5. ASSUME NEW p \in 1 .. P
      PROVE  (p - 1) * M \in Nat /\ (p - 1) * M < L /\ p * M = (p - 1) * M + M
  <2>1. p \in Int /\ p - 1 \in Nat /\ P - p \in Nat
    BY <1>1
  <2>2. p * M = (p - 1) * M + M
    BY <2>1
  <2>3. (p - 1) * M \in Nat
    BY <2>1
  <2>4. (P - p) * M \in Nat /\ P * M = p * M + (P - p) * M
    BY <1>1, <2>1
  <2>5. M * P = P * M /\ P * M \in Int /\ p * M \in Int
    BY <1>1, <2>1
  <2> QED
    BY <1>1, <2>2, <2>3, <2>4, <2>5
<1> QED
  BY <1>1, <1>3, <1>4, <1>5

-----------------------------------------------------------------------------
Chunk == [path : Seq(Nat), content : Seq(Char)]
Contents(chunks) == [k \in DOMAIN chunks |-> chunks[k].content]

\* One chunk's content is a part of the list, and all together are the list.
AreSplit(chunks, chars, path) ==
  /\ chunks \in Seq(Chunk)
  /\ Joined(Contents(chunks)) = chars
  /\ \A k \in DOMAIN chunks :
       /\ chunks[k].path = path
       /\ Len(chunks[k].content) <= MaxChunk
       /\ \A n \in DOMAIN chunks[k].content :
            \E m \in DOMAIN chars : chunks[k].content[n] = chars[m]

LEMMA SplitOfShort ==
  ASSUME NEW chars \in Seq(Char), NEW path \in Seq(Nat), Len(chars) <= MaxChunk
  PROVE  AreSplit(SplitLong(chars, path), chars, path)
<1> DEFINE c == [path |-> path, content |-> chars]
           r == SplitLong(chars, path)
<1>1. r = << c >>
  BY DEF SplitLong
<1>2. c \in Chunk /\ c.path = path /\ c.content = chars
  BY DEF Chunk
<1> HIDE DEF c, r
<1>3. r \in Seq(Chunk) /\ DOMAIN r = {1} /\ r[1] = c
  BY <1>1, <1>2, Singles
<1>4. Joined(Contents(r)) = chars
  <2> DEFINE t == Contents(r)
  <2>1. t = [k \in {1} |-> c.content]
    BY <1>3 DEF Contents
  <2>2. t = << chars >>
    BY <1>2, <2>1
  <2>3. << chars >> = Append(<<>>, chars)
    OBVIOUS
  <2>4. <<>> \in Seq(Seq(Char))
    BY EmptySeq
  <2>5. Joined(Append(<<>>, chars)) = Joined(<<>>) \o chars
    <3> DEFINE V == Seq(Char)
    <3>1. chars \in V /\ <<>> \in Seq(V)
      BY <2>4
    <3> HIDE DEF V
    <3> QED
      BY <3>1, JoinedAppend
  <2>6. <<>> \o chars = chars
    BY ConcatEmptySeq
  <2> QED
    BY <2>2, <2>3, <2>5, <2>6, JoinedEmpty
<1>5. ASSUME NEW k \in DOMAIN r
      PROVE  /\ r[k].path = path
             /\ Len(r[k].content) <= MaxChunk
             /\ \A n \in DOMAIN r[k].content : \E m \in DOMAIN chars : r[k].content[n] = chars[m]
  <2>1. r[k].path = path /\ r[k].content = chars
    BY <1>2, <1>3
  <2> QED
    BY <2>1
<1>6. AreSplit(r, chars, path)
  BY <1>3, <1>4, <1>5 DEF AreSplit
<1> QED
  BY <1>6 DEF r

LEMMA SplitOfLong ==
  ASSUME NEW chars \in Seq(Char), NEW path \in Seq(Nat), MaxChunk < Len(chars)
  PROVE  AreSplit(SplitLong(chars, path), chars, path)
<1> DEFINE L == Len(chars)
           M == MaxChunk
           P == (L + M - 1) \div M
           end(p) == IF p * M < L THEN p * M ELSE L
           part(p) == SubSeq(chars, (p - 1) * M + 1, end(p))
           r == SplitLong(chars, path)
           ss == Contents(r)
<1>1. L \in Nat /\ M \in Nat \ {0}
  BY LenProperties, ChunkingAssumption
<1>2. /\ P \in Nat /\ L <= P * M
      /\ \A p \in 1 .. P : (p - 1) * M \in Nat /\ (p - 1) * M < L /\ p * M = (p - 1) * M + M
  <2> HIDE DEF L, M
  <2> QED
    BY <1>1, PieceCount
<1>3. r = [p \in 1 .. P |-> [path |-> path, content |-> part(p)]]
  <2>1. ~ L <= M
    BY <1>1
  <2> QED
    BY <2>1 DEF SplitLong
<1> HIDE DEF P, r, L, M
<1>4. ASSUME NEW p \in 1 .. P
      PROVE  /\ (p - 1) * M \in Nat /\ end(p) \in Nat
             /\ (p - 1) * M <= end(p) /\ end(p) <= L /\ end(p) - (p - 1) * M <= M
  BY <1>1, <1>2
<1> HIDE DEF end
<1>5. ASSUME NEW p \in 1 .. P
      PROVE  /\ SubSeq(chars, 1, (p - 1) * M) \o part(p) = SubSeq(chars, 1, end(p))
             /\ part(p) \in Seq(Char) /\ Len(part(p)) <= M
             /\ \A n \in DOMAIN part(p) : \E m \in DOMAIN chars : part(p)[n] = chars[m]
  <2> DEFINE a == (p - 1) * M
             b == end(p)
  <2>1. a \in Nat /\ b \in Nat /\ a <= b /\ b <= Len(chars) /\ b - a <= M
    BY <1>4 DEF L
  <2>2. part(p) = SubSeq(chars, a + 1, b)
    OBVIOUS
  <2> HIDE DEF a, b, part
  <2>3. /\ SubSeq(chars, 1, a) \o SubSeq(chars, a + 1, b) = SubSeq(chars, 1, b)
        /\ SubSeq(chars, a + 1, b) \in Seq(Char)
        /\ Len(SubSeq(chars, a + 1, b)) = b - a
        /\ \A i \in 1 .. b - a : SubSeq(chars, a + 1, b)[i] = chars[a + i]
    BY <2>1, SubSeqsJoin
  <2>4. DOMAIN part(p) = 1 .. b - a /\ DOMAIN chars = 1 .. Len(chars)
    BY <2>2, <2>3, LenProperties
  <2>5. \A n \in 1 .. b - a : a + n \in 1 .. Len(chars)
    BY <2>1, <1>1 DEF L
  <2>6. \A n \in DOMAIN part(p) : \E m \in DOMAIN chars : part(p)[n] = chars[m]
    BY <2>2, <2>3, <2>4, <2>5
  <2> QED
    BY <2>1, <2>2, <2>3, <2>6 DEF a, b
<1> HIDE DEF part
<1>6. \A p \in 1 .. P : [path |-> path, content |-> part(p)] \in Chunk
  BY <1>5 DEF Chunk
<1>7. r \in Seq(Chunk) /\ DOMAIN r = 1 .. P
  <2>1. r \in [1 .. P -> Chunk]
    BY <1>3, <1>6
  <2> QED
    BY <1>2, <2>1, FunctionIsSeq
<1>8. /\ DOMAIN ss = 1 .. P /\ \A p \in 1 .. P : ss[p] = part(p)
      /\ Len(ss) = P
  <2>1. ss = [p \in 1 .. P |-> part(p)]
    BY <1>3, <1>7 DEF Contents
  <2>2. ss \in [1 .. P -> Seq(Char)]
    BY <1>5, <2>1
  <2>3. Len(ss) = P
    <3> HIDE DEF ss
    <3> QED
      BY <1>2, <2>2, FunctionIsSeq
  <2> QED
    BY <2>1, <2>3
<1> HIDE DEF ss
<1> DEFINE T == {n \in Nat : n <= P => Upto(ss, P)[n] = SubSeq(chars, 1, IF n * M < L THEN n * M ELSE L)}
<1>9. 0 \in T
  <2>1. Upto(ss, P)[0] = <<>>
    BY <1>2, UptoDef
  <2>2. 0 * M = 0 /\ (IF 0 * M < L THEN 0 * M ELSE L) = 0
    BY <1>1
  <2>3. SubSeq(chars, 1, 0) = <<>>
    BY SubSeqEmpty
  <2> QED
    BY <2>1, <2>2, <2>3
<1>10. ASSUME NEW n \in Nat, n \in T PROVE n + 1 \in T
  <2> SUFFICES ASSUME n + 1 <= P
               PROVE  Upto(ss, P)[n + 1] = SubSeq(chars, 1, end(n + 1))
    BY DEF end
  <2>1. n + 1 \in 1 .. P /\ (n + 1) - 1 = n /\ n <= P
    BY <1>2
  <2>2. Upto(ss, P)[n + 1] = Upto(ss, P)[n] \o ss[n + 1]
    <3>1. \A i \in 1 .. P : Upto(ss, P)[i] = Upto(ss, P)[i - 1] \o ss[i]
      BY <1>2, UptoDef
    <3> QED
      BY <2>1, <3>1
  <2>3. n * M < L
    BY <1>2, <2>1
  <2>4. Upto(ss, P)[n] = SubSeq(chars, 1, n * M)
    BY <1>10, <2>1, <2>3
  <2>5. SubSeq(chars, 1, ((n + 1) - 1) * M) \o part(n + 1) = SubSeq(chars, 1, end(n + 1))
    BY <1>5, <2>1
  <2>6. ss[n + 1] = part(n + 1)
    BY <1>8, <2>1
  <2> QED
    BY <2>1, <2>2, <2>4, <2>5, <2>6
<1>11. P \in T
  <2> HIDE DEF T
  <2> QED
    BY <1>2, <1>9, <1>10, SetInduction
<1>12. Upto(ss, P)[P] = SubSeq(chars, 1, L)
  <2>1. P * M \in Int /\ L \in Int /\ P <= P
    BY <1>1, <1>2
  <2>2. (IF P * M < L THEN P * M ELSE L) = L
    BY <1>2, <2>1
  <2> QED
    BY <1>11, <2>1, <2>2
<1>13. SubSeq(chars, 1, L) = chars
  BY SubSeqFull DEF L
<1>14. Joined(ss) = chars
  BY <1>8, <1>12, <1>13, JoinedIsUpto
<1>15. \A k \in DOMAIN r : r[k].path = path /\ r[k].content = part(k)
  BY <1>3, <1>7
<1>16. AreSplit(r, chars, path)
  BY <1>5, <1>7, <1>14, <1>15 DEF AreSplit, ss, M
<1> QED
  BY <1>16 DEF r

\* _split_long loses nothing and its pieces fit.
LEMMA SplitSplits ==
  ASSUME NEW chars \in Seq(Char), NEW path \in Seq(Nat)
  PROVE  AreSplit(SplitLong(chars, path), chars, path)
<1>1. Len(chars) \in Nat /\ MaxChunk \in Nat
  BY LenProperties, ChunkingAssumption
<1>2. Len(chars) <= MaxChunk \/ MaxChunk < Len(chars)
  BY <1>1
<1> QED
  BY <1>2, SplitOfShort, SplitOfLong

\* One more position, after the ones already kept.
LEMMA KeptAppend ==
  ASSUME NEW V, NEW s \in Seq(V), NEW K \in SUBSET DOMAIN s, NEW i \in DOMAIN s,
         \A k \in K : k < i
  PROVE  Append(Kept(s, K), s[i]) = Kept(s, K \cup {i})
<1> DEFINE t == Kept(s, K)
           l == Ascending(K)
           c == Len(t)
           J == K \cup {i}
           g == [n \in 1 .. c + 1 |-> IF n <= c THEN l[n] ELSE i]
           u == Append(t, s[i])
           w == Kept(s, J)
<1>0. Len(s) \in Nat /\ DOMAIN s = 1 .. Len(s) /\ s \in [1 .. Len(s) -> V]
  BY LenProperties
<1>1. /\ t \in Seq(V) /\ c \in Nat /\ DOMAIN t = 1 .. c
      /\ l \in [1 .. c -> K]
      /\ \A n \in 1 .. c : t[n] = s[l[n]]
      /\ \A k \in K : \E n \in 1 .. c : l[n] = k
      /\ \A m, n \in 1 .. c : m < n => l[m] < l[n]
  <2>1. /\ t \in Seq(V) /\ Len(t) \in Nat /\ DOMAIN t = 1 .. Len(t)
        /\ l \in [DOMAIN t -> K]
        /\ \A n \in DOMAIN t : t[n] = s[l[n]]
        /\ \A k \in K : \E n \in DOMAIN t : l[n] = k
        /\ \A m, n \in DOMAIN t : m < n => l[m] < l[n]
    BY KeptKeeps
  <2> HIDE DEF t, l
  <2> QED
    BY <2>1
<1>2. J \in SUBSET DOMAIN s
  OBVIOUS
<1>3. IsFiniteSet(J) /\ J \in SUBSET Int
  <2> HIDE DEF J
  <2> QED
    BY <1>0, <1>2, KeptKeeps
<1> HIDE DEF t, l, c
<1>4. g \in [1 .. c + 1 -> J]
  BY <1>1
<1>5. \A j \in J : \E n \in 1 .. c + 1 : g[n] = j
  <2>1. c + 1 \in 1 .. c + 1 /\ g[c + 1] = i
    BY <1>1
  <2>2. \A k \in K : \E n \in 1 .. c + 1 : g[n] = k
    <3> SUFFICES ASSUME NEW k \in K PROVE \E n \in 1 .. c + 1 : g[n] = k
      OBVIOUS
    <3>1. PICK n \in 1 .. c : l[n] = k
      BY <1>1
    <3>2. n \in 1 .. c + 1 /\ g[n] = k
      BY <1>1, <3>1
    <3> QED
      BY <3>2
  <2> QED
    BY <2>1, <2>2
<1>6. \A m, n \in 1 .. c + 1 : m < n => g[m] < g[n]
  <2> SUFFICES ASSUME NEW m \in 1 .. c + 1, NEW n \in 1 .. c + 1, m < n
               PROVE  g[m] < g[n]
    OBVIOUS
  <2>1. m \in 1 .. c /\ (n \in 1 .. c \/ n = c + 1)
    BY <1>1
  <2>2. g[m] = l[m] /\ l[m] \in K
    BY <1>1, <2>1
  <2>3. CASE n \in 1 .. c
    <3>1. g[n] = l[n]
      BY <1>1, <2>3
    <3> QED
      BY <1>1, <2>1, <2>2, <2>3, <3>1
  <2>4. CASE n = c + 1
    <3>1. g[n] = i
      BY <1>1, <2>4
    <3> QED
      BY <2>2, <3>1
  <2> QED
    BY <2>1, <2>3, <2>4
<1>7. c + 1 = Cardinality(J) /\ g = Ascending(J)
  <2>1. c + 1 \in Nat
    BY <1>1
  <2> DEFINE k == c + 1
  <2> HIDE DEF g, J, k
  <2>2. k = Cardinality(J) /\ g = Ascending(J)
    BY <1>3, <1>4, <1>5, <1>6, <2>1, AscendingIsOnly DEF k
  <2> QED
    BY <2>2 DEF k
<1> HIDE DEF J
<1>8. /\ w \in Seq(V) /\ Len(w) = c + 1
      /\ \A n \in 1 .. c + 1 : w[n] = s[g[n]]
  <2>1. w \in Seq(V) /\ Len(w) = Cardinality(J) /\ DOMAIN w = 1 .. Len(w)
        /\ \A n \in DOMAIN w : w[n] = s[Ascending(J)[n]]
    BY <1>2, KeptKeeps
  <2> HIDE DEF g, w
  <2> QED
    BY <1>7, <2>1
<1>9. s[i] \in V
  BY <1>0
<1>10. u \in Seq(V) /\ Len(u) = c + 1 /\ u[c + 1] = s[i] /\ \A n \in 1 .. c : u[n] = t[n]
  BY <1>1, <1>9, AppendProperties DEF c
<1> HIDE DEF u, w
<1>11. ASSUME NEW n \in 1 .. Len(u) PROVE u[n] = w[n]
  <2>1. n \in 1 .. c + 1 /\ (n \in 1 .. c \/ n = c + 1)
    BY <1>1, <1>10
  <2>2. CASE n \in 1 .. c
    <3>1. g[n] = l[n]
      BY <1>1, <2>1, <2>2
    <3> HIDE DEF g
    <3> QED
      BY <1>1, <1>8, <1>10, <2>1, <2>2, <3>1
  <2>3. CASE n = c + 1
    <3>1. g[n] = i
      BY <1>1, <2>1, <2>3
    <3> HIDE DEF g
    <3> QED
      BY <1>8, <1>10, <2>1, <2>3, <3>1
  <2> QED
    BY <2>1, <2>2, <2>3
<1>12. u = w
  BY <1>8, <1>10, <1>11, SeqEqual
<1> QED
  BY <1>12 DEF u, w, t, J

\* Keeping twice.
LEMMA KeptOfKept ==
  ASSUME NEW V, NEW s \in Seq(V), NEW K \in SUBSET DOMAIN s, NEW S \in SUBSET K,
         NEW L \in SUBSET DOMAIN Kept(s, K),
         \A n \in DOMAIN Kept(s, K) : n \in L <=> Ascending(K)[n] \in S
  PROVE  Kept(Kept(s, K), L) = Kept(s, S)
<1> DEFINE t == Kept(s, K)
           at == Ascending(K)
<1>1. /\ t \in Seq(V) /\ at \in [DOMAIN t -> K]
      /\ \A n \in DOMAIN t : t[n] = s[at[n]]
      /\ \A k \in K : \E n \in DOMAIN t : at[n] = k
      /\ \A m, n \in DOMAIN t : m < n => at[m] < at[n]
  BY KeptKeeps
<1>2. \A n \in DOMAIN t : n \in L <=> at[n] \in S
  OBVIOUS
<1>3. L \in SUBSET DOMAIN t
  OBVIOUS
<1> HIDE DEF t, at
<1>4. S \in SUBSET DOMAIN s
  OBVIOUS
<1>5. Embeds(at, t, s)
  <2>1. at \in [DOMAIN t -> DOMAIN s]
    BY <1>1
  <2> QED
    BY <1>1, <2>1 DEF Embeds
<1>6. Carries(at, t, L, S)
  BY <1>1, <1>2 DEF Carries
<1>7. Kept(t, L) = Kept(s, S)
  BY <1>1, <1>3, <1>4, <1>5, <1>6, KeptOfPart
<1> QED
  BY <1>7 DEF t

-----------------------------------------------------------------------------
\* The headings up to line i, and those of them that no later one closes.
Above(body, i) == {j \in HeadingLines(body) : j <= i}
Open(body, i) ==
  {j \in Above(body, i) : \A k \in Above(body, i) : k > j => body[k].level > body[j].level}

\* What the stack would hold of each line.
Entries(body) == [k \in DOMAIN body |-> Entry(body, k)]
EntryOf(body) == {Entry(body, k) : k \in DOMAIN body}

LEMMA EntriesType ==
  ASSUME NEW body \in Seq(Line)
  PROVE  /\ Entries(body) \in Seq(EntryOf(body))
         /\ DOMAIN Entries(body) = 1 .. Len(body)
         /\ \A k \in 1 .. Len(body) :
              Entries(body)[k] = [level |-> body[k].level, title |-> TitleLine(body, k)]
<1> DEFINE V == EntryOf(body)
<1>1. Len(body) \in Nat /\ DOMAIN body = 1 .. Len(body)
  BY LenProperties
<1>2. \A k \in 1 .. Len(body) : Entry(body, k) \in V
  BY <1>1 DEF EntryOf
<1>3. Entries(body) = [k \in 1 .. Len(body) |-> Entry(body, k)]
  BY <1>1 DEF Entries
<1> HIDE DEF V
<1>4. Entries(body) \in [1 .. Len(body) -> V]
  BY <1>2, <1>3
<1>5. Entries(body) \in Seq(V) /\ DOMAIN Entries(body) = 1 .. Len(body)
  BY <1>1, <1>4, FunctionIsSeq
<1>6. \A k \in 1 .. Len(body) :
        Entries(body)[k] = [level |-> body[k].level, title |-> TitleLine(body, k)]
  BY <1>3 DEF Entry
<1> QED
  BY <1>5, <1>6 DEF V

LEMMA OutlineIs ==
  ASSUME NEW body \in Seq(Line), NEW i
  PROVE  LET t == Kept(Entries(body), Open(body, i))
         IN /\ Outline(body, i) = [n \in DOMAIN t |-> t[n].title]
            /\ Outline(body, i) \in Seq(Nat)
            /\ Open(body, i) \in SUBSET DOMAIN Entries(body)
<1> DEFINE s == Entries(body)
           V == EntryOf(body)
           K == Open(body, i)
           t == Kept(s, K)
           at == Ascending(K)
           o == Outline(body, i)
<1>0. s \in Seq(V) /\ DOMAIN s = 1 .. Len(body)
      /\ \A k \in 1 .. Len(body) : s[k] = [level |-> body[k].level, title |-> TitleLine(body, k)]
  BY EntriesType
<1> HIDE DEF s, V
<1>1. K \in SUBSET DOMAIN s
  BY <1>0 DEF Open, Above, HeadingLines
<1>2. o = [n \in 1 .. Cardinality(K) |-> TitleLine(body, at[n])]
  BY DEF Outline, Open, Above
<1> HIDE DEF K
<1>3. /\ Len(t) = Cardinality(K) /\ Cardinality(K) \in Nat /\ DOMAIN t = 1 .. Len(t)
      /\ at \in [DOMAIN t -> K]
      /\ \A n \in DOMAIN t : t[n] = s[at[n]]
  BY <1>0, <1>1, KeptKeeps
<1> HIDE DEF t, at, o
<1>4. \A n \in DOMAIN t : t[n].title = TitleLine(body, at[n]) /\ t[n].title \in Nat
  <2> SUFFICES ASSUME NEW n \in DOMAIN t
               PROVE  t[n].title = TitleLine(body, at[n]) /\ t[n].title \in Nat
    OBVIOUS
  <2>1. at[n] \in 1 .. Len(body) /\ t[n] = s[at[n]]
    BY <1>0, <1>1, <1>3
  <2>2. t[n].title = TitleLine(body, at[n])
    BY <1>0, <2>1
  <2>3. TitleLine(body, at[n]) \in Nat
    BY <2>1, TitleLineType
  <2> QED
    BY <2>2, <2>3
<1>5. o = [n \in DOMAIN t |-> t[n].title]
  BY <1>2, <1>3, <1>4
<1>6. o \in [1 .. Cardinality(K) -> Nat]
  BY <1>3, <1>4, <1>5
<1>7. o \in Seq(Nat)
  BY <1>3, <1>6, FunctionIsSeq
<1> QED
  BY <1>1, <1>5, <1>7 DEF K, o, t, s

\* The stack of the loop holds the open headings: pushing a heading of line i
\* closes those of its level and deeper ones.
LEMMA PushOpens ==
  ASSUME NEW body \in Seq(Line), NEW i \in HeadingLines(body)
  PROVE  PushHeading(Kept(Entries(body), Open(body, i - 1)), Entry(body, i))
           = Kept(Entries(body), Open(body, i))
<1> DEFINE s == Entries(body)
           V == EntryOf(body)
           K == Open(body, i - 1)
           t == Kept(s, K)
           at == Ascending(K)
           S == {k \in K : body[k].level < body[i].level}
           L == {n \in DOMAIN t : t[n].level < Entry(body, i).level}
<1>0. /\ Len(body) \in Nat /\ DOMAIN body = 1 .. Len(body) /\ body \in [1 .. Len(body) -> Line]
      /\ i \in 1 .. Len(body)
  BY LenProperties DEF HeadingLines
<1>8. /\ s \in Seq(V) /\ DOMAIN s = 1 .. Len(body)
      /\ \A k \in 1 .. Len(body) : s[k] = [level |-> body[k].level, title |-> TitleLine(body, k)]
  BY EntriesType
<1>9. s[i] = Entry(body, i) /\ Entry(body, i).level = body[i].level
  BY <1>0, <1>8 DEF Entry
<1> HIDE DEF s, V
<1>1. K \in SUBSET DOMAIN s /\ \A k \in K : k < i
  <2>1. K \subseteq {j \in HeadingLines(body) : j <= i - 1} /\ HeadingLines(body) \subseteq 1 .. Len(body)
    BY DEF Open, Above, HeadingLines
  <2> HIDE DEF K
  <2> QED
    BY <1>0, <1>8, <2>1
<1>2. Open(body, i) = S \cup {i}
  <2>1. \A j \in HeadingLines(body) : j \in 1 .. Len(body) /\ body[j].level \in Nat
    <3> SUFFICES ASSUME NEW j \in HeadingLines(body)
                 PROVE  j \in 1 .. Len(body) /\ body[j].level \in Nat
      OBVIOUS
    <3>1. j \in 1 .. Len(body) /\ Marked(body[j]) /\ body[j] \in Line
      BY <1>0 DEF HeadingLines
    <3> QED
      BY <3>1, LineKinds
  <2>2. Above(body, i) = Above(body, i - 1) \cup {i}
    <3> DEFINE H == HeadingLines(body)
    <3>1. \A j \in H : j <= i <=> j <= i - 1 \/ j = i
      BY <1>0, <2>1
    <3>2. i \in H /\ i <= i
      BY <1>0
    <3> QED
      BY <3>1, <3>2 DEF Above
  <2>3. \A j \in Above(body, i - 1) : j < i /\ j \in Int
    BY <1>0, <2>1 DEF Above
  <2>4. i \in Int
    BY <1>0
  <2>5. \A k \in Above(body, i) : ~ k > i
    BY <2>2, <2>3, <2>4
  <2>6. ASSUME NEW j \in Above(body, i - 1)
        PROVE  j \in Open(body, i) <=> j \in S
    BY <2>2, <2>3, <2>4, <2>6 DEF Open
  <2>7. i \in Open(body, i)
    BY <2>2, <2>5 DEF Open
  <2>8. S \subseteq Above(body, i - 1) /\ Open(body, i) \subseteq Above(body, i)
    BY DEF Open
  <2> QED
    BY <2>2, <2>6, <2>7, <2>8
<1> HIDE DEF K
<1>3. /\ t \in Seq(V) /\ DOMAIN t = 1 .. Len(t) /\ Len(t) \in Nat
      /\ at \in [DOMAIN t -> K]
      /\ \A n \in DOMAIN t : t[n] = s[at[n]]
      /\ \A k \in K : \E n \in DOMAIN t : at[n] = k
      /\ \A m, n \in DOMAIN t : m < n => at[m] < at[n]
  BY <1>1, <1>8, KeptKeeps
<1> HIDE DEF t, at
<1>4. Kept(t, L) = Kept(s, S)
  <2>1. S \in SUBSET K /\ L \in SUBSET DOMAIN t
    OBVIOUS
  <2>2. ASSUME NEW n \in DOMAIN t PROVE n \in L <=> at[n] \in S
    <3>1. at[n] \in K /\ at[n] \in 1 .. Len(body) /\ t[n] = s[at[n]]
      BY <1>1, <1>3, <1>8
    <3>2. t[n].level = body[at[n]].level
      BY <1>8, <3>1
    <3> QED
      BY <1>9, <3>1, <3>2
  <2> HIDE DEF S, L
  <2> QED
    BY <1>1, <1>8, <2>1, <2>2, KeptOfKept DEF t, at
<1>5. PushHeading(t, s[i]) = Append(Kept(t, L), s[i])
  BY <1>9 DEF PushHeading
<1>6. S \in SUBSET DOMAIN s /\ (\A k \in S : k < i) /\ i \in DOMAIN s
  BY <1>0, <1>1, <1>8
<1>7. Append(Kept(s, S), s[i]) = Kept(s, S \cup {i})
  <2> HIDE DEF S
  <2> QED
    BY <1>6, <1>8, KeptAppend
<1> QED
  BY <1>2, <1>4, <1>5, <1>7, <1>9 DEF t, K, s

-----------------------------------------------------------------------------
\* A section ends before the next heading, or with the body.
LEMMA SectionEndIs ==
  ASSUME NEW body \in Seq(Line), NEW i \in 0 .. Len(body)
  PROVE  LET e == SectionEnd(body, i)
         IN /\ e \in i .. Len(body)
            /\ \A j \in HeadingLines(body) : j <= i \/ e < j
            /\ e = Len(body) \/ e + 1 \in HeadingLines(body)
<1> DEFINE e == SectionEnd(body, i)
           H == HeadingLines(body)
<1>0. Len(body) \in Nat
  BY LenProperties
<1>1. H \in SUBSET (1 .. Len(body))
  BY DEF HeadingLines
<1>2. CASE ~\E j \in H : j > i
  <2>1. e = Len(body)
    BY <1>2 DEF SectionEnd
  <2> QED
    BY <1>0, <1>1, <1>2, <2>1
<1>3. CASE \E j \in H : j > i
  <2> DEFINE N == {j \in H : j > i}
             j0 == CHOOSE j \in H : j > i /\ \A k \in H : k > i => j <= k
  <2>1. \E j \in N : \A k \in N : j <= k
    <3>1. N \in SUBSET Int /\ N # {}
      BY <1>1, <1>3
    <3>2. IsFiniteSet(N)
      <4>1. N \in SUBSET (1 .. Len(body)) /\ IsFiniteSet(1 .. Len(body))
        BY <1>0, <1>1, FirstNumbers
      <4> QED
        BY <4>1, FS_Subset
    <3> HIDE DEF N
    <3> QED
      BY <3>1, <3>2, Smallest
  <2>2. \E j \in H : j > i /\ \A k \in H : k > i => j <= k
    BY <2>1
  <2>3. j0 \in H /\ j0 > i /\ \A k \in H : k > i => j0 <= k
    <3> HIDE DEF H
    <3> QED
      BY <2>2
  <2>4. e = j0 - 1
    BY <1>3 DEF SectionEnd
  <2> HIDE DEF j0, e
  <2>5. j0 \in 1 .. Len(body)
    BY <1>1, <2>3
  <2>6. e \in i .. Len(body) /\ e + 1 = j0
    BY <1>0, <2>3, <2>4, <2>5
  <2>7. ASSUME NEW j \in H PROVE j <= i \/ e < j
    <3>1. j \in Int /\ (j > i => j0 <= j)
      BY <1>1, <2>3
    <3> QED
      BY <1>0, <2>4, <2>5, <3>1
  <2> QED
    BY <2>3, <2>6, <2>7 DEF e
<1> QED
  BY <1>2, <1>3

\* Every section but the last ends where the next begins.
LEMMA SectionEndNext ==
  ASSUME NEW body \in Seq(Line), NEW i \in 1 .. Len(body)
  PROVE  SectionEnd(body, i - 1) = IF i \in HeadingLines(body) THEN i - 1 ELSE SectionEnd(body, i)
<1> DEFINE d == SectionEnd(body, i - 1)
           e == SectionEnd(body, i)
           H == HeadingLines(body)
<1>0. Len(body) \in Nat /\ i - 1 \in 0 .. Len(body) /\ i \in 0 .. Len(body)
  BY LenProperties
<1>1. /\ d \in i - 1 .. Len(body) /\ \A j \in H : j <= i - 1 \/ d < j
      /\ d = Len(body) \/ d + 1 \in H
  BY <1>0, SectionEndIs
<1>2. /\ e \in i .. Len(body) /\ \A j \in H : j <= i \/ e < j
      /\ e = Len(body) \/ e + 1 \in H
  BY <1>0, SectionEndIs
<1>3. H \in SUBSET (1 .. Len(body))
  BY DEF HeadingLines
<1> HIDE DEF d, e, H
<1>4. CASE i \in H
  <2>1. d < i
    BY <1>0, <1>1, <1>4
  <2> QED
    BY <1>1, <1>4, <2>1 DEF d, H
<1>5. CASE i \notin H
  <2>1. d >= i
    BY <1>0, <1>1, <1>5
  <2>2. d <= e
    <3>1. e = Len(body) \/ d < e + 1
      BY <1>0, <1>1, <1>2
    <3> QED
      BY <1>0, <1>1, <1>2, <3>1
  <2>3. e <= d
    <3>1. d = Len(body) \/ e < d + 1
      BY <1>0, <1>1, <1>2, <2>1
    <3> QED
      BY <1>0, <1>1, <1>2, <3>1
  <2>4. d = e
    BY <1>1, <1>2, <2>2, <2>3
  <2> QED
    BY <1>5, <2>4 DEF d, e, H
<1> QED
  BY <1>4, <1>5

\* The loop of chunk_markdown, line by line.
Turns(body, n, g) ==
  [i \in 0 .. n |->
     IF i = 0 THEN [stack |-> <<>>, chunks |-> <<>>]
     ELSE IF i \in HeadingLines(body) THEN Section(body, g[i - 1], i)
     ELSE g[i - 1]]
Loop(body) == CHOOSE g : g = Turns(body, Len(body), g)

LEMMA ChunksAreLoop ==
  ASSUME NEW body, HeadingLines(body) # {}
  PROVE  ChunkMarkdown(body) = Loop(body)[Len(body)].chunks
BY DEF ChunkMarkdown, Loop, Turns

\* The loop follows its recursion: there is a function that does.
LEMMA TurnsExist ==
  ASSUME NEW n \in Nat, NEW body
  PROVE  \E g : g = Turns(body, n, g)
<1> DEFINE T == {m \in Nat : \E g : g = Turns(body, m, g)}
           Turn(i, x) == IF i \in HeadingLines(body) THEN Section(body, x, i) ELSE x
<1>0. ASSUME NEW m, NEW g
      PROVE  Turns(body, m, g) =
               [i \in 0 .. m |-> IF i = 0 THEN [stack |-> <<>>, chunks |-> <<>>] ELSE Turn(i, g[i - 1])]
  BY DEF Turns
<1> HIDE DEF Turn
<1>1. 0 \in T
  <2> DEFINE g == [i \in 0 .. 0 |-> [stack |-> <<>>, chunks |-> <<>>]]
  <2>1. g = Turns(body, 0, g)
    BY DEF Turns
  <2> HIDE DEF g
  <2> QED
    BY <2>1
<1>2. ASSUME NEW m \in Nat, m \in T
      PROVE  m + 1 \in T
  <2>1. PICK g : g = Turns(body, m, g)
    BY <1>2
  <2> DEFINE h == [i \in 0 .. m + 1 |-> IF i <= m THEN g[i] ELSE Turn(m + 1, g[m])]
             k == Turns(body, m + 1, h)
  <2>2. \A i \in 0 .. m : g[i] = IF i = 0 THEN [stack |-> <<>>, chunks |-> <<>>] ELSE Turn(i, g[i - 1])
    BY <1>0, <2>1
  <2>3. DOMAIN k = 0 .. m + 1 /\
        \A i \in 0 .. m + 1 : k[i] = IF i = 0 THEN [stack |-> <<>>, chunks |-> <<>>] ELSE Turn(i, h[i - 1])
    <3> HIDE DEF h
    <3> QED
      BY <1>0
  <2>4. ASSUME NEW i \in 0 .. m + 1
        PROVE  h[i] = k[i]
    <3>1. CASE i = 0
      <4>1. h[0] = g[0]
        OBVIOUS
      <4> HIDE DEF h, k
      <4> QED
        BY <2>2, <2>3, <3>1, <4>1
    <3>2. CASE i \in 1 .. m
      <4>1. i \in 0 .. m /\ i # 0 /\ i - 1 \in 0 .. m + 1 /\ i - 1 <= m /\ i <= m
        BY <3>2
      <4>2. h[i] = g[i] /\ h[i - 1] = g[i - 1]
        BY <4>1
      <4>3. g[i] = Turn(i, g[i - 1])
        BY <2>2, <4>1
      <4> HIDE DEF h, k
      <4> QED
        BY <2>3, <4>1, <4>2, <4>3
    <3>3. CASE i = m + 1
      <4>1. i # 0 /\ i - 1 = m /\ m \in 0 .. m + 1 /\ m <= m /\ ~ i <= m
        BY <3>3
      <4>2. h[i] = Turn(i, g[m]) /\ h[m] = g[m]
        BY <3>3, <4>1
      <4> HIDE DEF h, k
      <4> QED
        BY <2>3, <4>1, <4>2
    <3> QED
      BY <3>1, <3>2, <3>3
  <2>5. h = k
    <3>1. k = [i \in 0 .. m + 1 |-> k[i]]
      BY DEF Turns
    <3> HIDE DEF k
    <3> QED
      BY <2>4, <3>1
  <2> HIDE DEF h
  <2> QED
    BY <2>5
<1>3. n \in T
  <2> HIDE DEF T
  <2> QED
    BY <1>1, <1>2, SetInduction
<1> QED
  BY <1>3

LEMMA LoopDef ==
  ASSUME NEW body, Len(body) \in Nat
  PROVE  /\ Loop(body)[0] = [stack |-> <<>>, chunks |-> <<>>]
         /\ \A i \in 1 .. Len(body) :
              Loop(body)[i] = IF i \in HeadingLines(body) THEN Section(body, Loop(body)[i - 1], i)
                              ELSE Loop(body)[i - 1]
<1> DEFINE g == Loop(body)
           n == Len(body)
<1>1. g = Turns(body, n, g)
  BY TurnsExist DEF Loop
<1> HIDE DEF g
<1>2. g[0] = [stack |-> <<>>, chunks |-> <<>>]
  BY <1>1 DEF Turns
<1>3. ASSUME NEW i \in 1 .. n
      PROVE  g[i] = IF i \in HeadingLines(body) THEN Section(body, g[i - 1], i) ELSE g[i - 1]
  <2>1. i \in 0 .. n /\ i # 0
    OBVIOUS
  <2> QED
    BY <1>1, <2>1 DEF Turns
<1> QED
  BY <1>2, <1>3 DEF g

-----------------------------------------------------------------------------
LEMMA ContentsType ==
  ASSUME NEW chunks \in Seq(Chunk)
  PROVE  /\ Contents(chunks) \in Seq(Seq(Char))
         /\ Len(Contents(chunks)) = Len(chunks)
         /\ \A k \in 1 .. Len(chunks) : Contents(chunks)[k] = chunks[k].content
<1>1. Len(chunks) \in Nat /\ DOMAIN chunks = 1 .. Len(chunks) /\ chunks \in [1 .. Len(chunks) -> Chunk]
  BY LenProperties
<1>2. Contents(chunks) = [k \in 1 .. Len(chunks) |-> chunks[k].content]
  BY <1>1 DEF Contents
<1>3. Contents(chunks) \in [1 .. Len(chunks) -> Seq(Char)]
  BY <1>1, <1>2 DEF Chunk
<1>4. Contents(chunks) \in Seq(Seq(Char)) /\ Len(Contents(chunks)) = Len(chunks)
  BY <1>1, <1>3, FunctionIsSeq
<1> QED
  BY <1>2, <1>4

LEMMA ContentsConcat ==
  ASSUME NEW x \in Seq(Chunk), NEW y \in Seq(Chunk)
  PROVE  Joined(Contents(x \o y)) = Joined(Contents(x)) \o Joined(Contents(y))
<1> DEFINE a == Contents(x)
           b == Contents(y)
           c == Contents(x \o y)
           S == Seq(Char)
<1>1. /\ x \o y \in Seq(Chunk) /\ Len(x \o y) = Len(x) + Len(y)
      /\ Len(x) \in Nat /\ Len(y) \in Nat
      /\ \A n \in 1 .. Len(x) : (x \o y)[n] = x[n]
      /\ \A n \in 1 .. Len(y) : (x \o y)[Len(x) + n] = y[n]
  BY ConcatKeepsFront
<1>2. /\ a \in Seq(S) /\ Len(a) = Len(x) /\ \A k \in 1 .. Len(x) : a[k] = x[k].content
      /\ b \in Seq(S) /\ Len(b) = Len(y) /\ \A k \in 1 .. Len(y) : b[k] = y[k].content
  BY ContentsType
<1>3. c \in Seq(S) /\ Len(c) = Len(x) + Len(y) /\ \A k \in 1 .. Len(x) + Len(y) : c[k] = (x \o y)[k].content
  BY <1>1, ContentsType
<1> HIDE DEF a, b, c, S
<1>4. /\ a \o b \in Seq(S) /\ Len(a \o b) = Len(a) + Len(b)
      /\ \A n \in 1 .. Len(a) : (a \o b)[n] = a[n]
      /\ \A n \in 1 .. Len(b) : (a \o b)[Len(a) + n] = b[n]
  <2>1. a \in Seq(S) /\ b \in Seq(S)
    BY <1>2
  <2> QED
    BY <2>1, ConcatKeepsFront
<1>5. ASSUME NEW n \in 1 .. Len(c) PROVE c[n] = (a \o b)[n]
  <2>1. n \in 1 .. Len(x) \/ (n - Len(x) \in 1 .. Len(y) /\ n = Len(x) + (n - Len(x)))
    BY <1>1, <1>3
  <2>2. n \in 1 .. Len(x) + Len(y)
    BY <1>3
  <2>3. CASE n \in 1 .. Len(x)
    <3>1. c[n] = x[n].content
      BY <1>1, <1>3, <2>2, <2>3
    <3>2. (a \o b)[n] = x[n].content
      BY <1>2, <1>4, <2>3
    <3> QED
      BY <3>1, <3>2
  <2>4. CASE n - Len(x) \in 1 .. Len(y) /\ n = Len(x) + (n - Len(x))
    <3> DEFINE m == n - Len(x)
    <3>1. m \in 1 .. Len(y) /\ n = Len(x) + m
      BY <2>4
    <3> HIDE DEF m
    <3>2. c[n] = y[m].content
      BY <1>1, <1>3, <2>2, <3>1
    <3>3. (a \o b)[n] = y[m].content
      BY <1>2, <1>4, <3>1
    <3> QED
      BY <3>2, <3>3
  <2> QED
    BY <2>1, <2>3, <2>4
<1>6. c = a \o b
  <2>1. Len(c) = Len(a \o b)
    BY <1>2, <1>3, <1>4
  <2> QED
    BY <1>3, <1>4, <1>5, <2>1, SeqEqual
<1>7. Joined(a \o b) = Joined(a) \o Joined(b)
  BY <1>2, JoinedConcat DEF S
<1> QED
  BY <1>6, <1>7 DEF a, b, c

\* Between two headings the outline does not change.
LEMMA OutlineStays ==
  ASSUME NEW body, NEW i \in Int, NEW l \in Int, i <= l,
         HeadingLines(body) \subseteq Int,
         \A j \in HeadingLines(body) : j <= i \/ l < j
  PROVE  Outline(body, l) = Outline(body, i)
<1>1. Above(body, l) = Above(body, i)
  BY DEF Above
<1>2. \A n : Outline(body, n) =
        [m \in 1 .. Cardinality(Open(body, n)) |-> TitleLine(body, Ascending(Open(body, n))[m])]
  BY DEF Outline, Open, Above
<1>3. Open(body, l) = Open(body, i)
  BY <1>1 DEF Open
<1> QED
  BY <1>2, <1>3

First(body) == CHOOSE i \in HeadingLines(body) : \A j \in HeadingLines(body) : i <= j

LEMMA FirstIs ==
  ASSUME NEW body \in Seq(Line), HeadingLines(body) # {}
  PROVE  /\ First(body) \in HeadingLines(body)
         /\ \A j \in HeadingLines(body) : First(body) <= j
<1> DEFINE H == HeadingLines(body)
<1>1. Len(body) \in Nat /\ H \in SUBSET (1 .. Len(body))
  BY LenProperties DEF HeadingLines
<1>2. IsFiniteSet(H) /\ H \in SUBSET Int
  <2>1. IsFiniteSet(1 .. Len(body)) /\ 1 .. Len(body) \in SUBSET Int
    BY <1>1, FirstNumbers
  <2> HIDE DEF H
  <2> QED
    BY <1>1, <2>1, FS_Subset
<1>3. \E i \in H : \A j \in H : i <= j
  <2> HIDE DEF H
  <2> QED
    BY <1>2, Smallest DEF H
<1> QED
  BY <1>3 DEF First

\* Lists of chunks that fit and carry the right path, put together.
Fits(chunks, body) ==
  /\ chunks \in Seq(Chunk)
  /\ \A k \in DOMAIN chunks :
       /\ Len(chunks[k].content) <= MaxChunk
       /\ \A n \in DOMAIN chunks[k].content : chunks[k].path = Outline(body, chunks[k].content[n][1])

LEMMA FitsConcat ==
  ASSUME NEW body, NEW x, NEW y, Fits(x, body), Fits(y, body)
  PROVE  Fits(x \o y, body)
<1> DEFINE z == x \o y
<1>0. x \in Seq(Chunk) /\ y \in Seq(Chunk)
  BY DEF Fits
<1>1. /\ z \in Seq(Chunk) /\ Len(z) = Len(x) + Len(y)
      /\ Len(x) \in Nat /\ Len(y) \in Nat
      /\ \A n \in 1 .. Len(x) : z[n] = x[n]
      /\ \A n \in 1 .. Len(y) : z[Len(x) + n] = y[n]
  BY <1>0, ConcatKeepsFront
<1>2. DOMAIN x = 1 .. Len(x) /\ DOMAIN y = 1 .. Len(y) /\ DOMAIN z = 1 .. Len(z)
  BY <1>0, <1>1, LenProperties
<1> HIDE DEF z
<1>3. ASSUME NEW k \in DOMAIN z
      PROVE  (\E n \in DOMAIN x : z[k] = x[n]) \/ (\E n \in DOMAIN y : z[k] = y[n])
  <2>1. k \in 1 .. Len(x) \/ (k - Len(x) \in 1 .. Len(y) /\ k = Len(x) + (k - Len(x)))
    BY <1>1, <1>2
  <2>2. CASE k \in 1 .. Len(x)
    BY <1>1, <1>2, <2>2
  <2>3. CASE k - Len(x) \in 1 .. Len(y) /\ k = Len(x) + (k - Len(x))
    <3> DEFINE m == k - Len(x)
    <3>1. m \in 1 .. Len(y) /\ k = Len(x) + m
      BY <2>3
    <3> HIDE DEF m
    <3> QED
      BY <1>1, <1>2, <3>1
  <2> QED
    BY <2>1, <2>2, <2>3
<1>4. Fits(z, body)
  BY <1>1, <1>3 DEF Fits
<1> QED
  BY <1>4 DEF z

\* A section's pieces fit and carry its path, which is the outline of its text.
LEMMA SectionFits ==
  ASSUME NEW body \in Seq(Line), NEW i \in 1 .. Len(body)
  PROVE  LET chars == Chars(body, i, SectionEnd(body, i))
             r == SplitLong(chars, Outline(body, i))
         IN chars \in Seq(Char) /\ Fits(r, body) /\ Joined(Contents(r)) = chars
<1> DEFINE e == SectionEnd(body, i)
           chars == Chars(body, i, e)
           path == Outline(body, i)
           r == SplitLong(chars, path)
<1>0. Len(body) \in Nat /\ i \in 0 .. Len(body) /\ i \in Nat \ {0}
  BY LenProperties
<1>1. e \in i .. Len(body) /\ \A j \in HeadingLines(body) : j <= i \/ e < j
  BY <1>0, SectionEndIs
<1> HIDE DEF e
<1>2. e \in Nat /\ i <= e + 1 /\ e <= Len(body) /\ HeadingLines(body) \subseteq Int
  BY <1>0, <1>1 DEF HeadingLines
<1>3. chars \in Seq(CharIn(i, e)) /\ chars \in Seq(Char)
  BY <1>0, <1>2, CharsType
<1>4. path \in Seq(Nat)
  BY OutlineIs
<1> HIDE DEF chars, path
<1>5. AreSplit(r, chars, path)
  BY <1>3, <1>4, SplitSplits
<1> HIDE DEF r
<1>6. \A m \in DOMAIN chars : Outline(body, chars[m][1]) = path
  <2> SUFFICES ASSUME NEW m \in DOMAIN chars PROVE Outline(body, chars[m][1]) = path
    OBVIOUS
  <2>1. chars[m] \in CharIn(i, e)
    BY <1>3, LenProperties
  <2> DEFINE l == chars[m][1]
  <2>2. l \in i .. e
    BY <2>1 DEF CharIn
  <2> HIDE DEF l
  <2>3. l \in Int /\ i \in Int /\ i <= l /\ \A j \in HeadingLines(body) : j <= i \/ l < j
    BY <1>0, <1>1, <1>2, <2>2
  <2>4. Outline(body, l) = Outline(body, i)
    BY <1>2, <2>3, OutlineStays
  <2> QED
    BY <2>4 DEF l, path
<1>7. Fits(r, body)
  BY <1>5, <1>6 DEF AreSplit, Fits
<1>8. Joined(Contents(r)) = chars
  BY <1>5 DEF AreSplit
<1> QED
  BY <1>3, <1>7, <1>8 DEF r, path, chars, e

LEMMA NothingFits ==
  ASSUME NEW body
  PROVE  Fits(<<>>, body) /\ Joined(Contents(<<>>)) = <<>>
<1>1. <<>> \in Seq(Chunk) /\ DOMAIN <<>> = {}
  OBVIOUS
<1>2. Contents(<<>>) = <<>>
  BY <1>1 DEF Contents
<1> QED
  BY <1>1, <1>2, JoinedEmpty DEF Fits

\* After line i the stack holds the open headings, and the chunks are the text
\* of the sections so far, each under the outline of its text.
LoopInv(body, i, x) ==
  /\ x.stack = Kept(Entries(body), Open(body, i))
  /\ Fits(x.chunks, body)
  /\ Above(body, i) = {} => x.chunks = <<>>
  /\ Above(body, i) # {} =>
       Joined(Contents(x.chunks)) = Chars(body, First(body), SectionEnd(body, i))

LEMMA LoopStarts ==
  ASSUME NEW body \in Seq(Line)
  PROVE  LoopInv(body, 0, [stack |-> <<>>, chunks |-> <<>>])
<1>1. Above(body, 0) = {} /\ Open(body, 0) = {}
  BY LenProperties DEF Above, Open, HeadingLines
<1>2. Kept(Entries(body), {}) = <<>>
  <2> DEFINE s == Entries(body)
             V == EntryOf(body)
  <2>1. {} \in SUBSET DOMAIN s /\ s \in Seq(V)
    BY EntriesType
  <2> HIDE DEF s, V
  <2>2. Kept(s, {}) \in Seq(V) /\ Len(Kept(s, {})) = Cardinality({})
    BY <2>1, KeptKeeps
  <2>3. Cardinality({}) = 0
    BY FS_EmptySet
  <2> QED
    BY <2>2, <2>3, EmptySeq DEF s
<1> QED
  BY <1>1, <1>2, NothingFits DEF LoopInv

\* A line that is no heading leaves it so.
LEMMA LoopPasses ==
  ASSUME NEW body \in Seq(Line), NEW i \in 1 .. Len(body), i \notin HeadingLines(body),
         NEW x, LoopInv(body, i - 1, x)
  PROVE  LoopInv(body, i, x)
<1>1. i \notin HeadingLines(body) /\ HeadingLines(body) \subseteq Int /\ i \in Int
  BY DEF HeadingLines
<1>2. Above(body, i) = Above(body, i - 1)
  BY <1>1 DEF Above
<1>3. Open(body, i) = Open(body, i - 1)
  BY <1>2 DEF Open
<1>4. SectionEnd(body, i - 1) = SectionEnd(body, i)
  BY <1>1, SectionEndNext
<1> QED
  BY <1>2, <1>3, <1>4 DEF LoopInv

\* A heading line appends its section.
LEMMA LoopAppends ==
  ASSUME NEW body \in Seq(Line), NEW i \in 1 .. Len(body), i \in HeadingLines(body),
         NEW x, LoopInv(body, i - 1, x)
  PROVE  LoopInv(body, i, Section(body, x, i))
<1> DEFINE e == SectionEnd(body, i)
           chars == Chars(body, i, e)
           y == Section(body, x, i)
           r == SplitLong(chars, Outline(body, i))
           stack == PushHeading(x.stack, Entry(body, i))
           f == First(body)
<1>0. Len(body) \in Nat /\ i \in HeadingLines(body) /\ i \in Nat \ {0}
      /\ HeadingLines(body) \subseteq 1 .. Len(body)
  BY LenProperties DEF HeadingLines
<1>1. stack = Kept(Entries(body), Open(body, i))
  BY <1>0, PushOpens DEF LoopInv
<1>2. Outline(body, i) = [k \in DOMAIN stack |-> stack[k].title]
  BY <1>1, OutlineIs
<1>3. /\ y.stack = stack
      /\ y.chunks = IF chars = <<>> THEN x.chunks ELSE x.chunks \o r
  BY <1>2 DEF Section
<1>4. chars \in Seq(Char) /\ Fits(r, body) /\ Joined(Contents(r)) = chars
  BY SectionFits
<1>5. Fits(x.chunks, body) /\ x.chunks \in Seq(Chunk)
  BY DEF LoopInv, Fits
<1>6. e \in i .. Len(body)
  <2>1. i \in 0 .. Len(body)
    BY <1>0
  <2> QED
    BY <2>1, SectionEndIs
<1> HIDE DEF y, chars, r, stack, e
<1>7. Fits(y.chunks, body)
  <2>1. Fits(x.chunks \o r, body)
    BY <1>4, <1>5, FitsConcat
  <2> QED
    BY <1>3, <1>5, <2>1
<1> DEFINE before == Joined(Contents(x.chunks))
<1>8. before \in Seq(Char)
  <2>1. Contents(x.chunks) \in Seq(Seq(Char))
    BY <1>5, ContentsType
  <2> QED
    BY <2>1, JoinedType
<1>9. Joined(Contents(y.chunks)) = before \o chars
  <2>1. CASE chars = <<>>
    <3>1. before \o <<>> = before
      BY <1>8, ConcatEmptySeq
    <3> QED
      BY <1>3, <2>1, <3>1
  <2>2. CASE chars # <<>>
    <3>1. r \in Seq(Chunk)
      BY <1>4 DEF Fits
    <3>2. Joined(Contents(x.chunks \o r)) = before \o Joined(Contents(r))
      BY <1>5, <3>1, ContentsConcat
    <3> QED
      BY <1>3, <1>4, <2>2, <3>2
  <2> QED
    BY <2>1, <2>2
<1>10. f \in HeadingLines(body) /\ \A j \in HeadingLines(body) : f <= j
  BY <1>0, FirstIs
<1> HIDE DEF f
<1>11. before \o chars = Chars(body, f, e)
  <2>1. CASE Above(body, i - 1) = {}
    <3>1. f = i
      <4>1. ~ f <= i - 1
        BY <1>10, <2>1 DEF Above
      <4>2. f <= i /\ f \in Int
        BY <1>0, <1>10
      <4> QED
        BY <1>0, <4>1, <4>2
    <3>2. before = <<>>
      BY <2>1, NothingFits DEF LoopInv
    <3>3. <<>> \o chars = chars
      BY <1>4, ConcatEmptySeq
    <3> QED
      BY <3>1, <3>2, <3>3 DEF chars
  <2>2. CASE Above(body, i - 1) # {}
    <3>1. before = Chars(body, f, SectionEnd(body, i - 1))
      BY <2>2 DEF LoopInv, f
    <3>2. SectionEnd(body, i - 1) = i - 1
      BY <1>0, SectionEndNext
    <3>3. f <= i - 1
      <4>1. PICK j \in HeadingLines(body) : j <= i - 1
        BY <2>2 DEF Above
      <4>2. f <= j /\ j \in Int /\ f \in Int
        BY <1>0, <1>10
      <4> QED
        BY <1>0, <4>1, <4>2
    <3>4. Chars(body, f, e) = Chars(body, f, i - 1) \o Chars(body, (i - 1) + 1, e)
      <4>1. /\ f \in Nat \ {0} /\ i - 1 \in Nat /\ e \in Nat
            /\ f <= (i - 1) + 1 /\ i - 1 <= e /\ e <= Len(body)
        BY <1>0, <1>6, <1>10, <3>3
      <4> DEFINE j == i - 1
      <4> HIDE DEF j
      <4>2. Chars(body, f, e) = Chars(body, f, j) \o Chars(body, j + 1, e)
        BY <4>1, CharsSplit DEF j
      <4> QED
        BY <4>2 DEF j
    <3>5. (i - 1) + 1 = i
      BY <1>0
    <3> QED
      BY <3>1, <3>2, <3>4, <3>5 DEF chars
  <2> QED
    BY <2>1, <2>2
<1>12. Above(body, i) # {}
  BY <1>0 DEF Above
<1>13. y.stack = Kept(Entries(body), Open(body, i))
  BY <1>1, <1>3
<1> QED
  BY <1>7, <1>9, <1>11, <1>12, <1>13 DEF LoopInv, y, f, e

\* So it is after every line.
LEMMA LoopHolds ==
  ASSUME NEW body \in Seq(Line)
  PROVE  \A i \in 0 .. Len(body) : LoopInv(body, i, Loop(body)[i])
<1> DEFINE T == {n \in Nat : n <= Len(body) => LoopInv(body, n, Loop(body)[n])}
           g == Loop(body)
<1>0. Len(body) \in Nat
  BY LenProperties
<1>1. /\ g[0] = [stack |-> <<>>, chunks |-> <<>>]
      /\ \A i \in 1 .. Len(body) :
           g[i] = IF i \in HeadingLines(body) THEN Section(body, g[i - 1], i) ELSE g[i - 1]
  BY <1>0, LoopDef
<1> HIDE DEF g
<1>2. 0 \in T
  <2>1. LoopInv(body, 0, g[0])
    BY <1>1, LoopStarts
  <2> QED
    BY <2>1 DEF g
<1>3. ASSUME NEW n \in Nat, n \in T PROVE n + 1 \in T
  <2> SUFFICES ASSUME n + 1 <= Len(body) PROVE LoopInv(body, n + 1, g[n + 1])
    BY DEF g
  <2> DEFINE i == n + 1
  <2>1. i \in 1 .. Len(body) /\ i - 1 = n /\ n <= Len(body)
    BY <1>0
  <2>2. LoopInv(body, i - 1, g[i - 1])
    BY <1>3, <2>1 DEF g
  <2> HIDE DEF i
  <2>3. CASE i \in HeadingLines(body)
    <3>1. LoopInv(body, i, Section(body, g[i - 1], i))
      BY <2>1, <2>2, <2>3, LoopAppends
    <3>2. g[i] = Section(body, g[i - 1], i)
      BY <1>1, <2>1, <2>3
    <3> QED
      BY <3>1, <3>2 DEF i
  <2>4. CASE i \notin HeadingLines(body)
    <3>1. LoopInv(body, i, g[i - 1])
      BY <2>1, <2>2, <2>4, LoopPasses
    <3>2. g[i] = g[i - 1]
      BY <1>1, <2>1, <2>4
    <3> QED
      BY <3>1, <3>2 DEF i
  <2> QED
    BY <2>3, <2>4
<1>4. \A i \in Nat : i \in T
  <2> HIDE DEF T
  <2> QED
    BY <1>2, <1>3, SetInduction
<1> QED
  BY <1>0, <1>4 DEF g

\* A body without headings has no outline.
LEMMA NoOutline ==
  ASSUME NEW body, HeadingLines(body) = {}, NEW i
  PROVE  Outline(body, i) = <<>>
<1>1. Open(body, i) = {}
  BY DEF Open, Above
<1>2. Outline(body, i) =
        [m \in 1 .. Cardinality({}) |-> TitleLine(body, Ascending({})[m])]
  BY <1>1 DEF Outline, Open, Above
<1>3. Cardinality({}) = 0
  BY FS_EmptySet
<1>4. 1 .. 0 = {}
  OBVIOUS
<1> QED
  BY <1>2, <1>3, <1>4

\* Where the text of the chunks begins.
TextFrom(body) == IF HeadingLines(body) = {} THEN 1 ELSE First(body)

\* After the last line: the chunks are the text, and each fits.
LEMMA ChunkMarkdownFits ==
  ASSUME NEW body \in Seq(Line)
  PROVE  /\ Fits(ChunkMarkdown(body), body)
         /\ Joined(Contents(ChunkMarkdown(body))) = Chars(body, TextFrom(body), Len(body))
<1> DEFINE r == ChunkMarkdown(body)
<1>0. Len(body) \in Nat /\ HeadingLines(body) \subseteq 1 .. Len(body)
  BY LenProperties DEF HeadingLines
<1>1. CASE HeadingLines(body) = {}
  <2> DEFINE chars == Chars(body, 1, Len(body))
  <2>1. r = SplitLong(chars, <<>>)
    BY <1>1 DEF ChunkMarkdown
  <2>2. chars \in Seq(Char) /\ <<>> \in Seq(Nat)
    <3>1. 1 \in Nat \ {0} /\ 1 <= Len(body) + 1 /\ Len(body) <= Len(body)
      BY <1>0
    <3>2. Chars(body, 1, Len(body)) \in Seq(Char)
      BY <1>0, <3>1, CharsType
    <3> QED
      BY <3>2, EmptySeq
  <2> HIDE DEF r, chars
  <2>3. AreSplit(r, chars, <<>>)
    BY <2>1, <2>2, SplitSplits
  <2>4. \A i : Outline(body, i) = <<>>
    BY <1>1, NoOutline
  <2>5. Fits(r, body)
    BY <2>3, <2>4 DEF AreSplit, Fits
  <2>6. Joined(Contents(r)) = chars
    BY <2>3 DEF AreSplit
  <2> QED
    BY <1>1, <2>5, <2>6 DEF r, chars, TextFrom
<1>2. CASE HeadingLines(body) # {}
  <2> DEFINE n == Len(body)
             x == Loop(body)[n]
  <2>1. LoopInv(body, n, x)
    BY <1>0, LoopHolds
  <2>2. r = x.chunks
    BY <1>2, ChunksAreLoop
  <2>3. Above(body, n) # {}
    BY <1>0, <1>2 DEF Above
  <2>4. SectionEnd(body, n) = n
    <3>1. n \in 0 .. Len(body)
      BY <1>0
    <3>2. SectionEnd(body, n) \in n .. Len(body)
      BY <3>1, SectionEndIs
    <3> QED
      BY <1>0, <3>2
  <2> HIDE DEF r, x
  <2> QED
    BY <1>2, <2>1, <2>2, <2>3, <2>4 DEF LoopInv, r, TextFrom
<1> QED
  BY <1>1, <1>2

\* chunk_markdown: the path of every chunk is the outline of each of its lines,
\* the titles of the headings that no later one has closed, on their own line
\* or taken from a later one, for every body of lines.
THEOREM ChunksAlwaysCarryOutline ==
  \A body \in Seq(Line) : PathsAreOutlines(body)
<1> SUFFICES ASSUME NEW body \in Seq(Line),
                    NEW c \in ToSet(ChunkMarkdown(body)), NEW n \in DOMAIN c.content
             PROVE  c.path = Outline(body, c.content[n][1])
  BY DEF PathsAreOutlines
<1>1. Fits(ChunkMarkdown(body), body)
  BY ChunkMarkdownFits
<1>2. PICK k \in DOMAIN ChunkMarkdown(body) : c = ChunkMarkdown(body)[k]
  BY DEF ToSet
<1> QED
  BY <1>1, <1>2 DEF Fits

\* A line's characters are among those of the lines around it.
LEMMA LineInChars ==
  ASSUME NEW body \in Seq(Line), NEW f \in Nat \ {0}, NEW i \in f .. Len(body),
         NEW n \in 1 .. TextLength(body, i)
  PROVE  <<i, n>> \in ToSet(Chars(body, f, Len(body)))
<1> DEFINE L == Len(body)
           a == Chars(body, f, i - 1)
           c == CharsOf(body, i)
           d == Chars(body, i + 1, L)
           V == Seq(Char)
<1>1. L \in Nat /\ i \in 1 .. L /\ i \in Nat \ {0} /\ i - 1 \in Nat
  BY LenProperties
<1>2. TextLength(body, i) \in Nat
  BY <1>1, TextLengthType
<1>3. c \in V /\ Len(c) = TextLength(body, i) /\ c[n] = <<i, n>>
  <2>1. c \in [1 .. TextLength(body, i) -> Char] /\ c[n] = <<i, n>>
    BY <1>1, <1>2 DEF CharsOf, Char
  <2> HIDE DEF c
  <2> QED
    BY <1>2, <2>1, FunctionIsSeq
<1>4. Chars(body, i, i) = c
  <2>1. i - i + 1 = 1 /\ i + 1 - 1 = i
    BY <1>1
  <2>2. ByLine(body, i, i) = [k \in 1 .. 1 |-> CharsOf(body, i + k - 1)]
    BY <2>1 DEF ByLine
  <2>3. ByLine(body, i, i) = [k \in {1} |-> CharsOf(body, i)]
    <3>1. 1 .. 1 = {1}
      OBVIOUS
    <3> QED
      BY <2>1, <2>2, <3>1
  <2>4. ByLine(body, i, i) = Append(<<>>, c)
    <3>1. ByLine(body, i, i) = << c >>
      BY <2>3
    <3> QED
      BY <3>1
  <2> HIDE DEF c, V
  <2>5. Joined(Append(<<>>, c)) = Joined(<<>>) \o c
    <3>1. <<>> \in Seq(V)
      BY EmptySeq
    <3> QED
      BY <1>3, <3>1, JoinedAppend
  <2>6. <<>> \o c = c
    BY <1>3, ConcatEmptySeq DEF V
  <2> QED
    BY <2>4, <2>5, <2>6, CharsJoin, JoinedEmpty
<1>5. Chars(body, f, i) = a \o c
  <2> DEFINE j == i - 1
  <2>1. j \in Nat /\ i \in Nat /\ f <= j + 1 /\ j <= i /\ i <= L /\ j + 1 = i
    BY <1>1
  <2> HIDE DEF j
  <2>2. Chars(body, f, i) = Chars(body, f, j) \o Chars(body, j + 1, i)
    BY <2>1, CharsSplit
  <2> QED
    BY <1>4, <2>1, <2>2 DEF j
<1>6. Chars(body, f, L) = (a \o c) \o d
  <2>1. i \in Nat /\ L \in Nat /\ f <= i + 1 /\ i <= L /\ L <= Len(body)
    BY <1>1
  <2> HIDE DEF L, a, c
  <2>2. Chars(body, f, L) = Chars(body, f, i) \o Chars(body, i + 1, L)
    BY <2>1, CharsSplit
  <2> QED
    BY <1>5, <2>2
<1>7. a \in V /\ d \in V
  <2>1. i + 1 \in Nat \ {0} /\ i + 1 <= L + 1 /\ L <= L
    BY <1>1
  <2>2. d \in V
    BY <1>1, <2>1, CharsType
  <2> DEFINE j == i - 1
  <2>3. j \in Nat /\ f <= j + 1 /\ j <= L
    BY <1>1
  <2> HIDE DEF j
  <2>4. Chars(body, f, j) \in V
    BY <2>3, CharsType
  <2> QED
    BY <2>2, <2>4 DEF j
<1> HIDE DEF a, c, d
<1>8. /\ a \o c \in V /\ Len(a \o c) = Len(a) + Len(c) /\ Len(a) \in Nat /\ Len(c) \in Nat
      /\ \A m \in 1 .. Len(c) : (a \o c)[Len(a) + m] = c[m]
  <2>1. a \in Seq(Char) /\ c \in Seq(Char)
    BY <1>3, <1>7
  <2> HIDE DEF V
  <2>2. a \o c \in Seq(Char) /\ Len(a \o c) = Len(a) + Len(c) /\ Len(a) \in Nat /\ Len(c) \in Nat
        /\ \A m \in 1 .. Len(c) : (a \o c)[Len(a) + m] = c[m]
    BY <2>1, ConcatKeepsFront
  <2> QED
    BY <2>2 DEF V
<1> DEFINE b == a \o c
           w == b \o d
<1>9. b \in V /\ d \in V
  BY <1>7, <1>8
<1>10. Len(b) = Len(a) + Len(c)
  BY <1>8
<1>11. (b)[Len(a) + n] = <<i, n>>
  BY <1>3, <1>8
<1> HIDE DEF b, V
<1>12. /\ w \in Seq(Char) /\ Len(w) = Len(b) + Len(d) /\ Len(b) \in Nat /\ Len(d) \in Nat
       /\ \A m \in 1 .. Len(b) : w[m] = b[m]
  BY <1>9, ConcatKeepsFront DEF V
<1> HIDE DEF w
<1>13. Len(a) + n \in 1 .. Len(b) /\ Len(a) + n \in 1 .. Len(w)
  BY <1>3, <1>8, <1>10, <1>12
<1>14. Len(a) + n \in DOMAIN w /\ w[Len(a) + n] = <<i, n>>
  BY <1>11, <1>12, <1>13, LenProperties
<1>15. <<i, n>> \in ToSet(w)
  BY <1>14 DEF ToSet
<1> QED
  BY <1>6, <1>15 DEF w, b

\* A text line with no bare heading above it is text of a section.
LEMMA PlainLineStays ==
  ASSUME NEW body \in Seq(Line), NEW i \in 1 .. Len(body),
         ~Marked(body[i]), BareAbove(body, i) = {}
  PROVE  TextLength(body, i) = body[i].length
<1>1. i \notin HeadingLines(body)
  BY DEF HeadingLines
<1>2. i \notin Taken(body)
  <2>1. Cardinality(BareAbove(body, i)) = 0
    BY FS_EmptySet
  <2>2. 0 % 2 # 1
    OBVIOUS
  <2> QED
    BY <2>1, <2>2 DEF Taken
<1> QED
  BY <1>1, <1>2 DEF TextLength

\* chunk_markdown and _split_long: for every body the chunks, put together, are
\* the text of its sections from the first heading on, none is longer than the
\* limit, and a text line is in them whole unless a heading without a title
\* stands right above it.
THEOREM ChunksAlwaysCoverText ==
  \A body \in Seq(Line) : ChunksCoverText(body)
<1> SUFFICES ASSUME NEW body \in Seq(Line) PROVE ChunksCoverText(body)
  OBVIOUS
<1> DEFINE r == ChunkMarkdown(body)
           f == TextFrom(body)
           text == Joined([k \in DOMAIN r |-> r[k].content])
<1>1. Fits(r, body) /\ Joined(Contents(r)) = Chars(body, f, Len(body))
  BY ChunkMarkdownFits
<1>2. \A k \in DOMAIN r : Len(r[k].content) <= MaxChunk
  BY <1>1 DEF Fits
<1>3. f = IF HeadingLines(body) = {} THEN 1
          ELSE CHOOSE i \in HeadingLines(body) : \A j \in HeadingLines(body) : i <= j
  BY DEF TextFrom, First
<1>4. text = Chars(body, f, Len(body))
  BY <1>1 DEF Contents
<1>5. f \in Nat \ {0}
  <2>1. HeadingLines(body) \subseteq Nat \ {0}
    BY LenProperties DEF HeadingLines
  <2>2. HeadingLines(body) # {} => f \in HeadingLines(body)
    BY FirstIs DEF TextFrom
  <2> QED
    BY <2>1, <2>2 DEF TextFrom
<1> HIDE DEF r, f, text
<1>6. ASSUME NEW i \in f .. Len(body), ~Marked(body[i]), BareAbove(body, i) = {},
             NEW n \in 1 .. body[i].length
      PROVE  <<i, n>> \in ToSet(text)
  <2>1. i \in 1 .. Len(body)
    BY <1>5, LenProperties
  <2>2. n \in 1 .. TextLength(body, i)
    BY <1>6, <2>1, PlainLineStays
  <2> QED
    BY <1>4, <1>5, <2>2, LineInChars
<1>7. ChunksCoverText(body)
  BY <1>2, <1>3, <1>4, <1>6 DEF ChunksCoverText, r, text
<1> QED
  BY <1>7
=============================================================================
