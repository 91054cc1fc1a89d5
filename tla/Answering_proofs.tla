-------------------------- MODULE Answering_proofs --------------------------
(***************************************************************************)
(* Proofs about the pure functions of answering: the clean-up of a reply    *)
(* and the prompt it answers (AnswerText), the ranking of the two searches *)
(* (Ranking), and the chunks (Chunking_proofs).  Each is proved for every  *)
(* input; the last part concludes that the run's bounded inputs are some   *)
(* of them.                                                                *)
(***************************************************************************)
EXTENDS MCAnswering, Chunking_proofs

-----------------------------------------------------------------------------
(* A reply: the clean-up and the escalation marker (AnswerText).            *)

\* t is s without some of its elements, all that s says still there.
PartOf(t, s) ==
  \E f : /\ Embeds(f, t, s)
         /\ \A i \in DOMAIN s : s[i] \in Spoken => \E n \in DOMAIN t : f[n] = i

LEMMA PartsSayTheSame ==
  ASSUME NEW V, NEW s \in Seq(V), NEW t \in Seq(V), PartOf(t, s)
  PROVE  Said(t) = Said(s)
<1>1. PICK f : /\ Embeds(f, t, s)
               /\ \A i \in DOMAIN s : s[i] \in Spoken => \E n \in DOMAIN t : f[n] = i
  BY DEF PartOf
<1> DEFINE K == {i \in DOMAIN s : s[i] \in Spoken}
           L == {n \in DOMAIN t : t[n] \in Spoken}
<1>2. Carries(f, t, L, K)
  BY <1>1 DEF Carries, Embeds
<1>3. K \in SUBSET DOMAIN s /\ L \in SUBSET DOMAIN t
  OBVIOUS
<1>4. Said(t) = Kept(t, L) /\ Said(s) = Kept(s, K)
  BY DEF Said
<1> HIDE DEF K, L
<1> QED
  BY <1>1, <1>2, <1>3, <1>4, KeptOfPart

LEMMA SubSeqIsPart ==
  ASSUME NEW V, NEW s \in Seq(V), NEW a \in Nat \ {0}, NEW b \in Nat, b <= Len(s),
         \A i \in DOMAIN s : s[i] \in Spoken => i \in a .. b
  PROVE  /\ SubSeq(s, a, b) \in Seq(V)
         /\ PartOf(SubSeq(s, a, b), s)
<1> DEFINE t == SubSeq(s, a, b)
<1>0. Len(s) \in Nat /\ DOMAIN s = 1 .. Len(s) /\ s \in [1 .. Len(s) -> V]
  BY LenProperties
<1>1. \A i \in a .. b : s[i] \in V
  BY <1>0
<1>2. /\ t \in Seq(V)
      /\ Len(t) = IF a <= b THEN b - a + 1 ELSE 0
      /\ \A i \in 1 .. b - a + 1 : t[i] = s[a + i - 1]
  BY <1>1, SubSeqProperties
<1>3. DOMAIN t = 1 .. Len(t)
  BY <1>2, LenProperties
<1> HIDE DEF t
<1> DEFINE f == [n \in DOMAIN t |-> a + n - 1]
<1>4. f \in [DOMAIN t -> DOMAIN s]
  BY <1>0, <1>2, <1>3
<1>5. \A m, n \in DOMAIN t : m < n => f[m] < f[n]
  BY <1>3, <1>2
<1>6. \A n \in DOMAIN t : t[n] = s[f[n]]
  BY <1>2, <1>3
<1>7. ASSUME NEW i \in DOMAIN s, s[i] \in Spoken
      PROVE  \E n \in DOMAIN t : f[n] = i
  <2>1. i \in a .. b
    BY <1>7
  <2>2. i - a + 1 \in DOMAIN t /\ f[i - a + 1] = i
    BY <1>2, <1>3, <2>1
  <2> QED
    BY <2>2
<1>8. PartOf(t, s)
  <2> HIDE DEF f
  <2> QED
    BY <1>4, <1>5, <1>6, <1>7 DEF PartOf, Embeds
<1> QED
  BY <1>2, <1>8 DEF t

\* The trailing blanks are gone, and nothing else.
LEMMA RStripCuts ==
  ASSUME NEW V, NEW s \in Seq(V)
  PROVE  \E m \in 0 .. Len(s) :
           /\ RStrip(s) = SubSeq(s, 1, m)
           /\ RStrip(s) \in Seq(V)
           /\ Len(RStrip(s)) = m
           /\ \A i \in 1 .. m : RStrip(s)[i] = s[i]
           /\ \A i \in m + 1 .. Len(s) : s[i] = "blank"
<1> DEFINE ends == {i \in DOMAIN s : s[i] # "blank"}
<1>0. Len(s) \in Nat /\ DOMAIN s = 1 .. Len(s) /\ s \in [1 .. Len(s) -> V]
  BY LenProperties
<1>1. CASE ends = {}
  <2>1. RStrip(s) = <<>>
    BY <1>1 DEF RStrip
  <2>2. SubSeq(s, 1, 0) = <<>>
    BY SubSeqEmpty
  <2>3. \A i \in 0 + 1 .. Len(s) : s[i] = "blank"
    BY <1>0, <1>1
  <2>4. 0 \in 0 .. Len(s) /\ Len(<<>>) = 0 /\ <<>> \in Seq(V)
    BY <1>0
  <2> QED
    BY <2>1, <2>2, <2>3, <2>4
<1>2. CASE ends # {}
  <2>1. ends \in SUBSET Int /\ IsFiniteSet(ends)
    <3>1. IsFiniteSet(1 .. Len(s)) /\ ends \in SUBSET (1 .. Len(s))
      BY <1>0, FS_Interval
    <3> QED
      BY <3>1, FS_Subset
  <2> DEFINE m == CHOOSE i \in ends : \A j \in ends : j <= i
  <2>2. m \in ends /\ \A j \in ends : j <= m
    <3> HIDE DEF ends
    <3> QED
      BY <1>2, <2>1, Largest
  <2>3. RStrip(s) = SubSeq(s, 1, m)
    BY <1>2 DEF RStrip
  <2> HIDE DEF m
  <2>4. m \in 1 .. Len(s)
    BY <1>0, <2>2
  <2>5. \A i \in m + 1 .. Len(s) : s[i] = "blank"
    BY <1>0, <2>2, <2>4
  <2>6. /\ SubSeq(s, 1, m) \in Seq(V)
        /\ Len(SubSeq(s, 1, m)) = m
        /\ \A i \in 1 .. m : SubSeq(s, 1, m)[i] = s[i]
    <3>1. m \in Int /\ 1 \in Int /\ \A i \in 1 .. m : s[i] \in V
      BY <1>0, <2>4
    <3>2. /\ SubSeq(s, 1, m) \in Seq(V)
          /\ Len(SubSeq(s, 1, m)) = IF 1 <= m THEN m - 1 + 1 ELSE 0
          /\ \A i \in 1 .. m - 1 + 1 : SubSeq(s, 1, m)[i] = s[1 + i - 1]
      BY <3>1, SubSeqProperties
    <3> QED
      BY <2>4, <3>2
  <2> QED
    BY <2>3, <2>4, <2>5, <2>6
<1> QED
  BY <1>1, <1>2

\* What it leaves does not end with a blank.
LEMMA RStripEnds ==
  ASSUME NEW V, NEW s \in Seq(V), RStrip(s) # <<>>
  PROVE  Len(RStrip(s)) \in DOMAIN s /\ s[Len(RStrip(s))] # "blank"
<1> DEFINE ends == {i \in DOMAIN s : s[i] # "blank"}
           m == CHOOSE i \in ends : \A j \in ends : j <= i
<1>0. Len(s) \in Nat /\ DOMAIN s = 1 .. Len(s) /\ s \in [1 .. Len(s) -> V]
  BY LenProperties
<1>1. ends # {} /\ RStrip(s) = SubSeq(s, 1, m)
  BY DEF RStrip
<1>2. ends \in SUBSET Int /\ IsFiniteSet(ends)
  <2>1. IsFiniteSet(1 .. Len(s)) /\ ends \in SUBSET (1 .. Len(s))
    BY <1>0, FS_Interval
  <2> QED
    BY <2>1, FS_Subset
<1>3. m \in ends
  <2> HIDE DEF ends
  <2> QED
    BY <1>1, <1>2, Largest
<1> HIDE DEF m
<1>4. m \in 1 .. Len(s) /\ s[m] # "blank"
  BY <1>0, <1>3
<1>5. Len(SubSeq(s, 1, m)) = m
  <2>1. \A i \in 1 .. m : s[i] \in V
    BY <1>0, <1>4
  <2> QED
    BY <1>4, <2>1, SubSeqProperties
<1> QED
  BY <1>0, <1>1, <1>4, <1>5

LEMMA RStripIsPart ==
  ASSUME NEW V, NEW s \in Seq(V)
  PROVE  RStrip(s) \in Seq(V) /\ PartOf(RStrip(s), s)
<1>1. PICK m \in 0 .. Len(s) :
        RStrip(s) = SubSeq(s, 1, m) /\ \A i \in m + 1 .. Len(s) : s[i] = "blank"
  BY RStripCuts
<1>2. Len(s) \in Nat /\ DOMAIN s = 1 .. Len(s)
  BY LenProperties
<1>3. \A i \in DOMAIN s : s[i] \in Spoken => i \in 1 .. m
  BY <1>1, <1>2 DEF Spoken
<1>4. m \in Nat /\ m <= Len(s) /\ 1 \in Nat \ {0}
  BY <1>2
<1> QED
  BY <1>1, <1>3, <1>4, SubSeqIsPart

LEMMA ReverseReverses ==
  ASSUME NEW V, NEW s \in Seq(V)
  PROVE  /\ Reverse(s) \in Seq(V)
         /\ Len(Reverse(s)) = Len(s)
         /\ \A i \in 1 .. Len(s) : Reverse(s)[i] = s[Len(s) - i + 1]
<1>1. Len(s) \in Nat /\ s \in [1 .. Len(s) -> V]
  BY LenProperties
<1>2. Reverse(s) = [i \in 1 .. Len(s) |-> s[(Len(s) - i) + 1]]
  BY DEF Reverse
<1>3. Reverse(s) \in [1 .. Len(s) -> V]
  BY <1>1, <1>2
<1> QED
  BY <1>1, <1>2, <1>3, FunctionIsSeq

\* Blanks are taken off at both ends only.
LEMMA StripIsPart ==
  ASSUME NEW V, NEW s \in Seq(V)
  PROVE  Strip(s) \in Seq(V) /\ PartOf(Strip(s), s)
<1> DEFINE x == RStrip(s)
           y == Reverse(x)
           z == RStrip(y)
           t == Reverse(z)
<1>0. Len(s) \in Nat /\ DOMAIN s = 1 .. Len(s)
  BY LenProperties
<1>1. PICK m \in 0 .. Len(s) :
        /\ x \in Seq(V) /\ Len(x) = m
        /\ \A i \in 1 .. m : x[i] = s[i]
        /\ \A i \in m + 1 .. Len(s) : s[i] = "blank"
  BY RStripCuts
<1>2. y \in Seq(V) /\ Len(y) = m /\ \A i \in 1 .. m : y[i] = x[m - i + 1]
  <2> HIDE DEF x
  <2> QED
    BY <1>1, ReverseReverses
<1>3. PICK k \in 0 .. Len(y) :
        /\ z \in Seq(V) /\ Len(z) = k
        /\ \A i \in 1 .. k : z[i] = y[i]
        /\ \A i \in k + 1 .. Len(y) : y[i] = "blank"
  <2> HIDE DEF y
  <2> QED
    BY <1>2, RStripCuts
<1>4. t \in Seq(V) /\ Len(t) = k /\ \A i \in 1 .. k : t[i] = z[k - i + 1]
  <2> HIDE DEF z
  <2> QED
    BY <1>3, ReverseReverses
<1>5. t = Strip(s)
  BY DEF Strip
<1> HIDE DEF x, y, z, t
<1>6. DOMAIN t = 1 .. k
  BY <1>4, LenProperties
<1>7. m \in Nat /\ k \in Nat /\ k <= m /\ m <= Len(s)
  BY <1>0, <1>1, <1>2, <1>3
<1>8. ASSUME NEW n \in 1 .. k
      PROVE  t[n] = s[m - k + n]
  <2>1. t[n] = z[k - n + 1] /\ k - n + 1 \in 1 .. k
    BY <1>4, <1>7
  <2>2. z[k - n + 1] = y[k - n + 1] /\ k - n + 1 \in 1 .. m
    BY <1>3, <1>7, <2>1
  <2>3. y[k - n + 1] = x[m - (k - n + 1) + 1] /\ m - (k - n + 1) + 1 = m - k + n
    BY <1>2, <1>7, <2>2
  <2>4. m - k + n \in 1 .. m
    BY <1>7
  <2>5. x[m - k + n] = s[m - k + n]
    BY <1>1, <2>4
  <2> QED
    BY <2>1, <2>2, <2>3, <2>5
<1>9. ASSUME NEW i \in DOMAIN s, s[i] \in Spoken
      PROVE  i \in m - k + 1 .. m
  <2>1. i \in 1 .. m
    BY <1>0, <1>1, <1>9 DEF Spoken
  <2>2. CASE i <= m - k
    <3>1. m - i + 1 \in k + 1 .. Len(y) /\ m - i + 1 \in 1 .. m /\ m - (m - i + 1) + 1 = i
      BY <1>2, <1>7, <2>1, <2>2
    <3>2. y[m - i + 1] = "blank"
      BY <1>3, <3>1
    <3>3. y[m - i + 1] = x[i] /\ x[i] = s[i]
      BY <1>1, <1>2, <2>1, <3>1
    <3> QED
      BY <1>9, <3>2, <3>3 DEF Spoken
  <2> QED
    BY <1>7, <2>1, <2>2
<1> DEFINE f == [n \in 1 .. k |-> m - k + n]
<1>10. f \in [DOMAIN t -> DOMAIN s]
  BY <1>0, <1>6, <1>7
<1>11. \A p, q \in DOMAIN t : p < q => f[p] < f[q]
  BY <1>6, <1>7
<1>12. \A n \in DOMAIN t : t[n] = s[f[n]]
  BY <1>6, <1>8
<1>13. ASSUME NEW i \in DOMAIN s, s[i] \in Spoken
       PROVE  \E n \in DOMAIN t : f[n] = i
  <2>1. i - (m - k) \in 1 .. k /\ f[i - (m - k)] = i
    BY <1>7, <1>9, <1>13
  <2> QED
    BY <1>6, <2>1
<1>14. PartOf(t, s)
  <2> HIDE DEF f
  <2> QED
    BY <1>10, <1>11, <1>12, <1>13 DEF PartOf, Embeds
<1> QED
  BY <1>4, <1>5, <1>14

\* Dropping positions that say nothing drops nothing said.
LEMMA WithoutIsPart ==
  ASSUME NEW V, NEW s \in Seq(V), NEW drop, \A i \in DOMAIN s \cap drop : s[i] \notin Spoken
  PROVE  /\ Without(s, drop) \in Seq(V)
         /\ PartOf(Without(s, drop), s)
         /\ \A n \in DOMAIN Without(s, drop) :
              \E i \in DOMAIN s \ drop : Without(s, drop)[n] = s[i]
<1> DEFINE keep == DOMAIN s \ drop
           t == Kept(s, keep)
           f == Ascending(keep)
<1>1. keep \in SUBSET DOMAIN s /\ t = Without(s, drop)
  BY DEF Without
<1>2. /\ t \in Seq(V)
      /\ f \in [DOMAIN t -> keep]
      /\ \A n \in DOMAIN t : t[n] = s[f[n]]
      /\ \A i \in keep : \E n \in DOMAIN t : f[n] = i
      /\ \A m, n \in DOMAIN t : m < n => f[m] < f[n]
  <2> HIDE DEF keep
  <2> QED
    BY <1>1, KeptKeeps
<1> HIDE DEF t, f
<1>3. f \in [DOMAIN t -> DOMAIN s]
  BY <1>2
<1>4. \A i \in DOMAIN s : s[i] \in Spoken => i \in keep
  OBVIOUS
<1>5. PartOf(t, s)
  BY <1>2, <1>3, <1>4 DEF PartOf, Embeds
<1>6. \A n \in DOMAIN t : \E i \in keep : t[n] = s[i]
  BY <1>2
<1> QED
  BY <1>1, <1>2, <1>5, <1>6

LEMMA PartsHaveNothingNew ==
  ASSUME NEW s, NEW t, PartOf(t, s)
  PROVE  \A n \in DOMAIN t : \E i \in DOMAIN s : t[n] = s[i]
BY DEF PartOf, Embeds

-----------------------------------------------------------------------------
\* What the clean-up of meta-references leaves.
LEMMA StripMetaCleans ==
  ASSUME NEW V, NEW s \in Seq(V)
  PROVE  /\ Said(StripMeta(s)) = Said(s)
         /\ \A n \in DOMAIN StripMeta(s) : StripMeta(s)[n] # "meta"
<1> DEFINE a == Without(s, Absorbed(s))
           b == Without(a, Leading(a))
           c == Without(b, Doubled(b))
           d == Strip(c)
<1>1. StripMeta(s) = d
  BY DEF StripMeta
<1>2. /\ a \in Seq(V) /\ PartOf(a, s)
      /\ \A n \in DOMAIN a : \E i \in DOMAIN s \ Absorbed(s) : a[n] = s[i]
  <2>1. \A i \in DOMAIN s \cap Absorbed(s) : s[i] \notin Spoken
    <3>1. Len(s) \in Nat /\ DOMAIN s = 1 .. Len(s)
      BY LenProperties
    <3> SUFFICES ASSUME NEW i \in DOMAIN s, i \in Absorbed(s)
                 PROVE  s[i] \notin Spoken
      OBVIOUS
    <3>2. PICK j \in 1 .. i :
            s[j] = "meta" /\ \A k \in j + 1 .. i : s[k] = "blank" \/ (s[k] = "comma" /\ k = j + 1)
      BY DEF Absorbed
    <3>3. i = j \/ i \in j + 1 .. i
      BY <3>1
    <3> QED
      BY <3>2, <3>3 DEF Spoken
  <2> QED
    BY <2>1, WithoutIsPart
<1>3. \A n \in DOMAIN a : a[n] # "meta"
  <2>1. \A i \in DOMAIN s : s[i] = "meta" => i \in Absorbed(s)
    <3>1. Len(s) \in Nat /\ DOMAIN s = 1 .. Len(s)
      BY LenProperties
    <3> SUFFICES ASSUME NEW i \in DOMAIN s, s[i] = "meta"
                 PROVE  \E j \in 1 .. i : /\ s[j] = "meta"
                           /\ \A k \in j + 1 .. i : s[k] = "blank" \/ (s[k] = "comma" /\ k = j + 1)
      BY DEF Absorbed
    <3>2. i \in 1 .. i /\ \A k \in i + 1 .. i : FALSE
      BY <3>1
    <3> QED
      BY <3>2
  <2> QED
    BY <1>2, <2>1
<1> HIDE DEF a
<1>4. b \in Seq(V) /\ PartOf(b, a)
  <2>1. \A i \in DOMAIN a \cap Leading(a) : a[i] \notin Spoken
    <3>1. Len(a) \in Nat /\ DOMAIN a = 1 .. Len(a)
      BY <1>2, LenProperties
    <3> SUFFICES ASSUME NEW i \in DOMAIN a, i \in Leading(a)
                 PROVE  a[i] \notin Spoken
      OBVIOUS
    <3>2. a[1] = "comma" /\ \A k \in 2 .. i : a[k] = "blank"
      BY DEF Leading
    <3>3. i = 1 \/ i \in 2 .. i
      BY <3>1
    <3> QED
      BY <3>2, <3>3 DEF Spoken
  <2> QED
    BY <1>2, <2>1, WithoutIsPart
<1> HIDE DEF b
<1>5. c \in Seq(V) /\ PartOf(c, b)
  <2>1. \A i \in DOMAIN b \cap Doubled(b) : b[i] \notin Spoken
    BY DEF Doubled, Spoken
  <2> QED
    BY <1>4, <2>1, WithoutIsPart
<1> HIDE DEF c
<1>6. d \in Seq(V) /\ PartOf(d, c)
  BY <1>5, StripIsPart
<1> HIDE DEF d
<1>7. Said(d) = Said(c) /\ Said(c) = Said(b) /\ Said(b) = Said(a) /\ Said(a) = Said(s)
  BY <1>2, <1>4, <1>5, <1>6, PartsSayTheSame
<1>8. \A n \in DOMAIN d : \E i \in DOMAIN a : d[n] = a[i]
  <2>1. \A n \in DOMAIN d : \E i \in DOMAIN c : d[n] = c[i]
    BY <1>6, PartsHaveNothingNew
  <2>2. \A n \in DOMAIN c : \E i \in DOMAIN b : c[n] = b[i]
    BY <1>5, PartsHaveNothingNew
  <2>3. \A n \in DOMAIN b : \E i \in DOMAIN a : b[n] = a[i]
    BY <1>4, PartsHaveNothingNew
  <2> QED
    BY <2>1, <2>2, <2>3
<1> QED
  BY <1>1, <1>3, <1>7, <1>8

\* A list that ends with something said says the same up to there.
LEMMA FrontSays ==
  ASSUME NEW V, NEW s \in Seq(V), NEW t \in Seq(V), Len(s) = Len(t) + 1,
         \A i \in 1 .. Len(t) : t[i] = s[i], s[Len(s)] \in Spoken
  PROVE  Said(t) = Front(Said(s))
<1> DEFINE n == Len(t)
           m == n + 1
           K == {i \in DOMAIN t : t[i] \in Spoken}
           J == {i \in DOMAIN s : s[i] \in Spoken}
           f == [i \in DOMAIN t |-> i]
<1>1. /\ n \in Nat /\ DOMAIN t = 1 .. n /\ DOMAIN s = 1 .. m /\ m = Len(s)
      /\ s \in [1 .. m -> V] /\ m \in DOMAIN s
  BY LenProperties
<1>2. J = K \cup {m} /\ K \in SUBSET DOMAIN s /\ K \in SUBSET DOMAIN t /\ \A i \in K : i < m
  BY <1>1
<1>3. Embeds(f, t, s) /\ Carries(f, t, K, K)
  BY <1>1, <1>2 DEF Embeds, Carries
<1>4. Said(t) = Kept(t, K) /\ Said(s) = Kept(s, J)
  BY DEF Said
<1> HIDE DEF f, m, n, K, J
<1>5. Kept(t, K) = Kept(s, K)
  BY <1>2, <1>3, KeptOfPart
<1>6. Append(Kept(s, K), s[m]) = Kept(s, J)
  <2>1. Append(Kept(s, K), s[m]) = Kept(s, K \cup {m})
    BY <1>1, <1>2, KeptAppend
  <2> QED
    BY <1>2, <2>1
<1>7. Kept(s, K) \in Seq(V) /\ s[m] \in V
  <2>1. Kept(s, K) \in Seq(V)
    BY <1>2, KeptKeeps
  <2> QED
    BY <1>1, <2>1
<1> DEFINE x == Kept(s, K)
<1> HIDE DEF x
<1>8. x \in Seq(V) /\ s[m] \in V
  BY <1>7 DEF x
<1>9. Front(Append(x, s[m])) = x
  <2> DEFINE y == s[m]
             w == Append(x, y)
  <2>1. /\ Len(x) \in Nat /\ w \in Seq(V) /\ Len(w) = Len(x) + 1
        /\ \A i \in 1 .. Len(x) : w[i] = x[i]
    <3> HIDE DEF y
    <3> QED
      BY <1>8, AppendProperties, LenProperties DEF y
  <2>2. Front(w) = SubSeq(w, 1, Len(x))
    <3> HIDE DEF w
    <3>1. Len(w) - 1 = Len(x)
      BY <2>1
    <3> QED
      BY <3>1 DEF Front
  <2>3. SubSeq(w, 1, Len(x)) = x
    <3> HIDE DEF w
    <3>1. \A i \in 1 .. Len(x) : w[i] \in V
      BY <1>8, <2>1, LenProperties
    <3>2. /\ SubSeq(w, 1, Len(x)) \in Seq(V)
          /\ Len(SubSeq(w, 1, Len(x))) = IF 1 <= Len(x) THEN Len(x) - 1 + 1 ELSE 0
          /\ \A i \in 1 .. Len(x) - 1 + 1 : SubSeq(w, 1, Len(x))[i] = w[1 + i - 1]
      BY <2>1, <3>1, SubSeqProperties
    <3>3. Len(SubSeq(w, 1, Len(x))) = Len(x)
      BY <2>1, <3>2
    <3>4. \A i \in 1 .. Len(x) : SubSeq(w, 1, Len(x))[i] = x[i]
      BY <2>1, <3>2
    <3> QED
      BY <1>8, <3>2, <3>3, <3>4, SeqEqual
  <2> QED
    BY <2>2, <2>3
<1> QED
  BY <1>4, <1>5, <1>6, <1>9 DEF x

\* What the marker's detection returns: the reply as it is, or what stands
\* before the marker at its end, or the stock line.
LEMMA DetectDetects ==
  ASSUME NEW answer \in Seq(Tokens)
  PROVE  LET d == Detect(answer)
         IN /\ d.text \in Seq(Tokens)
            /\ d.escalate \in BOOLEAN
            /\ d.escalate <=> EndsWithMarker(answer)
            /\ ~d.escalate => d.text = answer
            /\ d.escalate => Said(d.text) = IF IsMarkerOnly(answer) THEN Said(Default)
                                            ELSE Front(Said(answer))
<1> DEFINE d == Detect(answer)
           s == RStrip(answer)
           front == Front(s)
           visible == RStrip(front)
<1>0. Len(answer) \in Nat /\ DOMAIN answer = 1 .. Len(answer)
  BY LenProperties
<1>1. PICK m \in 0 .. Len(answer) :
        /\ s \in Seq(Tokens) /\ Len(s) = m /\ \A i \in 1 .. m : s[i] = answer[i]
        /\ \A i \in m + 1 .. Len(answer) : answer[i] = "blank"
  BY RStripCuts
<1>2. PartOf(s, answer)
  BY RStripIsPart
<1>3. CASE ~ (s # <<>> /\ Last(s) = "marker")
  <2>1. d = [text |-> answer, escalate |-> FALSE]
    BY <1>3 DEF Detect
  <2> HIDE DEF s
  <2>2. ASSUME NEW i \in DOMAIN answer, answer[i] = "marker",
               \A j \in i + 1 .. Len(answer) : answer[j] = "blank"
        PROVE  FALSE
    <3>1. i \in 1 .. m
      BY <1>0, <1>1, <2>2
    <3>2. m # i => m \in i + 1 .. Len(answer)
      BY <1>0, <3>1
    <3>3. s # <<>>
      <4>1. Len(s) # 0
        BY <1>1, <3>1
      <4> QED
        BY <4>1, EmptySeq
    <3>4. Last(s) # "marker" /\ Last(s) = s[m] /\ s[m] = answer[m]
      BY <1>1, <1>3, <3>1, <3>3 DEF Last
    <3>5. i # m
      BY <2>2, <3>4
    <3>6. s[m] = "blank"
      BY <2>2, <3>2, <3>4, <3>5
    <3>7. RStrip(answer) # <<>> => answer[m] # "blank"
      BY <1>1, <3>1, RStripEnds DEF s
    <3> QED
      BY <3>3, <3>4, <3>6, <3>7 DEF s
  <2>3. ~EndsWithMarker(answer)
    BY <2>2 DEF EndsWithMarker
  <2> QED
    BY <2>1, <2>3
<1>4. CASE s # <<>> /\ Last(s) = "marker"
  <2>1. d = [text |-> IF visible = <<>> THEN Default ELSE visible, escalate |-> TRUE]
    BY <1>4 DEF Detect
  <2> HIDE DEF s
  <2>2. m \in 1 .. Len(answer) /\ s[m] = "marker" /\ answer[m] = "marker"
    <3>1. m # 0
      BY <1>1, <1>4, EmptySeq
    <3>2. m \in 1 .. m
      BY <1>0, <3>1
    <3>3. s[m] = "marker"
      BY <1>1, <1>4 DEF Last
    <3> QED
      BY <1>0, <1>1, <3>2, <3>3
  <2>3. front \in Seq(Tokens) /\ Len(front) = m - 1 /\ \A i \in 1 .. m - 1 : front[i] = s[i]
    <3>1. front = SubSeq(s, 1, m - 1)
      BY <1>1 DEF Front
    <3>2. m - 1 \in Nat
      BY <1>0, <2>2
    <3>3. \A i \in 1 .. m - 1 : s[i] \in Tokens
      BY <1>1, <3>2, LenProperties
    <3>4. /\ SubSeq(s, 1, m - 1) \in Seq(Tokens)
          /\ Len(SubSeq(s, 1, m - 1)) = IF 1 <= m - 1 THEN (m - 1) - 1 + 1 ELSE 0
          /\ \A i \in 1 .. (m - 1) - 1 + 1 : SubSeq(s, 1, m - 1)[i] = s[1 + i - 1]
      BY <3>2, <3>3, SubSeqProperties
    <3> QED
      BY <3>1, <3>2, <3>4
  <2>4. Said(front) = Front(Said(s))
    <3>1. Len(s) = Len(front) + 1 /\ s[Len(s)] \in Spoken
      BY <1>1, <2>2, <2>3 DEF Spoken
    <3>2. \A i \in 1 .. Len(front) : front[i] = s[i]
      BY <2>3
    <3> HIDE DEF front
    <3> QED
      BY <1>1, <2>3, <3>1, <3>2, FrontSays
  <2> HIDE DEF front
  <2>5. PICK k \in 0 .. Len(front) :
          /\ visible = SubSeq(front, 1, k) /\ visible \in Seq(Tokens) /\ Len(visible) = k
          /\ \A i \in k + 1 .. Len(front) : front[i] = "blank"
    BY <2>3, RStripCuts
  <2>6. PartOf(visible, front)
    BY <2>3, RStripIsPart
  <2>7. visible # <<>> => front[Len(visible)] # "blank" /\ Len(visible) \in DOMAIN front
    BY <2>3, RStripEnds
  <2> HIDE DEF visible
  <2>8. Said(visible) = Said(front) /\ Said(s) = Said(answer)
    BY <1>1, <1>2, <2>3, <2>5, <2>6, PartsSayTheSame
  <2>9. EndsWithMarker(answer)
    BY <1>0, <1>1, <2>2 DEF EndsWithMarker
  <2>10. CASE visible = <<>>
    <3>1. k = 0
      BY <2>5, <2>10
    <3>2. \A i \in 1 .. m - 1 : answer[i] = "blank"
      BY <1>0, <1>1, <2>2, <2>3, <2>5, <3>1
    <3>3. \A j \in DOMAIN answer \ {m} : answer[j] = "blank"
      <4> SUFFICES ASSUME NEW j \in 1 .. Len(answer), j # m PROVE answer[j] = "blank"
        BY <1>0
      <4>1. j \in 1 .. m - 1 \/ j \in m + 1 .. Len(answer)
        BY <1>0, <2>2
      <4> QED
        BY <1>1, <3>2, <4>1
    <3>4. IsMarkerOnly(answer)
      BY <1>0, <2>2, <3>3 DEF IsMarkerOnly
    <3>5. d.text = Default /\ d.escalate = TRUE /\ Default \in Seq(Tokens)
      BY <2>1, <2>10 DEF Default, Tokens
    <3> QED
      BY <2>9, <3>4, <3>5
  <2>11. CASE visible # <<>>
    <3>1. d.text = visible /\ d.escalate = TRUE
      BY <2>1, <2>11
    <3>2. ~IsMarkerOnly(answer)
      <4> DEFINE v == Len(visible)
      <4>1. v \in 1 .. m - 1 /\ front[v] # "blank"
        <5>1. DOMAIN front = 1 .. m - 1
          BY <2>3, LenProperties
        <5> QED
          BY <2>7, <2>11, <5>1
      <4> HIDE DEF v
      <4>2. answer[v] # "blank" /\ v \in DOMAIN answer /\ m \in DOMAIN answer /\ v # m
        <5>1. front[v] = s[v] /\ v \in 1 .. m
          BY <1>0, <2>2, <2>3, <4>1
        <5> QED
          BY <1>0, <1>1, <2>2, <4>1, <5>1
      <4>3. answer[m] # "blank"
        BY <2>2
      <4> QED
        BY <4>2, <4>3 DEF IsMarkerOnly
    <3> QED
      BY <2>4, <2>5, <2>8, <2>9, <3>1, <3>2
  <2> QED
    BY <2>10, <2>11
<1> QED
  BY <1>3, <1>4

\* _strip_meta_references: of every reply what it says reaches the visitor, all
\* and in order, and no meta-reference does.
THEOREM WordsAlwaysSurvive == \A answer \in Seq(Tokens) : WordsSurvive(answer)
<1> SUFFICES ASSUME NEW answer \in Seq(Tokens)
             PROVE  WordsSurvive(answer)
  OBVIOUS
<1> DEFINE d == Detect(answer)
           t == StripMeta(d.text)
<1>1. Answer(answer).text = t /\ Answer(answer).escalate = d.escalate
  BY DEF Answer
<1>2. d.text \in Seq(Tokens) /\ (~d.escalate => d.text = answer)
  BY DetectDetects
<1>3. Said(t) = Said(d.text) /\ \A n \in DOMAIN t : t[n] # "meta"
  BY <1>2, StripMetaCleans
<1>4. "meta" \notin ToSet(t)
  BY <1>3 DEF ToSet
<1> HIDE DEF t, d
<1> QED
  BY <1>1, <1>2, <1>3, <1>4 DEF WordsSurvive

\* _detect_and_strip_escalation: exactly the replies that end with the marker,
\* blanks after it or not, escalate; they lose that marker and nothing else
\* they say, and one that is only the marker is the stock line.
THEOREM MarkersAlwaysEscalate == \A answer \in Seq(Tokens) : MarkerEscalates(answer)
<1> SUFFICES ASSUME NEW answer \in Seq(Tokens)
             PROVE  MarkerEscalates(answer)
  OBVIOUS
<1> DEFINE d == Detect(answer)
           t == StripMeta(d.text)
<1>1. Answer(answer).text = t /\ Answer(answer).escalate = d.escalate
  BY DEF Answer
<1>2. /\ d.text \in Seq(Tokens) /\ d.escalate \in BOOLEAN
      /\ d.escalate <=> EndsWithMarker(answer)
      /\ d.escalate => Said(d.text) = IF IsMarkerOnly(answer) THEN Said(Default)
                                      ELSE Front(Said(answer))
  BY DetectDetects
<1>3. Said(t) = Said(d.text)
  BY <1>2, StripMetaCleans
<1> HIDE DEF t, d
<1> QED
  BY <1>1, <1>2, <1>3 DEF MarkerEscalates

LEMMA NoneOf == ASSUME NEW P PROVE <<>> \in Seq(P)
OBVIOUS

LEMMA Three ==
  ASSUME NEW P, NEW x \in P, NEW y \in P, NEW z \in P PROVE <<x, y, z>> \in Seq(P)
OBVIOUS

\* The filled template holds the context if the template does or is malformed.
LEMMA RenderFills ==
  ASSUME NEW P, Placeholders \subseteq P, "context" \in P, NEW t \in Seq(Placeholders)
  PROVE  /\ Render(t) \in Seq(P)
         /\ "{context}" \in ToSet(t) \/ "{?}" \in ToSet(t) =>
              \E n \in 1 .. Len(Render(t)) : Render(t)[n] = "context"
<1> DEFINE r == Render(t)
<1>0. Len(t) \in Nat /\ DOMAIN t = 1 .. Len(t) /\ t \in [1 .. Len(t) -> Placeholders]
  BY LenProperties
<1>1. CASE "{?}" \in ToSet(t)
  <2>1. t \in Seq(P)
    BY SeqMonotonic
  <2>2. r = Append(t, "context")
    BY <1>1 DEF Render
  <2>3. r \in Seq(P) /\ Len(r) = Len(t) + 1 /\ r[Len(t) + 1] = "context"
    BY <2>1, <2>2, AppendProperties
  <2> HIDE DEF r
  <2>4. Len(t) + 1 \in 1 .. Len(r)
    BY <1>0, <2>3
  <2>5. \E n \in 1 .. Len(r) : r[n] = "context"
    BY <2>3, <2>4
  <2> QED
    BY <2>3, <2>5 DEF r
<1>2. CASE "{?}" \notin ToSet(t)
  <2>1. r = [n \in 1 .. Len(t) |-> IF t[n] = "{context}" THEN "context" ELSE t[n]]
    BY <1>0, <1>2 DEF Render
  <2> HIDE DEF r
  <2>2. r \in [1 .. Len(t) -> P]
    BY <1>0, <2>1
  <2>3. r \in Seq(P) /\ Len(r) = Len(t)
    BY <1>0, <2>2, FunctionIsSeq
  <2>4. ASSUME "{context}" \in ToSet(t)
        PROVE  \E n \in 1 .. Len(r) : r[n] = "context"
    <3>1. PICK n \in DOMAIN t : t[n] = "{context}"
      BY <2>4 DEF ToSet
    <3>2. n \in 1 .. Len(t) /\ r[n] = "context"
      BY <1>0, <2>1, <3>1
    <3> QED
      BY <2>3, <3>2
  <2> QED
    BY <1>2, <2>3, <2>4 DEF r
<1> QED
  BY <1>1, <1>2

\* t begins with s.
Continues(t, s) ==
  /\ Len(s) \in Nat /\ Len(t) \in Nat /\ Len(s) <= Len(t)
  /\ \A n \in 1 .. Len(s) : t[n] = s[n]

LEMMA ConcatContinues ==
  ASSUME NEW V, NEW s \in Seq(V), NEW t \in Seq(V)
  PROVE  s \o t \in Seq(V) /\ Continues(s \o t, s)
<1>1. /\ s \o t \in Seq(V) /\ Len(s \o t) = Len(s) + Len(t)
      /\ Len(s) \in Nat /\ Len(t) \in Nat
      /\ \A n \in 1 .. Len(s) : (s \o t)[n] = s[n]
  BY ConcatKeepsFront
<1> QED
  BY <1>1 DEF Continues

LEMMA ContinuesTransitive ==
  ASSUME NEW s, NEW t, NEW u, Continues(t, s), Continues(u, t)
  PROVE  Continues(u, s)
BY DEF Continues

LEMMA LastOfConcat ==
  ASSUME NEW V, NEW s \in Seq(V), NEW x \in V
  PROVE  Last(s \o <<x>>) = x
<1>1. <<x>> \in Seq(V) /\ Len(<<x>>) = 1 /\ <<x>>[1] = x /\ 1 \in 1 .. 1
  BY Singles
<1>2. /\ Len(s \o <<x>>) = Len(s) + Len(<<x>>)
      /\ \A n \in 1 .. Len(<<x>>) : (s \o <<x>>)[Len(s) + n] = <<x>>[n]
  BY <1>1, ConcatKeepsFront
<1>3. Len(s \o <<x>>) = Len(s) + 1 /\ (s \o <<x>>)[Len(s) + 1] = x
  BY <1>1, <1>2
<1> QED
  BY <1>3 DEF Last

\* The instructions come after the filled template, the marker's last.
LEMMA InstructionsFollow ==
  ASSUME NEW P, {"language", "tone", "no meta-references", "escalate", "no match"} \subseteq P,
         NEW form, Render(TemplateOf(form)) \in Seq(P),
         NEW l \in BOOLEAN, NEW o \in BOOLEAN, NEW v \in BOOLEAN
  PROVE  LET p == SystemPrompt(form, l, o, v)
         IN /\ p \in Seq(P) /\ Continues(p, Render(TemplateOf(form)))
            /\ Last(p) \in {"escalate", "no match"}
<1> DEFINE r == Render(TemplateOf(form))
           p == SystemPrompt(form, l, o, v)
           a == IF l THEN <<"language">> ELSE <<>>
           b == IF o THEN <<"tone">> ELSE <<>>
           c == <<"no meta-references">>
           d == IF v THEN "escalate" ELSE "no match"
           e == r \o a
           f == e \o b
           g == f \o c
<1>1. a \in Seq(P) /\ b \in Seq(P) /\ c \in Seq(P)
  <2>1. <<"language">> \in Seq(P) /\ <<"tone">> \in Seq(P) /\ <<"no meta-references">> \in Seq(P)
    BY Singles
  <2>2. <<>> \in Seq(P)
    BY NoneOf
  <2> QED
    BY <2>1, <2>2
<1>2. d \in P /\ d \in {"escalate", "no match"}
  OBVIOUS
<1>3. p = g \o <<d>>
  BY DEF SystemPrompt
<1> HIDE DEF a, b, c, d, p, r, e, f, g
<1>4. r \in Seq(P)
  BY DEF r
<1>5. e \in Seq(P) /\ Continues(e, r)
  BY <1>1, <1>4, ConcatContinues DEF e
<1>6. f \in Seq(P) /\ Continues(f, e)
  BY <1>1, <1>5, ConcatContinues DEF f
<1>7. g \in Seq(P) /\ Continues(g, f)
  BY <1>1, <1>6, ConcatContinues DEF g
<1>8. p \in Seq(P) /\ Continues(p, g)
  <2>1. <<d>> \in Seq(P)
    BY <1>2, Singles
  <2> QED
    BY <1>3, <1>7, <2>1, ConcatContinues
<1>9. Continues(p, r)
  BY <1>5, <1>6, <1>7, <1>8, ContinuesTransitive
<1>10. Last(p) = d
  BY <1>2, <1>3, <1>7, LastOfConcat
<1> QED
  BY <1>2, <1>8, <1>9, <1>10 DEF p, r

\* _render_system_prompt: for every template the context is in the prompt if
\* the template asks for it or cannot be formatted, and an instruction about the
\* marker is the last thing the model reads.
THEOREM ContextAlwaysReachesModel ==
  \A form \in Seq(Placeholders) : ContextReachesModel(form)
<1> SUFFICES ASSUME NEW form \in Seq(Placeholders)
             PROVE  ContextReachesModel(form)
  OBVIOUS
<1> DEFINE P == Placeholders \cup {"context", "language", "tone", "no meta-references",
                                   "escalate", "no match"}
           t == TemplateOf(form)
           r == Render(t)
           p == SystemPrompt(form, TRUE, TRUE, TRUE)
<1>1. t \in Seq(Placeholders) /\ ("{?}" \in ToSet(form) => "{?}" \in ToSet(t))
  <2>1. CASE form = <<>>
    <3>1. t = <<"{agent_name}", "text", "{context}">>
      BY <2>1 DEF TemplateOf
    <3>2. <<"{agent_name}", "text", "{context}">> \in Seq(Placeholders)
      <4>1. "{agent_name}" \in Placeholders /\ "text" \in Placeholders /\ "{context}" \in Placeholders
        BY DEF Placeholders
      <4> QED
        BY <4>1, Three
    <3>3. ToSet(<<>>) = {}
      BY DEF ToSet
    <3> QED
      BY <2>1, <3>1, <3>2, <3>3
  <2>2. CASE form # <<>>
    BY <2>2 DEF TemplateOf
  <2> QED
    BY <2>1, <2>2
<1>2. /\ Placeholders \subseteq P /\ "context" \in P
      /\ {"language", "tone", "no meta-references", "escalate", "no match"} \subseteq P
  OBVIOUS
<1> HIDE DEF P
<1>3. /\ r \in Seq(P)
      /\ "{context}" \in ToSet(t) \/ "{?}" \in ToSet(t) => \E n \in 1 .. Len(r) : r[n] = "context"
  <2> HIDE DEF t
  <2> QED
    BY <1>1, <1>2, RenderFills
<1>4. \A l, o, v \in BOOLEAN : Last(SystemPrompt(form, l, o, v)) \in {"escalate", "no match"}
  BY <1>2, <1>3, InstructionsFollow
<1>5. p \in Seq(P) /\ Continues(p, r)
  BY <1>2, <1>3, InstructionsFollow
<1>6. ASSUME "{context}" \in ToSet(t) \/ "{?}" \in ToSet(form)
      PROVE  "context" \in ToSet(p)
  <2> HIDE DEF p, r, t
  <2>1. PICK n \in 1 .. Len(r) : r[n] = "context"
    BY <1>1, <1>3, <1>6
  <2>2. Len(p) \in Nat /\ DOMAIN p = 1 .. Len(p)
    BY <1>5, LenProperties
  <2>3. n \in DOMAIN p /\ p[n] = "context"
    BY <1>5, <2>1, <2>2 DEF Continues
  <2> QED
    BY <2>3 DEF ToSet
<1> QED
  BY <1>4, <1>6 DEF ContextReachesModel

-----------------------------------------------------------------------------
(* The ranking of hybrid_search (Ranking).                                 *)

\* s lists some elements of a set by their scores, the best first, each once,
\* and no element it leaves out is better than one of its own.
ListsBest(s, from, score) ==
  /\ s \in Seq(from) /\ Len(s) \in Nat /\ DOMAIN s = 1 .. Len(s)
  /\ \A m, n \in 1 .. Len(s) : m < n => s[m] # s[n] /\ score[s[m]] >= score[s[n]]
  /\ \A i \in from :
       (\E n \in 1 .. Len(s) : s[n] = i) \/ (\A n \in 1 .. Len(s) : score[s[n]] >= score[i])

LEMMA BestIsBest ==
  ASSUME NEW n \in Nat, NEW from \in SUBSET Int, IsFiniteSet(from),
         NEW score, \A i \in from : score[i] \in Int
  PROVE  /\ ListsBest(Best(n, from, score), from, score)
         /\ Cardinality(from) \in Nat
         /\ Len(Best(n, from, score)) = IF n < Cardinality(from) THEN n ELSE Cardinality(from)
<1> DEFINE R == {p \in from \X from :
                   score[p[1]] > score[p[2]] \/ (score[p[1]] = score[p[2]] /\ p[1] < p[2])}
           s == Sorted(from, R)
           c == Cardinality(from)
           k == IF n < c THEN n ELSE c
           b == SubSeq(s, 1, k)
<1>1. \A i, j \in from :
        <<i, j>> \in R <=> score[i] > score[j] \/ (score[i] = score[j] /\ i < j)
  OBVIOUS
<1> HIDE DEF R
<1>2. StrictOrder(R, from)
  <2>1. \A i \in from : i \in Int /\ score[i] \in Int
    OBVIOUS
  <2>2. ASSUME NEW i \in from PROVE <<i, i>> \notin R
    BY <1>1, <2>1
  <2>3. ASSUME NEW i \in from, NEW j \in from, NEW l \in from, <<i, j>> \in R, <<j, l>> \in R
        PROVE  <<i, l>> \in R
    BY <1>1, <2>1, <2>3
  <2>4. ASSUME NEW i \in from, NEW j \in from, i # j
        PROVE  <<i, j>> \in R \/ <<j, i>> \in R
    BY <1>1, <2>1, <2>4
  <2> QED
    BY <2>2, <2>3, <2>4 DEF StrictOrder
<1>3. /\ c \in Nat /\ s \in [1 .. c -> from]
      /\ \A i \in from : \E m \in 1 .. c : s[m] = i
      /\ \A l, m \in 1 .. c : l < m => <<s[l], s[m]>> \in R
  BY <1>2, SortedSorts
<1>4. s \in Seq(from) /\ Len(s) = c
  <2> HIDE DEF s, c
  <2> QED
    BY <1>3, FunctionIsSeq
<1>5. Best(n, from, score) = b
  BY <1>4 DEF Best, R
<1>6. k \in 0 .. c
  BY <1>3
<1> HIDE DEF s, c, k
<1>7. b \in Seq(from) /\ Len(b) = k /\ \A m \in 1 .. k : b[m] = s[m]
  <2>1. 1 \in Int /\ k \in Int /\ \A m \in 1 .. k : s[m] \in from
    BY <1>3, <1>6
  <2>2. /\ b \in Seq(from)
        /\ Len(b) = IF 1 <= k THEN k - 1 + 1 ELSE 0
        /\ \A m \in 1 .. k - 1 + 1 : b[m] = s[1 + m - 1]
    BY <2>1, SubSeqProperties
  <2> QED
    BY <1>3, <1>6, <2>2
<1> HIDE DEF b
<1>8. DOMAIN b = 1 .. k
  BY <1>7, LenProperties
<1>9. ASSUME NEW l \in 1 .. c, NEW m \in 1 .. c, l < m
      PROVE  s[l] # s[m] /\ score[s[l]] >= score[s[m]]
  <2>1. s[l] \in from /\ s[m] \in from /\ <<s[l], s[m]>> \in R
    BY <1>3, <1>9
  <2>2. score[s[l]] \in Int /\ score[s[m]] \in Int /\ s[l] \in Int
    BY <2>1
  <2>3. score[s[l]] > score[s[m]] \/ (score[s[l]] = score[s[m]] /\ s[l] < s[m])
    BY <1>1, <2>1
  <2> QED
    BY <2>2, <2>3
<1>10. ASSUME NEW l \in 1 .. k, NEW m \in 1 .. k, l < m
       PROVE  b[l] # b[m] /\ score[b[l]] >= score[b[m]]
  <2>1. l \in 1 .. c /\ m \in 1 .. c
    BY <1>3, <1>6
  <2> QED
    BY <1>7, <1>9, <1>10, <2>1
<1>11. ASSUME NEW i \in from
       PROVE  (\E m \in 1 .. k : b[m] = i) \/ (\A m \in 1 .. k : score[b[m]] >= score[i])
  <2>1. PICK m \in 1 .. c : s[m] = i
    BY <1>3
  <2>2. CASE m <= k
    <3>1. m \in 1 .. k
      BY <1>3, <1>6, <2>2
    <3> QED
      BY <1>7, <2>1, <3>1
  <2>3. CASE k < m
    <3> SUFFICES ASSUME NEW l \in 1 .. k PROVE score[b[l]] >= score[i]
      OBVIOUS
    <3>1. l \in 1 .. c /\ l < m
      BY <1>3, <1>6, <2>3
    <3> QED
      BY <1>7, <1>9, <2>1, <3>1
  <2> QED
    BY <1>3, <1>6, <2>2, <2>3
<1>12. ListsBest(b, from, score)
  BY <1>6, <1>7, <1>8, <1>10, <1>11 DEF ListsBest
<1> QED
  BY <1>3, <1>5, <1>7, <1>12 DEF k, c

\* A list that is long enough is the whole sorted set.
LEMMA BestOfAll ==
  ASSUME NEW m \in Nat, NEW n \in Nat, NEW from \in SUBSET Int, IsFiniteSet(from),
         NEW score, \A i \in from : score[i] \in Int,
         Cardinality(from) <= m, Cardinality(from) <= n
  PROVE  Best(m, from, score) = Best(n, from, score)
<1> DEFINE R == {p \in from \X from :
                   score[p[1]] > score[p[2]] \/ (score[p[1]] = score[p[2]] /\ p[1] < p[2])}
           s == Sorted(from, R)
<1>1. Cardinality(from) \in Nat
  BY FS_CardinalityType
<1>2. s = [i \in 1 .. Cardinality(from) |->
             CHOOSE j \in from : Cardinality({l \in from : <<l, j>> \in R}) = i - 1]
  BY DEF Sorted
<1>3. Len(s) = Cardinality(from)
  <2> DEFINE V == {s[i] : i \in 1 .. Cardinality(from)}
  <2>1. s \in [1 .. Cardinality(from) -> V]
    BY <1>2
  <2> HIDE DEF s, V
  <2> QED
    BY <1>1, <2>1, FunctionIsSeq
<1>4. Best(m, from, score) = SubSeq(s, 1, IF m < Len(s) THEN m ELSE Len(s))
  BY DEF Best
<1>5. Best(n, from, score) = SubSeq(s, 1, IF n < Len(s) THEN n ELSE Len(s))
  BY DEF Best
<1> HIDE DEF s
<1> QED
  BY <1>1, <1>3, <1>4, <1>5

-----------------------------------------------------------------------------
RowType == [semantic : Int, keyword : Int]

\* The two pools list the best chunks by their signals.
LEMMA PoolsAreBest ==
  ASSUME NEW scored \in Seq(RowType)
  PROVE  LET hits == {i \in DOMAIN scored : scored[i].keyword > 0}
         IN /\ Len(scored) \in Nat /\ DOMAIN scored = 1 .. Len(scored)
            /\ \A i \in DOMAIN scored : Sem(scored)[i] = scored[i].semantic /\ Sem(scored)[i] \in Int
            /\ \A i \in DOMAIN scored : Kw(scored)[i] = scored[i].keyword /\ Kw(scored)[i] \in Int
            /\ DOMAIN Sem(scored) = DOMAIN scored /\ DOMAIN Kw(scored) = DOMAIN scored
            /\ IsFiniteSet(DOMAIN scored) /\ Cardinality(DOMAIN scored) = Len(scored)
            /\ IsFiniteSet(hits) /\ Cardinality(hits) \in 0 .. Len(scored)
            /\ DOMAIN scored \in SUBSET Int /\ hits \in SUBSET Int
            /\ ListsBest(SemanticPool(scored), DOMAIN scored, Sem(scored))
            /\ Len(SemanticPool(scored)) = IF Pool < Len(scored) THEN Pool ELSE Len(scored)
            /\ ListsBest(KeywordPool(scored), hits, Kw(scored))
<1> DEFINE hits == {i \in DOMAIN scored : scored[i].keyword > 0}
<1>1. Len(scored) \in Nat /\ DOMAIN scored = 1 .. Len(scored) /\ scored \in [1 .. Len(scored) -> RowType]
  BY LenProperties
<1>2. \A i \in DOMAIN scored : Sem(scored)[i] = scored[i].semantic /\ Sem(scored)[i] \in Int
  BY <1>1 DEF Sem, RowType
<1>3. \A i \in DOMAIN scored : Kw(scored)[i] = scored[i].keyword /\ Kw(scored)[i] \in Int
  BY <1>1 DEF Kw, RowType
<1>4. DOMAIN Sem(scored) = DOMAIN scored /\ DOMAIN Kw(scored) = DOMAIN scored
  BY DEF Sem, Kw
<1>5. IsFiniteSet(DOMAIN scored) /\ Cardinality(DOMAIN scored) = Len(scored)
  BY <1>1, FS_Interval
<1>6. hits \in SUBSET DOMAIN scored
  OBVIOUS
<1>7. SemanticPool(scored) = Best(Pool, DOMAIN scored, Sem(scored))
  BY DEF SemanticPool
<1>8. KeywordPool(scored) = Best(Pool, hits, Kw(scored))
  BY DEF KeywordPool
<1> HIDE DEF hits
<1>9. IsFiniteSet(hits) /\ Cardinality(hits) \in 0 .. Len(scored)
  <2>1. IsFiniteSet(hits) /\ Cardinality(hits) <= Cardinality(DOMAIN scored)
    BY <1>5, <1>6, FS_Subset
  <2>2. Cardinality(hits) \in Nat
    BY <2>1, FS_CardinalityType
  <2> QED
    BY <1>1, <1>5, <2>1, <2>2
<1>10. DOMAIN scored \in SUBSET Int /\ hits \in SUBSET Int
  BY <1>1, <1>6
<1>11. Pool \in Nat
  BY RankingAssumption
<1>12. /\ ListsBest(SemanticPool(scored), DOMAIN scored, Sem(scored))
       /\ Len(SemanticPool(scored)) = IF Pool < Len(scored) THEN Pool ELSE Len(scored)
  <2>1. /\ ListsBest(Best(Pool, DOMAIN scored, Sem(scored)), DOMAIN scored, Sem(scored))
        /\ Len(Best(Pool, DOMAIN scored, Sem(scored))) =
             IF Pool < Cardinality(DOMAIN scored) THEN Pool ELSE Cardinality(DOMAIN scored)
    BY <1>2, <1>5, <1>10, <1>11, BestIsBest
  <2> QED
    BY <1>5, <1>7, <2>1
<1>13. ListsBest(KeywordPool(scored), hits, Kw(scored))
  <2>1. \A i \in hits : Kw(scored)[i] \in Int
    BY <1>3, <1>6
  <2> QED
    BY <1>8, <1>9, <1>10, <1>11, <2>1, BestIsBest
<1> QED
  BY <1>1, <1>2, <1>3, <1>4, <1>5, <1>9, <1>10, <1>12, <1>13 DEF hits

LEMMA ProductIsNat == ASSUME NEW a \in Nat, NEW b \in Nat PROVE a * b \in Nat
OBVIOUS

LEMMA ProductIsPositive ==
  ASSUME NEW a \in Nat \ {0}, NEW b \in Nat \ {0} PROVE a * b \in Nat \ {0}
OBVIOUS

\* A signal as whole numbers: no chunk has more than den, none less than 0.
IsSignal(x, S) ==
  /\ x.den \in Nat \ {0}
  /\ x.value \in [S -> Nat]

\* The normalisation of a pool, brought to one denominator: the worst of the
\* pool gets 0 and so does every chunk outside it, unless all are equal; then
\* each of the pool gets all.
IsNormalized(x, pool, score, S) ==
  LET lo == score[pool[Len(pool)]]
      hi == score[pool[1]]
  IN /\ IsSignal(x, S)
     /\ \A i \in S : i \notin ToSet(pool) => x.value[i] = 0
     /\ \A i \in S : i \in ToSet(pool) /\ hi # lo /\ score[i] = lo => x.value[i] = 0
     /\ \A i \in S : i \in ToSet(pool) /\ hi = lo => x.value[i] = x.den
     /\ pool # <<>> /\ hi = lo => x.den = 1

LEMMA ScaledIs ==
  ASSUME NEW S, NEW pool \in Seq(S), NEW score \in [S -> Int], S # {},
         \A m, n \in 1 .. Len(pool) : m < n => score[pool[m]] >= score[pool[n]]
  PROVE  IsNormalized(Scaled(Normalized(pool, score)), pool, score, S)
<1> DEFINE f == Normalized(pool, score)
           x == Scaled(f)
           lo == score[pool[Len(pool)]]
           hi == score[pool[1]]
           In == ToSet(pool)
           k == Len(pool)
           dens == {f[i].den : i \in DOMAIN f}
           max == CHOOSE d \in dens : \A i \in DOMAIN f : f[i].den <= d
<1>1. DOMAIN f = S
  BY DEF Normalized
<1>2. ASSUME NEW i \in S
      PROVE  /\ i \notin In => f[i].num = 0 /\ f[i].den = 1
             /\ i \in In /\ hi = lo => f[i].num = 1 /\ f[i].den = 1
             /\ i \in In /\ hi # lo => f[i].num = score[i] - lo /\ f[i].den = hi - lo
  <2>1. i \in In <=> \E n \in DOMAIN pool : pool[n] = i
    BY DEF ToSet
  <2>2. f[i] = IF ~\E n \in DOMAIN pool : pool[n] = i THEN [num |-> 0, den |-> 1]
               ELSE IF hi = lo THEN [num |-> 1, den |-> 1]
               ELSE [num |-> score[i] - lo, den |-> hi - lo]
    BY DEF Normalized
  <2> HIDE DEF f, lo, hi, In
  <2> QED
    BY <2>1, <2>2
<1>3. x = [value |-> [i \in S |-> IF f[i].den = 1 THEN f[i].num * max ELSE f[i].num],
           den |-> max]
  BY <1>1 DEF Scaled
<1> HIDE DEF f, x, max
<1>4. ASSUME NEW i \in S, i \in In
      PROVE  /\ lo \in Int /\ hi \in Int /\ score[i] \in Int
             /\ lo <= score[i] /\ score[i] <= hi
             /\ pool # <<>>
  <2>0. k \in Nat /\ DOMAIN pool = 1 .. k /\ pool \in [1 .. k -> S]
    BY LenProperties
  <2>1. PICK n \in 1 .. k : pool[n] = i
    BY <1>4, <2>0 DEF ToSet
  <2>2. 1 \in 1 .. k /\ k \in 1 .. k
    BY <2>0, <2>1
  <2>3. pool[1] \in S /\ pool[k] \in S
    BY <2>0, <2>2
  <2>4. (n = 1 \/ 1 < n) /\ (n = k \/ n < k)
    <3> HIDE DEF k
    <3>1. k \in Int /\ n \in Int /\ 1 <= n /\ n <= k
      BY <2>0, <2>1
    <3> QED
      BY <3>1
  <2>5. lo \in Int /\ hi \in Int /\ score[i] \in Int
    BY <2>3
  <2>6. score[i] <= hi
    <3>1. 1 < n => score[pool[1]] >= score[pool[n]]
      BY <2>2
    <3> QED
      BY <2>1, <2>4, <2>5, <3>1
  <2>7. lo <= score[i]
    <3>1. n < k => score[pool[n]] >= score[pool[k]]
      BY <2>2
    <3> QED
      BY <2>1, <2>4, <2>5, <3>1
  <2>8. pool # <<>>
    BY <2>0, <2>1
  <2> QED
    BY <2>5, <2>6, <2>7, <2>8
<1> HIDE DEF lo, hi, In, k
<1>5. ASSUME NEW i \in S
      PROVE  /\ f[i].den \in Nat \ {0} /\ f[i].num \in Nat
             /\ f[i].den = 1 \/ f[i].den = hi - lo
  <2>1. CASE i \in In /\ hi # lo
    BY <1>2, <1>4, <2>1
  <2>2. CASE ~(i \in In /\ hi # lo)
    BY <1>2, <2>2
  <2> QED
    BY <2>1, <2>2
<1>6. /\ max \in dens /\ \A i \in S : f[i].den <= max
  <2>1. PICK i0 \in S : TRUE
    OBVIOUS
  <2>2. \E d \in dens : \A i \in DOMAIN f : f[i].den <= d
    <3>1. CASE \E i \in S : f[i].den # 1
      <4>1. PICK i \in S : f[i].den # 1
        BY <3>1
      <4>2. f[i].den = hi - lo /\ f[i].den \in Nat \ {0} /\ f[i].den \in dens
        BY <1>1, <1>5, <4>1
      <4>3. \A j \in S : f[j].den <= f[i].den
        <5> SUFFICES ASSUME NEW j \in S PROVE f[j].den <= f[i].den
          OBVIOUS
        <5>1. f[j].den = 1 \/ f[j].den = f[i].den
          BY <1>5, <4>2
        <5>2. f[j].den \in Nat
          BY <1>5
        <5> QED
          BY <4>2, <5>1, <5>2
      <4> QED
        BY <1>1, <4>2, <4>3
    <3>2. CASE \A i \in S : f[i].den = 1
      <4>1. 1 \in dens /\ \A i \in DOMAIN f : f[i].den <= 1
        BY <1>1, <2>1, <3>2
      <4> HIDE DEF dens
      <4> QED
        BY <4>1
    <3> QED
      BY <3>1, <3>2
  <2> HIDE DEF dens
  <2> QED
    BY <1>1, <2>2 DEF max
<1>7. max \in Nat \ {0}
  BY <1>1, <1>5, <1>6
<1>8. \A i \in S : x.value[i] = IF f[i].den = 1 THEN f[i].num * max ELSE f[i].num
  BY <1>3
<1>9. \A i \in S : x.value[i] \in Nat
  <2> SUFFICES ASSUME NEW i \in S PROVE x.value[i] \in Nat
    OBVIOUS
  <2>1. f[i].num \in Nat /\ max \in Nat
    BY <1>5, <1>7
  <2>2. f[i].num * max \in Nat
    <3> HIDE DEF max
    <3> QED
      BY <2>1
  <2> QED
    BY <1>8, <2>1, <2>2
<1>10. x.den = max /\ DOMAIN x.value = S /\ x.value = [i \in S |-> x.value[i]]
  BY <1>3
<1>11. IsSignal(x, S)
  BY <1>7, <1>9, <1>10 DEF IsSignal
<1>12. ASSUME NEW i \in S, f[i].num = 0
       PROVE  x.value[i] = 0
  BY <1>7, <1>8, <1>12
<1>13. \A i \in S : i \notin In => x.value[i] = 0
  BY <1>2, <1>12
<1>14. ASSUME NEW i \in S, i \in In, hi # lo, score[i] = lo
       PROVE  x.value[i] = 0
  <2>1. lo \in Int /\ f[i].num = lo - lo
    BY <1>2, <1>4, <1>14
  <2>2. f[i].num = 0
    BY <2>1
  <2> QED
    BY <1>12, <2>2
<1>15. ASSUME NEW i \in S, i \in In, hi = lo
       PROVE  x.value[i] = x.den
  <2>1. f[i].num = 1 /\ f[i].den = 1
    BY <1>2, <1>15
  <2> QED
    BY <1>7, <1>8, <1>10, <2>1
<1>16. ASSUME hi = lo PROVE x.den = 1
  <2>1. \A i \in S : f[i].den = 1
    BY <1>2, <1>16
  <2> QED
    BY <1>1, <1>6, <1>10, <2>1
<1> QED
  BY <1>11, <1>13, <1>14, <1>15, <1>16 DEF IsNormalized, x, f, lo, hi, In, k

\* What the blend of two pools of a row list is.
LEMMA BlendIs ==
  ASSUME NEW scored \in Seq(RowType), NEW semantic, NEW keyword,
         LET s == Scaled(Normalized(semantic, Sem(scored)))
             k == Scaled(Normalized(keyword, Kw(scored)))
         IN IsSignal(s, DOMAIN scored) /\ IsSignal(k, DOMAIN scored)
  PROVE  LET s == Scaled(Normalized(semantic, Sem(scored)))
             k == Scaled(Normalized(keyword, Kw(scored)))
             b == Blend(scored, semantic, keyword)
         IN /\ \A i \in DOMAIN scored : b[i] = (10 - Weight) * s.value[i] * k.den + Weight * k.value[i] * s.den
            /\ \A i \in DOMAIN scored : b[i] \in Int
<1> DEFINE s == Scaled(Normalized(semantic, Sem(scored)))
           k == Scaled(Normalized(keyword, Kw(scored)))
           b == Blend(scored, semantic, keyword)
<1>1. \A i \in DOMAIN scored : b[i] = (10 - Weight) * s.value[i] * k.den + Weight * k.value[i] * s.den
  BY DEF Blend
<1> HIDE DEF s, k, b
<1>2. ASSUME NEW i \in DOMAIN scored PROVE b[i] \in Int
  <2>1. s.value[i] \in Int /\ k.value[i] \in Int /\ s.den \in Int /\ k.den \in Int /\ Weight \in Int
    BY RankingAssumption DEF IsSignal, s, k
  <2>2. (10 - Weight) * s.value[i] * k.den \in Int
    BY <2>1
  <2>3. Weight * k.value[i] * s.den \in Int
    BY <2>1
  <2> QED
    BY <1>1, <2>2, <2>3
<1> QED
  BY <1>1, <1>2 DEF s, k, b

\* The two signals of a row list that is not empty.
LEMMA SignalsAre ==
  ASSUME NEW scored \in Seq(RowType), DOMAIN scored # {}
  PROVE  /\ IsSignal(Scaled(Normalized(SemanticPool(scored), Sem(scored))), DOMAIN scored)
         /\ IsSignal(Scaled(Normalized(KeywordPool(scored), Kw(scored))), DOMAIN scored)
<1> DEFINE D == DOMAIN scored
           hits == {i \in D : scored[i].keyword > 0}
           sp == SemanticPool(scored)
           kp == KeywordPool(scored)
<1>1. /\ \A i \in D : Sem(scored)[i] \in Int /\ Kw(scored)[i] \in Int
      /\ ListsBest(sp, D, Sem(scored)) /\ ListsBest(kp, hits, Kw(scored))
  BY PoolsAreBest
<1>2. Sem(scored) \in [D -> Int] /\ Kw(scored) \in [D -> Int]
  BY <1>1 DEF Sem, Kw
<1>3. sp \in Seq(D) /\ kp \in Seq(D)
  <2>1. sp \in Seq(D) /\ kp \in Seq(hits) /\ hits \subseteq D
    BY <1>1 DEF ListsBest
  <2> HIDE DEF D, hits, sp, kp
  <2> QED
    BY <2>1, SeqMonotonic
<1>4. /\ \A m, n \in 1 .. Len(sp) : m < n => Sem(scored)[sp[m]] >= Sem(scored)[sp[n]]
      /\ \A m, n \in 1 .. Len(kp) : m < n => Kw(scored)[kp[m]] >= Kw(scored)[kp[n]]
  BY <1>1 DEF ListsBest
<1> HIDE DEF D, hits, sp, kp
<1>5. D # {}
  BY DEF D
<1>6. IsSignal(Scaled(Normalized(sp, Sem(scored))), D)
  BY <1>2, <1>3, <1>4, <1>5, ScaledIs DEF IsNormalized
<1>7. IsSignal(Scaled(Normalized(kp, Kw(scored))), D)
  BY <1>2, <1>3, <1>4, <1>5, ScaledIs DEF IsNormalized
<1> QED
  BY <1>6, <1>7 DEF D, sp, kp

BlendOf(scored) == Blend(scored, SemanticPool(scored), KeywordPool(scored))

LEMMA BlendIsInt ==
  ASSUME NEW scored \in Seq(RowType), NEW i \in DOMAIN scored
  PROVE  BlendOf(scored)[i] \in Int
BY SignalsAre, BlendIs DEF BlendOf

\* The fused pools list chunks of the rows, each once, and none of the two
\* pools is missing.
LEMMA FusedIs ==
  ASSUME NEW scored \in Seq(RowType)
  PROVE  LET pool == Fused(scored)
             sp == SemanticPool(scored)
             kp == KeywordPool(scored)
         IN /\ pool \in Seq(DOMAIN scored) /\ Len(pool) \in Nat
            /\ DOMAIN pool = 1 .. Len(pool) /\ Len(sp) <= Len(pool)
            /\ \A m, n \in 1 .. Len(pool) : m < n => pool[m] # pool[n]
            /\ \A n \in DOMAIN sp : \E m \in 1 .. Len(pool) : pool[m] = sp[n]
            /\ \A n \in DOMAIN kp : \E m \in 1 .. Len(pool) : pool[m] = kp[n]
<1> DEFINE D == DOMAIN scored
           hits == {i \in D : scored[i].keyword > 0}
           sp == SemanticPool(scored)
           kp == KeywordPool(scored)
           keep == {n \in DOMAIN kp : kp[n] \notin ToSet(sp)}
           t == Kept(kp, keep)
           at == Ascending(keep)
           pool == sp \o t
<1>1. pool = Fused(scored)
  BY DEF Fused
<1>2. ListsBest(sp, D, Sem(scored)) /\ ListsBest(kp, hits, Kw(scored))
  BY PoolsAreBest
<1>3. sp \in Seq(D) /\ kp \in Seq(D)
  <2>1. sp \in Seq(D) /\ kp \in Seq(hits) /\ hits \subseteq D
    BY <1>2 DEF ListsBest
  <2> HIDE DEF D, hits, sp, kp
  <2> QED
    BY <2>1, SeqMonotonic
<1>4. /\ Len(sp) \in Nat /\ DOMAIN sp = 1 .. Len(sp) /\ DOMAIN kp = 1 .. Len(kp) /\ Len(kp) \in Nat
      /\ \A m, n \in 1 .. Len(sp) : m < n => sp[m] # sp[n]
      /\ \A m, n \in 1 .. Len(kp) : m < n => kp[m] # kp[n]
  BY <1>2 DEF ListsBest
<1>5. \A n \in keep : n \in 1 .. Len(kp) /\ \A m \in 1 .. Len(sp) : sp[m] # kp[n]
  BY <1>4 DEF ToSet
<1>6. \A n \in 1 .. Len(kp) : n \in keep \/ \E m \in 1 .. Len(sp) : sp[m] = kp[n]
  BY <1>4 DEF ToSet
<1>7. keep \in SUBSET DOMAIN kp
  OBVIOUS
<1> HIDE DEF D, hits, sp, kp, keep
<1>8. /\ t \in Seq(D) /\ Len(t) \in Nat /\ DOMAIN t = 1 .. Len(t)
      /\ at \in [DOMAIN t -> keep]
      /\ \A n \in DOMAIN t : t[n] = kp[at[n]]
      /\ \A i \in keep : \E n \in DOMAIN t : at[n] = i
      /\ \A m, n \in DOMAIN t : m < n => at[m] < at[n]
  BY <1>3, <1>7, KeptKeeps
<1> HIDE DEF t, at
<1>9. ASSUME NEW m \in 1 .. Len(t), NEW n \in 1 .. Len(t), m < n
      PROVE  t[m] # t[n]
  <2>1. at[m] \in keep /\ at[n] \in keep /\ at[m] < at[n] /\ t[m] = kp[at[m]] /\ t[n] = kp[at[n]]
    BY <1>8, <1>9
  <2>2. at[m] \in 1 .. Len(kp) /\ at[n] \in 1 .. Len(kp)
    BY <1>5, <2>1
  <2> QED
    BY <1>4, <2>1, <2>2
<1>10. ASSUME NEW m \in 1 .. Len(sp), NEW n \in 1 .. Len(t)
       PROVE  sp[m] # t[n]
  <2>1. at[n] \in keep /\ t[n] = kp[at[n]]
    BY <1>8
  <2> QED
    BY <1>5, <2>1
<1>11. /\ pool \in Seq(D) /\ Len(pool) = Len(sp) + Len(t)
       /\ \A n \in 1 .. Len(sp) : pool[n] = sp[n]
       /\ \A n \in 1 .. Len(t) : pool[Len(sp) + n] = t[n]
  BY <1>3, <1>8, ConcatKeepsFront
<1> HIDE DEF pool
<1>12. \A n \in 1 .. Len(pool) : (n \in 1 .. Len(sp)) \/ (\E k \in 1 .. Len(t) : n = Len(sp) + k)
  <2> SUFFICES ASSUME NEW n \in 1 .. Len(pool), n \notin 1 .. Len(sp)
               PROVE  \E k \in 1 .. Len(t) : n = Len(sp) + k
    OBVIOUS
  <2>1. n - Len(sp) \in 1 .. Len(t) /\ n = Len(sp) + (n - Len(sp))
    BY <1>4, <1>8, <1>11
  <2> QED
    BY <2>1
<1>13. ASSUME NEW m \in 1 .. Len(pool), NEW n \in 1 .. Len(pool), m < n
       PROVE  pool[m] # pool[n]
  <2>1. CASE m \in 1 .. Len(sp) /\ n \in 1 .. Len(sp)
    BY <1>4, <1>11, <1>13, <2>1
  <2>2. CASE m \in 1 .. Len(sp) /\ n \notin 1 .. Len(sp)
    <3>1. PICK k \in 1 .. Len(t) : n = Len(sp) + k
      BY <1>12, <2>2
    <3> QED
      BY <1>10, <1>11, <2>2, <3>1
  <2>3. CASE m \notin 1 .. Len(sp)
    <3>1. PICK k \in 1 .. Len(t) : m = Len(sp) + k
      BY <1>12, <2>3
    <3>2. n \notin 1 .. Len(sp)
      BY <1>4, <1>13, <3>1
    <3>3. PICK l \in 1 .. Len(t) : n = Len(sp) + l
      BY <1>12, <3>2
    <3>4. k < l
      BY <1>4, <1>13, <3>1, <3>3
    <3> QED
      BY <1>9, <1>11, <3>1, <3>3, <3>4
  <2> QED
    BY <2>1, <2>2, <2>3
<1>14. \A n \in DOMAIN sp : \E m \in 1 .. Len(pool) : pool[m] = sp[n]
  <2> SUFFICES ASSUME NEW n \in 1 .. Len(sp) PROVE \E m \in 1 .. Len(pool) : pool[m] = sp[n]
    BY <1>4
  <2>1. n \in 1 .. Len(pool)
    BY <1>4, <1>8, <1>11
  <2> QED
    BY <1>11, <2>1
<1>15. \A n \in DOMAIN kp : \E m \in 1 .. Len(pool) : pool[m] = kp[n]
  <2> SUFFICES ASSUME NEW n \in 1 .. Len(kp)
               PROVE  \E m \in 1 .. Len(pool) : pool[m] = kp[n]
    BY <1>4
  <2>1. CASE n \in keep
    <3>1. PICK k \in 1 .. Len(t) : at[k] = n
      BY <1>8, <2>1
    <3>2. Len(sp) + k \in 1 .. Len(pool)
      BY <1>4, <1>8, <1>11
    <3>3. pool[Len(sp) + k] = kp[n]
      BY <1>8, <1>11, <3>1
    <3> QED
      BY <3>2, <3>3
  <2>2. CASE n \notin keep
    <3>1. PICK l \in 1 .. Len(sp) : sp[l] = kp[n]
      BY <1>6, <2>2
    <3> QED
      BY <1>4, <1>14, <3>1
  <2> QED
    BY <2>1, <2>2
<1>16. Len(pool) \in Nat /\ DOMAIN pool = 1 .. Len(pool) /\ Len(sp) <= Len(pool)
  BY <1>4, <1>8, <1>11, LenProperties
<1> QED
  BY <1>1, <1>11, <1>13, <1>14, <1>15, <1>16 DEF D, sp, kp

\* The results list the best of the fused pools by the blend.
LEMMA ResultsAre ==
  ASSUME NEW scored \in Seq(RowType)
  PROVE  LET pool == Fused(scored)
             r == Results(scored)
         IN /\ ListsBest(r, ToSet(pool), BlendOf(scored))
            /\ Len(r) = IF TopK < Len(pool) THEN TopK ELSE Len(pool)
<1> DEFINE D == DOMAIN scored
           pool == Fused(scored)
           b == BlendOf(scored)
           score == [n \in DOMAIN pool |-> b[pool[n]]]
           order == Best(TopK, DOMAIN pool, score)
           r == Results(scored)
<1>1. /\ pool \in Seq(D) /\ Len(pool) \in Nat /\ DOMAIN pool = 1 .. Len(pool)
      /\ \A m, n \in 1 .. Len(pool) : m < n => pool[m] # pool[n]
  BY FusedIs
<1>2. r = [n \in DOMAIN order |-> pool[order[n]]]
  BY DEF Results, BlendOf
<1>3. \A n \in DOMAIN pool : pool[n] \in D
  BY <1>1, LenProperties
<1>4. \A n \in DOMAIN pool : score[n] \in Int
  BY <1>3, BlendIsInt
<1>5. IsFiniteSet(DOMAIN pool) /\ Cardinality(DOMAIN pool) = Len(pool) /\ DOMAIN pool \in SUBSET Int
  <2>1. \A n \in Nat : IsFiniteSet(1 .. n) /\ Cardinality(1 .. n) = n /\ 1 .. n \in SUBSET Int
    BY FirstNumbers
  <2> HIDE DEF pool
  <2> QED
    BY <1>1, <2>1
<1>6. TopK \in Nat
  BY RankingAssumption
<1>7. \A n \in DOMAIN pool : score[n] = b[pool[n]]
  OBVIOUS
<1> HIDE DEF pool, b, score, r
<1>8. ListsBest(order, DOMAIN pool, score) /\ Len(order) = IF TopK < Len(pool) THEN TopK ELSE Len(pool)
  BY <1>4, <1>5, <1>6, BestIsBest
<1> HIDE DEF order
<1>9. /\ order \in Seq(DOMAIN pool) /\ Len(order) \in Nat /\ DOMAIN order = 1 .. Len(order)
      /\ \A m, n \in 1 .. Len(order) : m < n => order[m] # order[n] /\ score[order[m]] >= score[order[n]]
      /\ \A i \in DOMAIN pool :
           (\E n \in 1 .. Len(order) : order[n] = i) \/ (\A n \in 1 .. Len(order) : score[order[n]] >= score[i])
  BY <1>8 DEF ListsBest
<1>10. \A n \in 1 .. Len(order) : order[n] \in DOMAIN pool
  BY <1>9, LenProperties
<1>11. \A n \in DOMAIN pool : pool[n] \in ToSet(pool)
  BY DEF ToSet
<1>12. \A n \in 1 .. Len(order) : r[n] = pool[order[n]] /\ b[r[n]] = score[order[n]]
  BY <1>2, <1>7, <1>9, <1>10
<1>13. r \in Seq(ToSet(pool)) /\ Len(r) = Len(order) /\ DOMAIN r = 1 .. Len(order)
  <2>1. r \in [1 .. Len(order) -> ToSet(pool)]
    BY <1>2, <1>9, <1>10, <1>11
  <2> QED
    BY <1>9, <2>1, FunctionIsSeq
<1>14. ASSUME NEW m \in 1 .. Len(r), NEW n \in 1 .. Len(r), m < n
       PROVE  r[m] # r[n] /\ b[r[m]] >= b[r[n]]
  <2>1. m \in 1 .. Len(order) /\ n \in 1 .. Len(order)
    BY <1>13
  <2>2. order[m] # order[n] /\ score[order[m]] >= score[order[n]]
    BY <1>9, <1>14, <2>1
  <2>3. order[m] \in 1 .. Len(pool) /\ order[n] \in 1 .. Len(pool)
    BY <1>1, <1>10, <2>1
  <2>4. order[m] < order[n] \/ order[n] < order[m]
    BY <2>2, <2>3
  <2>5. pool[order[m]] # pool[order[n]]
    BY <1>1, <2>3, <2>4
  <2> QED
    BY <1>12, <2>1, <2>2, <2>5
<1>15. ASSUME NEW i \in ToSet(pool)
       PROVE  (\E n \in 1 .. Len(r) : r[n] = i) \/ (\A n \in 1 .. Len(r) : b[r[n]] >= b[i])
  <2>1. PICK p \in DOMAIN pool : pool[p] = i
    BY DEF ToSet
  <2>2. b[i] = score[p]
    BY <1>7, <2>1
  <2>3. CASE \E n \in 1 .. Len(order) : order[n] = p
    BY <1>12, <1>13, <2>1, <2>3
  <2>4. CASE \A n \in 1 .. Len(order) : score[order[n]] >= score[p]
    BY <1>12, <1>13, <2>2, <2>4
  <2> QED
    BY <1>9, <2>3, <2>4
<1>16. ListsBest(r, ToSet(pool), b)
  BY <1>9, <1>13, <1>14, <1>15 DEF ListsBest
<1> QED
  BY <1>8, <1>13, <1>16 DEF pool, r, b

\* ask(): for every list of rows, the model is handed context exactly when some
\* chunk reaches the threshold by its raw similarity.
THEOREM GateIsAlwaysAbsolute == \A scored \in Seq(RowType) : GateIsAbsolute(scored)
<1> SUFFICES ASSUME NEW scored \in Seq(RowType), Threshold > 0, TopK > 0
             PROVE  Used(scored) # <<>> <=> \E i \in DOMAIN scored : scored[i].semantic >= Threshold
  BY DEF GateIsAbsolute
<1> DEFINE D == DOMAIN scored
           sp == SemanticPool(scored)
           best == IF sp = <<>> THEN 0 ELSE scored[sp[1]].semantic
<1>1. /\ Len(scored) \in Nat /\ D = 1 .. Len(scored)
      /\ \A i \in D : Sem(scored)[i] = scored[i].semantic /\ Sem(scored)[i] \in Int
      /\ ListsBest(sp, D, Sem(scored))
      /\ Len(sp) = IF Pool < Len(scored) THEN Pool ELSE Len(scored)
  BY PoolsAreBest
<1>2. Used(scored) = IF best >= Threshold THEN Results(scored) ELSE <<>>
  BY DEF Used
<1>3. /\ sp \in Seq(D) /\ Len(sp) \in Nat /\ DOMAIN sp = 1 .. Len(sp)
      /\ \A m, n \in 1 .. Len(sp) : m < n => Sem(scored)[sp[m]] >= Sem(scored)[sp[n]]
      /\ \A i \in D : (\E n \in 1 .. Len(sp) : sp[n] = i)
                      \/ (\A n \in 1 .. Len(sp) : Sem(scored)[sp[n]] >= Sem(scored)[i])
  BY <1>1 DEF ListsBest
<1>4. Pool \in Nat \ {0} /\ TopK \in Nat /\ Threshold \in Int
  BY RankingAssumption
<1>5. CASE D = {}
  <2>1. Len(sp) = 0
    BY <1>1, <1>4, <1>5
  <2>2. sp = <<>>
    <3> HIDE DEF sp
    <3> QED
      BY <1>3, <2>1, EmptySeq
  <2>3. Used(scored) = <<>>
    BY <1>2, <1>4, <2>2
  <2> QED
    BY <1>5, <2>3
<1>6. CASE D # {}
  <2>1. Len(scored) > 0 /\ Len(sp) > 0
    BY <1>1, <1>4, <1>6
  <2>2. Results(scored) # <<>>
    <3>1. Len(Results(scored)) = IF TopK < Len(Fused(scored)) THEN TopK ELSE Len(Fused(scored))
      BY ResultsAre
    <3>2. Len(Fused(scored)) \in Nat /\ Len(sp) <= Len(Fused(scored))
      BY FusedIs
    <3>3. Len(Results(scored)) # 0
      BY <1>3, <1>4, <2>1, <3>1, <3>2
    <3> QED
      BY <3>3
  <2>3. 1 \in 1 .. Len(sp) /\ sp # <<>>
    <3> HIDE DEF sp
    <3> QED
      BY <1>3, <2>1
  <2>4. sp[1] \in D
    BY <1>3, <2>3, LenProperties
  <2>5. best = Sem(scored)[sp[1]] /\ best \in Int
    BY <1>1, <2>3, <2>4
  <2> HIDE DEF best, sp, D
  <2>6. ASSUME NEW i \in D PROVE best >= scored[i].semantic
    <3>1. CASE \E n \in 1 .. Len(sp) : sp[n] = i
      <4>1. PICK n \in 1 .. Len(sp) : sp[n] = i
        BY <3>1
      <4>2. n = 1 \/ Sem(scored)[sp[1]] >= Sem(scored)[sp[n]]
        BY <1>3, <2>3
      <4> QED
        BY <1>1, <2>5, <4>1, <4>2
    <3>2. CASE \A n \in 1 .. Len(sp) : Sem(scored)[sp[n]] >= Sem(scored)[i]
      BY <1>1, <2>3, <2>5, <3>2
    <3> QED
      BY <1>3, <3>1, <3>2
  <2>7. best >= Threshold <=> \E i \in D : scored[i].semantic >= Threshold
    <3>1. ASSUME NEW i \in D, scored[i].semantic >= Threshold PROVE best >= Threshold
      <4>1. scored[i].semantic \in Int
        BY <1>1
      <4> QED
        BY <1>4, <2>5, <2>6, <3>1, <4>1
    <3>2. best = scored[sp[1]].semantic
      BY <1>1, <2>4, <2>5
    <3> QED
      BY <2>4, <3>1, <3>2
  <2> QED
    BY <1>2, <2>2, <2>7 DEF D
<1> QED
  BY <1>5, <1>6

\* hybrid_search: as long as the chunks fit into the pools, nothing is lost by
\* taking pools: the result is the TopK best by the blend over all chunks.
THEOREM PoolsHideNothing == \A scored \in Seq(RowType) : AsIfAllWereBlended(scored)
<1> SUFFICES ASSUME NEW scored \in Seq(RowType), Len(scored) <= Pool
             PROVE  LET b == Blend(scored, Best(Len(scored), DOMAIN scored, Sem(scored)),
                               Best(Len(scored), {i \in DOMAIN scored : scored[i].keyword > 0}, Kw(scored)))
                        r == ToSet(Results(scored))
                    IN /\ Cardinality(r) = IF Len(scored) < TopK THEN Len(scored) ELSE TopK
                       /\ \A i \in r, j \in DOMAIN scored \ r : b[i] >= b[j]
  BY DEF AsIfAllWereBlended
<1> DEFINE D == DOMAIN scored
           hits == {i \in D : scored[i].keyword > 0}
           sp == SemanticPool(scored)
           pool == Fused(scored)
           r == Results(scored)
           b == BlendOf(scored)
<1>1. /\ Len(scored) \in Nat /\ D = 1 .. Len(scored)
      /\ \A i \in D : Sem(scored)[i] \in Int /\ Kw(scored)[i] \in Int
      /\ IsFiniteSet(D) /\ Cardinality(D) = Len(scored) /\ D \in SUBSET Int
      /\ IsFiniteSet(hits) /\ Cardinality(hits) \in 0 .. Len(scored) /\ hits \in SUBSET Int
      /\ ListsBest(sp, D, Sem(scored))
      /\ Len(sp) = IF Pool < Len(scored) THEN Pool ELSE Len(scored)
  BY PoolsAreBest
<1>2. Pool \in Nat /\ TopK \in Nat
  BY RankingAssumption
<1>3. Best(Len(scored), D, Sem(scored)) = sp
  <2>1. Best(Len(scored), D, Sem(scored)) = Best(Pool, D, Sem(scored))
    <3> HIDE DEF D
    <3>1. /\ Len(scored) \in Nat /\ Pool \in Nat /\ D \in SUBSET Int /\ IsFiniteSet(D)
          /\ \A i \in D : Sem(scored)[i] \in Int
          /\ Cardinality(D) <= Len(scored) /\ Cardinality(D) <= Pool
      BY <1>1, <1>2
    <3> QED
      BY <3>1, BestOfAll
  <2> QED
    BY <2>1 DEF SemanticPool
<1>4. Best(Len(scored), hits, Kw(scored)) = KeywordPool(scored)
  <2>1. Best(Len(scored), hits, Kw(scored)) = Best(Pool, hits, Kw(scored))
    <3>1. \A i \in hits : Kw(scored)[i] \in Int
      BY <1>1
    <3> HIDE DEF hits
    <3>2. /\ Len(scored) \in Nat /\ Pool \in Nat /\ hits \in SUBSET Int /\ IsFiniteSet(hits)
          /\ Cardinality(hits) <= Len(scored) /\ Cardinality(hits) <= Pool
      BY <1>1, <1>2
    <3> QED
      BY <3>1, <3>2, BestOfAll
  <2> QED
    BY <2>1 DEF KeywordPool
<1>5. b = Blend(scored, Best(Len(scored), D, Sem(scored)), Best(Len(scored), hits, Kw(scored)))
  BY <1>3, <1>4 DEF BlendOf
<1> HIDE DEF D, hits, sp, pool, r, b
<1>6. Len(sp) = Len(scored)
  <2>1. Len(scored) \in Int /\ Pool \in Int /\ Len(sp) = IF Pool < Len(scored) THEN Pool ELSE Len(scored)
    BY <1>1, <1>2
  <2> QED
    BY <2>1
<1>7. /\ sp \in Seq(D) /\ DOMAIN sp = 1 .. Len(sp)
      /\ \A m, n \in 1 .. Len(sp) : m < n => sp[m] # sp[n]
  BY <1>1 DEF ListsBest
<1>8. \A i \in D : \E n \in 1 .. Len(sp) : sp[n] = i
  <2>1. sp \in Injection(1 .. Len(scored), D)
    <3>1. sp \in [1 .. Len(scored) -> D]
      BY <1>6, <1>7, LenProperties
    <3>2. \A m, n \in 1 .. Len(scored) : sp[m] = sp[n] => m = n
      <4> SUFFICES ASSUME NEW m \in 1 .. Len(scored), NEW n \in 1 .. Len(scored), m # n
                   PROVE  sp[m] # sp[n]
        OBVIOUS
      <4>1. m < n \/ n < m
        BY <1>1
      <4> QED
        BY <1>6, <1>7, <4>1
    <3> QED
      BY <3>1, <3>2 DEF Injection, IsInjective
  <2>2. /\ IsFiniteSet(1 .. Len(scored)) /\ Cardinality(1 .. Len(scored)) = Len(scored)
    BY <1>1
  <2>3. sp \in Surjection(1 .. Len(scored), D)
    BY <1>1, <2>1, <2>2, FS_Injection
  <2> QED
    BY <1>6, <2>3 DEF Surjection
<1>9. /\ pool \in Seq(D) /\ Len(pool) \in Nat /\ DOMAIN pool = 1 .. Len(pool)
      /\ \A m, n \in 1 .. Len(pool) : m < n => pool[m] # pool[n]
      /\ \A n \in DOMAIN sp : \E m \in 1 .. Len(pool) : pool[m] = sp[n]
  BY FusedIs DEF D, pool, sp
<1>10. ToSet(pool) = D
  <2>1. \A m \in DOMAIN pool : pool[m] \in D
    BY <1>9, LenProperties
  <2>2. \A i \in D : \E m \in DOMAIN pool : pool[m] = i
    BY <1>7, <1>8, <1>9
  <2> QED
    BY <2>1, <2>2 DEF ToSet
<1>11. Len(pool) = Len(scored)
  <2>1. pool \in Bijection(1 .. Len(pool), D)
    <3>1. pool \in [1 .. Len(pool) -> D]
      BY <1>9, LenProperties
    <3>2. \A m, n \in 1 .. Len(pool) : pool[m] = pool[n] => m = n
      <4> SUFFICES ASSUME NEW m \in 1 .. Len(pool), NEW n \in 1 .. Len(pool), m # n
                   PROVE  pool[m] # pool[n]
        OBVIOUS
      <4>1. m < n \/ n < m
        BY <1>9
      <4> QED
        BY <1>9, <4>1
    <3>3. \A i \in D : \E m \in 1 .. Len(pool) : pool[m] = i
      BY <1>7, <1>8, <1>9
    <3> QED
      BY <3>1, <3>2, <3>3 DEF Bijection, Injection, Surjection, IsInjective
  <2>2. Cardinality(D) = Len(pool)
    BY <1>9, <1>1, <2>1, FS_CountingElements DEF ExistsBijection
  <2> QED
    BY <1>1, <2>2
<1>12. ListsBest(r, D, b) /\ Len(r) = IF TopK < Len(scored) THEN TopK ELSE Len(scored)
  BY <1>10, <1>11, ResultsAre DEF r, b, pool
<1>13. /\ r \in Seq(D) /\ Len(r) \in Nat /\ DOMAIN r = 1 .. Len(r)
       /\ \A m, n \in 1 .. Len(r) : m < n => r[m] # r[n] /\ b[r[m]] >= b[r[n]]
       /\ \A i \in D : (\E n \in 1 .. Len(r) : r[n] = i) \/ (\A n \in 1 .. Len(r) : b[r[n]] >= b[i])
  BY <1>12 DEF ListsBest
<1>14. Cardinality(ToSet(r)) = Len(r)
  <2>1. r \in Bijection(1 .. Len(r), ToSet(r))
    <3>1. r \in [1 .. Len(r) -> ToSet(r)] /\ \A i \in ToSet(r) : \E m \in 1 .. Len(r) : r[m] = i
      BY <1>13, LenProperties DEF ToSet
    <3>2. \A m, n \in 1 .. Len(r) : r[m] = r[n] => m = n
      <4> SUFFICES ASSUME NEW m \in 1 .. Len(r), NEW n \in 1 .. Len(r), m # n
                   PROVE  r[m] # r[n]
        OBVIOUS
      <4>1. m < n \/ n < m
        BY <1>13
      <4> QED
        BY <1>13, <4>1
    <3> QED
      BY <3>1, <3>2 DEF Bijection, Injection, Surjection, IsInjective
  <2>2. IsFiniteSet(ToSet(r))
    <3>1. ToSet(r) \in SUBSET D
      BY <1>13, LenProperties DEF ToSet
    <3> QED
      BY <1>1, <3>1, FS_Subset
  <2> QED
    BY <1>13, <2>1, <2>2, FS_CountingElements DEF ExistsBijection
<1>15. Cardinality(ToSet(r)) = IF Len(scored) < TopK THEN Len(scored) ELSE TopK
  BY <1>1, <1>2, <1>12, <1>14
<1>16. ASSUME NEW i \in ToSet(r), NEW j \in D \ ToSet(r) PROVE b[i] >= b[j]
  <2>1. PICK n \in 1 .. Len(r) : r[n] = i
    BY <1>13 DEF ToSet
  <2>2. ~\E m \in 1 .. Len(r) : r[m] = j
    BY <1>13 DEF ToSet
  <2> QED
    BY <1>13, <2>1, <2>2
<1> QED
  BY <1>5, <1>15, <1>16 DEF D, hits, r

\* hybrid_search: the only hit of the keyword search ranks before every chunk
\* that is last of several by similarity.
THEOREM SoleHitAlwaysCounts == \A scored \in Seq(RowType) : SoleHitCounts(scored)
<1> DEFINE Lowest(scored, i) ==
             scored[i].semantic = scored[SemanticPool(scored)[Len(SemanticPool(scored))]].semantic
<1> SUFFICES ASSUME NEW scored \in Seq(RowType),
                    Len(KeywordPool(scored)) = 1, Weight > 0,
                    ~Lowest(scored, SemanticPool(scored)[1]),
                    NEW m \in DOMAIN Results(scored),
                    Lowest(scored, Results(scored)[m]), Results(scored)[m] # KeywordPool(scored)[1]
             PROVE  \E n \in 1 .. m - 1 : Results(scored)[n] = KeywordPool(scored)[1]
  BY DEF SoleHitCounts
<1> DEFINE D == DOMAIN scored
           hits == {i \in D : scored[i].keyword > 0}
           sp == SemanticPool(scored)
           kp == KeywordPool(scored)
           r == Results(scored)
           b == BlendOf(scored)
           s == Scaled(Normalized(sp, Sem(scored)))
           k == Scaled(Normalized(kp, Kw(scored)))
           hit == kp[1]
           low == r[m]
<1>1. /\ Len(scored) \in Nat /\ D = 1 .. Len(scored)
      /\ \A i \in D : Sem(scored)[i] = scored[i].semantic /\ Sem(scored)[i] \in Int
      /\ \A i \in D : Kw(scored)[i] = scored[i].keyword /\ Kw(scored)[i] \in Int
      /\ ListsBest(sp, D, Sem(scored)) /\ ListsBest(kp, hits, Kw(scored))
      /\ Len(sp) = IF Pool < Len(scored) THEN Pool ELSE Len(scored)
  BY PoolsAreBest
<1>2. /\ sp \in Seq(D) /\ DOMAIN sp = 1 .. Len(sp)
      /\ \A i, j \in 1 .. Len(sp) : i < j => Sem(scored)[sp[i]] >= Sem(scored)[sp[j]]
      /\ kp \in Seq(D) /\ DOMAIN kp = 1 .. 1 /\ 1 \in DOMAIN kp
      /\ \A i, j \in 1 .. Len(kp) : i < j => Kw(scored)[kp[i]] >= Kw(scored)[kp[j]]
  <2>1. /\ sp \in Seq(D) /\ DOMAIN sp = 1 .. Len(sp)
        /\ \A i, j \in 1 .. Len(sp) : i < j => Sem(scored)[sp[i]] >= Sem(scored)[sp[j]]
        /\ kp \in Seq(hits) /\ DOMAIN kp = 1 .. Len(kp)
        /\ \A i, j \in 1 .. Len(kp) : i < j => Kw(scored)[kp[i]] >= Kw(scored)[kp[j]]
    BY <1>1 DEF ListsBest
  <2>2. kp \in Seq(D)
    <3>1. hits \subseteq D
      OBVIOUS
    <3> HIDE DEF kp, hits, D
    <3> QED
      BY <2>1, <3>1, SeqMonotonic
  <2> QED
    BY <2>1, <2>2
<1>3. hit \in D
  <2>1. kp \in Seq(D) /\ 1 \in DOMAIN kp
    BY <1>2
  <2> HIDE DEF kp, D
  <2>2. kp[1] \in D
    BY <2>1, LenProperties
  <2> QED
    BY <2>2
<1>4. Sem(scored) \in [D -> Int] /\ Kw(scored) \in [D -> Int]
  BY <1>1 DEF Sem, Kw
<1>5. /\ \A i \in D : b[i] = (10 - Weight) * s.value[i] * k.den + Weight * k.value[i] * s.den
      /\ \A i \in D : b[i] \in Int
  <2>1. IsSignal(s, D) /\ IsSignal(k, D)
    BY <1>3, SignalsAre
  <2> QED
    BY <2>1, BlendIs DEF BlendOf
<1>6. /\ ListsBest(r, ToSet(Fused(scored)), b)
      /\ hit \in ToSet(Fused(scored))
      /\ ToSet(Fused(scored)) \subseteq D
  <2>1. /\ Fused(scored) \in Seq(D) /\ DOMAIN Fused(scored) = 1 .. Len(Fused(scored))
        /\ \A n \in DOMAIN kp : \E l \in 1 .. Len(Fused(scored)) : Fused(scored)[l] = kp[n]
    BY FusedIs
  <2>2. \E l \in DOMAIN Fused(scored) : Fused(scored)[l] = hit
    BY <1>2, <2>1
  <2>3. ToSet(Fused(scored)) \subseteq D
    BY <2>1, LenProperties DEF ToSet
  <2> QED
    BY <2>2, <2>3, ResultsAre DEF ToSet
<1>7. m \in 1 .. Len(r) /\ Len(r) \in Nat /\ low \in D /\ low # hit
  <2>1. r \in Seq(ToSet(Fused(scored))) /\ Len(r) \in Nat /\ DOMAIN r = 1 .. Len(r)
    BY <1>6 DEF ListsBest
  <2>2. low \in ToSet(Fused(scored))
    BY <2>1, LenProperties
  <2> QED
    BY <1>6, <2>1, <2>2
<1> HIDE DEF D, sp, kp, r, b, s, k, hit, low
<1>8. k.den = 1 /\ k.value[hit] = 1 /\ k.value[low] = 0
  <2>1. D # {} /\ kp # <<>>
    <3>1. DOMAIN <<>> = {}
      OBVIOUS
    <3>2. kp # <<>>
      BY <1>2, <3>1
    <3> QED
      BY <1>3, <3>2
  <2>2. Kw(scored)[kp[1]] = Kw(scored)[kp[Len(kp)]]
    BY DEF kp
  <2>3. /\ \A i \in D : i \notin ToSet(kp) => k.value[i] = 0
        /\ \A i \in D : i \in ToSet(kp) => k.value[i] = k.den
        /\ k.den = 1
    <3>1. IsNormalized(k, kp, Kw(scored), D)
      BY <1>2, <1>4, <2>1, ScaledIs DEF k
    <3> QED
      BY <2>1, <2>2, <3>1 DEF IsNormalized
  <2>4. ToSet(kp) = {hit}
    BY <1>2 DEF ToSet, hit
  <2> QED
    BY <1>3, <1>7, <2>3, <2>4
<1>9. s.value[low] = 0 /\ s.value[hit] \in Nat /\ s.den \in Nat \ {0}
  <2>1. D # {}
    BY <1>3
  <2>2. Sem(scored)[low] = Sem(scored)[sp[Len(sp)]] /\ Sem(scored)[sp[1]] # Sem(scored)[sp[Len(sp)]]
    <3>1. Len(scored) > 0 /\ Len(sp) > 0 /\ Len(sp) \in Nat
      <4>1. Len(scored) \in Nat \ {0}
        BY <1>1, <1>3
      <4> QED
        BY <1>1, <4>1, RankingAssumption
    <3>2. 1 \in 1 .. Len(sp) /\ Len(sp) \in 1 .. Len(sp)
      BY <3>1
    <3>3. sp[1] \in D /\ sp[Len(sp)] \in D
      BY <1>2, <3>2, LenProperties
    <3> QED
      BY <1>1, <1>7, <3>3 DEF sp, low, r
  <2>3. /\ IsSignal(s, D)
        /\ \A i \in D : i \notin ToSet(sp) => s.value[i] = 0
        /\ \A i \in D : i \in ToSet(sp) /\ Sem(scored)[i] = Sem(scored)[sp[Len(sp)]] => s.value[i] = 0
    <3>1. IsNormalized(s, sp, Sem(scored), D)
      BY <1>2, <1>4, <2>1, ScaledIs DEF s
    <3> QED
      BY <2>2, <3>1 DEF IsNormalized
  <2> QED
    BY <1>3, <1>7, <2>2, <2>3 DEF IsSignal
<1>10. b[hit] > b[low]
  <2>1. Weight \in 1 .. 10
    BY RankingAssumption
  <2>2. b[low] = (10 - Weight) * 0 * 1 + Weight * 0 * s.den
    BY <1>5, <1>7, <1>8, <1>9
  <2>3. b[low] = 0
    BY <1>9, <2>1, <2>2
  <2>4. b[hit] = (10 - Weight) * s.value[hit] * 1 + Weight * 1 * s.den
    BY <1>3, <1>5, <1>8
  <2>5. (10 - Weight) * s.value[hit] \in Nat
    <3>1. 10 - Weight \in Nat /\ s.value[hit] \in Nat
      <4>1. 10 - Weight \in Nat
        BY <2>1
      <4> QED
        BY <1>9, <4>1
    <3> QED
      BY <3>1, ProductIsNat
  <2>6. Weight * s.den \in Nat \ {0}
    <3>1. Weight \in Nat \ {0} /\ s.den \in Nat \ {0}
      BY <1>9, <2>1
    <3> QED
      BY <3>1, ProductIsPositive
  <2>7. b[hit] = (10 - Weight) * s.value[hit] + Weight * s.den
    BY <1>9, <2>1, <2>4
  <2> QED
    BY <2>3, <2>5, <2>6, <2>7
<1>11. \E n \in 1 .. m - 1 : r[n] = hit
  <2>1. b[hit] \in Int /\ b[low] \in Int
    BY <1>3, <1>5, <1>7
  <2>2. PICK n \in 1 .. Len(r) : r[n] = hit
    <3>1. ~(b[low] >= b[hit])
      BY <1>10, <2>1
    <3> QED
      BY <1>6, <1>7, <3>1 DEF ListsBest, low
  <2>3. ~(m < n)
    <3>1. m < n => b[r[m]] >= b[r[n]]
      BY <1>6, <1>7 DEF ListsBest
    <3> QED
      BY <1>10, <2>1, <2>2, <3>1 DEF low
  <2>4. n # m
    BY <1>7, <2>2 DEF low
  <2>5. n \in 1 .. m - 1
    BY <1>7, <2>3, <2>4
  <2> QED
    BY <2>2, <2>5
<1> QED
  BY <1>11 DEF r, hit, kp

-----------------------------------------------------------------------------
(* The inputs of MCAnswering.                                              *)

\* The four inputs are lists of what the functions take.
InputOK ==
  /\ body \in Seq(Line)
  /\ rows \in Seq(RowType)
  /\ reply \in Seq(Tokens)
  /\ template \in Seq(Placeholders)

LEMMA ElementsFit == Lines \subseteq Line /\ Hits \subseteq RowType
<1>1. ASSUME NEW l \in Lines PROVE l \in Line
  <2>1. CASE l \in [level : 1 .. 3, titled : BOOLEAN]
    BY <2>1 DEF Line, Heading
  <2>2. CASE l \in [length : 0 .. MaxChunk + 1]
    <3>1. 0 .. MaxChunk + 1 \subseteq Nat
      BY ChunkingAssumption
    <3> QED
      BY <2>2, <3>1 DEF Line, Text
  <2> QED
    BY <2>1, <2>2 DEF Lines
<1>2. Hits \subseteq RowType
  BY DEF Hits, RowType
<1> QED
  BY <1>1, <1>2

LEMMA Longer == ASSUME NEW V, NEW s \in Seq(V), NEW x \in V PROVE Append(s, x) \in Seq(V)
OBVIOUS

LEMMA InputStays == ASSUME InputOK, [Next]_input PROVE InputOK'
<1>1. CASE AddLine
  <2>1. PICK line \in Lines : body' = Append(body, line)
    BY <1>1 DEF AddLine
  <2>2. line \in Line
    BY ElementsFit
  <2>3. body' \in Seq(Line)
    BY <2>1, <2>2, Longer DEF InputOK
  <2> QED
    BY <1>1, <2>3 DEF AddLine, InputOK
<1>2. CASE AddHit
  <2>1. PICK hit \in Hits : rows' = Append(rows, hit)
    BY <1>2 DEF AddHit
  <2>2. hit \in RowType
    BY ElementsFit
  <2>3. rows' \in Seq(RowType)
    BY <2>1, <2>2, Longer DEF InputOK
  <2> QED
    BY <1>2, <2>3 DEF AddHit, InputOK
<1>3. CASE AddToken
  <2>1. PICK x \in Tokens : reply' = Append(reply, x)
    BY <1>3 DEF AddToken
  <2>2. reply' \in Seq(Tokens)
    BY <2>1, Longer DEF InputOK
  <2> QED
    BY <1>3, <2>2 DEF AddToken, InputOK
<1>4. CASE AddPlaceholder
  <2>1. PICK x \in Placeholders : template' = Append(template, x)
    BY <1>4 DEF AddPlaceholder
  <2>2. template' \in Seq(Placeholders)
    BY <2>1, Longer DEF InputOK
  <2> QED
    BY <1>4, <2>2 DEF AddPlaceholder, InputOK
<1>5. CASE UNCHANGED input
  BY <1>5 DEF input, InputOK
<1> QED
  BY <1>1, <1>2, <1>3, <1>4, <1>5 DEF Next

\* Every state of MCAnswering holds an input of the functions.
THEOREM InputsAreLists == Spec => []InputOK
<1>1. Init => InputOK
  BY EmptySeq DEF Init, InputOK
<1> QED
  BY <1>1, InputStays, PTL DEF Spec

\* chunk_markdown: no text of a section is lost or repeated, only a heading
\* without a title takes a line for it, and each chunk carries the path of
\* titles its text stands under, for every body.
THEOREM BodiesChunk == Spec => []BodyChunks
<1>1. InputOK => BodyChunks
  BY ChunksAlwaysCarryOutline, ChunksAlwaysCoverText DEF InputOK, BodyChunks
<1> QED
  BY <1>1, InputsAreLists, PTL

\* hybrid_search: pools that hold all of a tenant's chunks hide none, and the
\* only keyword hit keeps its weight.
THEOREM SearchesRank == Spec => []RowsRanked
<1>1. InputOK => RowsRanked
  BY PoolsHideNothing, SoleHitAlwaysCounts DEF InputOK, RowsRanked
<1> QED
  BY <1>1, InputsAreLists, PTL

\* ask(): whether context is used depends on the best raw similarity only.
THEOREM GatesAreAbsolute == Spec => []RowsGate
<1>1. InputOK => RowsGate
  BY GateIsAlwaysAbsolute DEF InputOK, RowsGate
<1> QED
  BY <1>1, InputsAreLists, PTL

\* The clean-up keeps what every reply says, but for a marker at its end, which
\* escalates and is taken off.
THEOREM RepliesAreClean == Spec => []ReplyClean
<1>1. InputOK => ReplyClean
  BY WordsAlwaysSurvive, MarkersAlwaysEscalate DEF InputOK, ReplyClean
<1> QED
  BY <1>1, InputsAreLists, PTL

\* _render_system_prompt: a template's request for context is never dropped,
\* and the instruction about the marker stands last.
THEOREM TemplatesGetContext == Spec => []TemplateContext
<1>1. InputOK => TemplateContext
  BY ContextAlwaysReachesModel DEF InputOK, TemplateContext
<1> QED
  BY <1>1, InputsAreLists, PTL
=============================================================================
