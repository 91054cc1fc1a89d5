------------------------------- MODULE Ranking -------------------------------
(***************************************************************************)
(* hybrid_search of app/services/vector_store.py, and the gate of ask():   *)
(* a semantic and a keyword pool of the best chunks each, normalised, are  *)
(* blended into one ranking of at most TopK chunks.                        *)
(*                                                                         *)
(* The rows are a sequence of chunks with their two raw scores, in the     *)
(* order the database returns them; sorts are stable.  Scores are whole    *)
(* numbers and the blend is compared exactly; rounding is left out.        *)
(***************************************************************************)
EXTENDS Integers, SequencesExt, Listing

CONSTANTS
  TopK, Pool,   \* top_k; semantic_pool and keyword_pool
  Weight,       \* keyword_weight, in tenths
  Threshold     \* the tenant's retrieval_confidence_threshold

ASSUME RankingAssumption ==
  /\ TopK \in Nat /\ Pool \in Nat \ {0}
  /\ Weight \in 0 .. 10
  /\ Threshold \in Int

\* The best n rows of a set by a score, best first.
Best(n, from, score) ==
  LET sorted == Sorted(from, {p \in from \X from :
                  score[p[1]] > score[p[2]] \/ (score[p[1]] = score[p[2]] /\ p[1] < p[2])})
  IN SubSeq(sorted, 1, IF n < Len(sorted) THEN n ELSE Len(sorted))

Sem(rows) == [i \in DOMAIN rows |-> rows[i].semantic]
Kw(rows) == [i \in DOMAIN rows |-> rows[i].keyword]

\* Mutated form: the search keeps top_k chunks instead of a wider pool.
SemanticPoolNarrow(rows) == Best(TopK, DOMAIN rows, Sem(rows))

SemanticPool(rows) == Best(Pool, DOMAIN rows, Sem(rows))

\* MATCH ... > 0
KeywordPool(rows) == Best(Pool, {i \in DOMAIN rows : rows[i].keyword > 0}, Kw(rows))

\* _min_max_normalize, as a fraction: 0 for the worst of the pool as for a
\* chunk outside it, and 1 for all when they are equal.
Normalized(pool, score) ==
  LET lo == score[pool[Len(pool)]]
      hi == score[pool[1]]
  IN [i \in DOMAIN score |->
       IF ~\E n \in DOMAIN pool : pool[n] = i THEN [num |-> 0, den |-> 1]
       ELSE IF hi = lo THEN [num |-> 1, den |-> 1]
       ELSE [num |-> score[i] - lo, den |-> hi - lo]]

\* The larger denominator of a signal serves for all of its fractions.
Scaled(f) ==
  LET den == CHOOSE d \in {f[i].den : i \in DOMAIN f} : \A i \in DOMAIN f : f[i].den <= d
  IN [value |-> [i \in DOMAIN f |-> IF f[i].den = 1 THEN f[i].num * den ELSE f[i].num], den |-> den]

\* (1 - w) * sem + w * kw, times ten and both denominators.
Blend(rows, semantic, keyword) ==
  LET s == Scaled(Normalized(semantic, Sem(rows)))
      k == Scaled(Normalized(keyword, Kw(rows)))
  IN [i \in DOMAIN rows |-> (10 - Weight) * s.value[i] * k.den + Weight * k.value[i] * s.den]

\* The chunks of both pools, the semantic ones first.
Fused(rows) ==
  LET semantic == SemanticPool(rows)
      keyword == KeywordPool(rows)
  IN semantic \o Kept(keyword, {n \in DOMAIN keyword : keyword[n] \notin ToSet(semantic)})

\* fused.sort and the cut at top_k.
Results(rows) ==
  LET pool == Fused(rows)
      b == Blend(rows, SemanticPool(rows), KeywordPool(rows))
      order == Best(TopK, DOMAIN pool, [n \in DOMAIN pool |-> b[pool[n]]])
  IN [n \in DOMAIN order |-> pool[order[n]]]

\* Mutated form: the gate looks at the first result's similarity.
UsedFirst(rows) ==
  LET r == Results(rows)
  IN IF r # <<>> /\ rows[r[1]].semantic >= Threshold THEN r ELSE <<>>

\* best_semantic_similarity, the raw one, decides whether any is used.
Used(rows) ==
  LET pool == SemanticPool(rows)
      best == IF pool = <<>> THEN 0 ELSE rows[pool[1]].semantic
  IN IF best >= Threshold THEN Results(rows) ELSE <<>>

-----------------------------------------------------------------------------
\* The pools are wide enough to hide nothing: as long as a tenant's chunks fit
\* into them, the result is the TopK best by the blend over all of its chunks.
\* "Normalizing only the top_k from each side would silently exclude anything
\* not already in both narrow slices."
AsIfAllWereBlended(rows) ==
  LET all == DOMAIN rows
      b == Blend(rows, Best(Len(rows), all, Sem(rows)),
                 Best(Len(rows), {i \in all : rows[i].keyword > 0}, Kw(rows)))
      r == ToSet(Results(rows))
  IN Len(rows) <= Pool =>
       /\ Cardinality(r) = IF Len(rows) < TopK THEN Len(rows) ELSE TopK
       /\ \A i \in r, j \in all \ r : b[i] >= b[j]

\* The one chunk that the keyword search finds has the keyword weight to itself,
\* although there is nothing to normalise it against: it ranks before every
\* chunk that comes last of several by similarity.
SoleHitCounts(rows) ==
  LET k == KeywordPool(rows)
      s == SemanticPool(rows)
      r == Results(rows)
      Lowest(i) == rows[i].semantic = rows[s[Len(s)]].semantic
  IN Len(k) = 1 /\ Weight > 0 /\ ~Lowest(s[1]) =>
       \A m \in DOMAIN r :
         Lowest(r[m]) /\ r[m] # k[1] => \E n \in 1 .. m - 1 : r[n] = k[1]

\* The model is handed context exactly when some chunk is similar enough in
\* absolute terms, however the normalisation has stretched the scores.
GateIsAbsolute(rows) ==
  Threshold > 0 /\ TopK > 0 =>
    (Used(rows) # <<>> <=> \E i \in DOMAIN rows : rows[i].semantic >= Threshold)
=============================================================================
