-------------------------- MODULE MCDuplicateFlags --------------------------
(* Instances of DuplicateFlags for TLC: l2 is l1 with accents, and not        *)
(* similar to it; l3 is a heading path like l1 that does not fit into a flag. *)
EXTENDS DuplicateFlags, TLC

CONSTANTS l1, l2, l3

MCCanon == [l \in Labels |-> IF l = l2 THEN l1 ELSE l]
MCSimilar == {{l1, l3}}

Symmetry == Permutations(Scans)
=============================================================================
