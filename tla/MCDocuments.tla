---------------------------- MODULE MCDocuments ----------------------------
(* Instances of Documents for TLC: a body of headings only, which has no    *)
(* chunk, and one of two chunks.                                            *)
EXTENDS Documents, TLC

CONSTANTS titles, page

MCNumChunks == (titles :> 0) @@ (page :> 2)

Symmetry == Permutations(Calls) \cup Permutations(Docs)
=============================================================================
