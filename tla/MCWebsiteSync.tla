--------------------------- MODULE MCWebsiteSync ---------------------------
(* Instances of WebsiteSync for TLC: two pages of one chunk each.          *)
EXTENDS WebsiteSync, TLC

MCNumChunks == [c \in Contents |-> 1]

Symmetry == Permutations(Calls) \cup Permutations(Docs) \cup Permutations(Contents)
            \cup Permutations(Sources)
=============================================================================
