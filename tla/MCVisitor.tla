----------------------------- MODULE MCVisitor -----------------------------
(* Instances of Visitor for TLC. *)
EXTENDS Visitor, TLC

Symmetry == Permutations(Asks) \cup Permutations(Conversations)
            \cup Permutations(Tenants) \cup Permutations(Voters)
=============================================================================
