-------------------------- MODULE MCPromptVersions --------------------------
(* Instances of PromptVersions for TLC. *)
EXTENDS PromptVersions, TLC

Symmetry == Permutations(Calls) \cup Permutations(Tenants) \cup Permutations(Texts)
=============================================================================
