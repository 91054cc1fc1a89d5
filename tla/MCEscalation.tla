---------------------------- MODULE MCEscalation ----------------------------
(* Instances of Escalation for TLC: two messages of one tenant and one of   *)
(* another.                                                                 *)
EXTENDS Escalation, TLC

CONSTANTS m1, m2, m3, t1, t2

MCTenantOf == (m1 :> t1) @@ (m2 :> t1) @@ (m3 :> t2)

Symmetry == Permutations(Attempts) \cup Permutations({m1, m2})
=============================================================================
