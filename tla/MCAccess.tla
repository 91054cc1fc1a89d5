------------------------------ MODULE MCAccess ------------------------------
(* Instances of Access for TLC: a1 is an admin of the first tenant; the     *)
(* second tenant has nobody until an operator creates it.                   *)
EXTENDS Access, TLC

CONSTANTS a1, t1, t2

MCStaff == (t1 :> (a1 :> 2)) @@ (t2 :> (a1 :> NoRole))

Symmetry == Permutations(Calls) \cup Permutations(Keys)
=============================================================================
