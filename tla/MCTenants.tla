------------------------------ MODULE MCTenants ------------------------------
(* Instances of Tenants for TLC. *)
EXTENDS Tenants, TLC

(* Directories 1 and 2 are checkouts of one repository with names that     *)
(* derive one id.                                                          *)
MCDerivedId == [d \in Dirs |-> 1]
MCRepo      == [d \in Dirs |-> "repo"]

CallerSymmetry == Permutations(Callers)
=============================================================================
