-------------------------- MODULE MCRequestDispatch --------------------------
(* Instances of RequestDispatch for TLC. *)
EXTENDS RequestDispatch, TLC

RequestSymmetry == Permutations(Requests) \union Permutations(Files)
=============================================================================
