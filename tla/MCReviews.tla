----------------------------- MODULE MCReviews -----------------------------
(***************************************************************************)
(* Reviews on a small instance.  Users and requests are interchangeable:   *)
(* nothing orders them or names one of them.                               *)
(***************************************************************************)
EXTENDS Reviews, TLC

Symmetry == Permutations(Users) \cup Permutations(Requests)
=============================================================================
