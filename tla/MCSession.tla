------------------------------ MODULE MCSession ------------------------------
(* Session for TLC, which need not tell the phone's users apart.           *)
EXTENDS Session

Symmetry == Permutations(Users)
=============================================================================
