--------------------------- MODULE MCOrderPayment ---------------------------
(***************************************************************************)
(* OrderPayment for TLC, with the symmetry of the runs without liveness.   *)
(***************************************************************************)
EXTENDS OrderPayment, TLC

Symmetry ==
  Permutations(Orders) \cup Permutations(Intents) \cup Permutations(Devices)
=============================================================================
