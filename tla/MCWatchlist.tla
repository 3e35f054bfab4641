---------------------------- MODULE MCWatchlist ----------------------------
(* Auctions, devices and requests are interchangeable.                     *)
EXTENDS Watchlist, TLC

Symmetry ==
  Permutations(Auctions) \cup Permutations(Devices) \cup Permutations(Slots)
=============================================================================
