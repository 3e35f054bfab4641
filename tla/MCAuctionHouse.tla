--------------------------- MODULE MCAuctionHouse ---------------------------
(***************************************************************************)
(* AuctionHouse on small instances.  Users and ids are interchangeable:    *)
(* nothing in the specification orders them or names one of them.          *)
(***************************************************************************)
EXTENDS AuctionHouse, TLC

Symmetry == Permutations(Users) \cup Permutations(Auctions)
=============================================================================
