------------------------------ MODULE MCFeed ------------------------------
(* Two auctions, a filter that passes both and one that passes the first;  *)
(* pages of one auction, so that every full page may be the last.          *)
EXTENDS Feed

CONSTANTS a1, a2

(* Keep, which is stated for the prover, keeps what SelectSeq keeps.       *)
ASSUME KeepSelects ==
  \A s \in BoundedSeq(Auctions, MaxFeed), set \in SUBSET Auctions :
    Keep(s, set) = SelectSeq(s, LAMBDA a : a \in set)

MCShows == [f \in Filters |-> IF f = NoFilter THEN Auctions ELSE {a1}]
=============================================================================
