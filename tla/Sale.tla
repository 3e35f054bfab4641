-------------------------------- MODULE Sale --------------------------------
(***************************************************************************)
(* What an auction promises the people in it, whatever locks, closers and  *)
(* tables do underneath: bids are taken while it is open and never after;  *)
(* it is sold once, to somebody who bid in it or to the one who bought it  *)
(* before any bid; a sale ends paid or cancelled; what has been sold can   *)
(* not be withdrawn, and no sale is undone.                                *)
(***************************************************************************)
CONSTANTS Auctions, Users, Nobody

VARIABLES
  stage,     \* how far each auction has come
  bidders,   \* who has bid (or bought) in it
  buyer      \* whom it was sold to, Nobody before

sale == <<stage, bidders, buyer>>

Init ==
  /\ stage = [a \in Auctions |-> "none"]
  /\ bidders = [a \in Auctions |-> {}]
  /\ buyer = [a \in Auctions |-> Nobody]

Moves(a, from, to) ==
  /\ stage[a] \in from
  /\ stage' = [stage EXCEPT ![a] = to]

Offer(a) == Moves(a, {"none"}, "open") /\ UNCHANGED <<bidders, buyer>>

Bid(a, u) ==
  /\ stage[a] = "open"
  /\ bidders' = [bidders EXCEPT ![a] = @ \cup {u}]
  /\ UNCHANGED <<stage, buyer>>

Buy(a, u) ==
  /\ bidders[a] = {}
  /\ Moves(a, {"open"}, "sold")
  /\ bidders' = [bidders EXCEPT ![a] = {u}]
  /\ buyer' = [buyer EXCEPT ![a] = u]

Award(a, u) ==
  /\ u \in bidders[a]
  /\ Moves(a, {"open"}, "sold")
  /\ buyer' = [buyer EXCEPT ![a] = u]
  /\ UNCHANGED bidders

Expire(a) == Moves(a, {"open"}, "unsold") /\ UNCHANGED <<bidders, buyer>>

Withdraw(a) ==
  /\ Moves(a, {"open", "unsold"}, "withdrawn")
  /\ bidders' = [bidders EXCEPT ![a] = {}]
  /\ UNCHANGED buyer

Settle(a) == Moves(a, {"sold"}, "paid") /\ UNCHANGED <<bidders, buyer>>
Cancel(a) == Moves(a, {"sold"}, "cancelled") /\ UNCHANGED <<bidders, buyer>>

Next ==
  \E a \in Auctions :
    \/ Offer(a) \/ Expire(a) \/ Withdraw(a) \/ Settle(a) \/ Cancel(a)
    \/ \E u \in Users : Bid(a, u) \/ Buy(a, u) \/ Award(a, u)

Spec == Init /\ [][Next]_sale
=============================================================================
