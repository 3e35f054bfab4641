------------------------------ MODULE ProxyBid ------------------------------
(***************************************************************************)
(* The arithmetic of one bid: BidRepository.PlaceBid and                   *)
(* getDynamicIncrement (repository/bid_repository.go), as operators on an  *)
(* auction row.  Amounts are integers in thousandths of a crown, so that   *)
(* what a request may carry (any float64) and what a numeric(10,2) column  *)
(* keeps (hundredths) differ as they do in the program.                    *)
(***************************************************************************)
EXTENDS Integers

CONSTANT Null       \* the SQL NULL of a nullable reference

(* One crown, in the unit of every amount of the model.                    *)
Kc == 1000

(* What a numeric(10,2) column holds after x was written to it: x rounded, *)
(* half up, to a hundredth of a crown.                                     *)
Numeric(x) == ((x + 5) \div 10) * 10

(* The value of a numeric(10,2) column.                                    *)
Money == {x \in Nat : x % 10 = 0}

Least(x, y) == IF x <= y THEN x ELSE y

getDynamicIncrement(price) ==
  IF      price <   100 * Kc THEN   5 * Kc
  ELSE IF price <   500 * Kc THEN  10 * Kc
  ELSE IF price <  1000 * Kc THEN  20 * Kc
  ELSE IF price <  5000 * Kc THEN  50 * Kc
  ELSE IF price < 10000 * Kc THEN 100 * Kc
  ELSE                            200 * Kc

(* One increment above an amount, the proxy's step over a beaten bid.      *)
OneStepAbove(amount) == amount + getDynamicIncrement(amount)

(* Mutant: the minimum of the first bid asked of every bid.                *)
MinRequiredBid_NeverRises(row) == row.start

MinRequiredBid(row) ==
  IF row.leader = Null THEN row.start ELSE OneStepAbove(row.price)

(* The checks of PlaceBid on the locked row, at clock reading t.           *)
AcceptsBid(row, bidder, amount, t) ==
  /\ row.status = "ACTIVE"
  /\ t <= row.end
  /\ bidder # row.seller
  /\ amount >= MinRequiredBid(row)
  /\ row.leader = bidder => amount > row.maxBid

(* Mutant: whoever bids last leads, hidden maximum or not.                 *)
TakesLead_LastBidder(row, bidder, amount) == TRUE

(* The challenger beats the hidden maximum of a leader other than himself, *)
(* or there is no leader yet, or the leader raises his own maximum.        *)
TakesLead(row, bidder, amount) ==
  row.leader \in {Null, bidder} \/ amount > row.maxBid

(* Mutant: a defending leader is charged a step above the challenger even  *)
(* beyond his own maximum.                                                 *)
NewPublicPrice_Uncapped(row, bidder, amount) ==
  IF row.leader = Null THEN row.start
  ELSE IF row.leader = bidder THEN row.price
  ELSE OneStepAbove(Least(amount, row.maxBid))

NewPublicPrice(row, bidder, amount) ==
  IF      row.leader = Null   THEN row.start
  ELSE IF row.leader = bidder THEN row.price
  ELSE IF amount <= row.maxBid
  THEN Least(OneStepAbove(amount), row.maxBid)      \* the leader defends
  ELSE Least(OneStepAbove(row.maxBid), amount)      \* the challenger wins

(* Mutant: amounts are kept as they came, with more than two decimals.     *)
AfterBid_Unrounded(row, bidder, amount, t, extension) ==
  [row EXCEPT
     !.price  = NewPublicPrice(row, bidder, amount),
     !.leader = IF TakesLead(row, bidder, amount) THEN bidder ELSE @,
     !.maxBid = IF TakesLead(row, bidder, amount) THEN amount ELSE @]

(* The row that PlaceBid writes: price, leader, hidden maximum, and the    *)
(* end moved to t + extension when less than extension remains.            *)
AfterBid(row, bidder, amount, t, extension) ==
  [row EXCEPT
     !.price  = Numeric(NewPublicPrice(row, bidder, amount)),
     !.leader = IF TakesLead(row, bidder, amount) THEN bidder ELSE @,
     !.maxBid = IF TakesLead(row, bidder, amount) THEN Numeric(amount) ELSE @,
     !.end    = IF row.end - t < extension THEN t + extension ELSE @]
=============================================================================
