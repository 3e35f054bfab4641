------------------------- MODULE AuctionHouse_proofs -------------------------
(***************************************************************************)
(* Theorems about AuctionHouse, for any users, ids, amounts and bounds.    *)
(***************************************************************************)
EXTENDS AuctionHouse, TLAPS

-----------------------------------------------------------------------------
(* The arithmetic of a bid, for every amount.                              *)

(* Writing an amount to a numeric(10,2) column yields a column value.      *)
LEMMA NumericIsMoney ==
  ASSUME NEW x \in Nat
  PROVE  Numeric(x) \in Money
BY DEF Numeric, Money

(* Rounding keeps the order of two amounts (it may make them equal).       *)
LEMMA NumericMonotone ==
  ASSUME NEW x \in Nat, NEW y \in Nat, x <= y
  PROVE  Numeric(x) <= Numeric(y)
BY DEF Numeric

(* A value that came from a column is written back unchanged.              *)
LEMMA NumericFixesMoney ==
  ASSUME NEW x \in Money
  PROVE  Numeric(x) = x
BY DEF Numeric, Money

(* Every increment is a positive whole number of crowns.                   *)
LEMMA IncrementType ==
  ASSUME NEW p \in Nat
  PROVE  /\ getDynamicIncrement(p) \in Nat
         /\ getDynamicIncrement(p) > 0
         /\ getDynamicIncrement(p) % 10 = 0
BY DEF getDynamicIncrement, Kc

(* The tiers never shrink the step: one step above is monotone.            *)
LEMMA OneStepAboveMonotone ==
  ASSUME NEW p \in Nat, NEW q \in Nat, p <= q
  PROVE  OneStepAbove(p) <= OneStepAbove(q)
BY DEF OneStepAbove, getDynamicIncrement, Kc

LEMMA OneStepAboveMoney ==
  ASSUME NEW p \in Money
  PROVE  OneStepAbove(p) \in Money
BY IncrementType DEF OneStepAbove, Money

(* Rounding a challenger's amount first can only enlarge the step over it. *)
LEMMA NumericOfStep ==
  ASSUME NEW p \in Nat
  PROVE  Numeric(OneStepAbove(p)) <= OneStepAbove(Numeric(p))
BY DEF Numeric, OneStepAbove, getDynamicIncrement, Kc

USE DEF NoTx, NoClosing, NoOrder

-----------------------------------------------------------------------------
(* Types.                                                                  *)

LEMMA ConstantTypes ==
  /\ Null \notin Users /\ Null \notin Auctions
  /\ \A x \in StartPrices \cup BidAmounts \cup BuyNowPrices : x \in Nat
  /\ Extension \in Nat /\ Extension > 0 /\ MaxTime \in Nat /\ MaxFaults \in Nat
BY NullAssumption, AmountAssumption, BoundAssumption

LEMMA NewPublicPriceType ==
  ASSUME NEW row \in AuctionRow, NEW bidder \in Users, NEW amount \in Nat
  PROVE  NewPublicPrice(row, bidder, amount) \in Nat
BY IncrementType DEF NewPublicPrice, Least, OneStepAbove, AuctionRow, Money

(* PlaceBid writes a well-formed row.                                      *)
LEMMA AfterBidType ==
  ASSUME NEW row \in AuctionRow, NEW bidder \in Users, NEW amount \in Nat,
         NEW t \in Nat
  PROVE  AfterBid(row, bidder, amount, t, Extension) \in AuctionRow
<1>1. Numeric(NewPublicPrice(row, bidder, amount)) \in Money
  BY NewPublicPriceType, NumericIsMoney
<1>2. Numeric(amount) \in Money
  BY NumericIsMoney
<1>3. t + Extension \in Nat
  BY ConstantTypes
<1> QED BY <1>1, <1>2, <1>3 DEF AfterBid, AuctionRow

LEMMA TypeOKInit ==
  Init => TypeOK
BY ConstantTypes DEF Init, TypeOK, NoAuction, AuctionRow, AuctionStatus,
   OrderRow, OrderStatus, Money, BidTx, Closing

(* The types survive every step.                                           *)
LEMMA TypeOKStep ==
  TypeOK /\ [Next]_vars => TypeOK'
<1> SUFFICES ASSUME TypeOK, [Next]_vars PROVE TypeOK'
  OBVIOUS
<1> USE ConstantTypes DEF TypeOK
<1>1. ASSUME NEW a \in Auctions, NEW u \in Users, NEW start \in StartPrices,
             NEW buyNow \in BuyNowPrices, NEW end \in 0..MaxTime,
             CreateAuction(a, u, start, buyNow, end)
      PROVE  TypeOK'
  <2>1. Numeric(start) \in Money /\ Numeric(buyNow) \in Money
    BY NumericIsMoney
  <2>2. auction'[a] \in AuctionRow
    BY <1>1, <2>1 DEF CreateAuction, NoAuction, AuctionRow, AuctionStatus, Money
  <2> QED BY <1>1, <2>2 DEF CreateAuction, closer
<1>2. ASSUME NEW a \in Auctions, NEW u \in Users, NEW amount \in BidAmounts,
             LockForBid(a, u, amount)
      PROVE  TypeOK'
  BY <1>2 DEF LockForBid, tables, closer, BidTx
<1>3. ASSUME NEW a \in Auctions, NEW u \in Users, BuyItNow(a, u)
      PROVE  TypeOK'
  <2>1. auction'[a] \in AuctionRow
    BY <1>3 DEF BuyItNow, AuctionRow, AuctionStatus
  <2>2. auction[a].buyNow \in Money
    BY DEF AuctionRow
  <2>3. order'[a] \in OrderRow
    BY <1>3, <2>2 DEF BuyItNow, PendingOrder, OrderRow, OrderStatus
  <2>4. bids' \subseteq Bid
    BY <1>3, <2>2 DEF BuyItNow, Bid
  <2> QED BY <1>3, <2>1, <2>3, <2>4 DEF BuyItNow, closer
<1>4. ASSUME NEW a \in Auctions, NEW u \in Users, Delete(a, u)
      PROVE  TypeOK'
  <2>1. [NoAuction EXCEPT !.status = "DELETED"] \in AuctionRow
    BY DEF NoAuction, AuctionRow, AuctionStatus, Money
  <2> QED BY <1>4, <2>1 DEF Delete, closer
<1>5. ASSUME NEW a \in Auctions, NEW u \in Users, CancelUnpaidOrder(a, u)
      PROVE  TypeOK'
  <2>1. auction' \in [Auctions -> AuctionRow]
    BY <1>5 DEF CancelUnpaidOrder, AuctionRow, AuctionStatus
  <2>2. order' \in [Auctions -> OrderRow]
    BY <1>5 DEF CancelUnpaidOrder, OrderRow, OrderStatus
  <2> QED BY <1>5, <2>1, <2>2 DEF CancelUnpaidOrder, closer
<1>6. ASSUME NEW a \in Auctions, CommitBid(a)
      PROVE  TypeOK'
  <2>1. lock[a].bidder \in Users /\ lock[a].amount \in Nat /\ lock[a].at \in Nat
    BY <1>6 DEF CommitBid, Unlocked, BidTx
  <2>2. AfterBid(auction[a], lock[a].bidder, lock[a].amount, lock[a].at,
                 Extension) \in AuctionRow
    BY <2>1, AfterBidType
  <2>3. auction' \in [Auctions -> AuctionRow]
    BY <1>6, <2>2 DEF CommitBid
  <2>4. bids' \subseteq Bid
    BY <1>6, <2>1, NumericIsMoney DEF CommitBid, Bid
  <2>5. NoTx \in BidTx
    BY DEF BidTx
  <2> QED BY <1>6, <2>3, <2>4, <2>5 DEF CommitBid, closer
<1>7. ASSUME NEW a \in Auctions, AbortBid(a)
      PROVE  TypeOK'
  BY <1>7 DEF AbortBid, tables, closer, BidTx
<1>8. ASSUME NEW a \in Auctions, MarkOrderPaid(a)
      PROVE  TypeOK'
  BY <1>8 DEF MarkOrderPaid, closer, OrderRow, OrderStatus
<1>9. ASSUME NEW a \in Auctions, ReadTopBid(a)
      PROVE  TypeOK'
  BY <1>9 DEF ReadTopBid, TopBids, BidsOf, Bid, Closing, tables, Money
<1>10. CASE ListExpired
  BY <1>10 DEF ListExpired, tables
<1>11. CASE CloseUnsold
  BY <1>11 DEF CloseUnsold, Closing, AuctionRow, AuctionStatus, Money
<1>12. CASE CloseSold
  <2>1. PendingOrder(closing.winner, closing.amount) \in OrderRow
    BY <1>12 DEF CloseSold, PendingOrder, Closing, OrderRow, OrderStatus
  <2>2. closing.auction \in Auctions
    BY <1>12 DEF CloseSold, Closing
  <2>3. order' \in [Auctions -> OrderRow]
    BY <1>12, <2>1, <2>2 DEF CloseSold
  <2>4. auction' \in [Auctions -> AuctionRow]
    BY <1>12, <2>2 DEF CloseSold, AuctionRow, AuctionStatus
  <2>5. NoClosing \in Closing
    BY DEF Closing, Money
  <2> QED BY <1>12, <2>3, <2>4, <2>5 DEF CloseSold
<1>13. CASE CloseFails
  BY <1>13 DEF CloseFails, tables, Closing, Money
<1>14. CASE Restart
  BY <1>14 DEF Restart, tables, Closing, Money, BidTx
<1>15. CASE Tick
  BY <1>15 DEF Tick, tables, closer
<1>16. CASE UNCHANGED vars
  BY <1>16 DEF vars
<1> QED
  BY <1>1, <1>2, <1>3, <1>4, <1>5, <1>6, <1>7, <1>8, <1>9, <1>10, <1>11,
     <1>12, <1>13, <1>14, <1>15, <1>16 DEF Next, Running

(* The tables and the closer's memory always have their types, whatever    *)
(* the instance.                                                           *)
THEOREM TypeCorrect ==
  Spec => []TypeOK
BY TypeOKInit, TypeOKStep, PTL DEF Spec

-----------------------------------------------------------------------------
(* One bid, on a row.                                                      *)

(* What PlaceBid writes: the price never falls and stays between the       *)
(* starting price and the new leader's maximum.  A beaten side (challenger *)
(* or former leader) is covered by the price and beaten by at most a step. *)
LEMMA BidOutcome ==
  ASSUME NEW row \in AuctionRow, NEW u \in Users, NEW m \in Nat, NEW t \in Nat,
         AcceptsBid(row, u, m, t),
         row.leader = Null => row.price = row.start,
         row.leader # Null => row.start <= row.price /\ row.price <= row.maxBid,
         NEW r, r = AfterBid(row, u, m, t, Extension)
  PROVE  /\ r.status = row.status /\ r.seller = row.seller
         /\ r.start = row.start /\ r.buyNow = row.buyNow
         /\ row.end <= r.end
         /\ r.start <= r.price /\ row.price <= r.price /\ r.price <= r.maxBid
         /\ row.leader \in {Null, u} => r.price = row.price
         /\ TakesLead(row, u, m) =>
              /\ r.leader = u /\ r.maxBid = Numeric(m)
              /\ row.leader # Null => row.maxBid <= r.maxBid
              /\ row.leader \notin {Null, u} =>
                   row.maxBid <= r.price /\ r.price <= OneStepAbove(row.maxBid)
         /\ ~TakesLead(row, u, m) =>
              /\ r.leader = row.leader /\ r.maxBid = row.maxBid
              /\ Numeric(m) <= r.maxBid
              /\ Numeric(m) <= r.price /\ r.price <= OneStepAbove(Numeric(m))
<1> DEFINE np == NewPublicPrice(row, u, m)
<1>1. /\ r.status = row.status /\ r.seller = row.seller
      /\ r.start = row.start /\ r.buyNow = row.buyNow
      /\ r.price = Numeric(np)
      /\ r.leader = IF TakesLead(row, u, m) THEN u ELSE row.leader
      /\ r.maxBid = IF TakesLead(row, u, m) THEN Numeric(m) ELSE row.maxBid
      /\ r.end = IF row.end - t < Extension THEN t + Extension ELSE row.end
  BY DEF AfterBid, AuctionRow
<1>2. /\ row.price \in Money /\ row.maxBid \in Money /\ row.start \in Money
      /\ row.end \in Nat /\ np \in Nat
  BY NewPublicPriceType DEF AuctionRow
<1>3. /\ Numeric(row.price) = row.price /\ Numeric(row.maxBid) = row.maxBid
      /\ Numeric(row.start) = row.start
  BY <1>2, NumericFixesMoney
<1>4. row.price \in Nat /\ row.maxBid \in Nat /\ row.start \in Nat
  BY <1>2 DEF Money
<1>5. row.end <= r.end
  BY <1>1, <1>2, ConstantTypes
<1>6. CASE row.leader = Null
  <2>1. np = row.start /\ m >= row.start /\ TakesLead(row, u, m)
    BY <1>6 DEF NewPublicPrice, AcceptsBid, MinRequiredBid, TakesLead
  <2>2. Numeric(row.start) <= Numeric(m)
    BY <2>1, <1>4, NumericMonotone
  <2> QED BY <1>1, <1>3, <1>4, <1>5, <1>6, <2>1, <2>2
<1>7. CASE row.leader = u /\ row.leader # Null
  <2>1. np = row.price /\ m > row.maxBid /\ TakesLead(row, u, m)
    BY <1>7 DEF NewPublicPrice, AcceptsBid, TakesLead
  <2>2. Numeric(row.maxBid) <= Numeric(m)
    BY <2>1, <1>4, NumericMonotone
  <2>3. Numeric(m) \in Nat
    BY NumericIsMoney DEF Money
  <2> QED BY <1>1, <1>3, <1>4, <1>5, <1>7, <2>1, <2>2, <2>3
<1>8. CASE row.leader \notin {Null, u} /\ m <= row.maxBid
  <2>1. np = Least(OneStepAbove(m), row.maxBid) /\ ~TakesLead(row, u, m)
    BY <1>8, <1>4 DEF NewPublicPrice, TakesLead
  <2>2. m >= OneStepAbove(row.price)
    BY <1>8 DEF AcceptsBid, MinRequiredBid
  <2>3. OneStepAbove(m) \in Nat /\ m <= OneStepAbove(m)
    BY IncrementType DEF OneStepAbove
  <2>4. row.price <= m
    BY <1>4, <2>2, IncrementType DEF OneStepAbove
  <2>5. m <= np /\ np <= OneStepAbove(m) /\ np <= row.maxBid
    BY <1>4, <1>8, <2>1, <2>3 DEF Least
  <2>6. /\ Numeric(row.price) <= Numeric(m)
        /\ Numeric(m) <= Numeric(np)
        /\ Numeric(np) <= Numeric(OneStepAbove(m))
        /\ Numeric(np) <= Numeric(row.maxBid)
    BY <1>2, <1>4, <2>3, <2>4, <2>5, NumericMonotone
  <2>7. Numeric(OneStepAbove(m)) <= OneStepAbove(Numeric(m))
    BY NumericOfStep
  <2>8. /\ Numeric(m) \in Nat /\ Numeric(np) \in Nat
        /\ Numeric(OneStepAbove(m)) \in Nat /\ OneStepAbove(Numeric(m)) \in Nat
    BY <1>2, <2>3, NumericIsMoney, OneStepAboveMoney DEF Money
  <2> QED BY <1>1, <1>3, <1>4, <1>5, <1>8, <2>1, <2>6, <2>7, <2>8
<1>9. CASE row.leader \notin {Null, u} /\ m > row.maxBid
  <2>1. np = Least(OneStepAbove(row.maxBid), m) /\ TakesLead(row, u, m)
    BY <1>9, <1>4 DEF NewPublicPrice, TakesLead
  <2>2. OneStepAbove(row.maxBid) \in Money
    BY <1>2, OneStepAboveMoney
  <2>3. OneStepAbove(row.maxBid) \in Nat /\ row.maxBid <= OneStepAbove(row.maxBid)
    BY <1>4, IncrementType DEF OneStepAbove
  <2>4. row.maxBid <= np /\ np <= OneStepAbove(row.maxBid) /\ np <= m
    BY <1>4, <1>9, <2>1, <2>3 DEF Least
  <2>5. /\ Numeric(row.maxBid) <= Numeric(np)
        /\ Numeric(np) <= Numeric(OneStepAbove(row.maxBid))
        /\ Numeric(np) <= Numeric(m)
    BY <1>2, <1>4, <2>3, <2>4, NumericMonotone
  <2>6. Numeric(OneStepAbove(row.maxBid)) = OneStepAbove(row.maxBid)
    BY <2>2, NumericFixesMoney
  <2>7. Numeric(m) \in Nat /\ Numeric(np) \in Nat
    BY <1>2, NumericIsMoney DEF Money
  <2> QED BY <1>1, <1>3, <1>4, <1>5, <1>9, <2>1, <2>3, <2>5, <2>6, <2>7
<1> QED BY <1>4, <1>6, <1>7, <1>8, <1>9

-----------------------------------------------------------------------------
(* The inductive invariant.                                                *)

(* An auction whose row, bids, order and lock a step leaves alone stays    *)
(* sound: only the clock may have moved.                                   *)
LEMMA SoundFrame ==
  ASSUME NEW a \in Auctions, TypeOK, TypeOK', Sound(a), now <= now',
         auction'[a] = auction[a], BidsOf(a)' = BidsOf(a),
         order'[a] = order[a], lock'[a] = lock[a]
  PROVE  Sound(a)'
<1>1. /\ Exists(a)' = Exists(a) /\ Active(a)' = Active(a)
      /\ HasOrder(a)' = HasOrder(a) /\ Unlocked(a)' = Unlocked(a)
      /\ Rivals(a)' = Rivals(a) /\ TopBids(a)' = TopBids(a)
  BY DEF Exists, Active, HasOrder, Unlocked, Rivals, TopBids
<1>2. AgreesOnLeader(a)'
  BY <1>1 DEF Sound, AgreesOnLeader
<1>3. ProxyPriced(a)'
  BY <1>1 DEF Sound, ProxyPriced
<1>4. BackedOrder(a)'
  <2>1. ASSUME NEW b, b.auction = a, b \in bids PROVE b \in bids'
    BY <2>1 DEF BidsOf
  <2> QED BY <1>1, <2>1 DEF Sound, BackedOrder
<1>5. PaidXorCancelled(a)'
  BY DEF Sound, PaidXorCancelled
<1>6. ValidWhileLocked(a)'
  BY <1>1 DEF Sound, ValidWhileLocked, TypeOK, BidTx
<1>7. SoundRow(a)'
  BY <1>1 DEF Sound, SoundRow
<1> QED BY <1>2, <1>3, <1>4, <1>5, <1>6, <1>7 DEF Sound

(* Nothing has happened to an id that was never used: it is sound.         *)
LEMMA SoundInit ==
  Init => ClosingIsBacked /\ \A a \in Auctions : Sound(a)
<1> SUFFICES ASSUME Init PROVE ClosingIsBacked /\ \A a \in Auctions : Sound(a)
  OBVIOUS
<1>1. ClosingIsBacked
  BY DEF Init, ClosingIsBacked
<1>2. ASSUME NEW a \in Auctions PROVE Sound(a)
  <2>1. /\ auction[a] = NoAuction /\ order[a] = NoOrder /\ lock[a] = NoTx
        /\ BidsOf(a) = {}
    BY DEF Init, BidsOf
  <2>2. ~Exists(a) /\ ~Active(a) /\ ~HasOrder(a) /\ Unlocked(a)
    BY <2>1 DEF Exists, Active, HasOrder, Unlocked, NoAuction
  <2>3. auction[a].status = "NONE" /\ order[a].status = "NONE"
        /\ auction[a].buyNow = 0
    BY <2>1 DEF NoAuction
  <2> QED BY <2>1, <2>2, <2>3 DEF Sound, AgreesOnLeader, ProxyPriced,
       BackedOrder, PaidXorCancelled, ValidWhileLocked, SoundRow
<1> QED BY <1>1, <1>2

LEMMA SoundCreate ==
  ASSUME IInv, TypeOK', NEW a \in Auctions, NEW u \in Users,
         NEW start \in StartPrices, NEW buyNow \in BuyNowPrices,
         NEW end \in 0..MaxTime, CreateAuction(a, u, start, buyNow, end)
  PROVE  Sound(a)'
<1>1. Sound(a) /\ ~Exists(a)
  BY DEF IInv, CreateAuction, Exists
<1>2. BidsOf(a)' = {} /\ ~HasOrder(a)' /\ Unlocked(a)'
  BY <1>1 DEF Sound, SoundRow, ValidWhileLocked, AcceptsBid, Exists, BidsOf,
     HasOrder, Unlocked, CreateAuction
<1>3. auction'[a] = [status |-> "ACTIVE", seller |-> u,
        start |-> Numeric(start), price |-> Numeric(start),
        buyNow |-> Numeric(buyNow), leader |-> Null, maxBid |-> 0,
        end |-> end]
  BY DEF CreateAuction, IInv, TypeOK
<1>4. Numeric(buyNow) = 0 \/ Numeric(start) <= Numeric(buyNow)
  <2>1. start \in Nat /\ buyNow \in Nat
    BY ConstantTypes
  <2>2. CASE buyNow = 0
    BY <2>2 DEF Numeric
  <2>3. CASE buyNow > start
    BY <2>1, <2>3, NumericMonotone
  <2> QED BY <2>2, <2>3 DEF CreateAuction
<1> QED BY <1>2, <1>3, <1>4 DEF Sound, AgreesOnLeader, ProxyPriced, BackedOrder,
     PaidXorCancelled, ValidWhileLocked, SoundRow, Exists, Active

LEMMA SoundLockForBid ==
  ASSUME IInv, TypeOK', NEW a \in Auctions, NEW u \in Users,
         NEW amount \in BidAmounts, LockForBid(a, u, amount)
  PROVE  Sound(a)'
<1>1. Sound(a)
  BY DEF IInv
<1>2. UNCHANGED <<auction, bids, order, now>>
  BY DEF LockForBid, tables
<1>3. lock'[a] = [bidder |-> u, amount |-> amount, at |-> now]
  BY DEF LockForBid, IInv, TypeOK
<1>4. ValidWhileLocked(a)'
  BY <1>2, <1>3 DEF ValidWhileLocked, LockForBid, TypeOK, IInv
<1>5. /\ Exists(a)' = Exists(a) /\ Active(a)' = Active(a)
      /\ HasOrder(a)' = HasOrder(a) /\ BidsOf(a)' = BidsOf(a)
      /\ Rivals(a)' = Rivals(a) /\ TopBids(a)' = TopBids(a)
  BY <1>2 DEF Exists, Active, HasOrder, BidsOf, Rivals, TopBids
<1>6. AgreesOnLeader(a)' /\ ProxyPriced(a)'
  BY <1>1, <1>2, <1>5 DEF Sound, AgreesOnLeader, ProxyPriced
<1>7. BackedOrder(a)' /\ PaidXorCancelled(a)' /\ SoundRow(a)'
  BY <1>1, <1>2, <1>5 DEF Sound, BackedOrder, PaidXorCancelled, SoundRow
<1> QED BY <1>4, <1>6, <1>7 DEF Sound

(* The heart of the matter: an accepted bid, committed on a row that has   *)
(* not changed since it was checked, keeps the bids table and the proxy    *)
(* price in step.                                                          *)
LEMMA SoundCommitBid ==
  ASSUME IInv, TypeOK', NEW a \in Auctions, CommitBid(a)
  PROVE  Sound(a)'
<1> DEFINE row == auction[a]
           u   == lock[a].bidder
           m   == lock[a].amount
           r   == auction'[a]
           nb  == [auction |-> a, bidder |-> u, amount |-> Numeric(m)]
<1>1. Sound(a)
  BY DEF IInv
<1>2. /\ row \in AuctionRow /\ u \in Users /\ m \in Nat /\ lock[a].at \in Nat
      /\ Numeric(m) \in Nat
  BY NumericIsMoney DEF IInv, TypeOK, BidTx, CommitBid, Unlocked, Money
<1>3. /\ row.price \in Nat /\ row.maxBid \in Nat /\ row.start \in Nat
      /\ r.price \in Nat /\ r.maxBid \in Nat /\ r.start \in Nat
      /\ u # Null
  BY <1>2, ConstantTypes DEF TypeOK, AuctionRow, Money
<1>4. AcceptsBid(row, u, m, lock[a].at)
  BY <1>1 DEF Sound, ValidWhileLocked, CommitBid
<1>5. Active(a) /\ Exists(a) /\ ~HasOrder(a) /\ u # row.seller
  BY <1>1, <1>4 DEF Active, Exists, AcceptsBid, Sound, BackedOrder
<1>6. /\ row.leader = Null => row.price = row.start
      /\ row.leader # Null => row.start <= row.price /\ row.price <= row.maxBid
  BY <1>1, <1>5 DEF Sound, SoundRow, ProxyPriced
<1>7. r = AfterBid(row, u, m, lock[a].at, Extension)
  BY DEF CommitBid, IInv, TypeOK
<1>8. /\ r.status = row.status /\ r.seller = row.seller
      /\ r.start = row.start /\ r.buyNow = row.buyNow
      /\ r.start <= r.price /\ r.price <= r.maxBid
      /\ row.leader \in {Null, u} => r.price = row.price
      /\ TakesLead(row, u, m) =>
           /\ r.leader = u /\ r.maxBid = Numeric(m)
           /\ row.leader # Null => row.maxBid <= r.maxBid
           /\ row.leader \notin {Null, u} =>
                row.maxBid <= r.price /\ r.price <= OneStepAbove(row.maxBid)
      /\ ~TakesLead(row, u, m) =>
           /\ r.leader = row.leader /\ r.maxBid = row.maxBid
           /\ Numeric(m) <= r.maxBid
           /\ Numeric(m) <= r.price /\ r.price <= OneStepAbove(Numeric(m))
      /\ row.price <= r.price
  BY <1>2, <1>4, <1>6, <1>7, BidOutcome
<1>9. BidsOf(a)' = BidsOf(a) \cup {nb}
  BY DEF CommitBid, BidsOf
<1>10. /\ Active(a)' /\ Exists(a)' /\ ~HasOrder(a)' /\ Unlocked(a)'
  BY <1>5, <1>8 DEF Active, Exists, HasOrder, Unlocked, CommitBid, IInv, TypeOK
<1>11. \A b \in BidsOf(a) : b \in Bid /\ b.auction = a /\ b.amount \in Nat
  BY DEF BidsOf, IInv, TypeOK, Bid, Money
<1>12. r.leader # Null
  BY <1>3, <1>8 DEF TakesLead
<1>13. row.leader # Null =>
         /\ [auction |-> a, bidder |-> row.leader, amount |-> row.maxBid]
              \in BidsOf(a)
         /\ \A b \in BidsOf(a) : b.amount <= row.maxBid
  BY <1>1, <1>5 DEF Sound, AgreesOnLeader, TopBids
<1>14. row.leader = Null => BidsOf(a) = {}
  BY <1>1, <1>5 DEF Sound, AgreesOnLeader
<1>15. AgreesOnLeader(a)'
  <2> DEFINE top == [auction |-> a, bidder |-> r.leader, amount |-> r.maxBid]
  <2>1. top \in BidsOf(a)'
    <3>1. CASE TakesLead(row, u, m)
      BY <3>1, <1>8, <1>9
    <3>2. CASE ~TakesLead(row, u, m)
      BY <3>2, <1>8, <1>9, <1>12, <1>13
    <3> QED BY <3>1, <3>2
  <2>2. ASSUME NEW c \in BidsOf(a)' PROVE c.amount <= r.maxBid
    <3>1. CASE c = nb
      BY <3>1, <1>2, <1>8
    <3>2. CASE c \in BidsOf(a)
      <4>1. row.leader # Null /\ c.amount <= row.maxBid /\ c.amount \in Nat
        BY <3>2, <1>11, <1>13, <1>14
      <4>2. row.maxBid <= r.maxBid
        BY <1>3, <1>8, <4>1
      <4> QED BY <4>1, <4>2, <1>3
    <3> QED BY <3>1, <3>2, <1>9
  <2>3. top \in TopBids(a)'
    BY <2>1, <2>2 DEF TopBids
  <2> QED BY <1>12, <2>1, <2>3 DEF AgreesOnLeader
<1>16. ProxyPriced(a)'
  <2>1. Rivals(a)' = {b \in BidsOf(a)' : b.bidder # r.leader}
    BY DEF Rivals
  <2>2. CASE row.leader = Null
    <3>1. Rivals(a)' = {}
      BY <1>8, <1>9, <1>14, <2>1, <2>2 DEF TakesLead
    <3> QED BY <1>6, <1>8, <2>2, <3>1 DEF ProxyPriced
  <2>3. CASE row.leader = u
    <3>1. Rivals(a)' = Rivals(a)
      BY <1>8, <1>9, <2>1, <2>3 DEF TakesLead, Rivals
    <3> QED BY <1>1, <1>3, <1>5, <1>8, <2>3, <3>1 DEF ProxyPriced, Sound
  <2>4. CASE row.leader \notin {Null, u} /\ ~TakesLead(row, u, m)
    <3>1. Rivals(a)' = Rivals(a) \cup {nb}
      BY <1>8, <1>9, <2>1, <2>4 DEF Rivals
    <3>2. \A b \in Rivals(a) : b.amount <= r.price
      <4>1. \A b \in Rivals(a) : b.amount <= row.price /\ b.amount \in Nat
        BY <1>1, <1>5, <1>11, <2>4 DEF ProxyPriced, Sound, Rivals
      <4> QED BY <4>1, <1>3, <1>8
    <3>3. nb.amount <= r.price /\ r.price <= OneStepAbove(nb.amount)
      BY <1>8, <2>4
    <3> QED BY <1>8, <3>1, <3>2, <3>3 DEF ProxyPriced
  <2>5. CASE row.leader \notin {Null, u} /\ TakesLead(row, u, m)
    <3> DEFINE old == [auction |-> a, bidder |-> row.leader,
                       amount |-> row.maxBid]
    <3>1. old \in Rivals(a)' /\ r.price <= OneStepAbove(old.amount)
      BY <1>8, <1>9, <1>13, <2>1, <2>5
    <3>2. \A b \in Rivals(a)' : b.amount <= r.price
      <4>1. \A b \in Rivals(a)' : b \in BidsOf(a)
        BY <1>8, <1>9, <2>1, <2>5
      <4> QED BY <4>1, <1>3, <1>8, <1>11, <1>13, <2>5
    <3> QED BY <1>8, <3>1, <3>2 DEF ProxyPriced
  <2> QED BY <2>2, <2>3, <2>4, <2>5
<1>17. BackedOrder(a)' /\ PaidXorCancelled(a)'
  BY <1>10 DEF BackedOrder, PaidXorCancelled, Active, HasOrder
<1>18. SoundRow(a)'
  BY <1>1, <1>5, <1>8, <1>9, <1>10, <1>12 DEF Sound, SoundRow
<1> QED BY <1>10, <1>15, <1>16, <1>17, <1>18 DEF Sound, ValidWhileLocked

LEMMA SoundAbortBid ==
  ASSUME IInv, TypeOK', NEW a \in Auctions, AbortBid(a)
  PROVE  Sound(a)'
<1>1. Sound(a) /\ UNCHANGED <<auction, bids, order>>
  BY DEF IInv, AbortBid, tables
<1>2. Unlocked(a)'
  BY DEF AbortBid, Unlocked, IInv, TypeOK
<1>3. /\ Exists(a)' = Exists(a) /\ Active(a)' = Active(a)
      /\ HasOrder(a)' = HasOrder(a) /\ BidsOf(a)' = BidsOf(a)
      /\ Rivals(a)' = Rivals(a) /\ TopBids(a)' = TopBids(a)
  BY <1>1 DEF Exists, Active, HasOrder, BidsOf, Rivals, TopBids
<1>4. AgreesOnLeader(a)' /\ ProxyPriced(a)'
  BY <1>1, <1>3 DEF Sound, AgreesOnLeader, ProxyPriced
<1>5. BackedOrder(a)' /\ PaidXorCancelled(a)' /\ SoundRow(a)'
  BY <1>1, <1>3 DEF Sound, BackedOrder, PaidXorCancelled, SoundRow
<1> QED BY <1>2, <1>4, <1>5 DEF Sound, ValidWhileLocked

LEMMA SoundBuyItNow ==
  ASSUME IInv, TypeOK', NEW a \in Auctions, NEW u \in Users, BuyItNow(a, u)
  PROVE  Sound(a)'
<1> DEFINE nb == [auction |-> a, bidder |-> u, amount |-> auction[a].buyNow]
<1>1. Sound(a) /\ Exists(a) /\ u # Null
  BY ConstantTypes DEF IInv, BuyItNow, Active, Exists
<1>2. /\ auction'[a].status = "SOLD" /\ auction'[a].leader = u
      /\ auction'[a].seller = auction[a].seller
      /\ auction'[a].start = auction[a].start
      /\ auction'[a].buyNow = auction[a].buyNow
      /\ u # auction[a].seller
  BY DEF BuyItNow, IInv, TypeOK, AuctionRow
<1>3. order'[a] = PendingOrder(u, auction[a].buyNow)
  BY DEF BuyItNow, IInv, TypeOK
<1>4. BidsOf(a)' = BidsOf(a) \cup {nb} /\ nb \in bids'
  BY DEF BuyItNow, BidsOf
<1>5. Exists(a)' /\ ~Active(a)' /\ HasOrder(a)' /\ Unlocked(a)'
  BY <1>2, <1>3 DEF Exists, Active, HasOrder, Unlocked, PendingOrder, BuyItNow
<1>6. AgreesOnLeader(a)' /\ ProxyPriced(a)' /\ ValidWhileLocked(a)'
  BY <1>1, <1>2, <1>4, <1>5 DEF AgreesOnLeader, ProxyPriced, ValidWhileLocked
<1>7. BackedOrder(a)' /\ PaidXorCancelled(a)'
  BY <1>2, <1>3, <1>4, <1>5 DEF BackedOrder, PaidXorCancelled, PendingOrder
<1>8. SoundRow(a)'
  BY <1>1, <1>2, <1>4, <1>5 DEF Sound, SoundRow
<1> QED BY <1>6, <1>7, <1>8 DEF Sound

LEMMA SoundDelete ==
  ASSUME IInv, TypeOK', NEW a \in Auctions, NEW u \in Users, Delete(a, u)
  PROVE  Sound(a)'
<1>1. auction'[a] = [NoAuction EXCEPT !.status = "DELETED"]
  BY DEF Delete, IInv, TypeOK
<1>2. auction'[a].status = "DELETED" /\ auction'[a].buyNow = 0
  BY <1>1 DEF NoAuction
<1>3. BidsOf(a)' = {} /\ ~HasOrder(a)' /\ order'[a].status = "NONE"
  BY DEF Delete, BidsOf, HasOrder
<1>4. ~Exists(a)' /\ ~Active(a)' /\ Unlocked(a)'
  BY <1>2 DEF Exists, Active, Unlocked, Delete
<1> QED BY <1>2, <1>3, <1>4 DEF Sound, AgreesOnLeader, ProxyPriced, BackedOrder,
     PaidXorCancelled, ValidWhileLocked, SoundRow

(* Cancelling, paying and closing write only the status of the row: what   *)
(* remains to be shown is that row and order still fit each other.         *)
LEMMA SoundStatusChange ==
  ASSUME IInv, TypeOK', NEW a \in Auctions, Exists(a), Unlocked(a),
         NEW st \in {"SOLD", "EXPIRED", "CANCELLED"},
         auction'[a] = [auction[a] EXCEPT !.status = st],
         UNCHANGED <<bids, lock>>, BackedOrder(a)', PaidXorCancelled(a)'
  PROVE  Sound(a)'
<1>1. /\ auction'[a].status = st
      /\ auction'[a].leader = auction[a].leader
      /\ auction'[a].seller = auction[a].seller
      /\ auction'[a].price = auction[a].price
      /\ auction'[a].start = auction[a].start
      /\ auction'[a].buyNow = auction[a].buyNow
  BY DEF IInv, TypeOK, AuctionRow
<1>2. BidsOf(a)' = BidsOf(a) /\ Exists(a)' /\ ~Active(a)' /\ Unlocked(a)'
  BY <1>1 DEF BidsOf, Exists, Active, Unlocked
<1> QED BY <1>1, <1>2 DEF IInv, Sound, AgreesOnLeader, ProxyPriced,
     ValidWhileLocked, SoundRow

LEMMA SoundCancel ==
  ASSUME IInv, TypeOK', NEW a \in Auctions, NEW u \in Users,
         CancelUnpaidOrder(a, u)
  PROVE  Sound(a)'
<1>1. Sound(a) /\ HasOrder(a)
  BY DEF IInv, CancelUnpaidOrder, HasOrder
<1>2. /\ auction'[a] = [auction[a] EXCEPT !.status = "CANCELLED"]
      /\ auction'[a].status = "CANCELLED"
      /\ auction'[a].seller = auction[a].seller
      /\ order'[a].status = "CANCELLED_UNPAID"
      /\ order'[a].buyer = order[a].buyer /\ order'[a].amount = order[a].amount
      /\ UNCHANGED <<bids, lock>> /\ Unlocked(a)
  BY DEF CancelUnpaidOrder, IInv, TypeOK, AuctionRow, OrderRow
<1>3. BackedOrder(a)' /\ PaidXorCancelled(a)'
  BY <1>1, <1>2 DEF Sound, BackedOrder, PaidXorCancelled, HasOrder
<1>4. Exists(a)
  BY <1>1 DEF Sound, BackedOrder, Exists
<1> QED BY <1>2, <1>3, <1>4, SoundStatusChange

LEMMA SoundPaid ==
  ASSUME IInv, TypeOK', NEW a \in Auctions, MarkOrderPaid(a)
  PROVE  Sound(a)'
<1>1. Sound(a) /\ HasOrder(a)
  BY DEF IInv, MarkOrderPaid, HasOrder
<1>2. /\ order'[a].status = "PAID"
      /\ order'[a].buyer = order[a].buyer /\ order'[a].amount = order[a].amount
      /\ UNCHANGED <<auction, bids, lock, now>>
  BY DEF MarkOrderPaid, IInv, TypeOK, OrderRow
<1>3. /\ Exists(a)' = Exists(a) /\ Active(a)' = Active(a)
      /\ BidsOf(a)' = BidsOf(a) /\ Unlocked(a)' = Unlocked(a)
      /\ Rivals(a)' = Rivals(a) /\ TopBids(a)' = TopBids(a)
      /\ HasOrder(a)'
  BY <1>2 DEF Exists, Active, BidsOf, Rivals, TopBids, Unlocked, HasOrder
<1>4. AgreesOnLeader(a)' /\ ProxyPriced(a)'
  BY <1>1, <1>2, <1>3 DEF Sound, AgreesOnLeader, ProxyPriced
<1>5. BackedOrder(a)' /\ PaidXorCancelled(a)'
  BY <1>1, <1>2, <1>3 DEF Sound, BackedOrder, PaidXorCancelled, MarkOrderPaid
<1>6. ValidWhileLocked(a)' /\ SoundRow(a)'
  BY <1>1, <1>2, <1>3 DEF Sound, ValidWhileLocked, SoundRow, BackedOrder, Exists
<1> QED BY <1>4, <1>5, <1>6 DEF Sound

(* The closer overwrites the status with EXPIRED whatever it is by then;   *)
(* an order that was made in between keeps its auction and its bid.        *)
LEMMA SoundCloseUnsold ==
  ASSUME IInv, TypeOK', NEW a \in Auctions, a = closing.auction,
         CloseUnsold, Exists(a)
  PROVE  Sound(a)'
<1>1. Sound(a)
  BY DEF IInv
<1>2. /\ auction'[a] = [auction[a] EXCEPT !.status = "EXPIRED"]
      /\ auction'[a].status = "EXPIRED"
      /\ auction'[a].seller = auction[a].seller
      /\ UNCHANGED <<bids, order, lock>> /\ Unlocked(a)
  BY <1>1 DEF CloseUnsold, IInv, TypeOK, AuctionRow
<1>3. BackedOrder(a)' /\ PaidXorCancelled(a)'
  BY <1>1, <1>2 DEF Sound, BackedOrder, PaidXorCancelled, HasOrder
<1> QED BY <1>1, <1>2, <1>3, SoundStatusChange

(* The closer sells to the bidder it read, however old that reading is:    *)
(* the bid is still in the table, and its bidder is not the seller.        *)
LEMMA SoundCloseSold ==
  ASSUME IInv, TypeOK', NEW a \in Auctions, a = closing.auction,
         CloseSold, Exists(a), ~HasOrder(a)
  PROVE  Sound(a)'
<1> DEFINE b == [auction |-> a, bidder |-> closing.winner,
                 amount |-> closing.amount]
<1>1. Sound(a)
  BY DEF IInv
<1>2. /\ auction'[a] = [auction[a] EXCEPT !.status = "SOLD"]
      /\ auction'[a].status = "SOLD"
      /\ auction'[a].seller = auction[a].seller
      /\ order'[a] = PendingOrder(closing.winner, closing.amount)
      /\ UNCHANGED <<bids, lock>> /\ Unlocked(a)
  BY <1>1 DEF CloseSold, IInv, TypeOK, AuctionRow
<1>3. b \in bids
  BY DEF CloseSold, IInv, ClosingIsBacked, Exists
<1>4. closing.winner # auction[a].seller
  BY <1>1, <1>3 DEF Sound, SoundRow, BidsOf
<1>5. BackedOrder(a)' /\ PaidXorCancelled(a)'
  BY <1>2, <1>3, <1>4 DEF BackedOrder, PaidXorCancelled, HasOrder, PendingOrder
<1> QED BY <1>1, <1>2, <1>5, SoundStatusChange

(* A transaction touches one auction; the others stay sound.               *)
LEMMA OneAuctionAtATime ==
  ASSUME IInv, TypeOK', now' = now, NEW a \in Auctions, Sound(a)',
         \A c \in Auctions \ {a} :
           /\ auction'[c] = auction[c] /\ order'[c] = order[c]
           /\ lock'[c] = lock[c] /\ BidsOf(c)' = BidsOf(c)
  PROVE  \A c \in Auctions : Sound(c)'
<1>1. ASSUME NEW c \in Auctions, c # a PROVE Sound(c)'
  <2>1. now <= now'
    BY DEF IInv, TypeOK
  <2> QED BY <1>1, <2>1, SoundFrame DEF IInv
<1> QED BY <1>1

(* Steps that leave the closer's memory alone keep the bid it has read, or *)
(* delete the whole auction.                                               *)
LEMMA ClosingFrame ==
  ASSUME IInv, closing' = closing,
         \A a \in Auctions : auction[a].status = "DELETED" =>
                             auction'[a].status = "DELETED",
         \A b \in bids : b \in bids' \/ auction'[b.auction].status = "DELETED"
  PROVE  ClosingIsBacked'
BY DEF IInv, ClosingIsBacked

LEMMA IInvInit ==
  Init => IInv
BY TypeOKInit, SoundInit DEF IInv

(* The invariant is inductive: each transaction, step of the closer, fault *)
(* and tick of the clock preserves it.                                     *)
LEMMA IInvStep ==
  IInv /\ [Next]_vars => IInv'
<1> SUFFICES ASSUME IInv, [Next]_vars PROVE IInv'
  OBVIOUS
<1>0. TypeOK /\ TypeOK'
  BY TypeOKStep DEF IInv
<1>a. \A c \in Auctions : /\ ~Exists(c) => BidsOf(c) = {} /\ ~HasOrder(c)
                          /\ HasOrder(c) => Exists(c)
  BY DEF IInv, Sound, SoundRow
<1>1. ASSUME NEW a \in Auctions, NEW u \in Users, NEW start \in StartPrices,
             NEW buyNow \in BuyNowPrices, NEW end \in 0..MaxTime,
             CreateAuction(a, u, start, buyNow, end)
      PROVE  IInv'
  <2>1. Sound(a)'
    BY <1>0, <1>1, SoundCreate
  <2>2. \A c \in Auctions : Sound(c)'
    BY <1>0, <1>1, <2>1, OneAuctionAtATime DEF CreateAuction, BidsOf, TypeOK
  <2>3. ClosingIsBacked'
    BY <1>0, <1>1, ClosingFrame DEF CreateAuction, closer, TypeOK
  <2> QED BY <1>0, <2>2, <2>3 DEF IInv
<1>2. ASSUME NEW a \in Auctions, NEW u \in Users, NEW amount \in BidAmounts,
             LockForBid(a, u, amount)
      PROVE  IInv'
  <2>1. Sound(a)'
    BY <1>0, <1>2, SoundLockForBid
  <2>2. \A c \in Auctions : Sound(c)'
    BY <1>0, <1>2, <2>1, OneAuctionAtATime DEF LockForBid, BidsOf, TypeOK, tables
  <2>3. ClosingIsBacked'
    BY <1>0, <1>2, ClosingFrame DEF LockForBid, closer, tables
  <2> QED BY <1>0, <2>2, <2>3 DEF IInv
<1>3. ASSUME NEW a \in Auctions, NEW u \in Users, BuyItNow(a, u)
      PROVE  IInv'
  <2>1. Sound(a)'
    BY <1>0, <1>3, SoundBuyItNow
  <2>2. \A c \in Auctions : Sound(c)'
    BY <1>0, <1>3, <2>1, OneAuctionAtATime DEF BuyItNow, BidsOf, TypeOK
  <2>3. ClosingIsBacked'
    <3>1. \A c \in Auctions : auction[c].status = "DELETED" =>
                                auction'[c].status = "DELETED"
      BY <1>0, <1>3 DEF BuyItNow, TypeOK, Active
    <3> QED BY <1>3, <3>1, ClosingFrame DEF BuyItNow, closer
  <2> QED BY <1>0, <2>2, <2>3 DEF IInv
<1>4. ASSUME NEW a \in Auctions, NEW u \in Users, Delete(a, u)
      PROVE  IInv'
  <2>1. Sound(a)'
    BY <1>0, <1>4, SoundDelete
  <2>2. \A c \in Auctions : Sound(c)'
    BY <1>0, <1>4, <2>1, OneAuctionAtATime DEF Delete, BidsOf, TypeOK
  <2>3. auction'[a].status = "DELETED"
    BY <1>0, <1>4 DEF Delete, TypeOK, NoAuction
  <2>4. ClosingIsBacked'
    BY <1>0, <1>4, <2>3, ClosingFrame DEF Delete, closer, TypeOK, BidsOf
  <2> QED BY <1>0, <2>2, <2>4 DEF IInv
<1>5. ASSUME NEW a \in Auctions, NEW u \in Users, CancelUnpaidOrder(a, u)
      PROVE  IInv'
  <2>1. Sound(a)'
    BY <1>0, <1>5, SoundCancel
  <2>2. \A c \in Auctions : Sound(c)'
    BY <1>0, <1>5, <2>1, OneAuctionAtATime DEF CancelUnpaidOrder, BidsOf, TypeOK
  <2>3. Exists(a)
    BY <1>a, <1>5 DEF CancelUnpaidOrder, HasOrder
  <2>4. ClosingIsBacked'
    BY <1>0, <1>5, <2>3, ClosingFrame
       DEF CancelUnpaidOrder, closer, TypeOK, Exists
  <2> QED BY <1>0, <2>2, <2>4 DEF IInv
<1>6. ASSUME NEW a \in Auctions, CommitBid(a)
      PROVE  IInv'
  <2>1. Sound(a)'
    BY <1>0, <1>6, SoundCommitBid
  <2>2. \A c \in Auctions : Sound(c)'
    BY <1>0, <1>6, <2>1, OneAuctionAtATime DEF CommitBid, BidsOf, TypeOK
  <2>3. auction[a].status = "ACTIVE"
    BY <1>6 DEF IInv, Sound, ValidWhileLocked, CommitBid, AcceptsBid
  <2>4. ClosingIsBacked'
    BY <1>0, <1>6, <2>3, ClosingFrame DEF CommitBid, closer, TypeOK
  <2> QED BY <1>0, <2>2, <2>4 DEF IInv
<1>7. ASSUME NEW a \in Auctions, AbortBid(a)
      PROVE  IInv'
  <2>1. Sound(a)'
    BY <1>0, <1>7, SoundAbortBid
  <2>2. \A c \in Auctions : Sound(c)'
    BY <1>0, <1>7, <2>1, OneAuctionAtATime DEF AbortBid, BidsOf, TypeOK, tables
  <2>3. ClosingIsBacked'
    BY <1>0, <1>7, ClosingFrame DEF AbortBid, closer, tables
  <2> QED BY <1>0, <2>2, <2>3 DEF IInv
<1>8. ASSUME NEW a \in Auctions, MarkOrderPaid(a)
      PROVE  IInv'
  <2>1. Sound(a)'
    BY <1>0, <1>8, SoundPaid
  <2>2. \A c \in Auctions : Sound(c)'
    BY <1>0, <1>8, <2>1, OneAuctionAtATime DEF MarkOrderPaid, BidsOf, TypeOK
  <2>3. ClosingIsBacked'
    BY <1>0, <1>8, ClosingFrame DEF MarkOrderPaid, closer
  <2> QED BY <1>0, <2>2, <2>3 DEF IInv
<1>b. ASSUME UNCHANGED <<tables, lock>>, now <= now'
      PROVE  \A c \in Auctions : Sound(c)'
  BY <1>0, <1>b, SoundFrame DEF IInv, tables, BidsOf
<1>9. ASSUME NEW a \in Auctions, ReadTopBid(a)
      PROVE  IInv'
  <2>1. \A c \in Auctions : Sound(c)'
    BY <1>0, <1>9, <1>b DEF ReadTopBid, TypeOK
  <2>2. ClosingIsBacked'
    <3>1. CASE closing' = [NoClosing EXCEPT !.auction = a]
      BY <3>1 DEF ClosingIsBacked
    <3>2. ASSUME NEW b \in TopBids(a),
                 closing' = [auction |-> a, winner |-> b.bidder,
                             amount |-> b.amount]
          PROVE  ClosingIsBacked'
      <4>1. b \in bids /\ b \in Bid /\ b.auction = a
        BY <1>0 DEF TopBids, BidsOf, TypeOK
      <4>2. b = [auction |-> a, bidder |-> b.bidder, amount |-> b.amount]
        BY <4>1 DEF Bid
      <4> QED BY <1>9, <3>2, <4>1, <4>2 DEF ClosingIsBacked, ReadTopBid, tables
    <3> QED BY <1>9, <3>1, <3>2 DEF ReadTopBid
  <2> QED BY <1>0, <2>1, <2>2 DEF IInv
<1>10. CASE ListExpired
  <2>1. \A c \in Auctions : Sound(c)'
    BY <1>0, <1>10, <1>b DEF ListExpired, TypeOK
  <2>2. ClosingIsBacked'
    BY <1>10, ClosingFrame DEF ListExpired, tables
  <2> QED BY <1>0, <2>1, <2>2 DEF IInv
<1>c. ASSUME closing' = NoClosing PROVE ClosingIsBacked'
  BY <1>c DEF ClosingIsBacked
<1>11. CASE CloseUnsold
  <2>1. CASE ~Exists(closing.auction)
    BY <1>0, <1>11, <1>b, <1>c, <2>1 DEF CloseUnsold, tables, TypeOK, IInv
  <2>2. CASE Exists(closing.auction)
    <3>1. PICK a \in Auctions : a = closing.auction
      BY <1>0, <1>11 DEF CloseUnsold, TypeOK, Closing
    <3>2. Sound(a)'
      BY <1>0, <1>11, <2>2, <3>1, SoundCloseUnsold
    <3>3. \A c \in Auctions : Sound(c)'
      BY <1>0, <1>11, <3>1, <3>2, OneAuctionAtATime
         DEF CloseUnsold, BidsOf, TypeOK
    <3> QED BY <1>0, <1>11, <1>c, <3>3 DEF CloseUnsold, IInv
  <2> QED BY <2>1, <2>2
<1>12. CASE CloseSold
  <2>1. CASE ~(Exists(closing.auction) /\ ~HasOrder(closing.auction))
    BY <1>0, <1>12, <1>b, <1>c, <2>1 DEF CloseSold, tables, TypeOK, IInv
  <2>2. CASE Exists(closing.auction) /\ ~HasOrder(closing.auction)
    <3>1. PICK a \in Auctions : a = closing.auction
      BY <1>0, <1>12 DEF CloseSold, TypeOK, Closing
    <3>2. Sound(a)'
      BY <1>0, <1>12, <2>2, <3>1, SoundCloseSold
    <3>3. \A c \in Auctions : Sound(c)'
      BY <1>0, <1>12, <2>2, <3>1, <3>2, OneAuctionAtATime
         DEF CloseSold, BidsOf, TypeOK
    <3> QED BY <1>0, <1>12, <1>c, <3>3 DEF CloseSold, IInv
  <2> QED BY <2>1, <2>2
<1>13. CASE CloseFails
  BY <1>0, <1>13, <1>b, <1>c DEF CloseFails, TypeOK, IInv
<1>14. CASE Restart
  <2>1. ASSUME NEW c \in Auctions PROVE Sound(c)'
    <3>1. Sound(c) /\ UNCHANGED <<auction, bids, order>>
      BY <1>14 DEF IInv, Restart, tables
    <3>2. Unlocked(c)'
      BY <1>14 DEF Restart, Unlocked
    <3>3. /\ Exists(c)' = Exists(c) /\ Active(c)' = Active(c)
          /\ HasOrder(c)' = HasOrder(c) /\ BidsOf(c)' = BidsOf(c)
          /\ Rivals(c)' = Rivals(c) /\ TopBids(c)' = TopBids(c)
      BY <3>1 DEF Exists, Active, HasOrder, BidsOf, Rivals, TopBids
    <3>4. AgreesOnLeader(c)' /\ ProxyPriced(c)'
      BY <3>1, <3>3 DEF Sound, AgreesOnLeader, ProxyPriced
    <3>5. BackedOrder(c)' /\ PaidXorCancelled(c)' /\ SoundRow(c)'
      BY <3>1, <3>3 DEF Sound, BackedOrder, PaidXorCancelled, SoundRow
    <3> QED BY <3>2, <3>4, <3>5 DEF Sound, ValidWhileLocked
  <2> QED BY <1>0, <1>14, <1>c, <2>1 DEF Restart, IInv
<1>15. CASE Tick
  <2>1. \A c \in Auctions : Sound(c)'
    BY <1>0, <1>15, <1>b DEF Tick, TypeOK
  <2>2. ClosingIsBacked'
    BY <1>15, ClosingFrame DEF Tick, tables, closer
  <2> QED BY <1>0, <2>1, <2>2 DEF IInv
<1>16. CASE UNCHANGED vars
  <2>1. \A c \in Auctions : Sound(c)'
    BY <1>0, <1>16, <1>b DEF vars, tables, TypeOK
  <2>2. ClosingIsBacked'
    BY <1>16, ClosingFrame DEF vars
  <2> QED BY <1>0, <2>1, <2>2 DEF IInv
<1> QED
  BY <1>1, <1>2, <1>3, <1>4, <1>5, <1>6, <1>7, <1>8, <1>9, <1>10, <1>11,
     <1>12, <1>13, <1>14, <1>15, <1>16 DEF Next, Running

LEMMA IInvAlways ==
  Spec => []IInv
BY IInvInit, IInvStep, PTL DEF Spec

-----------------------------------------------------------------------------
(* The safety theorems.                                                    *)

(* However handlers, closer and restarts interleave, the auctions row and  *)
(* the bids table agree on the leader of a running auction.                *)
THEOREM LeaderIsTopBidder ==
  Spec => []LeaderHoldsTopBid
<1>1. IInv => LeaderHoldsTopBid
  BY DEF IInv, Sound, LeaderHoldsTopBid
<1> QED BY <1>1, IInvAlways, PTL

(* The proxy promise: the price of a running auction is the starting price *)
(* or at most one increment above a rival's bid, within the hidden maximum.*)
THEOREM ProxyPriceIsSecondPrice ==
  Spec => []SecondPrice
<1>1. IInv => SecondPrice
  BY DEF IInv, Sound, SecondPrice
<1> QED BY <1>1, IInvAlways, PTL

(* Every order has an auction that is off the market and a bid of its      *)
(* buyer for its amount; a SOLD or CANCELLED auction has an order.         *)
THEOREM OrdersAreBacked ==
  Spec => []OrderIsBacked
<1>1. IInv => OrderIsBacked
  BY DEF IInv, Sound, OrderIsBacked
<1> QED BY <1>1, IInvAlways, PTL

(* A paid auction is not CANCELLED, a cancelled order's is not SOLD.       *)
THEOREM PaymentExcludesCancellation ==
  Spec => []PaidNotCancelled
<1>1. IInv => PaidNotCancelled
  BY DEF IInv, Sound, PaidNotCancelled
<1> QED BY <1>1, IInvAlways, PTL

(* Between its checks and its commit a bid cannot become invalid.          *)
THEOREM LockKeepsBidValid ==
  Spec => []LockedBidStaysValid
<1>1. IInv => LockedBidStaysValid
  BY DEF IInv, Sound, LockedBidStaysValid
<1> QED BY <1>1, IInvAlways, PTL

-----------------------------------------------------------------------------
(* The action properties.                                                  *)

(* Writing one field of a row leaves the others.                           *)
LEMMA StatusOnly ==
  ASSUME NEW row \in AuctionRow, NEW st, NEW r,
         r = [row EXCEPT !.status = st]
  PROVE  /\ r = [row EXCEPT !.status = r.status] /\ r.status = st
         /\ r.price = row.price /\ r.end = row.end /\ r.leader = row.leader
BY DEF AuctionRow

(* How a step may change the row of an auction, and with it its bids.      *)
LEMMA RowSteps ==
  ASSUME IInv, Next, NEW a \in Auctions
  PROVE  \/ auction'[a] = auction[a] /\ BidsOf(a)' = BidsOf(a)
         \/ ~Exists(a)
         \/ ~Exists(a)' /\ ~HasOrder(a)
         \/ /\ BidsOf(a)' = BidsOf(a)
            /\ \E st \in {"SOLD", "EXPIRED", "CANCELLED"} :
                 auction'[a] = [auction[a] EXCEPT !.status = st]
         \/ CommitBid(a)
         \/ \E u \in Users : BuyItNow(a, u)
<1> DEFINE Goal == \/ auction'[a] = auction[a] /\ BidsOf(a)' = BidsOf(a)
                   \/ ~Exists(a)
                   \/ ~Exists(a)' /\ ~HasOrder(a)
                   \/ /\ BidsOf(a)' = BidsOf(a)
                      /\ \E st \in {"SOLD", "EXPIRED", "CANCELLED"} :
                           auction'[a] = [auction[a] EXCEPT !.status = st]
                   \/ CommitBid(a)
                   \/ \E u \in Users : BuyItNow(a, u)
<1>0. TypeOK
  BY DEF IInv
<1>1. ASSUME NEW c \in Auctions, NEW u \in Users, NEW start \in StartPrices,
             NEW buyNow \in BuyNowPrices, NEW end \in 0..MaxTime,
             CreateAuction(c, u, start, buyNow, end)
      PROVE  Goal
  BY <1>0, <1>1 DEF CreateAuction, Exists, BidsOf, TypeOK
<1>2. ASSUME NEW c \in Auctions, NEW u \in Users, NEW amount \in BidAmounts,
             LockForBid(c, u, amount)
      PROVE  Goal
  BY <1>2 DEF LockForBid, tables, BidsOf
<1>3. ASSUME NEW c \in Auctions, NEW u \in Users, BuyItNow(c, u)
      PROVE  Goal
  <2>1. CASE c = a
    <3>1. BuyItNow(a, u)
      BY <1>3, <2>1
    <3> QED BY <3>1
  <2>2. CASE c # a
    <3>1. auction'[a] = auction[a] /\ BidsOf(a)' = BidsOf(a)
      BY <1>0, <1>3, <2>2 DEF BuyItNow, BidsOf, TypeOK
    <3> QED BY <3>1
  <2> QED BY <2>1, <2>2
<1>4. ASSUME NEW c \in Auctions, NEW u \in Users, Delete(c, u)
      PROVE  Goal
  <2>1. CASE c = a
    <3>1. auction'[a].status = "DELETED" /\ ~HasOrder(a)
      BY <1>0, <1>4, <2>1 DEF Delete, TypeOK, NoAuction
    <3> QED BY <3>1 DEF Exists
  <2>2. CASE c # a
    BY <1>0, <1>4, <2>2 DEF Delete, BidsOf, TypeOK
  <2> QED BY <2>1, <2>2
<1>5. ASSUME NEW c \in Auctions, NEW u \in Users, CancelUnpaidOrder(c, u)
      PROVE  Goal
  BY <1>0, <1>5 DEF CancelUnpaidOrder, BidsOf, TypeOK
<1>6. ASSUME NEW c \in Auctions, CommitBid(c)
      PROVE  Goal
  <2>1. CASE c = a
    BY <1>6, <2>1
  <2>2. CASE c # a
    BY <1>0, <1>6, <2>2 DEF CommitBid, BidsOf, TypeOK
  <2> QED BY <2>1, <2>2
<1>7. ASSUME NEW c \in Auctions, AbortBid(c) \/ MarkOrderPaid(c) \/ ReadTopBid(c)
      PROVE  Goal
  BY <1>7 DEF AbortBid, MarkOrderPaid, ReadTopBid, tables, BidsOf
<1>8. CASE ListExpired \/ CloseFails \/ Restart \/ Tick
  BY <1>8 DEF ListExpired, CloseFails, Restart, Tick, tables, BidsOf
<1>9. CASE CloseUnsold \/ CloseSold
  <2>1. BidsOf(a)' = BidsOf(a)
    BY <1>9 DEF CloseUnsold, CloseSold, BidsOf
  <2>2. CASE a # closing.auction
    BY <1>0, <1>9, <2>1, <2>2 DEF CloseUnsold, CloseSold, TypeOK
  <2>3. CASE a = closing.auction
    <3>1. CASE auction' = auction
      BY <2>1, <3>1
    <3>2. CASE auction' = [auction EXCEPT ![a].status = "EXPIRED"]
      BY <1>0, <2>1, <3>2 DEF TypeOK
    <3>3. CASE auction' = [auction EXCEPT ![a].status = "SOLD"]
      BY <1>0, <2>1, <3>3 DEF TypeOK
    <3> QED BY <1>9, <2>3, <3>1, <3>2, <3>3 DEF CloseUnsold, CloseSold
  <2> QED BY <2>2, <2>3
<1> QED
  BY <1>1, <1>2, <1>3, <1>4, <1>5, <1>6, <1>7, <1>8, <1>9 DEF Next, Running

LEMMA ForwardStep ==
  ASSUME IInv, Next, NEW a \in Auctions
  PROVE  OnlyForward(a)
<1> SUFFICES ASSUME Exists(a), Exists(a)'
             PROVE  /\ auction[a].price <= auction'[a].price
                    /\ auction[a].end <= auction'[a].end
                    /\ auction[a].leader # Null => auction'[a].leader # Null
  BY DEF OnlyForward
<1>0. /\ TypeOK /\ TypeOK' /\ Sound(a)
      /\ auction[a] \in AuctionRow
      /\ auction[a].price \in Nat /\ auction[a].end \in Nat
  BY TypeOKStep DEF IInv, TypeOK, AuctionRow, Money
<1>1. CASE auction'[a] = auction[a]
  BY <1>0, <1>1
<1>2. ASSUME NEW st, auction'[a] = [auction[a] EXCEPT !.status = st]
      PROVE  /\ auction[a].price <= auction'[a].price
             /\ auction[a].end <= auction'[a].end
             /\ auction[a].leader # Null => auction'[a].leader # Null
  BY <1>0, <1>2, StatusOnly
<1>3. CASE CommitBid(a)
  <2> DEFINE u == lock[a].bidder
             m == lock[a].amount
             t == lock[a].at
  <2>1. u \in Users /\ m \in Nat /\ t \in Nat
    BY <1>0, <1>3 DEF TypeOK, BidTx, CommitBid, Unlocked
  <2>2. AcceptsBid(auction[a], u, m, t)
    BY <1>0, <1>3 DEF Sound, ValidWhileLocked, CommitBid
  <2>3. /\ auction[a].leader = Null => auction[a].price = auction[a].start
        /\ auction[a].leader # Null =>
             auction[a].start <= auction[a].price /\
             auction[a].price <= auction[a].maxBid
    BY <1>0, <2>2 DEF Sound, SoundRow, ProxyPriced, Active, Exists, AcceptsBid
  <2>4. auction'[a] = AfterBid(auction[a], u, m, t, Extension)
    BY <1>0, <1>3 DEF CommitBid, TypeOK
  <2>5. /\ auction[a].price <= auction'[a].price
        /\ auction[a].end <= auction'[a].end
        /\ TakesLead(auction[a], u, m) => auction'[a].leader = u
        /\ ~TakesLead(auction[a], u, m) => auction'[a].leader = auction[a].leader
    BY <1>0, <2>1, <2>2, <2>3, <2>4, BidOutcome
  <2> QED BY <2>1, <2>5, ConstantTypes
<1>4. ASSUME NEW u \in Users, BuyItNow(a, u)
      PROVE  /\ auction[a].price <= auction'[a].price
             /\ auction[a].end <= auction'[a].end
             /\ auction[a].leader # Null => auction'[a].leader # Null
  <2>1. /\ auction'[a].price = auction[a].buyNow
        /\ auction'[a].end = auction[a].end
        /\ auction[a].leader = Null
    BY <1>0, <1>4 DEF BuyItNow, TypeOK, AuctionRow
  <2>2. auction[a].price = auction[a].start
    BY <1>0, <2>1 DEF Sound, SoundRow
  <2>3. auction[a].start <= auction[a].buyNow
    BY <1>0, <1>4 DEF Sound, SoundRow, BuyItNow
  <2> QED BY <1>0, <2>1, <2>2, <2>3
<1> QED BY <1>1, <1>2, <1>3, <1>4, RowSteps

(* Price and end only grow, a leader is never lost, for every instance.    *)
THEOREM PriceAndEndOnlyGrow ==
  Spec => NothingGoesBack
<1>1. IInv /\ [Next]_vars => [\A a \in Auctions : OnlyForward(a)]_vars
  BY ForwardStep
<1> QED BY <1>1, IInvAlways, PTL DEF Spec, NothingGoesBack

LEMMA FrozenStep ==
  ASSUME IInv, Next, NEW a \in Auctions
  PROVE  FrozenOnceClosed(a)
<1> SUFFICES ASSUME Exists(a), ~Active(a), Exists(a)'
             PROVE  /\ ~Active(a)'
                    /\ auction'[a] = [auction[a] EXCEPT !.status = auction'[a].status]
                    /\ BidsOf(a)' = BidsOf(a)
  BY DEF FrozenOnceClosed
<1>0. auction[a] \in AuctionRow /\ Sound(a)
  BY DEF IInv, TypeOK
<1>1. CASE auction'[a] = auction[a] /\ BidsOf(a)' = BidsOf(a)
  BY <1>0, <1>1 DEF Active, AuctionRow
<1>2. ASSUME BidsOf(a)' = BidsOf(a), NEW st \in {"SOLD", "EXPIRED", "CANCELLED"},
             auction'[a] = [auction[a] EXCEPT !.status = st]
      PROVE  /\ ~Active(a)'
             /\ auction'[a] = [auction[a] EXCEPT !.status = auction'[a].status]
             /\ BidsOf(a)' = BidsOf(a)
  BY <1>0, <1>2, StatusOnly DEF Active
<1>3. ~CommitBid(a)
  BY <1>0 DEF CommitBid, Sound, ValidWhileLocked, AcceptsBid, Active
<1>4. ASSUME NEW u \in Users PROVE ~BuyItNow(a, u)
  BY DEF BuyItNow
<1> QED BY <1>1, <1>2, <1>3, <1>4, RowSteps

(* A closed auction is never reopened and no bid reaches it any more.      *)
THEOREM ClosedStaysClosed ==
  Spec => ClosedIsFrozen
<1>1. IInv /\ [Next]_vars => [\A a \in Auctions : FrozenOnceClosed(a)]_vars
  BY FrozenStep
<1> QED BY <1>1, IInvAlways, PTL DEF Spec, ClosedIsFrozen

LEMMA FinalOrderStep ==
  ASSUME IInv, Next, NEW a \in Auctions
  PROVE  FinalOrder(a)
<1> SUFFICES ASSUME HasOrder(a)
             PROVE  /\ HasOrder(a)' /\ Exists(a)'
                    /\ order'[a] = [order[a] EXCEPT !.status = order'[a].status]
                    /\ order[a].status # "PENDING" => order'[a] = order[a]
  BY DEF FinalOrder
<1> DEFINE Kept == HasOrder(a)' /\
                   order'[a] = [order[a] EXCEPT !.status = order'[a].status] /\
                   (order[a].status # "PENDING" => order'[a] = order[a])
<1>0. /\ TypeOK /\ Sound(a) /\ Sound(a)' /\ order[a] \in OrderRow
      /\ order[a].status # "NONE"
  BY IInvStep DEF IInv, TypeOK, HasOrder
<1>1. ASSUME order'[a] = order[a]
      PROVE  Kept
  BY <1>0, <1>1 DEF HasOrder, OrderRow
<1>2. ASSUME NEW c \in Auctions, NEW u \in Users, NEW start \in StartPrices,
             NEW buyNow \in BuyNowPrices, NEW end \in 0..MaxTime,
             CreateAuction(c, u, start, buyNow, end)
      PROVE  Kept
  BY <1>1, <1>2 DEF CreateAuction
<1>3. ASSUME NEW c \in Auctions, NEW u \in Users, NEW amount \in BidAmounts,
             LockForBid(c, u, amount)
      PROVE  Kept
  BY <1>1, <1>3 DEF LockForBid, tables
<1>4. ASSUME NEW c \in Auctions, NEW u \in Users, BuyItNow(c, u)
      PROVE  Kept
  <2>1. ~HasOrder(c)
    BY <1>4 DEF BuyItNow
  <2>2. order'[a] = order[a]
    BY <1>0, <1>4, <2>1 DEF BuyItNow, TypeOK
  <2> QED BY <1>1, <2>2
<1>5. ASSUME NEW c \in Auctions, NEW u \in Users, Delete(c, u)
      PROVE  Kept
  BY <1>1, <1>5 DEF Delete
<1>6. ASSUME NEW c \in Auctions,
             order' = [order EXCEPT ![c].status = "CANCELLED_UNPAID"] \/
             order' = [order EXCEPT ![c].status = "PAID"],
             order[c].status = "PENDING"
      PROVE  Kept
  <2>1. CASE c # a
    BY <1>0, <1>1, <1>6, <2>1 DEF TypeOK
  <2>2. ASSUME c = a, NEW st \in {"CANCELLED_UNPAID", "PAID"},
               order'[a] = [order[a] EXCEPT !.status = st]
        PROVE  Kept
    <3>1. order'[a].status = st
      BY <1>0, <2>2 DEF OrderRow
    <3> QED BY <1>0, <1>6, <2>2, <3>1 DEF HasOrder
  <2> QED BY <1>0, <1>6, <2>1, <2>2 DEF TypeOK
<1>7. ASSUME NEW c \in Auctions, NEW u \in Users, CancelUnpaidOrder(c, u)
      PROVE  Kept
  BY <1>6, <1>7 DEF CancelUnpaidOrder
<1>8. ASSUME NEW c \in Auctions, MarkOrderPaid(c)
      PROVE  Kept
  BY <1>6, <1>8 DEF MarkOrderPaid
<1>9. ASSUME NEW c \in Auctions, CommitBid(c) \/ AbortBid(c) \/ ReadTopBid(c)
      PROVE  Kept
  BY <1>1, <1>9 DEF CommitBid, AbortBid, ReadTopBid, tables
<1>10. ASSUME ListExpired \/ CloseUnsold \/ CloseFails \/ Restart \/ Tick
       PROVE  Kept
  BY <1>1, <1>10 DEF ListExpired, CloseUnsold, CloseFails, Restart, Tick, tables
<1>11. ASSUME CloseSold
       PROVE  Kept
  <2>1. CASE a = closing.auction
    BY <1>1, <1>11, <2>1 DEF CloseSold
  <2>2. CASE a # closing.auction
    BY <1>0, <1>1, <1>11, <2>2 DEF CloseSold, TypeOK
  <2> QED BY <2>1, <2>2
<1>12. Kept
  BY <1>2, <1>3, <1>4, <1>5, <1>7, <1>8, <1>9, <1>10, <1>11 DEF Next, Running
<1>13. Exists(a)'
  BY <1>0, <1>12 DEF Sound, SoundRow
<1> QED BY <1>12, <1>13

(* Orders are never rewritten, never vanish, and keep their auction.       *)
THEOREM OrdersAreFinal ==
  Spec => OrderIsFinal
<1>1. IInv /\ [Next]_vars => [\A a \in Auctions : FinalOrder(a)]_vars
  BY FinalOrderStep
<1> QED BY <1>1, IInvAlways, PTL DEF Spec, OrderIsFinal

-----------------------------------------------------------------------------
(* AuctionHouse implements Sale.                                           *)

(* An auction without an order is open, unsold, withdrawn or not there.    *)
LEMMA StageOf ==
  ASSUME IInv, NEW a \in Auctions
  PROVE  /\ order[a].status = "PENDING" <=> SaleStage(a) = "sold"
         /\ ~HasOrder(a) => /\ auction[a].status \in {"NONE", "ACTIVE", "EXPIRED", "DELETED"}
                            /\ auction[a].status = "NONE" <=> SaleStage(a) = "none"
                            /\ auction[a].status = "ACTIVE" <=> SaleStage(a) = "open"
                            /\ auction[a].status = "EXPIRED" <=> SaleStage(a) = "unsold"
<1>1. Sound(a) /\ auction[a].status \in AuctionStatus /\ order[a].status \in OrderStatus
  BY DEF IInv, TypeOK, AuctionRow, OrderRow
<1>2. HasOrder(a) => order[a].status \in {"PENDING", "PAID", "CANCELLED_UNPAID"}
  BY <1>1 DEF HasOrder, OrderStatus
<1>3. order[a].status = "PENDING" <=> SaleStage(a) = "sold"
  BY <1>1 DEF SaleStage
<1>4. ~HasOrder(a) => auction[a].status \in {"NONE", "ACTIVE", "EXPIRED", "DELETED"}
  BY <1>1 DEF Sound, BackedOrder, AuctionStatus
<1> QED BY <1>1, <1>3, <1>4 DEF SaleStage, HasOrder

(* A step that touches one auction moves one sale.                         *)
LEMMA OneSale ==
  ASSUME NEW a \in Auctions,
         \A c \in Auctions \ {a} : /\ auction'[c] = auction[c]
                                   /\ order'[c] = order[c]
                                   /\ BidsOf(c)' = BidsOf(c)
  PROVE  /\ Stage' = [Stage EXCEPT ![a] = SaleStage(a)']
         /\ Bidders' = [Bidders EXCEPT ![a] = {b.bidder : b \in BidsOf(a)'}]
         /\ Buyer' = [Buyer EXCEPT ![a] = order'[a].buyer]
<1>1. \A c \in Auctions \ {a} : SaleStage(c)' = SaleStage(c)
  BY DEF SaleStage
<1>2. Stage' = [Stage EXCEPT ![a] = SaleStage(a)']
  BY <1>1 DEF Stage
<1>3. Bidders' = [Bidders EXCEPT ![a] = {b.bidder : b \in BidsOf(a)'}]
  BY DEF Bidders
<1> QED BY <1>2, <1>3 DEF Buyer

LEMMA SameSale ==
  ASSUME UNCHANGED tables
  PROVE  UNCHANGED <<Stage, Bidders, Buyer>>
BY DEF tables, Stage, Bidders, Buyer, SaleStage, BidsOf

(* Bidders and buyer stay when bids and orders do.                         *)
LEMMA SamePeople ==
  ASSUME bids' = bids, \A c \in Auctions : order'[c].buyer = order[c].buyer
  PROVE  UNCHANGED <<Bidders, Buyer>>
BY DEF Bidders, Buyer, BidsOf

-----------------------------------------------------------------------------
LEMMA FreshInit == Init => FreshPass
BY DEF Init, FreshPass

LEMMA FreshStep == IInv /\ FreshPass /\ [Next]_vars => FreshPass'
<1> SUFFICES ASSUME IInv, FreshPass, [Next]_vars PROVE FreshPass'
  OBVIOUS
<1>0. TypeOK
  BY DEF IInv
(* Only the closer writes EXPIRED.                                         *)
<1>1. ASSUME UNCHANGED closer,
             \A a \in Auctions : \/ auction'[a].status # "EXPIRED"
                                 \/ auction'[a].status = auction[a].status
      PROVE  FreshPass'
  BY <1>0, <1>1 DEF FreshPass, closer, TypeOK, Closing
<1>2. ASSUME NEW a \in Auctions, NEW u \in Users, NEW start \in StartPrices,
             NEW buyNow \in BuyNowPrices, NEW end \in 0..MaxTime,
             CreateAuction(a, u, start, buyNow, end)
      PROVE  FreshPass'
  BY <1>0, <1>1, <1>2 DEF CreateAuction, TypeOK
<1>3. ASSUME NEW a \in Auctions, NEW u \in Users, NEW amount \in BidAmounts,
             LockForBid(a, u, amount)
      PROVE  FreshPass'
  BY <1>1, <1>3 DEF LockForBid, tables
<1>4. ASSUME NEW a \in Auctions, NEW u \in Users, BuyItNow(a, u)
      PROVE  FreshPass'
  <2>1. auction'[a].status = "SOLD"
    BY <1>0, <1>4 DEF BuyItNow, TypeOK, AuctionRow
  <2> QED BY <1>0, <1>1, <1>4, <2>1 DEF BuyItNow, TypeOK
<1>5. ASSUME NEW a \in Auctions, NEW u \in Users, Delete(a, u)
      PROVE  FreshPass'
  <2>1. auction'[a].status = "DELETED"
    BY <1>0, <1>5 DEF Delete, TypeOK, NoAuction
  <2> QED BY <1>0, <1>1, <1>5, <2>1 DEF Delete, TypeOK
<1>6. ASSUME NEW a \in Auctions, NEW u \in Users, CancelUnpaidOrder(a, u)
      PROVE  FreshPass'
  <2>1. auction'[a].status = "CANCELLED"
    BY <1>0, <1>6 DEF CancelUnpaidOrder, TypeOK, AuctionRow
  <2> QED BY <1>0, <1>1, <1>6, <2>1 DEF CancelUnpaidOrder, TypeOK
<1>7. ASSUME NEW a \in Auctions, CommitBid(a)
      PROVE  FreshPass'
  <2>1. auction'[a] = AfterBid(auction[a], lock[a].bidder, lock[a].amount,
                               lock[a].at, Extension)
    BY <1>0, <1>7 DEF CommitBid, TypeOK
  <2>2. auction'[a].status = auction[a].status
    BY <1>0, <2>1 DEF AfterBid, TypeOK, AuctionRow
  <2> QED BY <1>0, <1>1, <1>7, <2>2 DEF CommitBid, TypeOK
<1>8. ASSUME NEW a \in Auctions, AbortBid(a) \/ MarkOrderPaid(a)
      PROVE  FreshPass'
  BY <1>1, <1>8 DEF AbortBid, MarkOrderPaid, tables
<1>9. ASSUME NEW a \in Auctions, ReadTopBid(a)
      PROVE  FreshPass'
  BY <1>9 DEF ReadTopBid, FreshPass, tables
<1>10. CASE ListExpired
  BY <1>10, ConstantTypes DEF ListExpired, FreshPass, tables, Idle, Active
<1>11. CASE CloseUnsold \/ CloseSold
  <2>1. /\ todo' = todo /\ closing' = NoClosing
        /\ \A a \in todo : auction'[a] = auction[a]
    BY <1>0, <1>11 DEF CloseUnsold, CloseSold, FreshPass, TypeOK
  <2> QED BY <1>0, <2>1, ConstantTypes DEF FreshPass, TypeOK
<1>12. CASE CloseFails \/ Restart
  BY <1>0, <1>12, ConstantTypes DEF CloseFails, Restart, tables, FreshPass, TypeOK
<1>13. CASE Tick \/ UNCHANGED vars
  BY <1>13 DEF Tick, vars, tables, closer, FreshPass
<1> QED
  BY <1>2, <1>3, <1>4, <1>5, <1>6, <1>7, <1>8, <1>9, <1>10, <1>11, <1>12,
     <1>13 DEF Next, Running

-----------------------------------------------------------------------------
LEMMA SaleInit == Init => S!Init
BY DEF Init, S!Init, Stage, Bidders, Buyer, SaleStage, BidsOf, NoAuction

(* Each transaction is one step of the sale, or none.                      *)
LEMMA SaleStep ==
  IInv /\ FreshPass /\ [Next]_vars => [S!Next]_<<Stage, Bidders, Buyer>>
<1> SUFFICES ASSUME IInv, FreshPass, [Next]_vars
             PROVE  S!Next \/ UNCHANGED <<Stage, Bidders, Buyer>>
  BY DEF S!Next
<1>0. TypeOK /\ \A a \in Auctions : Sound(a)
  BY DEF IInv
<1>1. ASSUME NEW a \in Auctions, NEW u \in Users, NEW start \in StartPrices,
             NEW buyNow \in BuyNowPrices, NEW end \in 0..MaxTime,
             CreateAuction(a, u, start, buyNow, end)
      PROVE  S!Offer(a)
  <2>1. ~HasOrder(a) /\ SaleStage(a) = "none"
    BY <1>0, <1>1, StageOf DEF CreateAuction, Sound, SoundRow, Exists
  <2>2. SaleStage(a)' = "open"
    BY <1>0, <1>1, <2>1 DEF CreateAuction, SaleStage, HasOrder, TypeOK
  <2>3. Stage' = [Stage EXCEPT ![a] = "open"]
    BY <1>0, <1>1, <2>2, OneSale DEF CreateAuction, TypeOK, BidsOf
  <2>4. UNCHANGED <<Bidders, Buyer>>
    BY <1>1, SamePeople DEF CreateAuction
  <2> QED BY <2>1, <2>3, <2>4 DEF S!Offer, S!Moves, Stage
<1>2. ASSUME NEW a \in Auctions, CommitBid(a)
      PROVE  \E u \in Users : S!Bid(a, u)
  <2> DEFINE u == lock[a].bidder
  <2>1. /\ u \in Users /\ Active(a) /\ ~HasOrder(a)
        /\ auction'[a] = AfterBid(auction[a], u, lock[a].amount, lock[a].at, Extension)
    BY <1>0, <1>2 DEF CommitBid, Unlocked, TypeOK, BidTx, Sound,
       ValidWhileLocked, AcceptsBid, Active, BackedOrder
  <2>2. SaleStage(a) = "open" /\ SaleStage(a)' = "open"
    <3>1. auction'[a].status = auction[a].status
      BY <1>0, <2>1 DEF AfterBid, TypeOK, AuctionRow
    <3> QED BY <1>2, <2>1, <3>1 DEF SaleStage, Active, HasOrder, CommitBid
  <2>3. PICK nb : nb.bidder = u /\ BidsOf(a)' = BidsOf(a) \cup {nb}
    <3> DEFINE nb == [auction |-> a, bidder |-> u,
                      amount |-> Numeric(lock[a].amount)]
    <3>1. BidsOf(a)' = BidsOf(a) \cup {nb}
      BY <1>2 DEF CommitBid, BidsOf
    <3>2. nb.bidder = u
      OBVIOUS
    <3> QED BY <3>1, <3>2
  <2>4. {b.bidder : b \in BidsOf(a)'} = Bidders[a] \cup {u}
    BY <2>3 DEF Bidders
  <2>5. /\ Stage' = [Stage EXCEPT ![a] = "open"]
        /\ Bidders' = [Bidders EXCEPT ![a] = Bidders[a] \cup {u}]
    BY <1>0, <1>2, <2>2, <2>4, OneSale DEF CommitBid, TypeOK, BidsOf
  <2>6. UNCHANGED <<Stage, Buyer>>
    BY <1>2, <2>2, <2>5 DEF CommitBid, Stage, Buyer
  <2> QED BY <2>1, <2>2, <2>5, <2>6 DEF S!Bid, Stage
<1>3. ASSUME NEW a \in Auctions, NEW u \in Users, BuyItNow(a, u)
      PROVE  S!Buy(a, u)
  <2>1. Active(a) /\ ~HasOrder(a) /\ BidsOf(a) = {} /\ SaleStage(a) = "open"
    BY <1>0, <1>3, StageOf DEF BuyItNow, Sound, AgreesOnLeader, Active, Exists
  <2>2. order'[a].status = "PENDING" /\ order'[a].buyer = u
    BY <1>0, <1>3 DEF BuyItNow, PendingOrder, TypeOK
  <2>3. SaleStage(a)' = "sold"
    BY <2>2 DEF SaleStage
  <2>4. BidsOf(a)' = {[auction |-> a, bidder |-> u, amount |-> auction[a].buyNow]}
    BY <1>3, <2>1 DEF BuyItNow, BidsOf
  <2>5. {b.bidder : b \in BidsOf(a)'} = {u} /\ Bidders[a] = {}
    BY <2>1, <2>4 DEF Bidders
  <2>6. \A c \in Auctions \ {a} : /\ auction'[c] = auction[c]
                                  /\ order'[c] = order[c]
                                  /\ BidsOf(c)' = BidsOf(c)
    BY <1>0, <1>3 DEF BuyItNow, TypeOK, BidsOf
  <2>7. /\ Stage' = [Stage EXCEPT ![a] = "sold"]
        /\ Bidders' = [Bidders EXCEPT ![a] = {u}]
        /\ Buyer' = [Buyer EXCEPT ![a] = u]
    BY <2>2, <2>3, <2>5, <2>6, OneSale
  <2> QED BY <2>1, <2>5, <2>7 DEF S!Buy, S!Moves, Stage
<1>4. ASSUME NEW a \in Auctions, NEW u \in Users, Delete(a, u)
      PROVE  S!Withdraw(a)
  <2>1. SaleStage(a) \in {"open", "unsold"} /\ ~HasOrder(a)
    BY <1>4, StageOf DEF Delete, Exists
  <2>2. SaleStage(a)' = "withdrawn"
    BY <1>0, <1>4, <2>1 DEF Delete, SaleStage, NoAuction, HasOrder, TypeOK
  <2>3. BidsOf(a)' = {}
    BY <1>4 DEF Delete, BidsOf
  <2>4. \A c \in Auctions \ {a} : /\ auction'[c] = auction[c]
                                  /\ order'[c] = order[c]
                                  /\ BidsOf(c)' = BidsOf(c)
    BY <1>0, <1>4 DEF Delete, TypeOK, BidsOf
  <2>5. /\ Stage' = [Stage EXCEPT ![a] = "withdrawn"]
        /\ Bidders' = [Bidders EXCEPT ![a] = {}]
    BY <2>2, <2>3, <2>4, OneSale
  <2> QED BY <1>4, <2>1, <2>5 DEF S!Withdraw, S!Moves, Stage, Buyer, Delete
<1>5. ASSUME NEW a \in Auctions, order[a].status = "PENDING", bids' = bids,
             NEW st \in {"PAID", "CANCELLED_UNPAID"},
             order' = [order EXCEPT ![a].status = st],
             \A c \in Auctions \ {a} : auction'[c] = auction[c]
      PROVE  S!Settle(a) \/ S!Cancel(a)
  <2>1. order'[a].status = st /\ \A c \in Auctions : order'[c].buyer = order[c].buyer
    BY <1>0, <1>5 DEF TypeOK, OrderRow
  <2>2. SaleStage(a)' = IF st = "PAID" THEN "paid" ELSE "cancelled"
    BY <2>1 DEF SaleStage
  <2>3. Stage' = [Stage EXCEPT ![a] = IF st = "PAID" THEN "paid" ELSE "cancelled"]
    BY <1>0, <1>5, <2>2, OneSale DEF TypeOK, BidsOf
  <2>4. UNCHANGED <<Bidders, Buyer>>
    BY <1>5, <2>1, SamePeople
  <2>5. Stage[a] = "sold"
    BY <1>5, StageOf DEF Stage
  <2> QED BY <2>3, <2>4, <2>5 DEF S!Settle, S!Cancel, S!Moves
<1>6. ASSUME NEW a \in Auctions, NEW u \in Users, CancelUnpaidOrder(a, u)
      PROVE  S!Settle(a) \/ S!Cancel(a)
  BY <1>0, <1>5, <1>6 DEF CancelUnpaidOrder, TypeOK
<1>7. ASSUME NEW a \in Auctions, MarkOrderPaid(a)
      PROVE  S!Settle(a) \/ S!Cancel(a)
  BY <1>5, <1>7 DEF MarkOrderPaid
<1>8. ASSUME CloseUnsold
      PROVE  \/ \E a \in Auctions : S!Expire(a)
             \/ UNCHANGED <<Stage, Bidders, Buyer>>
  <2>1. PICK a \in Auctions : a = closing.auction /\ auction[a].status # "EXPIRED"
    BY <1>0, <1>8 DEF CloseUnsold, FreshPass, TypeOK, Closing
  <2>2. UNCHANGED <<Bidders, Buyer>>
    BY <1>8, SamePeople DEF CloseUnsold
  <2>3. CASE ~Exists(a)
    BY <1>8, <2>1, <2>3, SameSale DEF CloseUnsold, tables
  <2>4. Exists(a) => auction'[a].status = "EXPIRED"
    BY <1>0, <1>8, <2>1 DEF CloseUnsold, TypeOK, AuctionRow
  <2>5. \A c \in Auctions \ {a} : /\ auction'[c] = auction[c]
                                  /\ order'[c] = order[c]
                                  /\ BidsOf(c)' = BidsOf(c)
    BY <1>0, <1>8, <2>1 DEF CloseUnsold, TypeOK, BidsOf
  <2>6. CASE Exists(a) /\ HasOrder(a)
    <3>1. SaleStage(a)' = SaleStage(a)
      <4>1. order[a].status \in {"PENDING", "PAID", "CANCELLED_UNPAID"}
        BY <1>0, <2>1, <2>6 DEF HasOrder, TypeOK, OrderRow, OrderStatus
      <4> QED BY <1>8, <2>1, <4>1 DEF SaleStage, CloseUnsold
    <3>2. Stage' = Stage
      BY <2>1, <2>5, <3>1, OneSale DEF Stage
    <3> QED BY <2>2, <3>2
  <2>7. CASE Exists(a) /\ ~HasOrder(a)
    <3>1. SaleStage(a) = "open"
      BY <2>1, <2>7, StageOf DEF Exists
    <3>2. SaleStage(a)' = "unsold"
      BY <1>8, <2>1, <2>4, <2>7 DEF SaleStage, HasOrder, CloseUnsold
    <3>3. Stage' = [Stage EXCEPT ![a] = "unsold"]
      BY <2>1, <2>5, <3>2, OneSale
    <3> QED BY <2>1, <2>2, <3>1, <3>3 DEF S!Expire, S!Moves, Stage
  <2> QED BY <2>3, <2>6, <2>7
<1>9. ASSUME CloseSold
      PROVE  \/ \E a \in Auctions, u \in Users : S!Award(a, u)
             \/ UNCHANGED <<Stage, Bidders, Buyer>>
  <2>1. PICK a \in Auctions, u \in Users :
          /\ a = closing.auction /\ u = closing.winner
          /\ auction[a].status # "EXPIRED"
    BY <1>0, <1>9 DEF CloseSold, FreshPass, TypeOK, Closing
  <2>2. CASE ~(Exists(a) /\ ~HasOrder(a))
    BY <1>9, <2>1, <2>2, SameSale DEF CloseSold, tables
  <2>3. CASE Exists(a) /\ ~HasOrder(a)
    <3>1. SaleStage(a) = "open"
      BY <2>1, <2>3, StageOf DEF Exists
    <3>2. u \in Bidders[a]
      <4>1. [auction |-> a, bidder |-> u, amount |-> closing.amount] \in BidsOf(a)
        BY <1>9, <2>1, <2>3 DEF IInv, ClosingIsBacked, CloseSold, Exists, BidsOf
      <4> QED BY <2>1, <4>1 DEF Bidders
    <3>3. /\ order'[a].status = "PENDING" /\ order'[a].buyer = u
          /\ \A c \in Auctions \ {a} : /\ auction'[c] = auction[c]
                                       /\ order'[c] = order[c]
                                       /\ BidsOf(c)' = BidsOf(c)
          /\ bids' = bids
      BY <1>0, <1>9, <2>1, <2>3 DEF CloseSold, PendingOrder, TypeOK, BidsOf
    <3>4. SaleStage(a)' = "sold"
      BY <3>3 DEF SaleStage
    <3>5. /\ Stage' = [Stage EXCEPT ![a] = "sold"]
          /\ Buyer' = [Buyer EXCEPT ![a] = u]
      BY <2>1, <3>3, <3>4, OneSale
    <3>6. Bidders' = Bidders
      BY <3>3 DEF Bidders, BidsOf
    <3> QED BY <2>1, <3>1, <3>2, <3>5, <3>6 DEF S!Award, S!Moves, Stage
  <2> QED BY <2>2, <2>3
<1>10. ASSUME NEW a \in Auctions, AbortBid(a) \/ ReadTopBid(a)
       PROVE  UNCHANGED tables
  BY <1>10 DEF AbortBid, ReadTopBid
<1>11. ASSUME NEW a \in Auctions, NEW u \in Users, NEW amount \in BidAmounts,
              LockForBid(a, u, amount)
       PROVE  UNCHANGED tables
  BY <1>11 DEF LockForBid
<1>12. ASSUME ListExpired \/ CloseFails \/ Restart \/ Tick \/ UNCHANGED vars
       PROVE  UNCHANGED tables
  BY <1>12 DEF ListExpired, CloseFails, Restart, Tick, vars, tables
<1>13. S!Next \/ UNCHANGED tables \/ UNCHANGED <<Stage, Bidders, Buyer>>
  BY <1>1, <1>2, <1>3, <1>4, <1>6, <1>7, <1>8, <1>9, <1>10, <1>11, <1>12
     DEF Next, Running, S!Next
<1> QED BY <1>13, SameSale

(* Whatever handlers, locks, closer and restarts do, what the tables say   *)
(* of an auction is a sale: no bid after it is closed, one buyer who bid   *)
(* or bought, one outcome, and no way back.                                *)
THEOREM AuctionsKeepSale == Spec => KeepsSale
<1>1. Spec => [](IInv /\ FreshPass)
  BY IInvInit, IInvStep, FreshInit, FreshStep, PTL DEF Spec
<1> QED BY <1>1, SaleInit, SaleStep, PTL DEF Spec, KeepsSale, S!Spec, S!sale
=============================================================================
