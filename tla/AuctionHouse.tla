---------------------------- MODULE AuctionHouse ----------------------------
(***************************************************************************)
(* The selling core of the backend: the auctions, bids and orders tables   *)
(* and every transaction that writes them.  The HTTP handlers run          *)
(* concurrently, the auction closer runs beside them, and PostgreSQL (READ *)
(* COMMITTED, row locks) is all that orders them.                          *)
(*                                                                         *)
(* A transaction whose checks and writes happen under one row lock is one  *)
(* action, enabled when the lock is free.  PlaceBid takes two, because it  *)
(* reads the clock after it has the lock and commits later; CloseAuction   *)
(* takes two, because it reads the top bid without a lock.                 *)
(***************************************************************************)
EXTENDS ProxyBid, FiniteSets

CONSTANTS
  Users,          \* registered users: any of them may sell, bid, buy
  Auctions,       \* the ids the auctions table may ever hand out
  StartPrices,    \* starting prices a request may carry
  BuyNowPrices,   \* buy-now prices a request may carry, 0 for none
  BidAmounts,     \* amounts a bid request may carry
  Extension,      \* extensionThreshold of the soft close
  MaxTime,        \* bound: the clock stops there
  MaxFaults       \* bound: failed closings and restarts of the backend

ASSUME NullAssumption   == Null \notin Users /\ Null \notin Auctions
ASSUME AmountAssumption ==
  /\ StartPrices \subseteq Nat \ {0}
  /\ BidAmounts \subseteq Nat \ {0}
  /\ BuyNowPrices \subseteq Nat
ASSUME BoundAssumption  ==
  Extension \in Nat \ {0} /\ MaxTime \in Nat /\ MaxFaults \in Nat

VARIABLES
  auction,   \* the auctions table: id -> row
  bids,      \* the bids table
  order,     \* the orders table, by its unique auction_id
  lock,      \* id -> the PlaceBid transaction that holds FOR UPDATE on it
  todo,      \* ids the closer still has to close in this pass
  closing,   \* what CloseAuction has read of the auction it is closing
  now,       \* the clock
  faults     \* how many faults have happened

tables   == <<auction, bids, order>>
closer   == <<todo, closing>>
vars     == <<auction, bids, order, lock, todo, closing, now, faults>>

AuctionStatus == {"NONE", "ACTIVE", "SOLD", "EXPIRED", "CANCELLED", "DELETED"}
OrderStatus   == {"NONE", "PENDING", "PAID", "CANCELLED_UNPAID"}

AuctionRow == [status: AuctionStatus, seller: Users \cup {Null},
               start: Money, price: Money, buyNow: Money,
               leader: Users \cup {Null}, maxBid: Money, end: Nat]
OrderRow   == [status: OrderStatus, buyer: Users \cup {Null}, amount: Money]
Bid        == [auction: Auctions, bidder: Users, amount: Money]
BidTx      == [bidder: Users \cup {Null}, amount: Nat, at: Nat]
Closing    == [auction: Auctions \cup {Null}, winner: Users \cup {Null},
               amount: Money]

NoAuction == [status |-> "NONE", seller |-> Null, start |-> 0, price |-> 0,
              buyNow |-> 0, leader |-> Null, maxBid |-> 0, end |-> 0]
NoOrder   == [status |-> "NONE", buyer |-> Null, amount |-> 0]
NoTx      == [bidder |-> Null, amount |-> 0, at |-> 0]
NoClosing == [auction |-> Null, winner |-> Null, amount |-> 0]

Exists(a)   == auction[a].status \notin {"NONE", "DELETED"}
Active(a)   == auction[a].status = "ACTIVE"
HasOrder(a) == order[a].status # "NONE"
Unlocked(a) == lock[a].bidder = Null
BidsOf(a)   == {b \in bids : b.auction = a}

(* The rows that ORDER BY amount DESC LIMIT 1 may return.                  *)
TopBids(a)  == {b \in BidsOf(a) : \A c \in BidsOf(a) : c.amount <= b.amount}

PendingOrder(buyer, amount) ==
  [status |-> "PENDING", buyer |-> buyer, amount |-> amount]

-----------------------------------------------------------------------------
(* The handlers' transactions.                                             *)

CreateAuction(a, seller, start, buyNow, end) ==
  /\ auction[a].status = "NONE"
  /\ end >= now
  /\ buyNow = 0 \/ buyNow > start
  /\ auction' = [auction EXCEPT ![a] =
       [status |-> "ACTIVE", seller |-> seller,
        start |-> Numeric(start), price |-> Numeric(start),
        buyNow |-> Numeric(buyNow), leader |-> Null, maxBid |-> 0,
        end |-> end]]
  /\ UNCHANGED <<bids, order, lock, closer, now, faults>>

(* PlaceBid up to its writes: SELECT ... FOR UPDATE, time.Now(), the       *)
(* checks.  A bid that fails them releases the lock and changes nothing.   *)
LockForBid(a, bidder, amount) ==
  /\ Unlocked(a)
  /\ AcceptsBid(auction[a], bidder, amount, now)
  /\ lock' = [lock EXCEPT ![a] =
                [bidder |-> bidder, amount |-> amount, at |-> now]]
  /\ UNCHANGED <<tables, closer, now, faults>>

(* PlaceBid's UPDATE, INSERT and COMMIT.                                   *)
CommitBid(a) ==
  LET tx == lock[a] IN
  /\ ~Unlocked(a)
  /\ auction' = [auction EXCEPT ![a] =
                   AfterBid(@, tx.bidder, tx.amount, tx.at, Extension)]
  /\ bids' = bids \cup {[auction |-> a, bidder |-> tx.bidder,
                         amount |-> Numeric(tx.amount)]}
  /\ lock' = [lock EXCEPT ![a] = NoTx]
  /\ UNCHANGED <<order, closer, now, faults>>

(* An error or a cancelled request context: the deferred Rollback.         *)
AbortBid(a) ==
  /\ ~Unlocked(a)
  /\ lock' = [lock EXCEPT ![a] = NoTx]
  /\ UNCHANGED <<tables, closer, now, faults>>

(* Mutant: SELECT without FOR UPDATE.                                      *)
BuyItNow_NoRowLock(a, buyer) ==
  LET row == auction[a] IN
  /\ Active(a) /\ row.buyNow > 0 /\ buyer # row.seller /\ row.leader = Null
  /\ auction' = [auction EXCEPT ![a] = [@ EXCEPT !.status = "SOLD",
                   !.price = row.buyNow, !.leader = buyer]]
  /\ bids' = bids \cup {[auction |-> a, bidder |-> buyer,
                         amount |-> row.buyNow]}
  /\ order' = [order EXCEPT ![a] = PendingOrder(buyer, row.buyNow)]
  /\ UNCHANGED <<lock, closer, now, faults>>

BuyItNow(a, buyer) ==
  LET row == auction[a] IN
  /\ Unlocked(a)
  /\ Active(a)
  /\ row.buyNow > 0
  /\ buyer # row.seller
  /\ row.leader = Null
  /\ ~HasOrder(a)
  /\ auction' = [auction EXCEPT ![a] = [@ EXCEPT !.status = "SOLD",
                   !.price = row.buyNow, !.leader = buyer]]
  /\ bids' = bids \cup {[auction |-> a, bidder |-> buyer,
                         amount |-> row.buyNow]}
  /\ order' = [order EXCEPT ![a] = PendingOrder(buyer, row.buyNow)]
  /\ UNCHANGED <<lock, closer, now, faults>>

(* Mutant: orders.auction_id without its foreign key.                      *)
Delete_NoForeignKey(a, seller) ==
  /\ Unlocked(a) /\ Exists(a) /\ auction[a].seller = seller
  /\ auction' = [auction EXCEPT ![a] = [NoAuction EXCEPT !.status = "DELETED"]]
  /\ bids' = bids \ BidsOf(a)
  /\ UNCHANGED <<order, lock, closer, now, faults>>

(* DELETE cascades to the bids; the orders' foreign key forbids it once an *)
(* order exists.                                                           *)
Delete(a, seller) ==
  /\ Unlocked(a)
  /\ Exists(a)
  /\ auction[a].seller = seller
  /\ ~HasOrder(a)
  /\ auction' = [auction EXCEPT ![a] = [NoAuction EXCEPT !.status = "DELETED"]]
  /\ bids' = bids \ BidsOf(a)
  /\ UNCHANGED <<order, lock, closer, now, faults>>

CancelUnpaidOrder(a, seller) ==
  /\ Unlocked(a)
  /\ order[a].status = "PENDING"
  /\ auction[a].seller = seller
  /\ order' = [order EXCEPT ![a].status = "CANCELLED_UNPAID"]
  /\ auction' = [auction EXCEPT ![a].status = "CANCELLED"]
  /\ UNCHANGED <<bids, lock, closer, now, faults>>

(* Mutant: the UPDATE without AND payment_status = 'PENDING'.              *)
MarkOrderPaid_AnyStatus(a) ==
  /\ HasOrder(a)
  /\ order' = [order EXCEPT ![a].status = "PAID"]
  /\ UNCHANGED <<auction, bids, lock, closer, now, faults>>

(* A Stripe webhook reaches MarkOrderPaid or MarkPaidByPaymentIntent.      *)
MarkOrderPaid(a) ==
  /\ order[a].status = "PENDING"
  /\ order' = [order EXCEPT ![a].status = "PAID"]
  /\ UNCHANGED <<auction, bids, lock, closer, now, faults>>

-----------------------------------------------------------------------------
(* The auction closer.                                                     *)

Idle == todo = {} /\ closing = NoClosing

(* Mutant: an auction missed at the instant it ends is missed for good.    *)
ListExpired_OnTheDot ==
  /\ Idle
  /\ todo' = {a \in Auctions : Active(a) /\ auction[a].end = now}
  /\ UNCHANGED <<tables, lock, closing, now, faults>>

ListExpired ==
  /\ Idle
  /\ todo' = {a \in Auctions : Active(a) /\ auction[a].end <= now}
  /\ UNCHANGED <<tables, lock, closing, now, faults>>

(* CloseAuction's SELECT of the top bid: no lock, no look at the auction.  *)
ReadTopBid(a) ==
  /\ closing = NoClosing
  /\ a \in todo
  /\ todo' = todo \ {a}
  /\ \/ /\ BidsOf(a) = {}
        /\ closing' = [NoClosing EXCEPT !.auction = a]
     \/ \E b \in TopBids(a) :
          closing' = [auction |-> a, winner |-> b.bidder, amount |-> b.amount]
  /\ UNCHANGED <<tables, lock, now, faults>>

(* Mutant: the closer's UPDATE does not wait for a bid's row lock.         *)
CloseUnsold_NoRowLock ==
  LET a == closing.auction IN
  /\ a # Null /\ closing.winner = Null
  /\ auction' = IF Exists(a)
                THEN [auction EXCEPT ![a].status = "EXPIRED"] ELSE auction
  /\ closing' = NoClosing
  /\ UNCHANGED <<bids, order, lock, todo, now, faults>>

(* No bid was read: EXPIRED, whatever the row holds by now.  The UPDATE    *)
(* waits for the row lock and touches no row when the auction is gone.     *)
CloseUnsold ==
  LET a == closing.auction IN
  /\ a # Null /\ closing.winner = Null
  /\ Unlocked(a)
  /\ auction' = IF Exists(a)
                THEN [auction EXCEPT ![a].status = "EXPIRED"] ELSE auction
  /\ closing' = NoClosing
  /\ UNCHANGED <<bids, order, lock, todo, now, faults>>

(* Mutant: INSERT ... ON CONFLICT (auction_id) DO UPDATE.                  *)
CloseSold_Upsert ==
  LET a == closing.auction IN
  /\ a # Null /\ closing.winner # Null
  /\ Unlocked(a) /\ Exists(a)
  /\ auction' = [auction EXCEPT ![a].status = "SOLD"]
  /\ order' = [order EXCEPT ![a] =
                 PendingOrder(closing.winner, closing.amount)]
  /\ closing' = NoClosing
  /\ UNCHANGED <<bids, lock, todo, now, faults>>

(* A bid was read: SOLD and an order for its bidder, together or not at    *)
(* all.  The INSERT fails on orders' foreign key when the auction is gone  *)
(* and on its unique auction_id when there is an order already.            *)
CloseSold ==
  LET a == closing.auction IN
  /\ a # Null /\ closing.winner # Null
  /\ Unlocked(a)
  /\ IF Exists(a) /\ ~HasOrder(a)
     THEN /\ auction' = [auction EXCEPT ![a].status = "SOLD"]
          /\ order' = [order EXCEPT ![a] =
                         PendingOrder(closing.winner, closing.amount)]
     ELSE UNCHANGED <<auction, order>>
  /\ closing' = NoClosing
  /\ UNCHANGED <<bids, lock, todo, now, faults>>

(* CloseAuction returns an error, is logged, and the loop goes on.         *)
CloseFails ==
  /\ closing # NoClosing
  /\ faults < MaxFaults
  /\ faults' = faults + 1
  /\ closing' = NoClosing
  /\ UNCHANGED <<tables, lock, todo, now>>

-----------------------------------------------------------------------------
(* The backend process dies and is started again: PostgreSQL rolls back    *)
(* its open transactions, the closer begins a new pass.                    *)
Restart ==
  /\ faults < MaxFaults
  /\ faults' = faults + 1
  /\ lock' = [a \in Auctions |-> NoTx]
  /\ todo' = {}
  /\ closing' = NoClosing
  /\ UNCHANGED <<tables, now>>

Tick ==
  /\ now < MaxTime
  /\ now' = now + 1
  /\ UNCHANGED <<tables, lock, closer, faults>>

Init ==
  /\ auction = [a \in Auctions |-> NoAuction]
  /\ bids = {}
  /\ order = [a \in Auctions |-> NoOrder]
  /\ lock = [a \in Auctions |-> NoTx]
  /\ todo = {}
  /\ closing = NoClosing
  /\ now = 0
  /\ faults = 0

(* Handlers, closer and clock while the process is up.                     *)
Running ==
  \/ \E a \in Auctions, u \in Users :
       \/ \E start \in StartPrices, buyNow \in BuyNowPrices, end \in 0..MaxTime :
            CreateAuction(a, u, start, buyNow, end)
       \/ \E amount \in BidAmounts : LockForBid(a, u, amount)
       \/ BuyItNow(a, u)
       \/ Delete(a, u)
       \/ CancelUnpaidOrder(a, u)
  \/ \E a \in Auctions :
       CommitBid(a) \/ AbortBid(a) \/ MarkOrderPaid(a) \/ ReadTopBid(a)
  \/ ListExpired \/ CloseUnsold \/ CloseSold \/ CloseFails
  \/ Tick

Next == Running \/ Restart

Spec == Init /\ [][Next]_vars

(* The clock runs, PostgreSQL ends every transaction, and the ticker keeps *)
(* the closer going.  The closer's UPDATE waits for the row lock in a      *)
(* first-come queue, so bids that keep taking the lock cannot starve it.   *)
(* Nothing is assumed of users or of faults.                               *)
Fairness ==
  /\ WF_vars(Tick)
  /\ \A a \in Auctions : WF_vars(CommitBid(a) \/ AbortBid(a))
  /\ WF_vars(ListExpired)
  /\ WF_vars(\E a \in Auctions : ReadTopBid(a))
  /\ SF_vars(CloseUnsold \/ CloseSold \/ CloseFails)

FairSpec == Spec /\ Fairness

-----------------------------------------------------------------------------
(* Properties.                                                             *)

(* Every table and every in-memory value of the program has its type.      *)
TypeOK ==
  /\ auction \in [Auctions -> AuctionRow]
  /\ bids \subseteq Bid
  /\ order \in [Auctions -> OrderRow]
  /\ lock \in [Auctions -> BidTx]
  /\ todo \subseteq Auctions
  /\ closing \in Closing
  /\ now \in 0..MaxTime
  /\ faults \in 0..MaxFaults

(* The bids of the other users on an auction.                              *)
Rivals(a) == {b \in BidsOf(a) : b.bidder # auction[a].leader}

(* The auctions row and the bids table agree on who leads: a leader is     *)
(* recorded exactly when there are bids, and while the auction runs his    *)
(* hidden maximum is one of his own bids, which no bid exceeds.            *)
AgreesOnLeader(a) ==
  /\ Exists(a) => (auction[a].leader = Null <=> BidsOf(a) = {})
  /\ Active(a) /\ auction[a].leader # Null =>
       [auction |-> a, bidder |-> auction[a].leader,
        amount |-> auction[a].maxBid] \in TopBids(a)

LeaderHoldsTopBid == \A a \in Auctions : AgreesOnLeader(a)

(* The promise of proxy bidding: while an auction runs, the public price   *)
(* is the starting price if nobody opposes the leader; otherwise it covers *)
(* every rival bid and is at most one increment above one of them.  It     *)
(* never exceeds the leader's hidden maximum.                              *)
ProxyPriced(a) ==
  Active(a) /\ auction[a].leader # Null =>
    /\ auction[a].start <= auction[a].price
    /\ auction[a].price <= auction[a].maxBid
    /\ Rivals(a) = {} => auction[a].price = auction[a].start
    /\ \A b \in Rivals(a) : b.amount <= auction[a].price
    /\ Rivals(a) # {} =>
         \E b \in Rivals(a) : auction[a].price <= OneStepAbove(b.amount)

SecondPrice == \A a \in Auctions : ProxyPriced(a)

(* The order of an auction was earned: the auction is still there and no   *)
(* longer for sale, and the order names a bidder other than the seller and *)
(* the amount of a bid he placed.  SOLD and CANCELLED auctions have one.   *)
BackedOrder(a) ==
  /\ auction[a].status \in {"SOLD", "CANCELLED"} => HasOrder(a)
  /\ HasOrder(a) =>
       /\ auction[a].status \in {"SOLD", "EXPIRED", "CANCELLED"}
       /\ order[a].buyer # auction[a].seller
       /\ [auction |-> a, bidder |-> order[a].buyer,
           amount |-> order[a].amount] \in bids

OrderIsBacked == \A a \in Auctions : BackedOrder(a)

(* Payment and cancellation exclude each other across the two tables: a    *)
(* paid auction is never CANCELLED, a cancelled order never leaves its     *)
(* auction SOLD, and only a cancelled order makes an auction CANCELLED.    *)
PaidXorCancelled(a) ==
  /\ order[a].status = "PAID" => auction[a].status # "CANCELLED"
  /\ order[a].status = "CANCELLED_UNPAID" => auction[a].status # "SOLD"
  /\ auction[a].status = "CANCELLED" => order[a].status = "CANCELLED_UNPAID"

PaidNotCancelled == \A a \in Auctions : PaidXorCancelled(a)

(* The row lock does its work: a bid that passed its checks is still       *)
(* acceptable, by the clock it read, at every moment before it commits.    *)
ValidWhileLocked(a) ==
  ~Unlocked(a) =>
    /\ lock[a].at <= now
    /\ AcceptsBid(auction[a], lock[a].bidder, lock[a].amount, lock[a].at)

LockedBidStaysValid == \A a \in Auctions : ValidWhileLocked(a)

(* Bidding and buying only raise the price, and the end of an auction only *)
(* moves later: a bidder who saw a price and an end is never taken back,   *)
(* and an auction that has a leader keeps having one.                      *)
OnlyForward(a) ==
  Exists(a) /\ Exists(a)' =>
    /\ auction[a].price <= auction'[a].price
    /\ auction[a].end <= auction'[a].end
    /\ auction[a].leader # Null => auction'[a].leader # Null

NothingGoesBack == [][\A a \in Auctions : OnlyForward(a)]_vars

(* What has been closed stays closed: an auction that is not ACTIVE never  *)
(* becomes ACTIVE again, and no bid that was in flight when it was closed  *)
(* reaches its price, its leader, its end or the bids table afterwards.    *)
FrozenOnceClosed(a) ==
  Exists(a) /\ ~Active(a) /\ Exists(a)' =>
    /\ ~Active(a)'
    /\ auction'[a] = [auction[a] EXCEPT !.status = auction'[a].status]
    /\ BidsOf(a)' = BidsOf(a)

ClosedIsFrozen == [][\A a \in Auctions : FrozenOnceClosed(a)]_vars

(* Neither a late webhook, a second closing nor a seller rewrites an order *)
(* that exists: its buyer and amount stay, PAID and CANCELLED_UNPAID are   *)
(* final, and the auction it refers to cannot be deleted.                  *)
FinalOrder(a) ==
  HasOrder(a) =>
    /\ HasOrder(a)' /\ Exists(a)'
    /\ order'[a] = [order[a] EXCEPT !.status = order'[a].status]
    /\ order[a].status # "PENDING" => order'[a] = order[a]

OrderIsFinal == [][\A a \in Auctions : FinalOrder(a)]_vars

(* The tables implement Sale.  An order, once there, decides how far its   *)
(* auction has come; until then its status column does.  A second closer   *)
(* or a late UPDATE may leave the column behind, never the sale.           *)
SaleStage(a) ==
  IF order[a].status = "PENDING" THEN "sold"
  ELSE IF order[a].status = "PAID" THEN "paid"
  ELSE IF order[a].status = "CANCELLED_UNPAID" THEN "cancelled"
  ELSE IF auction[a].status = "NONE" THEN "none"
  ELSE IF auction[a].status = "ACTIVE" THEN "open"
  ELSE IF auction[a].status = "EXPIRED" THEN "unsold"
  ELSE "withdrawn"

Stage   == [a \in Auctions |-> SaleStage(a)]
Bidders == [a \in Auctions |-> {b.bidder : b \in BidsOf(a)}]
Buyer   == [a \in Auctions |-> order[a].buyer]

S == INSTANCE Sale WITH
       Nobody <- Null, stage <- Stage, bidders <- Bidders, buyer <- Buyer

(* Every step of every transaction is a step of Sale or none of it.        *)
KeepsSale == S!Spec

(* The closer does not lose an auction: one whose end has passed is        *)
(* eventually closed (or deleted), unless a bid that was in flight moves   *)
(* its end, through failed closings and restarts of the backend.           *)
ExpiredIsClosed ==
  \A a \in Auctions :
    Active(a) /\ auction[a].end < now ~> ~Active(a) \/ auction[a].end >= now

-----------------------------------------------------------------------------
(* The inductive invariant: the five invariants above hold together, with  *)
(* what they need of each other.                                           *)

(* What a row keeps true of itself and of its bids.                        *)
SoundRow(a) ==
  /\ ~Exists(a) => BidsOf(a) = {} /\ ~HasOrder(a)
  /\ Exists(a) /\ auction[a].leader = Null => auction[a].price = auction[a].start
  /\ auction[a].buyNow = 0 \/ auction[a].start <= auction[a].buyNow
  /\ \A b \in BidsOf(a) : b.bidder # auction[a].seller

(* The bid the closer has read is still there unless its auction is not.   *)
ClosingIsBacked ==
  closing.winner # Null =>
    /\ closing.auction \in Auctions
    /\ \/ auction[closing.auction].status = "DELETED"
       \/ [auction |-> closing.auction, bidder |-> closing.winner,
           amount |-> closing.amount] \in bids

Sound(a) ==
  /\ AgreesOnLeader(a)
  /\ ProxyPriced(a)
  /\ BackedOrder(a)
  /\ PaidXorCancelled(a)
  /\ ValidWhileLocked(a)
  /\ SoundRow(a)

IInv == TypeOK /\ ClosingIsBacked /\ \A a \in Auctions : Sound(a)

(* What the closer has yet to close in its pass it has not closed before:  *)
(* only the refinement of Sale needs it.                                   *)
FreshPass ==
  /\ \A a \in todo : auction[a].status # "EXPIRED" /\ a # closing.auction
  /\ closing.auction # Null => auction[closing.auction].status # "EXPIRED"

-----------------------------------------------------------------------------
(* What comments, messages and tests say and the code does not do.         *)

(* The worker closes "auctions that have passed their end_time"            *)
(* (auction_repository.go:128): the closer never ends one before its end.  *)
NotClosedEarly ==
  [][\A a \in Auctions :
       Active(a) /\ (CloseUnsold \/ CloseSold) /\ auction'[a] # auction[a] =>
         auction[a].end <= now]_vars
=============================================================================
