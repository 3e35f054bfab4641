------------------------------- MODULE Reviews -------------------------------
(***************************************************************************)
(* Buyer and seller review each other once their order is settled.  The    *)
(* reviews table stands beside the selling core: POST /reviews looks at    *)
(* the order and inserts later, in no transaction, while webhooks, sellers *)
(* and the closer go on writing auctions and orders.                       *)
(***************************************************************************)
EXTENDS AuctionHouse

CONSTANTS
  Requests,   \* POST /reviews requests the backend may be handling at once
  Stars       \* ratings a review may carry

VARIABLES
  reviews,    \* the reviews table
  posting     \* the review a request has checked and is about to insert

rvars == <<vars, reviews, posting>>

Review   == [by: Users, about: Users, auction: Auctions, stars: Stars]
NoReview == [by |-> Null, about |-> Null, auction |-> Null, stars |-> 0]

(* GET /users/{id}/reviews.                                                *)
ReviewsAbout(u) == {r \in reviews : r.about = u}

(* Paid: buyer and seller review each other.  Cancelled because it was not *)
(* paid: the seller alone reviews the buyer.                               *)
Reviewable(r) ==
  LET buyer  == order[r.auction].buyer
      seller == auction[r.auction].seller
      bySeller == r.by = seller /\ r.about = buyer
      byBuyer  == r.by = buyer /\ r.about = seller IN
  \/ order[r.auction].status = "PAID" /\ (bySeller \/ byBuyer)
  \/ order[r.auction].status = "CANCELLED_UNPAID" /\ bySeller

(* Mutant: the pair is checked, and that the order exists, not its status. *)
CheckReview_AnyStatus(q, r) ==
  /\ posting[q] = NoReview
  /\ r.by # r.about
  /\ {r.by, r.about} = {order[r.auction].buyer, auction[r.auction].seller}
  /\ posting' = [posting EXCEPT ![q] = r]
  /\ UNCHANGED <<vars, reviews>>

(* The service refuses a review of oneself, the repository's first SELECT  *)
(* one that the order does not support.  No row is locked.                 *)
CheckReview(q, r) ==
  /\ posting[q] = NoReview
  /\ r.by # r.about
  /\ Reviewable(r)
  /\ posting' = [posting EXCEPT ![q] = r]
  /\ UNCHANGED <<vars, reviews>>

(* Mutant: reviews without UNIQUE (reviewer_id, auction_id).               *)
InsertReview_NoUniqueKey(q) ==
  /\ posting[q] # NoReview
  /\ reviews' = reviews \cup {posting[q]}
  /\ posting' = [posting EXCEPT ![q] = NoReview]
  /\ UNCHANGED vars

(* INSERT: the unique key refuses a second review of one's own, the        *)
(* foreign key one of an auction that is gone.                             *)
InsertReview(q) ==
  LET r == posting[q] IN
  /\ r # NoReview
  /\ reviews' = IF /\ Exists(r.auction)
                   /\ \A s \in reviews : s.by # r.by \/ s.auction # r.auction
                THEN reviews \cup {r} ELSE reviews
  /\ posting' = [posting EXCEPT ![q] = NoReview]
  /\ UNCHANGED vars

(* The SELECT or the INSERT fails, or the client goes away.                *)
ReviewFails(q) ==
  /\ posting[q] # NoReview
  /\ posting' = [posting EXCEPT ![q] = NoReview]
  /\ UNCHANGED <<vars, reviews>>

(* Deleting an auction deletes its reviews.                                *)
Cascade == reviews' = {r \in reviews : Exists(r.auction)'}

RInit ==
  /\ Init
  /\ reviews = {}
  /\ posting = [q \in Requests |-> NoReview]

RNext ==
  \/ Running /\ Cascade /\ UNCHANGED posting
  \/ Restart /\ posting' = [q \in Requests |-> NoReview] /\ UNCHANGED reviews
  \/ \E q \in Requests :
       \/ \E r \in Review : CheckReview(q, r)
       \/ InsertReview(q)
       \/ ReviewFails(q)

RSpec == RInit /\ [][RNext]_rvars

-----------------------------------------------------------------------------
(* Properties.                                                             *)

(* The reviews, stored and about to be stored, have their type.            *)
RTypeOK ==
  /\ TypeOK
  /\ reviews \subseteq Review
  /\ posting \in [Requests -> Review \cup {NoReview}]

(* Every review is earned, although it is stored after the order was       *)
(* looked at: its two people are the buyer and the seller of an order that *)
(* is settled now, and a buyer who did not pay has no say.                 *)
Earned(r) == r.by # r.about /\ Reviewable(r)

ReviewIsEarned == \A r \in reviews : Earned(r)

(* Requests that all passed the check still leave one review per person    *)
(* and order.                                                              *)
OneReviewEach ==
  \A r, s \in reviews : r.by = s.by /\ r.auction = s.auction => r = s

(* What is said of a user can be read for good: no webhook, cancellation,  *)
(* deletion or later review removes it or changes it.                      *)
ReviewsStay == [][\A u \in Users : ReviewsAbout(u) \subseteq ReviewsAbout(u)']_rvars

(* The inductive invariant: what a request has checked stays true until it *)
(* inserts.                                                                *)
PostingIsEarned ==
  \A q \in Requests : posting[q] # NoReview => Earned(posting[q])

RInv == IInv /\ RTypeOK /\ ReviewIsEarned /\ OneReviewEach /\ PostingIsEarned
=============================================================================
