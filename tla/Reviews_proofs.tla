--------------------------- MODULE Reviews_proofs ---------------------------
(***************************************************************************)
(* Reviews rest on what AuctionHouse_proofs shows of orders: a settled     *)
(* order is final, and its auction stays with its seller.                  *)
(***************************************************************************)
EXTENDS Reviews, AuctionHouse_proofs

USE DEF NoReview

(* Beside the reviews the selling core goes on as before.                  *)
LEMMA HouseStep == [RNext]_rvars => [Next]_vars
BY DEF RNext, rvars, CheckReview, InsertReview, ReviewFails, Next

LEMMA EarnedHasOrder ==
  ASSUME IInv, NEW r \in Review, Earned(r)
  PROVE  HasOrder(r.auction) /\ order[r.auction].status # "PENDING"
BY DEF Earned, Reviewable, HasOrder

(* What a settled order says of its buyer and seller no step takes back.   *)
LEMMA EarnedStays ==
  ASSUME IInv, [Next]_vars, NEW r \in Review, Earned(r)
  PROVE  Earned(r)' /\ Exists(r.auction)'
<1> DEFINE a == r.auction
<1>1. a \in Auctions /\ HasOrder(a) /\ order[a].status # "PENDING"
  BY EarnedHasOrder DEF Review
<1>2. Exists(a) /\ ~Active(a)
  BY <1>1 DEF IInv, Sound, BackedOrder, Exists, Active
<1>3. CASE UNCHANGED vars
  BY <1>2, <1>3 DEF vars, Earned, Reviewable, Exists
<1>4. CASE Next
  <2>1. FinalOrder(a) /\ FrozenOnceClosed(a)
    BY <1>1, <1>4, FinalOrderStep, FrozenStep
  <2>2. order'[a] = order[a] /\ Exists(a)'
    BY <1>1, <2>1 DEF FinalOrder
  <2>3. auction'[a] = [auction[a] EXCEPT !.status = auction'[a].status]
    BY <1>2, <2>1, <2>2 DEF FrozenOnceClosed
  <2>4. auction'[a].seller = auction[a].seller
    BY <1>1, <2>3 DEF IInv, TypeOK, AuctionRow
  <2> QED BY <2>2, <2>4 DEF Earned, Reviewable
<1> QED BY <1>3, <1>4

LEMMA RInvInit == RInit => RInv
BY IInvInit DEF RInit, RInv, RTypeOK, IInv, ReviewIsEarned, OneReviewEach,
   PostingIsEarned

(* The step of the review requests, and of everything else.                *)
LEMMA RInvStep == RInv /\ [RNext]_rvars => RInv'
<1> SUFFICES ASSUME RInv, [RNext]_rvars PROVE RInv'
  OBVIOUS
<1>1. IInv /\ RTypeOK /\ [Next]_vars
  BY HouseStep DEF RInv
<1>2. IInv' /\ TypeOK'
  BY <1>1, IInvStep DEF IInv
<1>3. ASSUME NEW r \in Review, Earned(r)
      PROVE  Earned(r)'
  BY <1>1, <1>3, EarnedStays
<1>4. Null \notin Users
  BY ConstantTypes
<1>5. ASSUME reviews' \subseteq reviews,
             \A q \in Requests : posting'[q] \in {posting[q], NoReview},
             posting' \in [Requests -> Review \cup {NoReview}]
      PROVE  RInv'
  <2>1. RTypeOK'
    BY <1>1, <1>2, <1>5 DEF RTypeOK
  <2>2. ReviewIsEarned' /\ OneReviewEach'
    BY <1>1, <1>3, <1>5 DEF RInv, RTypeOK, ReviewIsEarned, OneReviewEach
  <2>3. PostingIsEarned'
    BY <1>1, <1>3, <1>5 DEF RInv, RTypeOK, PostingIsEarned
  <2> QED BY <1>2, <2>1, <2>2, <2>3 DEF RInv
<1>6. CASE Running /\ Cascade /\ UNCHANGED posting
  BY <1>1, <1>5, <1>6 DEF Cascade, RTypeOK
<1>7. CASE Restart /\ posting' = [q \in Requests |-> NoReview] /\ UNCHANGED reviews
  BY <1>5, <1>7
<1>8. ASSUME NEW q \in Requests, NEW r \in Review, CheckReview(q, r)
      PROVE  RInv'
  <2>1. Earned(r)'
    BY <1>3, <1>8 DEF CheckReview, Earned
  <2>2. RTypeOK'
    BY <1>1, <1>2, <1>8 DEF CheckReview, RTypeOK
  <2>3. ReviewIsEarned' /\ OneReviewEach'
    BY <1>1, <1>3, <1>8
       DEF CheckReview, RInv, RTypeOK, ReviewIsEarned, OneReviewEach
  <2>4. PostingIsEarned'
    BY <1>1, <1>3, <1>8, <2>1 DEF CheckReview, RInv, RTypeOK, PostingIsEarned
  <2> QED BY <1>2, <2>2, <2>3, <2>4 DEF RInv
<1>9. ASSUME NEW q \in Requests, InsertReview(q)
      PROVE  RInv'
  <2>1. PICK r \in Review : r = posting[q] /\ Earned(r)
    BY <1>1, <1>9 DEF InsertReview, RInv, RTypeOK, PostingIsEarned
  <2>2. RTypeOK'
    BY <1>1, <1>2, <1>9, <2>1 DEF InsertReview, RTypeOK
  <2>3. ReviewIsEarned'
    <3>1. \A s \in reviews' : s \in reviews \/ s = r
      BY <1>9, <2>1 DEF InsertReview
    <3>2. Earned(r)' /\ \A s \in reviews : Earned(s)'
      BY <1>1, <1>3, <2>1 DEF RInv, ReviewIsEarned, RTypeOK
    <3> QED BY <3>1, <3>2 DEF ReviewIsEarned
  <2>4. OneReviewEach'
    BY <1>9 DEF InsertReview, RInv, OneReviewEach
  <2>5. PostingIsEarned'
    BY <1>1, <1>3, <1>9 DEF InsertReview, RInv, RTypeOK, PostingIsEarned
  <2> QED BY <1>2, <2>2, <2>3, <2>4, <2>5 DEF RInv
<1>10. ASSUME NEW q \in Requests, ReviewFails(q)
       PROVE  RInv'
  BY <1>1, <1>5, <1>10 DEF ReviewFails, RTypeOK
<1>11. CASE UNCHANGED rvars
  BY <1>1, <1>5, <1>11 DEF rvars, RTypeOK
<1> QED BY <1>6, <1>7, <1>8, <1>9, <1>10, <1>11 DEF RNext

LEMMA RInvAlways == RSpec => []RInv
BY RInvInit, RInvStep, PTL DEF RSpec

(* A review is stored only for a settled order and between its two people, *)
(* however checks, inserts, webhooks, cancellations and deletions fall.    *)
THEOREM ReviewsAreEarned == RSpec => []ReviewIsEarned
BY RInvAlways, PTL DEF RInv

(* The unique key, not the check, keeps it to one review per person and    *)
(* order.                                                                  *)
THEOREM ReviewsAreSingle == RSpec => []OneReviewEach
BY RInvAlways, PTL DEF RInv

(* The tables and the requests under way keep their types.                 *)
THEOREM ReviewTypes == RSpec => []RTypeOK
BY RInvAlways, PTL DEF RInv

(* No review is lost or changed: what the cascade could delete is kept by  *)
(* the order's foreign key.                                                *)
THEOREM ReviewsAreKept == RSpec => ReviewsStay
<1>1. ASSUME RInv, [RNext]_rvars
      PROVE  reviews \subseteq reviews'
  <2>1. \A r \in reviews : Exists(r.auction)'
    BY <1>1, HouseStep, EarnedStays DEF RInv, RTypeOK, ReviewIsEarned
  <2> QED BY <1>1, <2>1
        DEF RNext, rvars, Cascade, CheckReview, InsertReview, ReviewFails
<1>2. RInv /\ [RNext]_rvars =>
        [\A u \in Users : ReviewsAbout(u) \subseteq ReviewsAbout(u)']_rvars
  BY <1>1 DEF ReviewsAbout
<1> QED BY <1>2, RInvAlways, PTL DEF RSpec, ReviewsStay
=============================================================================
