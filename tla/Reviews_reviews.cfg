SPECIFICATION RSpec
CONSTANTS
  Null = Null
  Users = {u1, u2, u3}
  Auctions = {a1}
  StartPrices = {95000}
  BuyNowPrices = {110000}
  BidAmounts = {95000}
  Extension = 1
  MaxTime = 1
  MaxFaults = 1
  Requests = {q1, q2}
  Stars = {1, 5}
SYMMETRY Symmetry
INVARIANTS
  ReviewIsEarned
  OneReviewEach
PROPERTIES
  ReviewsStay
