SPECIFICATION Spec
CONSTANTS
  Null = Null
  Users = {u1, u2, u3}
  Auctions = {a1}
  StartPrices = {95000}
  BuyNowPrices = {0, 120000}
  BidAmounts = {94996, 95000, 100000, 100004, 105000, 110000, 120000}
  Extension = 2
  MaxTime = 4
  MaxFaults = 0
SYMMETRY Symmetry
INVARIANTS
  TypeOK
  LeaderHoldsTopBid
  SecondPrice
  LockedBidStaysValid
PROPERTY
  NothingGoesBack
