SPECIFICATION FairSpec
CONSTANTS
  Null = Null
  Users = {u1, u2}
  Auctions = {a1, a2}
  StartPrices = {95000}
  BuyNowPrices = {110000}
  BidAmounts = {95000, 105000}
  Extension = 1
  MaxTime = 2
  MaxFaults = 1
INVARIANTS
  OrderIsBacked
  PaidNotCancelled
PROPERTIES
  ClosedIsFrozen
  OrderIsFinal
  KeepsSale
  ExpiredIsClosed
