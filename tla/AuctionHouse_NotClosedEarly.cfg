SPECIFICATION Spec
CONSTANTS
  Null = Null
  Users = {u1, u2, u3}
  Auctions = {a1}
  StartPrices = {95000}
  BuyNowPrices = {0}
  BidAmounts = {95000, 105000}
  Extension = 2
  MaxTime = 4
  MaxFaults = 0
SYMMETRY Symmetry
PROPERTY NotClosedEarly
