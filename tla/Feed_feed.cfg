SPECIFICATION FairSpec
CONSTANTS
  a1 = a1
  a2 = a2
  NoFilter = All
  Auctions = {a1, a2}
  Filters = {All, Toys}
  Shows <- MCShows
  PageSize = 1
  Requests = {r1, r2}
  MaxFeed = 3
INVARIANTS
  FeedIsListing
PROPERTIES
  SpinnerStops
