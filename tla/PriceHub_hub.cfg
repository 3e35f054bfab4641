SPECIFICATION ReadingSpec
CONSTANTS
  Handlers = {h1, h2}
  Conns = {c1, c2}
  MaxBids = 3
  Buffer = 1
INVARIANTS
  TypeOK
  UpToDate
  NoGaps
  ScreensAgree
PROPERTIES
  HubServes
  BrokenIsRemoved
