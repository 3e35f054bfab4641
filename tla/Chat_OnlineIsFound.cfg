SPECIFICATION Spec
CONSTANTS
  None = None
  Users = {1, 2}
  Talks <- MCTalks
  Auctions = {a1}
  Handlers = {h1, h2}
  Conns = {c1, c2}
  Owner <- MCOwner
  MaxMessages = 2
  Buffer = 1
INVARIANT OnlineIsFound
