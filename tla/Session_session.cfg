SPECIFICATION Spec
CHECK_DEADLOCK FALSE
CONSTANTS
  Null = Null
  Users = {u1, u2}
  TokenLife = 1
  MaxTime = 1
  MaxVersion = 1
  MaxKills = 1
SYMMETRY Symmetry
INVARIANTS
  TypeOK
  LogoutSticks
  NoMixedSession
  SavedIsShown
  WaitsAreServed
