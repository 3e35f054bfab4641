SPECIFICATION Spec
CONSTANTS
  Auctions = {a1, a2}
  Devices = {d1, d2}
  Slots = {s1, s2}
  MaxBusy = 3
SYMMETRY Symmetry
INVARIANTS
  HeartsAreSaved
  TapIsDone
