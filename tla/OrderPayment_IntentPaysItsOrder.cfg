SPECIFICATION Spec
CONSTANTS
  Null = Null
  Orders = {o1}
  Intents = {i1, i2}
  Sessions = {s1}
  Devices = {d1, d2}
SYMMETRY Symmetry
INVARIANT IntentPaysItsOrder
