SPECIFICATION FairSpec
CONSTANTS
  Null = Null
  Orders = {o1, o2}
  Intents = {i1, i2}
  Sessions = {s1}
  Devices = {d1, d2}
INVARIANTS
  TypeOK
  PaidIsReconciled
  SecretAfterAttach
  AckedIsSettled
PROPERTIES
  ChargeSettles
  KeepsOrderLife
