SPECIFICATION FairSpec
CONSTANTS
  Nonce = {n1}
  Event = {e1}
  Ledger = {l1}
  Accept = {a1}
  Key = {k1}
  n1 = n1  e1 = e1  l1 = l1  a1 = a1  k1 = k1  d1 = d1  d2 = d2
  Digest = {d1, d2}
  Retention = 0
  DemoKid = k1
  Seed = d1
  None = None
  MaxTime = 1
INVARIANTS
  TypeOK
  NothingForgotten
  ResponsesHaveEvents
PROPERTIES
  DecidedOnce
  KeepsPromise
  RetryCompletes
