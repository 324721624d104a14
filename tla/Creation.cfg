SPECIFICATION Spec
CONSTANTS
  Worker = {w1, w2, w3}
  Request = {rA, rB, rAnon}
  rA = rA  rB = rB  rAnon = rAnon  rBad = rBad  rInvalid = rInvalid
  Key = {k1, k2}  k1 = k1  k2 = k2
  KeyOf <- MCKeyOf
  NoKey = NoKey
  Unhashable = {}
  Invalid = {}
  Salted = {rB}
  Kid = {p1, p2}
  Draw = {d1, d2}
  MaxTime = 0
  None = None
SYMMETRY Alike
INVARIANTS
  TypeOK
  OneCreationPerIdentity
  LedgerAndEventsAgree
  CreatedAnswerIsDurable
