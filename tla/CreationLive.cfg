SPECIFICATION FairSpec
CONSTANTS
  Worker = {w1, w2}
  Request = {rA, rB, rBad, rInvalid}
  rA = rA  rB = rB  rAnon = rAnon  rBad = rBad  rInvalid = rInvalid
  Key = {k1, k2}  k1 = k1  k2 = k2
  KeyOf <- MCKeyOf
  NoKey = NoKey
  Unhashable = {rBad}
  Invalid = {rInvalid}
  Salted = {}
  Kid = {p1}
  Draw = {d1}
  MaxTime = 1
  None = None
PROPERTIES
  KeepsPromise
  EveryCallEnds
  ResendingSettles
