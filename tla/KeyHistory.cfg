SPECIFICATION FairSpec
CONSTANTS
  Worker = {w1, w2}
  w1 = w1  w2 = w2
  Place = {p1}  p1 = p1
  Local = Local
  Deployment <- SomeDeployment
  Config <- SomeConfig
  Kid = {k1, k2}  k1 = k1  k2 = k2
  Material = {m1, m2}  m1 = m1  m2 = m2
  Generated = {m1, m2}
  DemoKid = k1
  None = None
INVARIANTS
  TypeOK
  SignedFromOneConfiguration
  OneOwnKey
PROPERTIES
  KeepsPromise
  RotationTakesEffect
