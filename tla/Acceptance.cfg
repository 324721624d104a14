SPECIFICATION Spec
CONSTANTS
  Worker = {w1, w2}
  i1 = i1  i2 = i2  c1 = c1  c2 = c2  c3 = c3  p1 = p1  p2 = p2  aud1 = aud1
  expiry = 2
  Identity = {i1, i2}
  Content = {c1, c2, c3}
  Kid = {p1, p2}
  Audience = {aud1}
  Event <- CheckEvents
  Submission <- CheckSubmissions
  ClockSkew = 0
  Drift = 0
  MaxTime = 2
  None = None
SYMMETRY Alike
INVARIANTS
  TypeOK
  EffectAppliedOnce
  EffectIsDurable
  ResubmissionIsRecognised
PROPERTIES
  OnlyCheckedEventsDecide
  KeepsPromise
