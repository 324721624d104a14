SPECIFICATION Spec
CONSTANTS
  Worker = {w1}
  i1 = i1  i2 = i2  c1 = c1  c2 = c2  c3 = c3  p1 = p1  p2 = p2  aud1 = aud1
  expiry = 2
  Identity = {i1, i2}
  Content = {c1, c2, c3}
  Kid = {p1}
  Audience = {aud1}
  Event <- RaceEvents
  Submission <- RaceSubmissions
  ClockSkew = 0
  Drift = 1
  MaxTime = 2
  None = None
INVARIANT SameContentAgainIsAlreadyAccepted
