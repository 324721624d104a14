SPECIFICATION Spec
CONSTANTS
  Worker = {w1, w2}
  s1 = s1  s2 = s2
  Scope = {s1, s2}
  Event <- SomeEvent
  MaxAge = 1
  ClockSkew = 3
  Drift = 1
  Stall = 1
  MaxTime = 5
  None = None
CONSTRAINT NoneOverdue
SYMMETRY Alike
INVARIANTS
  TypeOK
  AcceptedOnce
  RecordOutlivesWindow
  ReplayVerdictIsTruthful
PROPERTIES
  AcceptsOnlyLaterEvents
  ConsumesOnlyChecked
