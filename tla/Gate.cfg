SPECIFICATION Spec
CONSTANTS
  t1 = t1  t2 = t2  s1 = s1
  Slot = {s1}
  Token = {t1, t2}
  Blank = Blank
  Missing = Missing
  None = None
  Env <- AllEnv
  Body <- AllBody
INVARIANTS
  TypeOK
  EffectIsAuthenticated
  HolderIsAdmitted
  ProductionIsShared
