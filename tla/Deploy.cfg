SPECIFICATION FairSpec
CONSTANTS
  r1 = r1  r2 = r2
  Env <- SomeEnv
  Earlier = r1
  Revision = r2
  Attempts = 3
INVARIANT TypeOK
PROPERTIES
  
  PollingEnds
