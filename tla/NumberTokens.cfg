SPECIFICATION Spec
CONSTANTS
  Precision = 4
  Digits = 3
  TopBit = 11
  MaxToken = 2100
  Rejected = Rejected
  Exponential = Exponential
  None = None
  Any = Any
INVARIANTS
  StringifiedIsSigned
  OnlyNumbersAreRead
