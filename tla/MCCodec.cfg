SPECIFICATION Spec
CONSTANTS
  Rejected = Rejected
  Undefined = Undefined
  KeyLength = 32
  Keys <- SomeKeys
  Codes <- SomeCodes
INVARIANTS
  DecodeInvertsEncode
  
CHECK_DEADLOCK FALSE
