CONSTANTS
  RegisterSize = 2
  RegisterCount = 1
  BigEndian = FALSE
  ByteBase = 2
  PageSize = 2
  InvalidClnum = 99
  MaxLog = 4
  FirstClnum = 2
SPECIFICATION MCSpec
INVARIANTS RegistersAsLogged MemoryOfEither ClnumsAsLogged IndexesAsLogged
PROPERTY PastStable
CHECK_DEADLOCK FALSE
