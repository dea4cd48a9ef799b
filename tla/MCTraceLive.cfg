CONSTANTS
  MaxEntries = 3
  StartClnum = 2
  Pcs <- MCPcs
  Libraries = {}
  GateTrace = NoGate
  NoGate = NoGate
  None = None
  RegCount = 1
  PendingMax = 1
  SysRegs = 1
  MemAddrs = {}
  Data <- MCData
  Sizes <- MCSizes
  SysNrs = {}
  LoadSeg = 100
  KillPoints <- MCKilledElsewhere
  RegisterSize = 1
  RegisterCount = 1
  BigEndian = FALSE
  ByteBase = 2
  PageSize = 2
  InvalidClnum = 99
  Clamp = 1
  Limits = {0}
SPECIFICATION FairSpec
PROPERTIES EventuallyIngested EventuallyPushed JoinReturns
CHECK_DEADLOCK FALSE
