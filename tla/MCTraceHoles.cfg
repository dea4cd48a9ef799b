CONSTANTS
  MaxEntries = 4
  StartClnum = 2
  Pcs <- MCPcs
  Libraries = {}
  GateTrace = NoGate
  NoGate = NoGate
  None = None
  RegCount = 1
  PendingMax = 1
  SysRegs = 1
  MemAddrs = {}
  Data <- MCData
  Sizes <- MCSizes
  SysNrs = {100}
  LoadSeg = 100
  KillPoints <- MCKilledInResize
  RegisterSize = 1
  RegisterCount = 1
  BigEndian = FALSE
  ByteBase = 2
  PageSize = 2
  InvalidClnum = 99
  Clamp = 1
  Limits = {}
SPECIFICATION IngestSpec
INVARIANT NoHoles
CHECK_DEADLOCK FALSE
