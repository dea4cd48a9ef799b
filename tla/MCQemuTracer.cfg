CONSTANTS
  MaxEntries = 5
  StartClnum = 2
  Pcs <- MCPcs
  Libraries <- MCLibraries
  GateTrace = 12
  NoGate = NoGate
  None = None
  RegCount = 2
  PendingMax = 2
  SysRegs = 1
  MemAddrs <- MCMemAddrs
  Data <- MCData
  Sizes <- MCSizes
  SysNrs <- MCSysNrs
  LoadSeg = 100
  KillPoints <- MCKillPoints
SPECIFICATION TracerSpec
INVARIANTS TracerTypeOK WritesMapped LogOrdered NoGapsBehindWriter RegistersReplay SyscallArgumentsReplay
CHECK_DEADLOCK FALSE
