CONSTANTS
  None = None
  Base = 2
  LowDigits = 3
  HeadDigits = 2
  PageDigits = 1
  FillPages = 3
  Pages <- SmallPages
  Offsets = {1}
  Selected <- FewAddresses
  MaxPages = 3
SPECIFICATION MCSpec
INVARIANTS HaddrlineShown BignumsAreNumbers
CHECK_DEADLOCK FALSE
