CONSTANTS
  None = None
  Programs <- Functions4
  MaxLevels = 8
SPECIFICATION Spec
INVARIANTS LevelsCorrect
