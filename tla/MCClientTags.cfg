CONSTANTS
  None = None
  Texts = {"x"}
  LastClnum = 2
  Symbols = {2}
  Code = {1}
  Targets = {1}
  WithStatic = {TRUE, FALSE}
  StaticPanels = {TRUE, FALSE}
  MaxEvents = 3
SPECIFICATION FairSpec
 
PROPERTY TagsSettle
CHECK_DEADLOCK FALSE
