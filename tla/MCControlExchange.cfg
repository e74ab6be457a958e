SPECIFICATION Spec
CONSTANTS
  Configs <- MCConfigs
  MaxExchanges = 2
INVARIANTS
  UnderstoodAsMeant
  BuffersStayInPlace
  PacketsAreValid
  RepliesReachTheAsker
