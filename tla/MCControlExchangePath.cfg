SPECIFICATION Spec
CONSTANTS
  Configs <- PathConfigs
  MaxExchanges = 2
INVARIANT
  StoredIsRegistered
