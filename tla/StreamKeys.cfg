SPECIFICATION Spec
CONSTANTS
  Gcm = TRUE
  MaxMkiLen = 1
  MaxMasterKeys = 2
  MaxEncIds = 1
  Ssrcs = {"specific"}
  Windows = {0, 63}
  Services <- MCServices
  Rccs <- MCRccs
  EncIds = {1}
  MkiLens = {0, 1, 2}
  KeyLens <- MCKeyLens
  MaxFaults = 1
INVARIANTS
  ValidPolicyStarts
  SessionKeysExact
  NothingLeftBehind
