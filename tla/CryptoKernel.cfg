SPECIFICATION Spec
CONSTANTS
  Gcm = TRUE
  AppTypes <- MCAppTypes
  AppModules = {"app"}
  Passing <- MCPassing
  Requested = {"aes_icm_128", "hmac"}
  MaxContexts = 1
  MaxFaults = 1
INVARIANTS
  SecureIsComplete
  OneEntryPerId
  OnlyTestedTypes
  NoSelfTestLeak
  InitOutcome
PROPERTIES
  VettedReplacement
CHECK_DEADLOCK FALSE
