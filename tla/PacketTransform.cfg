SPECIFICATION Spec
CONSTANTS
  Gcm = TRUE
  MaxMkiLen = 2
  MaxMasterKeys = 2
  MaxEncIds = 1
  Policies <- MCPolicies
  Packets <- MCPackets
  OtherPolicies <- MCOtherPolicies
  Alterable <- MCAlterable
  Noises = {0, 1}
INVARIANTS
  InsideBuffers
  TrailerSuffices
  RoundTrip
  PlaceDoesNotMatter
  OnlyGenuine
  ExactlyEncrypted
