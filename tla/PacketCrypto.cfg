SPECIFICATION Spec
CONSTANTS
  None = None
  Junk = Junk
  MaxAad = 2048
  Block = 4
  CtrMax = 3
  SizeMax = 255
  Keys = {k1}
  Kinds <- MCKinds
  Faulty <- MCFaulty
  KeyLens = {16, 20, 21, 28, 30, 38}
  OutLens = {10, 16, 21}
  RtpAads = {12, 2049}
  RtcpAads = {8, 2044, 2049}
  CallLens = {0, 1, 3, 4, 5}
  MsgLens <- MCMsgLens
  MaxPackets = 2
INVARIANTS
  SealedAsAsked
  KeystreamExact
  TagExact
  NothingCarriedOver
  NothingHeld
