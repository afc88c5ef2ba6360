SPECIFICATION Spec
CONSTANTS
  None = None
  Junk = Junk
  MaxAad = 2048
  Block = 4
  CtrMax = 3
  SizeMax = 255
  Keys = {k1}
  Kinds <- NssMbed
  Faulty = {}
  KeyLens = {28}
  OutLens = {16}
  RtpAads = {12}
  RtcpAads = {8, 2048}
  CallLens = {1}
  MsgLens = {1}
  MaxPackets = 2
INVARIANT NothingCarriedOver
