SPECIFICATION Spec
CONSTANTS
  Socks = 2
  SockSize <- MCSockSize
  Modulus = 8
  Radix = 3
  MaxLength = 2
INVARIANTS
  SizeWasThere
  NeverMixes
PROPERTY StreamsSpec
