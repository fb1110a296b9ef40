CONSTANTS
  W = 8
  Byte <- MCByte
  Half <- MCHalf
  ZeroHalf <- Bad
  NRom = 5
  Programs <- MCPrograms
  Xregs <- MCXregs
  Rams <- MCRams
  Decode <- MCDecode
  NReg = 3
  RamSize = 8
  RegSize = 8
  Csrs = {0}
  CsrDefault <- MCCsrDefault
  ImmBits = 6
  DeadMax = 2
  SentMax = 3
SPECIFICATION Spec

PROPERTIES StepsAsCommented
CHECK_DEADLOCK FALSE
