SPECIFICATION Spec
CONSTANTS
  Half = 4
  Low = 2
  Or <- BitOr
  Regs <- RegNames
  DataAddrs <- Data
  StoreElsewhere <- StoreAcross
  LoadElsewhere <- LoadAcross
  Outside <- Behind
  Programs <- LoadsThenUse
  InitialRegs <- Regs1
  InitialFlags <- Flags2
  InitialMem <- Mem1
  MaxWait = 1
INVARIANTS NeverBubbleAndStall
CHECK_DEADLOCK FALSE
