SPECIFICATION Spec
CONSTANTS
  Half = 4
  Low = 2
  Or <- BitOr
  Regs <- RegNames
  DataAddrs <- Data
  StoreElsewhere <- StoreAcross
  LoadElsewhere <- LoadAcross
  Outside <- Behind
  Programs <- SquashedHalt
  InitialRegs <- Regs1
  InitialFlags <- Flags2
  InitialMem <- Mem1
  MaxWait = 0
PROPERTIES ImplementsISA
CHECK_DEADLOCK FALSE
