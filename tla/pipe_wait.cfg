SPECIFICATION FairSpec
CONSTANTS
  Half = 4
  Low = 2
  Or <- BitOr
  Regs <- RegNames
  DataAddrs <- Data
  StoreElsewhere <- StoreAcross
  LoadElsewhere <- LoadAcross
  Outside <- Behind
  Programs <- WaitPrograms
  InitialRegs <- Regs1
  InitialFlags <- Flags2
  InitialMem <- Mem1
  MaxWait = 2
INVARIANTS StoresRetire StopsWithProgram
PROPERTIES ImplementsISA KeepsRetiring
CHECK_DEADLOCK FALSE
