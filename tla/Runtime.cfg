SPECIFICATION Spec
CONSTANTS
  Calls <- someCalls
  Names <- someNames
  Stubs <- someStubs
  CreateMutant = 1
  LockTable <- someLocks
  Units = {driver, pfiles}
  PFiles = pfiles
  Ctors <- someCtors
  Dtors <- someDtors
  MaxPatches = 1
INVARIANTS TypeOK SearchFinds ParseAgrees LoadedIsUsable CtorsAroundMain
PROPERTY NoEarlyKernelCall
CHECK_DEADLOCK FALSE
