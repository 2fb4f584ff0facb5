\* The version is read before the driver knows that it can be checked.
CONSTANTS
  t1 = t1
  t2 = t2
  Thread <- Threads
  NoThread = NoThread
  Prober = t1
  Reg = {"fw", "cfg"}
  Bit = {"lo", "hi"}
  LowBit = {"lo"}
  Tail = "tail"
  FwReg = "fw"
  CrcBit = "lo"
  Volatile = {}
  Field <- LowField
  Writable <- LowField
  RawReg = {}
  LockTries = 2
  Retries = 2
  McuCrc = TRUE
  Corruption = TRUE
  Probed = FALSE
SPECIFICATION Spec
INVARIANT CrcUsedWhenSupported
