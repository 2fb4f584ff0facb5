\* Two threads on two fields of one register, stored, shown and written raw; the
\* bus corrupts transfers and the firmware detects it.
CONSTANTS
  t1 = t1
  t2 = t2
  Thread <- Threads
  NoThread = NoThread
  Prober = NoThread
  Reg = {"fw", "cfg"}
  Bit = {"lo", "hi"}
  LowBit = {"lo"}
  Tail = "tail"
  FwReg = "fw"
  CrcBit = "lo"
  Volatile = {}
  Field <- Shared
  Writable <- Shared
  RawReg = {"cfg"}
  LockTries = 2
  Retries = 2
  McuCrc = TRUE
  Corruption = TRUE
  Probed = TRUE
SYMMETRY Exchange
SPECIFICATION Spec
INVARIANTS TypeOK LockInv RmwFresh VersionKnown
PROPERTIES FieldIsolation BankSpec
