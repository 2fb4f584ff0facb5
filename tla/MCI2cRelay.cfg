\* Two threads on two fields of a masked register and on an input the MCU keeps
\* rewriting; the bus corrupts transfers and the firmware detects it.
CONSTANTS
  t1 = t1
  t2 = t2
  Thread <- Threads
  NoThread = NoThread
  Prober = NoThread
  Reg = {"fw", "rly", "in"}
  Bit = {"lo", "hi"}
  LowBit = {"lo"}
  Tail = "tail"
  FwReg = "fw"
  CrcBit = "lo"
  Volatile = {"in"}
  Field <- RelayInput
  Writable <- Relay
  RawReg = {}
  LockTries = 1
  Retries = 2
  McuCrc = TRUE
  Corruption = TRUE
  Probed = TRUE
SYMMETRY Exchange
SPECIFICATION Spec
PROPERTIES FieldIsolation BankSpec
