\* One field, the chip probed while another thread already calls: whatever happens, calls return.
CONSTANTS
  t1 = t1
  t2 = t2
  Thread <- Threads
  NoThread = NoThread
  Prober = t1
  Reg = {"fw", "cfg"}
  Bit = {"lo", "hi"}
  LowBit = {"lo"}
  Tail = "tail"
  FwReg = "fw"
  CrcBit = "lo"
  Volatile = {}
  Field <- LowField
  Writable <- LowField
  RawReg = {}
  LockTries = 2
  Retries = 2
  McuCrc = TRUE
  Corruption = FALSE
  Probed = FALSE
SPECIFICATION FairSpec
PROPERTIES CallsReturn CallsAdvance
