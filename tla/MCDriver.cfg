\* Bound up to three times, failing anywhere, with two processes in the files.
CONSTANTS
  Gpios = 4
  Devices = 4
  Files = 2
  Uses <- MCUses
  Process = {p1, p2}
  MayFail = {"gpio", "irq", "class", "device", "file", "probe", "noprobe"}
  MaxBinds = 3
SPECIFICATION FairSpec
INVARIANTS TypeOK NothingLeft CleanupValid FilesServed ClientHasData
PROPERTIES EndsUnbound
CHECK_DEADLOCK FALSE
