SPECIFICATION Spec
CONSTANTS
  CmdDepth = 2
  TxDepth = 2
  RxDepth = 2
  Slaves <- MCSlaves
  Requests <- MCRequests
  DivModulus = 65536
  MaxLen = 16
  SECT_LEN = 8
  PAGE_LEN = 8
  READ_WRITE_LEN = 1
  SysFreq = 60
  Watermarks = {1, 2}
  Controller = "FIC"
  ActiveReads = {TRUE, FALSE}
  MaxCalls = 2
  MaxResets = 1
INVARIANTS DoneMeansExchanged NoHostErrors ClockWithinDevice
PROPERTIES TransactionEnds
CHECK_DEADLOCK FALSE
