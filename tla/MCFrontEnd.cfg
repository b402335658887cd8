CONSTANTS
  CommandLines <- Everything
  Draws = {0, 64}
  ArrayDraws <- OneTriple
  array_size = 2
  stride = 1
  epoch_period = 2
  MaxQueued = 2
  Counters = {"num_cycles", "epoch_num", "num_reads_done", "num_writes_done", "num_lh_read_cmds"}
  Histograms <- SmallHistograms
SPECIFICATION Spec
CHECK_DEADLOCK FALSE
INVARIANT AddressesFitDevice
INVARIANT AddressesReachDevice
INVARIANT LinesInOrder
INVARIANT ElementsComplete
INVARIANT FinalReportAddsUp
PROPERTY DueLineIsSent
