CONSTANTS
  Config <- OneChannel
  Addr = {"A0"}
  Npu <- SmallNpu
  Programs <- GemmAndGemv
  pim_trans_queue_depth = 2
  Requests <- Read
  MaxOutstanding = 1
SPECIFICATION Spec
INVARIANT NoRequestLost
CHECK_DEADLOCK FALSE
