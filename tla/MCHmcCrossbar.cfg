CONSTANTS
  Addr = {"A", "A2", "B"}
  VaultOf <- TwoVaults
  Requests <- OneKindEach
  block_size = 32
  links = 2
  quads = 2
  queue_depth = 1
  VaultDepth = 2
  ps_per_dram = 3
  ps_per_logic = 2
  MaxOutstanding = 1
SPECIFICATION FairSpec
 
INVARIANT AgesMatchQueues
 
PROPERTY AnsweredOnce
PROPERTY AllAnswered
