CONSTANTS
  a1 = a1
  a2 = a2
  b1 = b1
  Addr = {a1, a2}
  Config <- SplitQueues
  MaxOutstanding = 2
SPECIFICATION Spec
INVARIANT TypeOK
INVARIANT PendingIsQueued
INVARIANT QueuedOnce
 
INVARIANT NoExit
INVARIANT ReadsStayAhead
PROPERTY WriteAfterRead
PROPERTY AnsweredOnce
