CONSTANTS
  Config <- UnifiedDual
  Addr = {"A0", "A1", "B0"}
  Requests <- ReadWriteConflict
  ClientStops = FALSE
  MaxOutstanding = 1
SPECIFICATION Spec
INVARIANT NeverAborts
PROPERTY RefinesFlow
