CONSTANTS
  Config <- OneRank
  Addr = {"A0", "A1", "B0"}
  PimAddr = {}
  RequestTypes = {"READ", "WRITE", "READ_PRECHARGE", "WRITE_PRECHARGE", "REFRESH", "SREF_ENTER"}
  MaxRefreshQ = 1
  Horizon = 4
SPECIFICATION Spec
PROPERTY ActivateLegal
PROPERTY ColumnAccessLegal
PROPERTY PrechargeLegal
PROPERTY RefreshLegal
PROPERTY SelfRefreshLegal
PROPERTY DataBusExclusive
