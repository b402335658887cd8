CONSTANTS
  Config <- ManyActivations
  Addr = {"A0", "B0"}
  PimAddr = {}
  RequestTypes = {"READ_PRECHARGE"}
  MaxRefreshQ = 0
  Horizon = 7
SPECIFICATION Spec
PROPERTY FourActivateWindow
