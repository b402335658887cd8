CONSTANTS
  Config <- LateDrain
  Addr = {"A0", "A1"}
  Requests <- ReadAndTwoWrites
  ClientStops = TRUE
  MaxOutstanding = 1
SPECIFICATION FairSpec
PROPERTY ReadsAnswered
