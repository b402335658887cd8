CONSTANTS
  Config <- TwoRanks
  Addr = {"A0", "A1", "B0"}
  Requests <- Disjoint
  ClientStops = TRUE
  MaxOutstanding = 1
SPECIFICATION FairSpec
INVARIANT NeverAborts
INVARIANT RefreshInTime
 
PROPERTY RefinesFlow
PROPERTY RanksRefreshed
PROPERTY ReadsAnswered
