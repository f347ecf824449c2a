CONSTANTS
  PageSize = 2
  MaxLogs = 3
  MaxAtOnce = 2
  MaxLoads = 2
SPECIFICATION FairSpec
INVARIANTS TypeOK ListIsNewest EndIsTheEnd
PROPERTIES LoadingEnds
