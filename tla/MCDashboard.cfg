SPECIFICATION MCSpec
CONSTANTS
  Request = {q1}
  MaxReports = 4
  MaxHandlers = 2
  Signal <- MCSignal
  Period <- MCPeriod
  Run = {x1, x2}
  Day = 2
  Lag = 3
SYMMETRY DashboardSymmetry
INVARIANTS
  DashboardTypeOK
  StatusFollowsReports
  SummaryIsProxy
CHECK_DEADLOCK FALSE
