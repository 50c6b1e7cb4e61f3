SPECIFICATION CampaignSpec
CONSTANTS
  b = b  k = k  paid = paid  free = free
  m1 = m1  m2 = m2  m3 = m3  top = top
  payment = payment
  Account = {b}
  Key = {k}
  LockKey <- MCLockKey
  Txn <- MCTxn
  AccountOf <- MCAccountOf
  None = None
  Amount = {2, 3}
  Reference = {m1, m2, m3, payment}
  MaxCalls = 2
  Campaign = {paid, free}
  Sends <- MCSends
  Cost <- MCCost
  Recharged = 3
  Watched = {m1}
  MaxReports = 2
  MaxHooks = 2
INVARIANT FailedIsNotCharged
CHECK_DEADLOCK FALSE
