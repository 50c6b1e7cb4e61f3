SPECIFICATION FairSpec
CONSTANTS
  a1 = a1  a2 = a2
  k1 = k1  k2 = k2
  t1 = t1  t2 = t2  t3 = t3
  Account <- MCAccount
  Key <- MCKey
  LockKey <- MCLockKey
  Txn <- MCTxn
  AccountOf <- MCAccountOf
  None = None
  Amount = {0, 1, 2}
  Reference = {ref}
  MaxCalls = 2
INVARIANTS
  TypeOK
  ReadIsCurrent
  BalanceIsSum
  NeverNegative
PROPERTIES
  AppendOnly
  ImplementsAccount
  LockWaitEnds
CHECK_DEADLOCK FALSE
