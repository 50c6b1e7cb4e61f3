SPECIFICATION RechargeSpec
CONSTANTS
  first = first  retry = retry  one = one  two = two  three = three  foreign = foreign
  b1 = b1
  p1 = p1  p2 = p2  p3 = p3
  ai = ai  wa = wa
  k1 = k1  k2 = k2
  Account <- MCAccount
  Key <- MCKey
  LockKey <- MCLockKey
  Txn <- MCTxn
  AccountOf <- MCAccountOf
  None = None
  Amount = {1, 2}
  Reference = {p1, p2, p3}
  MaxCalls = 1
  Business = {b1}
  BusinessOf <- MCBusinessOf
  Payment = {p1, p2, p3}
  PaymentOf <- MCPaymentOf
  Paise <- MCPaise
  InINR = {p1, p2}
  RetryOf <- MCRetryOf
INVARIANTS
  RechargeTypeOK
  CreditsWhatWasCaptured
  RetryCreditsOnce
  AnswerIsDurable
CHECK_DEADLOCK FALSE
