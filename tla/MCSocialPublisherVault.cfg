SPECIFICATION Spec
CONSTANTS
  p1 = p1  p2 = p2
  b1 = b1  b2 = b2
  r1 = r1  r2 = r2
  Post = {p1, p2}
  Business = {b1, b2}
  BusinessOf <- MCBusinessOf
  Run = {r1, r2}
  None = None
INVARIANT VaultFailureRetries
CHECK_DEADLOCK FALSE
