SPECIFICATION DraftingSpec
CONSTANTS
  b = b  k = k  d1 = d1  d2 = d2  top = top
  r1 = r1  r2 = r2  good = good  bad = bad
  Account = {b}
  Key = {k}
  LockKey <- MCLockKey
  Txn <- MCTxn
  AccountOf <- MCAccountOf
  None = None
  Amount = {1, 2}
  Reference = {r1, r2, payment}
  MaxCalls = 2
  Review = {r1, r2}
  SmtpConfigured = TRUE
  Draft = {d1, d2}
  Sender = {s1, s2}
  Rating <- MCRating
  Wording <- MCWording
  Providers <- MCProviders
  Configured = {"openrouter", "anthropic_direct"}
  DraftCost = 1
  Recharged = 2
INVARIANTS
  DraftingTypeOK
  ChargedIffDrafted
  DraftFitsReview
  SentOnce
  NoticeWithReview
PROPERTIES
  DraftEnds
CHECK_DEADLOCK FALSE
