SPECIFICATION Spec
CONSTANTS
  ann = ann  bob = bob  cy = cy  dee = dee
  a1 = a1  a2 = a2  b1 = b1  b2 = b2
  User = {ann, bob, cy, dee}
  Agency = {a1, a2}
  Business = {b1, b2}
  AgencyOf <- MCAgencyOf
  None = None
  Unset = Unset
  Registered <- MCRegistered
  Session = {q1, q2, q3}
  Update = {p1, p2}
  Signups <- MCSignups
  Bodies <- MCBodies
SYMMETRY RequestSymmetry
INVARIANTS
  AccountsTypeOK
  TenantKept
  OneLiveToken
PROPERTIES
  AgencyKeepsAdmin
CHECK_DEADLOCK FALSE
