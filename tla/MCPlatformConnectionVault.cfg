SPECIFICATION Spec
CONSTANTS
  gbp = gbp
  s1 = s1  s2 = s2
  c1 = c1  c2 = c2  c3 = c3
  form = form
  Slot = {gbp}
  Google = {gbp}
  State = {s1, s2}
  StateSlot <- MCStateSlot
  Callback = {c1, c2, c3}
  StateOf <- MCStateOf
  Creator = {form}
  CreatorSlot <- MCCreatorSlot
  None = None
INVARIANT CallbackKeepsRefresh
CHECK_DEADLOCK FALSE
