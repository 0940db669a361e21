SPECIFICATION Spec
CONSTANTS
  None = None
  MaxCerts = 3
  FsMayFail = FALSE
  RetireOnConfirm = FALSE
INVARIANTS
  ActiveIdentityAtStart
