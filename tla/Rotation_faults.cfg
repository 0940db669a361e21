SPECIFICATION Spec
CONSTANTS
  None = None
  MaxCerts = 4
  FsMayFail = TRUE
  RetireOnConfirm = FALSE
INVARIANTS
  TypeOK
  CurrentOnDisk
  OnlyCompleteActivated
  TrustedIdentityKept
