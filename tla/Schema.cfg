SPECIFICATION Spec
CONSTANTS
  Credentials = {a1, a2}
  None = None
  StatementsMayFail = TRUE
INVARIANTS
  TypeOK
  MigratedInFull
PROPERTIES
  CredentialsKept
