SPECIFICATION Spec
CONSTANTS
  Credentials = {a1, a2}
  None = None
  StatementsMayFail = FALSE
INVARIANTS
  EntriesStored
