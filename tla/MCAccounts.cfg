SPECIFICATION FairSpec
CONSTANTS
  Call = {c1, c2}
  Job = job
  Email = {e1, e2}
  NoEmail = NoEmail
  NoRow = NoRow
  MaxPassword = 2
  MaxToken = 2
  MaxSession = 3
  MaxRequest = 5
  SessionCap = 1
  RequireVerification = FALSE
CHECK_DEADLOCK FALSE
INVARIANTS
  PasswordKept
  OldPasswordsAreSignedOut
PROPERTIES
  TokensSpentOnce
  ChangesAreProven
  ChangeEnds
