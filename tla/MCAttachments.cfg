\* Two requests in one process, which admits both at once, and three uploads: the
\* quota, at 0, is exceeded by what the two in flight bring.
SPECIFICATION Spec
CONSTANTS
  r1 = r1
  r2 = r2
  p1 = p1
  NoRow = NoRow
  None = None
  Request = {r1, r2}
  Uploading = {r1, r2}
  Confirming = {r2}
  Posing = {r1, r2}
  Deleting = {r1}
  Process = {p1}
  Home <- OneHome
  Attachment = {1, 2, 3}
  MaxBytes = 1
  MaxTotalBytes = 1
  MaxFiles = 2
  MaxConcurrent = 2
  PendingQuota = 0
  MaxFaults = 1
INVARIANTS
  RowsKeepTheirObject
  AvatarIsServed
  PendingIsBounded
  NoObjectLeaks
CHECK_DEADLOCK FALSE
