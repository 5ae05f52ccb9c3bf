\* The master, two accounts and two templates; or three tags.  Two requests that overlap.
SPECIFICATION EitherSpec
CONSTANTS
  readUsers = readUsers
  updateUsers = updateUsers
  charts = charts
  admin = admin
  clinician = clinician
  Unborn = Unborn
  Gone = Gone
  User = {root, ana, bia}
  Template = {model, copy}
  Root = root
  Born = {root, ana, model}
  Request = {r1, r2}
  Key = {readUsers, updateUsers, charts}
  Manage = updateUsers
  Requires <- RequiresOf
  ModuleOf <- OwningModule
  Floored = {admin}
  Profile = {admin, clinician}
  Name = {front, back}
  MaxRequest = 2
  Tag = {t1, t2, t3}
  MaxEdits = 6
INVARIANTS
  SetsAreWhole
  TrashIsMeant
  GoneIsAnnounced
PROPERTIES
  EditsAreWithinReach
CHECK_DEADLOCK FALSE
