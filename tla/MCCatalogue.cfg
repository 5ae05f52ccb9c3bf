\* Two clones that publish to one main, and a session of the catalogue in one of them.
SPECIFICATION Spec
CONSTANTS
  laptop = laptop
  desktop = desktop
  tags = tags
  clinic = clinic
  terminal1 = terminal1
  None = None
  Clone = {laptop, desktop}
  Home = laptop
  Session = {terminal1}
  Module = {tags, clinic}
  DependsOn <- Needs
  Custom = {clinic}
  Older = {tags}
  MaxMade = 3
  MaxWhen = 2
  MaxPushes = 2
CONSTRAINT Followed
INVARIANTS
  EachEntryRuns
  LockIsTrue
CHECK_DEADLOCK FALSE
