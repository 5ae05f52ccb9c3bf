\* Two dispatchers, a delivery with an expiring link and one without a channel; or
\* two requests on a feed.  The constants of the outbox, which is at rest, are least.
SPECIFICATION EitherSpec
CONSTANTS
  w1 = w1
  w2 = w2
  Worker = {w1, w2}
  Delivery = {1, 2}
  Push = {2}
  Token = {1}
  MailBatch = 2
  MailAttempts = 2
  Slow = {1}
  MaxFaults = 1
  NoMail = NoMail
  NoTaken = NoTaken
  Event = {e1, e2}
  InApp = {e1}
  Call = {c1, c2}
  MaxClock = 4
  NoItem = NoItem
  NoEvent = NoEvent
  Replayer = {}
  Consumer = {}
  Listeners <- NoListeners
  Secret = {}
  Aggregate <- NoOrder
  OccurredAt <- NoOrder
  BatchSize = 1
  MaxAttempts = 1
  LeaseCoversBatch = TRUE
  Suppressed = {}
  MaxReplays = 0
  NoRow = NoRow
  NoClaim = NoClaim
INVARIANTS
  OutcomeIsTrue
PROPERTIES
  DeliverySettles
  StampsOutliveRequests
CHECK_DEADLOCK FALSE
