SPECIFICATION FairSpecAll
CONSTANTS
    Parts = {"waiting", "drafts", "locks", "checkout", "weekly", "retries", "queue", "queues"}
    x1 = x1  x2 = x2  x3 = x3  x4 = x4  p1 = p1  p2 = p2  team = team  h1 = h1  h2 = h2
    job = job  window = window  client = client  town = town
    Mails = {x1, x2}  Processes = {h1, h2}  Take = 1  MaxTime = 0  MaxFaults = 1
    NoCharge = NoCharge  NoTarget = NoTarget  None = None
INVARIANTS SentWasDelivered DeliveriesBounded
PROPERTIES
    WaitingIsNoticed PaidDraftIsActivated ExpiredIsReleased PaidIsDispatched PendingIsPaidOut
    EventuallyRetried MailsLeaveInTime
CHECK_DEADLOCK FALSE
