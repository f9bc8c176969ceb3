SPECIFICATION Spec
CONSTANTS
  p1 = p1  p2 = p2  p3 = p3
  h1 = h1  h2 = h2  r1 = r1  m1 = m1  t1 = t1
  Providers = {p1, p2, p3}
  PayoutReady = {p1, p2, p3}
  Required = 2
  Teams = {}
  TeamMembers <- NoTeams
  Handlers = {h1, h2}
  RetryJobs = {}
  PromoteJobs = {}
  Kinds <- OfferKinds
  OpsStatuses = {"CONFIRMED", "COMPLETED", "CANCELLED"}
  NoProvider = NoProvider  NoTeam = NoTeam
  MaxCrashes = 1
  RetryCap = 3
SYMMETRY OfferSymmetry
INVARIANTS AcceptedKeepsSeat SeatStaysOpen
PROPERTIES AnsweredOnce AcceptTakesAFreeSeat ImplementsSeatOffer
