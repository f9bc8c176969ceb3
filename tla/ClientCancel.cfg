SPECIFICATION Spec
CONSTANTS
  p1 = p1  p2 = p2  p3 = p3
  h1 = h1  h2 = h2  r1 = r1  m1 = m1  t1 = t1
  Providers = {p1, p2}
  PayoutReady = {p1, p2}
  Required = 1
  Teams = {}
  TeamMembers <- NoTeams
  Handlers = {h1, h2}
  RetryJobs = {}
  PromoteJobs = {}
  Kinds <- OfferKinds
  OpsStatuses = {"CANCELLED"}
  NoProvider = NoProvider  NoTeam = NoTeam
  MaxCrashes = 0
  RetryCap = 3
PROPERTIES NoClientCancelOnceAssigned
