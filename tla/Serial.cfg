SPECIFICATION Spec
CONSTANTS
  p1 = p1  p2 = p2  p3 = p3
  h1 = h1  h2 = h2  r1 = r1  m1 = m1  t1 = t1
  Providers = {p1, p2}
  PayoutReady = {p1, p2}
  Required = 2
  Teams = {t1}
  TeamMembers <- OneTeam
  Handlers = {h1}
  RetryJobs = {h1}
  PromoteJobs = {h1}
  Kinds <- AllKinds
  OpsStatuses = {"PENDING_PROVIDER", "CONFIRMED", "CANCELLED"}
  NoProvider = NoProvider  NoTeam = NoTeam
  MaxCrashes = 1
  RetryCap = 3
INVARIANTS TypeOK EscalatedMeansExhausted
