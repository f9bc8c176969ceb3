SPECIFICATION SpecAll
CONSTANTS
    None = None  Workers = {w1, w2}
    Emails = {e1}  Tokens = {t1, t2, t3}  Limit = 1  Lifetime = 1  SessionTime = 2  MaxAttempts = 1
    Users = {u1}  RoleNames = {"client", "provider"}  MaxChanges = 2  MaxWeeks = 0
    Numbers = {n1, n2}  Completed <- CompletedTasks  MaxCalls = 6  MaxCodes = 2
    Docs = {d1, d2, d3}  Reviewers = {ann, ben}  Builtin = {passport}  Customs = {permit}
    DocLimit = 1  MaxUploads = 3
    Filed = {"alone", "company"}  EmailOf <- OneAddress  ProviderTypes = {"FREELANCER", "COMPANY"}
    TypeOf <- KindOf  MaxReviews = 4
    Requests = {q1, q2}  Exports = {q1}  Week = 1  MaxTime = 2  MaxFaults = 1  MaxLog = 4
    Hooks = {h1, h2}  Backlogs = {0, 11, 501}  DayPayments = 2  Window1h = 1  HookTime = 2  HookFaults = 2
SYMMETRY Symmetry
INVARIANTS LogTellsStatus AccountsSound
PROPERTIES ProvidersSound DecisionsSound WebhooksSound
CHECK_DEADLOCK FALSE
