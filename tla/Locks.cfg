SPECIFICATION SpecAll
CONSTANTS
    Parts = {"leaking"}
    total = total  single = single  x1 = x1  x2 = x2  worker = worker  p1 = p1  p2 = p2
    morning = morning  day = day  half = half  long = long  None = None
    ann = ann  cleo = cleo  pete = pete  emma = emma  acme = acme  emptyCo = emptyCo
    Users = {ann, cleo, pete, emma}  Roles <- RolesOf  Profiles = {cleo, pete}
    Companies = {acme, emptyCo}  Associated <- MembersOf  Visits = {visit}
    Bookings = {b1}
    Promos = {total, single}
    Clients = {c1}
    Handlers = {w1, w2}
    Guest = Guest  Absent = Absent  NoPromo = NoPromo  NoBooking = NoBooking
    Unlimited = Unlimited
    MaxTotal <- TotalLimits
    MaxPerUser <- UserLimits
    MaxCrashes = 1
SYMMETRY Symmetry
INVARIANTS NoCapacityLeak
