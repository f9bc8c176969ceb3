SPECIFICATION SpecAll
CONSTANTS
    Parts = {"webhooks", "fees", "serial", "racing", "weekly", "setups", "earnings", "paging", "shares"}
    x1 = x1  x2 = x2  quick = quick  planned = planned  client = client
    c1 = c1  w1 = w1  p1 = p1  p2 = p2  d1 = d1  d2 = d2  d3 = d3
    NoCharge = NoCharge  NoTarget = NoTarget  None = None
SYMMETRY Symmetry
INVARIANTS NothingWithoutMoney PaymentsSound PayoutsSound EarningsSound
CHECK_DEADLOCK FALSE
