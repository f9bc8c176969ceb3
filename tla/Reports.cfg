SPECIFICATION Spec
CONSTANTS
    Parts = {"trends", "activations", "funnel", "cohorts", "operations", "front", "charts", "occupancy", "finance_pages", "finance_ranges", "matches", "policies", "guardrails", "pages", "filtered", "sizes", "accounts"}
    x1 = x1  x2 = x2  b1 = b1  b2 = b2  p1 = p1  p2 = p2  None = None  Bad = Bad
SYMMETRY Symmetry
INVARIANTS FiguresSound ListsComplete
CHECK_DEADLOCK FALSE
