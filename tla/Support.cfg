SPECIFICATION SpecAll
CONSTANTS
    x1 = x1  x2 = x2  client = client  agent = agent  c1 = c1  c2 = c2
    r1 = r1  p1 = p1  p2 = p2  p3 = p3  k1 = k1  k2 = k2  s1 = s1  s2 = s2  None = None
SYMMETRY Symmetry
PROPERTIES CasesSound DesksSound
CHECK_DEADLOCK FALSE
