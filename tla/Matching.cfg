SPECIFICATION Spec
CONSTANTS
    w1 = w1  w2 = w2  p1 = p1  p2 = p2  p3 = p3  t1 = t1  b1 = b1  b2 = b2  town = town
    eva = eva  rolf = rolf  corp = corp  zoe = zoe  ann = ann  eve = eve
    s1 = s1  s2 = s2  booked = booked  k1 = k1  None = None
SYMMETRY Symmetry
PROPERTIES AssignmentsSound CalendarsSound NoticesSound
CHECK_DEADLOCK FALSE
