SPECIFICATION Spec
CONSTANTS
  p1 = p1
  p2 = p2
  w1 = w1
  w2 = w2
  Pages = {p1, p2}
  Writers = {w1, w2}
  Owner <- OwnerOf
  BatchPages = 1
  Nobody = Nobody
  Settings <- TruncateOnly
INVARIANT
  Recovered
CHECK_DEADLOCK FALSE
