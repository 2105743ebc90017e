CONSTANTS
  Capacity = 2
  Producers = {p1, p2}
  Consumers = {c1, c2}
  Data = {d1, d2, d3}
  Empty = Empty
  MaxTicket = 3
SPECIFICATION Spec
INVARIANTS FirstLapExactlyOnce
SYMMETRY Symmetry
CHECK_DEADLOCK FALSE
