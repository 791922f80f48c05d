SPECIFICATION Spec
CONSTANTS
  Students = {s1, s2, s3, s4}
  Projects = {p1}
  Teams = {t1}
  Requests = {}
  Workers = {w1, w2}
  Sizes = {0, 2}
  Dates = {1, 2}
  Null = Null
SYMMETRY Symmetry
INVARIANTS CapacityBound DatesOrdered
