SPECIFICATION Spec
CONSTANTS
  Students = {s1, s2}
  Projects = {p1}
  Teams = {t1}
  Requests = {r1, r2}
  Workers = {w1}
  Sizes = {2}
  Dates = {1}
  Null = Null
PROPERTIES CanceledMeansJoined
