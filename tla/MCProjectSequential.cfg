SPECIFICATION Spec
CONSTANTS
  Students = {s1, s2, s3}
  Projects = {p1}
  Teams = {t1, t2}
  Requests = {r1, r2}
  Workers = {w1}
  Sizes = {1, 2}
  Dates = {1}
  Null = Null
SYMMETRY Symmetry
PROPERTIES JoinsOnlyWithRoom LeaderKept JoinClearsPending
