SPECIFICATION Spec
CONSTANTS
  Students = {s1, s2}
  Projects = {p1}
  Teams = {t1}
  Requests = {}
  Workers = {w1, w2}
  Sizes = {2}
  Dates = {1}
  Null = Null
INVARIANTS TakenMeansTeam
