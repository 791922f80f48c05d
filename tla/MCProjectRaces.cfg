SPECIFICATION Spec
CONSTANTS
  Students = {s1, s2}
  Projects = {p1, p2}
  Teams = {t1, t2}
  Requests = {}
  Workers = {w1, w2}
  Sizes = {2}
  Dates = {1}
  Null = Null
SYMMETRY Symmetry
INVARIANTS TypeOK OneTeamPerProject RowsAgree
PROPERTIES ImplementsMembership
