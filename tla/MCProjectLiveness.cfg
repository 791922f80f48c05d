SPECIFICATION FairSpec
CONSTANTS
  Students = {s1}
  Projects = {p1}
  Teams = {t1}
  Requests = {r1, r2}
  Workers = {w1, w2}
  Sizes = {2}
  Dates = {1}
  Null = Null
INVARIANTS LockedRowsStand RowsAgree
PROPERTIES TransactionsEnd DecisionStands
