SPECIFICATION Spec
CONSTANTS
  Notes = {n1, n2}
  MarkCalls = {c1, c2}
  Loads = {l1, l2}
  Delivered = {n1}
  Users = {u1, u2}
  SourceUsers = {u2}
  Times = {d1, d2}
  Batches = {b1, b2}
  OwnProject = A
  OtherProject = B
  OwnTeams = {t1, t2}
  OtherTeams = {t3}
  Students = {me, s1}
  Me = me
  Seats = 2
  Scores = {m1, m2}
  Files = {f1}
  Subjects = {i1, i2}
  Projects = {p1, p2}
  Texts = {x1, x2}
  Taught = i1
  Teachers = {r1, r2}
  Teacher = r1
  Accounts = {a1, a2, a3}
  Admin = a1
  OtherAdmin = a2
  Emails = {e1, e2, e3}
  AdminEmail = e1
  OtherEmail = e2
  Pictures = {v1, v2}
  Passwords = {w1, w2, w3}
  FirstPassword = w1
  Tasks = {k1, k2}
  FewClicks = 2
  MaxClicks = 3
  MaxFaults = 1
  MaxElsewhere = 1
  Null = Null
INVARIANTS
  TypeOK NeverStuck BadgeExact ListExact RecipientsAsChosen ShownAsStored NothingOverwritten
  SuccessTrue ServicesSound
PROPERTIES NothingVanishes AllSaved TeachersOwnOnly
CHECK_DEADLOCK FALSE
