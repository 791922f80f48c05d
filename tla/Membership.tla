------------------------------ MODULE Membership ------------------------------
(***************************************************************************)
(* What the project service promises about team membership, with no        *)
(* tables, transactions or threads: in every project a student is in one   *)
(* team or in none, joins a team only out of none, and a team has students *)
(* of one project only.  A student leaves alone, or a whole set of teams   *)
(* of a project is disbanded at once: never is half a team dropped.        *)
(***************************************************************************)
CONSTANTS Students, Projects, Teams, None

VARIABLE teamOf     (* the team of a student in a project, None if there is none *)

Enrolment == Students \X Projects

TypeOK == teamOf \in [Enrolment -> Teams \cup {None}]

Init == teamOf = [e \in Enrolment |-> None]

Join(s, p, t) ==
  /\ teamOf[<<s, p>>] = None
  /\ \A e \in Enrolment : teamOf[e] = t => e[2] = p
  /\ teamOf' = [teamOf EXCEPT ![<<s, p>>] = t]

Leave(s, p) ==
  /\ teamOf[<<s, p>>] # None
  /\ teamOf' = [teamOf EXCEPT ![<<s, p>>] = None]

Disband(p, gone) ==
  /\ \A e \in Enrolment : teamOf[e] \in gone => e[2] = p
  /\ teamOf' = [e \in Enrolment |-> IF teamOf[e] \in gone THEN None ELSE teamOf[e]]

Next ==
  \/ \E s \in Students, p \in Projects, t \in Teams : Join(s, p, t)
  \/ \E s \in Students, p \in Projects : Leave(s, p)
  \/ \E p \in Projects, gone \in SUBSET Teams : Disband(p, gone)

Spec == Init /\ [][Next]_teamOf
=============================================================================
