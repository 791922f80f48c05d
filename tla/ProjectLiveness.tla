---------------------------- MODULE ProjectLiveness ----------------------------
(***************************************************************************)
(* The project service under fair scheduling.  A thread that can run, runs *)
(* on (weak fairness).  A statement that waits for a row lock stands in    *)
(* PostgreSQL's queue for that row, first come first served, so it is not  *)
(* overtaken for ever (strong fairness).  A flush that must fail is rolled *)
(* back, and PostgreSQL's deadlock detector, which runs after              *)
(* deadlock_timeout, rolls one waiting transaction back.  Nothing obliges  *)
(* a client to begin an operation.                                         *)
(***************************************************************************)
EXTENDS ProjectService

(* Workers that hold a row lock the next statement of w needs. *)
NextRows(w) ==
  IF tx[w].event # {} /\ tx[w].flushed
  THEN UNION {PendingRequests(w, e[1], e[2]) : e \in tx[w].event}
  ELSE DOMAIN tx[w].request

WaitsFor(w, x) == x # w /\ NextRows(w) \cap Locked(x) # {}

DeadlockedIn(S) == S # {} /\ \A w \in S : \E x \in S : WaitsFor(w, x)

DeadlockDetector ==
  \E S \in SUBSET Open : DeadlockedIn(S) /\ \E victim \in S : Rollback(victim)

(* The flush finds a row gone, or breaks a constraint of the schema. *)
FlushFails(w) ==
  LET u == tx[w] IN
  /\ w \in Open
  /\ \/ w \in stale
     \/ /\ reading[w] = Null
        /\ u.event = {}
        /\ \/ ~UniqueMember(u)
           \/ ~ForeignKeys(Written(project, u.project), Written(team, u.team),
                           Written(member, u.member),
                           (orphan \cup u.orphan) \ Erased(u.member),
                           Written(request, u.request))
  /\ Rollback(w)

(* The statement a call has come to makes it throw. *)
Throws(w) ==
  LET r == reading[w] IN
  /\ \/ Reaches(w, "find") /\ ~InTeam(r.student, r.team)
     \/ Reaches(w, "heir") /\ MembersOf(r.team) \subseteq {r.student}
     \/ Reaches(w, "appoint") /\ ~InTeam(r.student, r.team)
     \/ Reaches(w, "insert") /\ InProject(r.student, team[r.team].project)
  /\ Rollback(w)

Fairness ==
  /\ \A w \in Workers :
       /\ SF_vars(AutoFlush(w))
       /\ SF_vars(HandleStudentJoinedTeam(w))
       /\ SF_vars(Commit(w))
       /\ WF_vars(TeamReads(w) \/ Throws(w) \/ FlushFails(w))
  /\ WF_vars(DeadlockDetector)

FairSpec == Spec /\ Fairness

(* Every transaction ends, so every row lock is released: two leaders who    *)
(* decide two requests of one student at the same time each hold the row the *)
(* other one's listener wants, and neither hangs.                            *)
TransactionsEnd == \A w \in Workers : w \in Open ~> w \notin Open
=============================================================================
