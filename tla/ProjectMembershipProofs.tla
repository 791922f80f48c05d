------------------------ MODULE ProjectMembershipProofs ------------------------
(***************************************************************************)
(* The project service implements Membership: the member rows, read as one *)
(* team per student and project, change only as the abstract registry      *)
(* does, for every number of students, projects, teams and workers.  And   *)
(* what the methods promise to a caller that is alone, with one worker.    *)
(***************************************************************************)
EXTENDS ProjectProofs

-----------------------------------------------------------------------------
(* How a unit of work departs from a team. *)

Orderly(u) == Departs(u) /\ DisbandsOneProject(u)

(* Rows written and rows deleted.                                            *)
LEMMA NoWritesKinds == Kept(NoWrites) = {} /\ Erased(NoWrites) = {}
<1>1. DOMAIN NoWrites = {}
  BY DEF NoWrites
<1> QED
  BY <1>1 DEF Kept, Erased

LEMMA PutKinds ==
  ASSUME NEW k, NEW row, row # Null
  PROVE  Kept(Put(k, row)) = {k} /\ Erased(Put(k, row)) = {}
<1> DEFINE put == Put(k, row)
<1>1. DOMAIN put = {k} /\ put[k] = row
  BY PutRow
<1> HIDE DEF put
<1>2. \A x : (x \in Kept(put) <=> x = k) /\ x \notin Erased(put)
  BY <1>1 DEF Kept, Erased
<1> QED
  BY <1>2 DEF put

LEMMA EraseKinds ==
  ASSUME NEW K
  PROVE  Kept(Erase(K)) = {} /\ Erased(Erase(K)) = K
  BY EraseRows DEF Kept, Erased

LEMMA NewLeaderKinds ==
  ASSUME IInv, NEW r \in Reading, team[r.team] # Null, NEW s \in Students
  PROVE  Erased(NewLeader(r, s)) = {}
<1> DEFINE row == [team[r.team] EXCEPT !.leader = s]
<1>1. team[r.team] \in TeamRow
  BY DEF IInv, TypeOK, Reading
<1>2. row \in TeamRow
  BY <1>1 DEF TeamRow
<1>3. row # Null
  BY <1>2, StoreAssumption
<1>4. NewLeader(r, s) = NoWrites \/ NewLeader(r, s) = Put(r.team, row)
  BY DEF NewLeader
<1> HIDE DEF row
<1> QED
  BY <1>3, <1>4, PutKinds, NoWritesKinds

(* A unit of work that deletes no team and inserts a member, or deletes one, *)
(* or sets the team of one to null.                                          *)
LEMMA OrderlyWithoutCascade ==
  ASSUME NEW u, Erased(u.team) = {},
         \/ Erased(u.member) = {} /\ u.orphan = {}
         \/ Kept(u.member) = {} /\ u.orphan = {} /\ \E k : Erased(u.member) = {k}
         \/ Kept(u.member) = {} /\ Erased(u.member) = {} /\ \E k : u.orphan = {k}
  PROVE  Orderly(u)
  BY DEF Orderly, Departs, DisbandsOneProject

LEMMA OrderlyCascade ==
  ASSUME NEW op, NEW gone \in SUBSET Teams, NEW loaded, NEW erased,
         \A t1, t2 \in gone : team[t1] # Null /\ team[t1].project = team[t2].project,
         gone # {} \/ loaded = {}, \A k \in loaded : k[2] \in gone
  PROVE  /\ Orderly(CascadeTeams(op, gone, loaded))
         /\ Orderly([CascadeTeams(op, gone, loaded) EXCEPT !.project = erased])
<1>1. SUFFICES ASSUME NEW u, u.team = Erase(gone), u.member = Erase(loaded), u.orphan = {}
               PROVE  Orderly(u)
  BY DEF CascadeTeams, Blank
<1>2. Erased(u.team) = gone /\ Kept(u.member) = {} /\ Erased(u.member) = loaded
  BY <1>1, EraseKinds
<1>3. DisbandsOneProject(u)
  BY <1>2 DEF DisbandsOneProject
<1>4. Departs(u)
  BY <1>1, <1>2 DEF Departs
<1> QED
  BY <1>3, <1>4 DEF Orderly

-----------------------------------------------------------------------------
(* Every operation settles on an orderly unit of work. *)

SettlesOrderly(w) == \E u, r : Settles(w, u, r) /\ Orderly(u)

LEMMA BeginsOrderly ==
  ASSUME IInv, NEW w \in Workers, NEW u, Begin(w, u), Orderly(u)
  PROVE  SettlesOrderly(w)
  BY BeginSettles DEF SettlesOrderly

LEMMA DecidesOrderly ==
  ASSUME NEW w \in Workers, NEW u, Decide(w, u), Orderly(u),
         stale \subseteq stale' /\ stale' \subseteq stale \cup {w}
  PROVE  SettlesOrderly(w)
  BY DecideSettles DEF SettlesOrderly

LEMMA ProjectOpsSettleOrderly ==
  ASSUME IInv, NEW w \in Workers, ProjectOps(w)
  PROVE  SettlesOrderly(w)
<1>1. ASSUME NEW op, NEW write, Begin(w, [Blank(op) EXCEPT !.project = write])
      PROVE  SettlesOrderly(w)
  <2> DEFINE u == [Blank(op) EXCEPT !.project = write]
  <2>1. u.team = NoWrites /\ u.member = NoWrites /\ u.orphan = {}
    BY DEF Blank
  <2> HIDE DEF u
  <2>2. Orderly(u)
    BY <2>1, NoWritesKinds, OrderlyWithoutCascade
  <2> QED
    BY <1>1, <2>2, BeginsOrderly DEF u
<1>2. ASSUME NEW p \in Projects, DeleteProject(w, p)
      PROVE  SettlesOrderly(w)
  <2> DEFINE gone   == {t \in Teams : team[t] # Null /\ team[t].project = p}
             loaded == {k \in MemberKey : k[2] \in gone /\ InTeam(k[1], k[2])}
             u == [CascadeTeams("deleteProject", gone, loaded) EXCEPT !.project = Erase({p})]
  <2>1. Begin(w, u)
    BY <1>2 DEF DeleteProject
  <2>2. /\ \A t1, t2 \in gone : team[t1] # Null /\ team[t1].project = team[t2].project
        /\ gone \in SUBSET Teams
        /\ gone # {} \/ loaded = {}
        /\ \A k \in loaded : k[2] \in gone
    OBVIOUS
  <2> HIDE DEF gone, loaded
  <2>3. Orderly(u)
    BY <2>2, OrderlyCascade
  <2> HIDE DEF u
  <2> QED
    BY <2>1, <2>3, BeginsOrderly
<1>3. PICK p \in Projects :
        \/ \E max \in Sizes, start, end \in Dates : CreateProject(w, p, max, start, end)
        \/ \E max \in Sizes, start, end \in Dates \cup {0} : UpdateProject(w, p, max, start, end)
        \/ DeleteProject(w, p)
  BY DEF ProjectOps
<1>4. CASE \E max \in Sizes, start, end \in Dates : CreateProject(w, p, max, start, end)
  BY <1>1, <1>4 DEF CreateProject
<1>5. CASE \E max \in Sizes, start, end \in Dates \cup {0} :
             UpdateProject(w, p, max, start, end)
  BY <1>1, <1>5 DEF UpdateProject
<1> QED
  BY <1>2, <1>3, <1>4, <1>5

LEMMA JoinRequestOpsSettleOrderly ==
  ASSUME IInv, NEW w \in Workers, JoinRequestOps(w)
  PROVE  SettlesOrderly(w)
<1>1. ASSUME NEW u, u.team = NoWrites, u.member = NoWrites, u.orphan = {}, Begin(w, u)
      PROVE  SettlesOrderly(w)
  BY <1>1, NoWritesKinds, OrderlyWithoutCascade, BeginsOrderly
<1>2. ASSUME NEW r \in Requests, NEW t \in Teams, NEW s \in Students,
             CreateJoinRequest(w, r, t, s)
      PROVE  SettlesOrderly(w)
  BY <1>1, <1>2 DEF CreateJoinRequest, Blank
<1>3. ASSUME NEW r \in Requests, DeleteJoinRequest(w, r)
      PROVE  SettlesOrderly(w)
  BY <1>1, <1>3 DEF DeleteJoinRequest, Blank
<1>4. ASSUME NEW r \in Requests, NEW accept \in BOOLEAN, NEW s \in Students,
             ResolveToJoinRequest(w, r, accept, s)
      PROVE  SettlesOrderly(w)
  BY <1>1, <1>4 DEF ResolveToJoinRequest, Blank
<1> QED
  BY <1>2, <1>3, <1>4 DEF JoinRequestOps

LEMMA InsertsOrderly ==
  ASSUME NEW u, NEW k, NEW p \in Projects,
         Erased(u.team) = {}, u.member = Put(k, p), u.orphan = {}
  PROVE  Orderly(u)
<1>1. Erased(u.member) = {}
  BY PutKinds, StoreAssumption
<1> QED
  BY <1>1, OrderlyWithoutCascade

LEMMA TeamOpsSettleOrderly ==
  ASSUME IInv, NEW w \in Workers, TeamOps(w)
  PROVE  SettlesOrderly(w)
<1>1. ASSUME NEW op, NEW r, BeginReading(w, op, r)
      PROVE  SettlesOrderly(w)
  <2>1. Blank(op).team = NoWrites /\ Blank(op).member = NoWrites /\ Blank(op).orphan = {}
    BY DEF Blank
  <2>2. Orderly(Blank(op))
    BY <2>1, NoWritesKinds, OrderlyWithoutCascade
  <2>3. Settles(w, Blank(op), r)
    BY <1>1 DEF BeginReading, Settles
  <2> QED
    BY <2>2, <2>3 DEF SettlesOrderly
<1>2. ASSUME NEW p \in Projects, NEW t \in Teams, NEW s \in Students, CreateTeam(w, p, t, s)
      PROVE  SettlesOrderly(w)
  <2> DEFINE row == [project |-> p, leader |-> s]
             put == Put(t, row)
             ins == Put(<<s, t>>, p)
             e   == {<<s, p>>}
             u   == [Blank("createTeam") EXCEPT !.event = e, !.team = put, !.member = ins]
  <2>1. Begin(w, u)
    BY <1>2 DEF CreateTeam
  <2>2. row # Null
    BY StoreAssumption DEF TeamRow
  <2> HIDE DEF row
  <2>3. Erased(put) = {}
    BY <2>2, PutKinds
  <2> HIDE DEF put, ins, e
  <2>4. u.team = put /\ u.member = ins /\ u.orphan = {}
    BY DEF Blank
  <2> HIDE DEF u
  <2>5. Orderly(u)
    BY <2>3, <2>4, InsertsOrderly DEF ins
  <2> QED
    BY <2>1, <2>5, BeginsOrderly
<1>3. ASSUME NEW t \in Teams, NEW s \in Students, RemoveMember(w, t, s)
      PROVE  SettlesOrderly(w)
  <2> DEFINE u == [Blank("removeMember") EXCEPT !.member = Erase({<<s, t>>})]
  <2>1. Begin(w, u)
    BY <1>3 DEF RemoveMember
  <2>2. u.team = NoWrites /\ u.member = Erase({<<s, t>>}) /\ u.orphan = {}
    BY DEF Blank
  <2> HIDE DEF u
  <2>3. /\ Erased(u.team) = {} /\ Kept(u.member) = {}
        /\ Erased(u.member) = {<<s, t>>}
    BY <2>2, EraseKinds, NoWritesKinds
  <2>4. Orderly(u)
    BY <2>2, <2>3, OrderlyWithoutCascade
  <2> QED
    BY <2>1, <2>4, BeginsOrderly
<1> QED
  BY <1>1, <1>2, <1>3 DEF TeamOps, LeaveTeam, ChangeLeader, AddMember

(* The last statement of a call settles on an orderly unit of work; the      *)
(* others leave it blank.                                                    *)
LEMMA TakesOutOrderly ==
  ASSUME NEW r, NEW u, Erased(u.team) = {},
         u.member = TakesOut(r).member, u.orphan = TakesOut(r).orphan
  PROVE  Orderly(u)
<1> DEFINE k == <<r.student, r.team>>
<1>1. \/ TakesOut(r).member = Erase({k}) /\ TakesOut(r).orphan = {}
      \/ TakesOut(r).member = NoWrites /\ TakesOut(r).orphan = {k}
  BY DEF TakesOut, Blank
<1> HIDE DEF k
<1>2. \/ Kept(u.member) = {} /\ Erased(u.member) = {k} /\ u.orphan = {}
      \/ Kept(u.member) = {} /\ Erased(u.member) = {} /\ u.orphan = {k}
  BY <1>1, EraseKinds, NoWritesKinds
<1> QED
  BY <1>2, OrderlyWithoutCascade

LEMMA TeamReadsSettleOrderly ==
  ASSUME IInv, NEW w \in Workers, TeamReads(w)
  PROVE  SettlesOrderly(w) \/ UNCHANGED <<tables, tx, stale>>
<1> DEFINE r == reading[w]
<1>1. CASE \E statement : ReadOn(w, statement)
  BY <1>1 DEF ReadOn
<1>2. CASE CountMembers(w) /\ ~\E statement : ReadOn(w, statement)
  <2>1. /\ Reaches(w, "count")
        /\ \/ /\ Decide(w, CascadeTeams("leaveTeam", {r.team}, r.bag \X {r.team}))
              /\ stale' = stale \cup {x \in {w} : r.lost}
           \/ Decide(w, TakesOut(r)) /\ stale' = stale
    BY <1>2 DEF CountMembers
  <2>2. r.team \in Teams /\ team[r.team] # Null
    BY <2>1, Reached
  <2>3. CASE /\ Decide(w, CascadeTeams("leaveTeam", {r.team}, r.bag \X {r.team}))
             /\ stale' = stale \cup {x \in {w} : r.lost}
    <3> DEFINE gone   == {r.team}
               loaded == r.bag \X {r.team}
               u == CascadeTeams("leaveTeam", gone, loaded)
    <3>1. /\ gone \in SUBSET Teams /\ gone # {}
          /\ \A t1, t2 \in gone : team[t1] # Null /\ team[t1].project = team[t2].project
          /\ \A k \in loaded : k[2] \in gone
      BY <2>2
    <3> HIDE DEF gone, loaded
    <3>2. Orderly(u)
      BY <3>1, OrderlyCascade
    <3>3. Decide(w, u) /\ stale \subseteq stale' /\ stale' \subseteq stale \cup {w}
      BY <2>3 DEF gone, loaded
    <3> HIDE DEF u
    <3> QED
      BY <3>2, <3>3, DecidesOrderly
  <2>4. CASE Decide(w, TakesOut(r)) /\ stale' = stale
    <3>1. Erased(TakesOut(r).team) = {}
      BY TakesOutFields, NoWritesKinds
    <3>2. Orderly(TakesOut(r))
      BY <3>1, TakesOutOrderly
    <3> QED
      BY <2>4, <3>2, DecidesOrderly
  <2> QED
    BY <2>1, <2>3, <2>4
<1>3. CASE PromoteHeir(w)
  <2>1. PICK heir \in Students :
          /\ Reaches(w, "heir") /\ stale' = stale
          /\ Decide(w, [TakesOut(r) EXCEPT !.team = NewLeader(r, heir)])
    BY <1>3 DEF PromoteHeir, MembersOf
  <2> DEFINE u == [TakesOut(r) EXCEPT !.team = NewLeader(r, heir)]
  <2>2. /\ u.team = NewLeader(r, heir)
        /\ u.member = TakesOut(r).member /\ u.orphan = TakesOut(r).orphan
    BY DEF TakesOut, Blank
  <2>3. Erased(NewLeader(r, heir)) = {}
    BY <2>1, Reached, NewLeaderKinds
  <2>4. Decide(w, u)
    BY <2>1
  <2> HIDE DEF u
  <2>5. Orderly(u)
    BY <2>2, <2>3, TakesOutOrderly
  <2> QED
    BY <2>1, <2>4, <2>5, DecidesOrderly
<1>4. CASE AppointLeader(w)
  <2> DEFINE u == [Blank("changeLeader") EXCEPT !.team = NewLeader(r, r.student)]
  <2>1. Reaches(w, "appoint") /\ Decide(w, u) /\ stale' = stale
    BY <1>4 DEF AppointLeader
  <2>2. u.team = NewLeader(r, r.student) /\ u.member = NoWrites /\ u.orphan = {}
    BY DEF Blank
  <2> HIDE DEF u
  <2>3. Erased(NewLeader(r, r.student)) = {}
    BY <2>1, Reached, NewLeaderKinds
  <2>4. Orderly(u)
    BY <2>2, <2>3, NoWritesKinds, OrderlyWithoutCascade
  <2> QED
    BY <2>1, <2>4, DecidesOrderly
<1>5. CASE InsertMember(w)
  <2> DEFINE k   == <<r.student, r.team>>
             p   == team[k[2]].project
             ins == Put(k, p)
             e   == {<<k[1], p>>}
             u   == [Blank("addMember") EXCEPT !.event = e, !.member = ins]
  <2>1. Reaches(w, "insert") /\ Decide(w, u) /\ stale' = stale
    BY <1>5 DEF InsertMember
  <2>2. p \in Projects
    BY <2>1, Reached DEF TeamRow
  <2> HIDE DEF e, ins
  <2>3. u.team = NoWrites /\ u.member = ins /\ u.orphan = {}
    BY DEF Blank
  <2> HIDE DEF u, p, k
  <2>4. Orderly(u)
    BY <2>2, <2>3, NoWritesKinds, InsertsOrderly DEF ins
  <2> QED
    BY <2>1, <2>4, DecidesOrderly
<1> QED
  BY <1>1, <1>2, <1>3, <1>4, <1>5 DEF TeamReads, FindMember

-----------------------------------------------------------------------------
(* DepartInv holds next to IInv. *)

LEMMA SettlesKeepsDepart ==
  ASSUME IInv, DepartInv, NEW w \in Workers, SettlesOrderly(w)
  PROVE  DepartInv'
<1>0. PICK u, r : Settles(w, u, r) /\ Orderly(u)
  BY DEF SettlesOrderly
<1>1. /\ tx' = [tx EXCEPT ![w] = u]
      /\ stale \subseteq stale' /\ UNCHANGED team
      /\ tx \in [Workers -> Work \cup {Null}]
  BY <1>0 DEF Settles, tables, IInv, TypeOK
<1>2. /\ tx'[w] = u
      /\ \A x \in Workers \ {w} : tx'[x] = tx[x]
      /\ \A x \in Open' : x \in Workers /\ (x # w => x \in Open)
  BY <1>1 DEF Open
<1>3. ASSUME NEW x \in Open'
      PROVE  Departs(tx[x])'
  BY <1>0, <1>2 DEF DepartInv, Orderly, Departs, Kept, Erased
<1>4. ASSUME NEW x \in Open' \ stale'
      PROVE  DisbandsOneProject(tx[x])'
  BY <1>0, <1>1, <1>2 DEF DepartInv, Orderly, DisbandsOneProject, Erased
<1> QED
  BY <1>3, <1>4 DEF DepartInv

(* A step after which the open units of work are some of those before, with  *)
(* the same teams and members.                                               *)
LEMMA SameWorkKeepsDepart ==
  ASSUME IInv, DepartInv, UNCHANGED team, stale' = stale \cap Open',
         \A x \in Open' : /\ x \in Open
                          /\ tx'[x].team = tx[x].team
                          /\ tx'[x].member = tx[x].member
                          /\ tx'[x].orphan = tx[x].orphan
  PROVE  DepartInv'
<1>1. ASSUME NEW x \in Open'
      PROVE  Departs(tx[x])'
  BY DEF DepartInv, Departs, Kept, Erased
<1>2. ASSUME NEW x \in Open' \ stale'
      PROVE  DisbandsOneProject(tx[x])'
  BY DEF DepartInv, DisbandsOneProject, Erased
<1> QED
  BY <1>1, <1>2 DEF DepartInv

LEMMA ListenerKeepsDepart ==
  ASSUME IInv, DepartInv, NEW w \in Workers,
         AutoFlush(w) \/ HandleStudentJoinedTeam(w)
  PROVE  DepartInv'
<1>1. /\ tx \in [Workers -> Work \cup {Null}]
      /\ stale \subseteq Open
      /\ w \in Open \ stale
      /\ UNCHANGED <<team, stale>>
  BY DEF IInv, TypeOK, AutoFlush, HandleStudentJoinedTeam, tables
<1>2. tx[w] \in Work
  BY <1>1 DEF Open
<1>3. /\ tx'[w].team = tx[w].team /\ tx'[w].member = tx[w].member
      /\ tx'[w].orphan = tx[w].orphan
  <2>1. CASE AutoFlush(w)
    BY <1>1, <1>2, <2>1 DEF AutoFlush, Work
  <2>2. CASE HandleStudentJoinedTeam(w)
    <3>1. PICK new : tx' = [tx EXCEPT ![w].event = {}, ![w].request = new]
      BY <2>2 DEF HandleStudentJoinedTeam
    <3> QED
      BY <1>1, <1>2, <3>1 DEF Work
  <2> QED
    BY <2>1, <2>2
<1>4. \A x \in Workers \ {w} : tx'[x] = tx[x]
  BY <1>1 DEF AutoFlush, HandleStudentJoinedTeam
<1> QED
  BY <1>1, <1>3, <1>4, SameWorkKeepsDepart DEF Open

LEMMA RollbackKeepsDepart ==
  ASSUME IInv, DepartInv, NEW w \in Workers, Rollback(w)
  PROVE  DepartInv'
<1>1. /\ tx \in [Workers -> Work \cup {Null}]
      /\ stale \subseteq Open
      /\ UNCHANGED team
      /\ stale' = stale \ {w}
  BY DEF IInv, TypeOK, Rollback, tables
<1>2. tx'[w] = Null /\ \A x \in Workers \ {w} : tx'[x] = tx[x]
  BY <1>1 DEF Rollback
<1> QED
  BY <1>1, <1>2, SameWorkKeepsDepart DEF Open

LEMMA CommitKeepsDepart ==
  ASSUME IInv, DepartInv, NEW w \in Workers, Commit(w)
  PROVE  DepartInv'
<1> DEFINE u == tx[w]
<1>1. TypeOK /\ w \in Open \ stale /\ u \in Work
  BY DEF IInv, TypeOK, Commit, Open
<1>2. \A x \in Open' : x \in Open /\ tx'[x] = tx[x] /\ x \in Workers
  BY <1>1, CommitRows DEF Open
<1>3. ASSUME NEW x \in Open'
      PROVE  Departs(tx[x])'
  BY <1>2 DEF DepartInv, Departs, Kept, Erased
<1>4. ASSUME NEW x \in Open' \ stale'
      PROVE  DisbandsOneProject(tx[x])'
  <2> DEFINE v == tx[x]
  <2>1. x \in Open \ stale /\ ~Overtakes(u, v) /\ tx'[x] = v /\ v \in Work
    BY <1>1, <1>2, CommitRows DEF Open, TypeOK
  <2>2. DisbandsOneProject(v)
    BY <2>1 DEF DepartInv
  <2>3. ASSUME NEW t \in Erased(v.team)
        PROVE  team[t] # Null /\ team'[t] # Null /\ team'[t].project = team[t].project
    <3>1. t \in Teams /\ t \in DOMAIN v.team /\ team[t] # Null
      BY <2>1, <2>2, WorkFields DEF DisbandsOneProject, Erased
    <3>2. t \notin Erased(u.team)
      BY <2>1, <3>1 DEF Overtakes
    <3>3. team'[t] # Null
      BY <1>1, <3>1, <3>2, CommitRows DEF Erased
    <3> QED
      BY <3>1, <3>3, CommitKeepsProject
  <2>4. \A t1, t2 \in Erased(v.team) : team'[t1] # Null /\ team'[t1].project = team'[t2].project
    BY <2>2, <2>3 DEF DisbandsOneProject
  <2> QED
    BY <2>1, <2>4 DEF DisbandsOneProject, Erased
<1> QED
  BY <1>3, <1>4 DEF DepartInv

LEMMA DepartHolds == Spec => []DepartInv
<1>1. Init => DepartInv
  BY DEF Init, DepartInv, Open
<1>2. ASSUME IInv, DepartInv, NEW w \in Workers, Step(w)
      PROVE  DepartInv'
  <2>1. CASE ProjectOps(w) \/ TeamOps(w) \/ JoinRequestOps(w)
    BY <1>2, <2>1, ProjectOpsSettleOrderly, TeamOpsSettleOrderly, JoinRequestOpsSettleOrderly,
       SettlesKeepsDepart
  <2>2. CASE TeamReads(w)
    <3>1. CASE UNCHANGED <<tables, tx, stale>>
      BY <1>2, <3>1
      DEF tables, DepartInv, Open, Departs, DisbandsOneProject, Kept, Erased
    <3> QED
      BY <1>2, <2>2, <3>1, TeamReadsSettleOrderly, SettlesKeepsDepart
  <2> QED
    BY <1>2, <2>1, <2>2, ListenerKeepsDepart, CommitKeepsDepart, RollbackKeepsDepart DEF Step
<1>3. IInv /\ DepartInv /\ UNCHANGED vars => DepartInv'
  BY DEF vars, DepartInv, Open, Departs, DisbandsOneProject, Kept, Erased
<1>4. IInv /\ DepartInv /\ [Next]_vars => DepartInv'
  BY <1>2, <1>3 DEF Next
<1> QED
  BY <1>1, <1>4, InvariantHolds, PTL DEF Spec

-----------------------------------------------------------------------------
(* Reading the member rows as the registry. *)

(* The teams in which rows m put student s in project p, those of o having    *)
(* none; and the one of them.                                                *)
TeamsIn(m, o, s, p) == {t \in Teams : m[<<s, t>>] = p /\ <<s, t>> \notin o}
Only(own)        == IF own = {} THEN Null ELSE CHOOSE t \in own : TRUE

LEMMA OnlyOne ==
  ASSUME NEW own \in SUBSET Teams, \A t1, t2 \in own : t1 = t2
  PROVE  /\ own = {} => Only(own) = Null
         /\ \A t \in Teams : Only(own) = t <=> t \in own
         /\ Only(own) \in Teams \cup {Null}
<1>1. CASE own = {}
  BY <1>1, StoreAssumption DEF Only
<1>2. CASE own # {}
  <2>1. PICK t \in own : TRUE
    BY <1>2
  <2>2. own = {t}
    BY <2>1
  <2>3. Only(own) = t
    BY <2>2 DEF Only
  <2> QED
    BY <2>2, <2>3
<1> QED
  BY <1>1, <1>2

LEMMA TeamsInOne ==
  ASSUME UniqueKeys, NEW s \in Students, NEW p \in Projects
  PROVE  /\ TeamsIn(member, orphan, s, p) \in SUBSET Teams
         /\ \A t1, t2 \in TeamsIn(member, orphan, s, p) : t1 = t2
  BY StoreAssumption DEF UniqueKeys, TeamsIn

TeamOf == [e \in Students \X Projects |-> Only(TeamsIn(member, orphan, e[1], e[2]))]

(* Registry reads the member rows through TeamOf, before and after a step.   *)
LEMMA RegistryReadsTeamOf ==
  /\ [e \in Students \X Projects |-> CurrentTeam(e[1], e[2])] = TeamOf
  /\ [e \in Students \X Projects |-> CurrentTeam(e[1], e[2])]' = TeamOf'
<1>1. ASSUME NEW s \in Students, NEW p \in Projects
      PROVE  /\ CurrentTeam(s, p) = Only(TeamsIn(member, orphan, s, p))
             /\ CurrentTeam(s, p)' = Only(TeamsIn(member, orphan, s, p))'
  <2>1. p # Null
    BY StoreAssumption
  <2>2. {t \in Teams : InTeam(s, t) /\ member[<<s, t>>] = p} = TeamsIn(member, orphan, s, p)
    BY <2>1 DEF InTeam, TeamsIn
  <2>3. {t \in Teams : InTeam(s, t) /\ member[<<s, t>>] = p}' = TeamsIn(member, orphan, s, p)'
    BY <2>1 DEF InTeam, TeamsIn
  <2>4. /\ CurrentTeam(s, p) = Only({t \in Teams : InTeam(s, t) /\ member[<<s, t>>] = p})
        /\ CurrentTeam(s, p)' = Only({t \in Teams : InTeam(s, t) /\ member[<<s, t>>] = p}')
    BY DEF CurrentTeam, Only
  <2> QED
    BY <2>2, <2>3, <2>4
<1> QED
  BY <1>1 DEF TeamOf

(* A row of the registry, if the member rows before are unique.              *)
LEMMA TeamOfRow ==
  ASSUME UniqueKeys, NEW s \in Students, NEW p \in Projects
  PROVE  /\ TeamsIn(member, orphan, s, p) = {} => TeamOf[<<s, p>>] = Null
         /\ \A t \in Teams : TeamOf[<<s, p>>] = t <=>
                             member[<<s, t>>] = p /\ <<s, t>> \notin orphan
         /\ TeamOf[<<s, p>>] \in Teams \cup {Null}
<1>1. TeamOf[<<s, p>>] = Only(TeamsIn(member, orphan, s, p))
  BY DEF TeamOf
<1> DEFINE own == TeamsIn(member, orphan, s, p)
<1>2. \A t \in Teams : t \in own <=> member[<<s, t>>] = p /\ <<s, t>> \notin orphan
  BY DEF TeamsIn
<1>3. own \in SUBSET Teams /\ \A t1, t2 \in own : t1 = t2
  BY TeamsInOne
<1> HIDE DEF own
<1>4. /\ own = {} => Only(own) = Null
      /\ \A t \in Teams : Only(own) = t <=> t \in own
      /\ Only(own) \in Teams \cup {Null}
  BY <1>3, OnlyOne
<1> QED
  BY <1>1, <1>2, <1>4 DEF own

-----------------------------------------------------------------------------
(* A commit is a step of the registry. *)

LEMMA CommitJoins ==
  ASSUME IInv, DepartInv, NEW w \in Workers, Commit(w),
         NEW k \in Kept(tx[w].member)
  PROVE  \E s \in Students, p \in Projects, t \in Teams :
           /\ TeamOf[<<s, p>>] = Null
           /\ \A e \in Students \X Projects : TeamOf[e] = t => e[2] = p
           /\ TeamOf' = [TeamOf EXCEPT ![<<s, p>>] = t]
<1> DEFINE u == tx[w]
           s == k[1]
           t == k[2]
           p == u.member[k]
<1>1. /\ TypeOK /\ RowsAgree /\ UniqueKeys /\ PlacesAgree
      /\ w \in Open \ stale /\ u \in Work /\ Sound(u)
      /\ TeamsCurrent(w, u) /\ MembersCurrent(u) /\ UniqueMember(u)
  BY DEF IInv, TypeOK, Commit, Open, Current
<1>2. Kept(u.member) = {k} /\ Erased(u.member) = {} /\ u.orphan = {}
  BY <1>1 DEF DepartInv, Departs, Sound
<1>3. /\ k \in MemberKey /\ k \in DOMAIN u.member
      /\ p \in Projects /\ p # Null
      /\ s \in Students /\ t \in Teams /\ k = <<s, t>>
  BY <1>1, <1>2, WorkFields, PartialFnElim DEF Kept, MemberKey
<1>4. DOMAIN u.member = {k}
  BY <1>2 DEF Kept, Erased
<1>5. \A x \in Teams : member[<<s, x>>] # p
  BY <1>1, <1>2, <1>3 DEF UniqueMember
<1>6. TeamOf[<<s, p>>] = Null
  BY <1>1, <1>3, <1>5, TeamOfRow DEF TeamsIn
<1>7. ASSUME NEW e \in Students \X Projects, TeamOf[e] = t
      PROVE  e[2] = p
  <2>1. /\ member[<<e[1], t>>] = e[2] /\ <<e[1], t>> \in MemberKey \ orphan
        /\ e[1] \in Students /\ e[2] # Null
    BY <1>1, <1>3, <1>7, TeamOfRow, StoreAssumption DEF MemberKey
  <2>2. team[t] # Null /\ team[t].project = e[2]
    BY <1>1, <1>3, <2>1 DEF RowsAgree, InTeam
  <2> QED
    BY <1>1, <1>2, <2>2 DEF MembersCurrent
<1>8. \A x \in MemberKey : member'[x] = IF x = k THEN p ELSE member[x]
  BY <1>1, <1>4, CommitRows
<1>9. member[k] = Null
  <2>1. SUFFICES ASSUME member[k] # Null
                 PROVE  FALSE
    OBVIOUS
  <2>2. CASE team[t] # Null
    <3>1. team[t].project = member[k]
      BY <1>1, <1>3, <2>1, <2>2 DEF PlacesAgree
    <3> QED
      BY <1>1, <1>2, <1>3, <1>5, <2>2, <3>1 DEF MembersCurrent
  <2>3. CASE team[t] = Null
    <3>1. t \in Kept(u.team)
      BY <1>1, <1>2, <1>3, <2>3 DEF MembersCurrent
    <3> QED
      BY <1>1, <1>3, <2>1, <2>3, <3>1 DEF TeamsCurrent
  <2> QED
    BY <2>2, <2>3
<1>13. orphan' = orphan /\ k \notin orphan
  <2>1. orphan' = (orphan \cup u.orphan) \ Erased(u.member)
    BY CommitRows
  <2>2. k \notin orphan
    BY <1>1, <1>9 DEF TypeOK
  <2> QED
    BY <1>2, <2>1, <2>2
<1>10. ASSUME NEW e \in Students \X Projects
       PROVE  TeamsIn(member', orphan', e[1], e[2]) =
                IF e = <<s, p>> THEN {t} ELSE TeamsIn(member, orphan, e[1], e[2])
  <2>1. e[1] \in Students /\ e[2] \in Projects /\ e = <<e[1], e[2]>> /\ e[2] # Null
    BY StoreAssumption
  <2>2. \A x \in Teams : <<e[1], x>> \in MemberKey
    BY DEF MemberKey
  <2>3. \A x \in Teams : member'[<<e[1], x>>] = e[2] <=>
                           IF e = <<s, p>> THEN x = t ELSE member[<<e[1], x>>] = e[2]
    BY <1>3, <1>5, <1>8, <1>9, <2>1, <2>2
  <2> QED
    BY <1>3, <1>13, <2>1, <2>3 DEF TeamsIn
<1>11. Only({t}) = t
  BY DEF Only
<1>12. TeamOf' = [TeamOf EXCEPT ![<<s, p>>] = t]
  BY <1>10, <1>11 DEF TeamOf
<1> QED
  BY <1>3, <1>6, <1>7, <1>12

(* A member leaves by the row going, or by its team being set to null. *)
LEMMA CommitLeaves ==
  ASSUME IInv, DepartInv, NEW w \in Workers, Commit(w),
         Kept(tx[w].member) = {}, Erased(tx[w].team) = {},
         NEW k \in Erased(tx[w].member) \cup tx[w].orphan, member[k] # Null, k \notin orphan
  PROVE  \E s \in Students, p \in Projects :
           /\ TeamOf[<<s, p>>] # Null
           /\ TeamOf' = [TeamOf EXCEPT ![<<s, p>>] = Null]
<1> DEFINE u == tx[w]
           s == k[1]
           t == k[2]
           p == member[k]
<1>1. TypeOK /\ UniqueKeys /\ w \in Open \ stale /\ u \in Work /\ Departs(u)
  BY DEF IInv, TypeOK, Commit, Open, DepartInv
<1>2. \/ Erased(u.member) = {k} /\ u.orphan = {}
      \/ Erased(u.member) = {} /\ u.orphan = {k}
  BY <1>1 DEF Departs
<1>3. k \in MemberKey /\ (k \in Erased(u.member) => u.member[k] = Null)
  BY <1>1, WorkFields DEF Erased
<1>4. p \in Projects /\ s \in Students /\ t \in Teams /\ k = <<s, t>> /\ p # Null
  BY <1>1, <1>3 DEF TypeOK, MemberKey
<1>5. DOMAIN u.member = Erased(u.member)
  BY DEF Kept, Erased
<1>6. ASSUME NEW x \in MemberKey
      PROVE  IF x = k THEN member'[x] = Null \/ x \in orphan'
                      ELSE member'[x] = member[x] /\ (x \in orphan' <=> x \in orphan)
  BY <1>1, <1>2, <1>3, <1>5, CommitRows
<1>7. TeamOf[<<s, p>>] = t /\ t # Null
  BY <1>1, <1>4, TeamOfRow, StoreAssumption
<1>8. ASSUME NEW e \in Students \X Projects
      PROVE  TeamsIn(member', orphan', e[1], e[2]) =
               IF e = <<s, p>> THEN {} ELSE TeamsIn(member, orphan, e[1], e[2])
  <2>1. e[1] \in Students /\ e[2] \in Projects /\ e = <<e[1], e[2]>> /\ e[2] # Null
    BY StoreAssumption
  <2>2. \A x \in Teams : <<e[1], x>> \in MemberKey
    BY DEF MemberKey
  <2>3. \A x \in Teams : member[<<s, x>>] = p => x = t
    BY <1>1, <1>4 DEF UniqueKeys
  <2>4. ASSUME NEW x \in Teams
        PROVE  member'[<<e[1], x>>] = e[2] /\ <<e[1], x>> \notin orphan' <=>
                 e # <<s, p>> /\ member[<<e[1], x>>] = e[2] /\ <<e[1], x>> \notin orphan
    <3>1. CASE <<e[1], x>> = k
      <4>1. member'[k] = Null \/ k \in orphan'
        BY <1>3, <1>6
      <4>2. e[1] = s /\ x = t
        BY <1>4, <3>1
      <4> QED
        BY <1>4, <2>1, <3>1, <4>1, <4>2
    <3>2. CASE <<e[1], x>> # k
      <4>1. /\ member'[<<e[1], x>>] = member[<<e[1], x>>]
            /\ <<e[1], x>> \in orphan' <=> <<e[1], x>> \in orphan
        BY <1>6, <2>2, <3>2
      <4>2. e = <<s, p>> => member[<<e[1], x>>] # e[2]
        BY <1>4, <2>3, <3>2
      <4> QED
        BY <4>1, <4>2
    <3> QED
      BY <3>1, <3>2
  <2> QED
    BY <2>4 DEF TeamsIn
<1>9. Only({}) = Null
  BY DEF Only
<1>10. TeamOf' = [TeamOf EXCEPT ![<<s, p>>] = Null]
  BY <1>8, <1>9 DEF TeamOf
<1> QED
  BY <1>4, <1>7, <1>10

LEMMA CommitDisbands ==
  ASSUME IInv, DepartInv, NEW w \in Workers, Commit(w), Erased(tx[w].team) # {}
  PROVE  \E p \in Projects, gone \in SUBSET Teams :
           /\ \A e \in Students \X Projects : TeamOf[e] \in gone => e[2] = p
           /\ TeamOf' = [e \in Students \X Projects |->
                           IF TeamOf[e] \in gone THEN Null ELSE TeamOf[e]]
<1> DEFINE u    == tx[w]
           gone == Erased(u.team)
<1>1. /\ TypeOK /\ RowsAgree /\ UniqueKeys /\ w \in Open \ stale /\ u \in Work
      /\ ForeignKeys(project', team', member', orphan', request')
  BY DEF IInv, TypeOK, Commit, Open
<1>2. /\ Kept(u.member) = {} /\ u.orphan = {}
      /\ \A k \in Erased(u.member) : k[2] \in gone
      /\ DisbandsOneProject(u)
  BY <1>1 DEF DepartInv, Departs
<1>3. gone \in SUBSET Teams /\ \A t \in gone : t \in DOMAIN u.team /\ u.team[t] = Null
  BY <1>1, WorkFields DEF Erased
<1>4. PICK p \in Projects : \A t \in gone : team[t] # Null /\ team[t].project = p
  <2>1. PICK t0 \in gone : TRUE
    OBVIOUS
  <2>2. \A t \in gone : team[t] # Null /\ team[t].project = team[t0].project
    BY <1>2 DEF DisbandsOneProject
  <2>3. team[t0].project \in Projects
    BY <1>1, <1>3, <2>2 DEF TypeOK, TeamRow
  <2> QED
    BY <2>2, <2>3
<1>5. ASSUME NEW e \in Students \X Projects, TeamOf[e] \in gone
      PROVE  e[2] = p
  <2> DEFINE t == TeamOf[e]
  <2>1. /\ member[<<e[1], t>>] = e[2] /\ <<e[1], t>> \in MemberKey \ orphan
        /\ e[1] \in Students /\ t \in Teams /\ e[2] # Null
    BY <1>1, <1>3, <1>5, TeamOfRow, StoreAssumption DEF MemberKey
  <2>2. team[t].project = e[2]
    BY <1>1, <2>1 DEF RowsAgree, InTeam
  <2> QED
    BY <1>4, <1>5, <2>2
<1>6. ASSUME NEW k \in MemberKey
      PROVE  IF k[2] \in gone
             THEN member'[k] = Null \/ k \in orphan'
             ELSE member'[k] = member[k] /\ (k \in orphan' <=> k \in orphan)
  <2>1. CASE k[2] \in gone
    <3>1. team'[k[2]] = Null
      BY <1>1, <1>3, <2>1, CommitRows
    <3> QED
      BY <1>1, <2>1, <3>1 DEF ForeignKeys
  <2>2. CASE k[2] \notin gone
    <3>1. k \notin DOMAIN u.member /\ k \notin Erased(u.member)
      BY <1>2, <2>2 DEF Kept, Erased
    <3> QED
      BY <1>1, <1>2, <2>2, <3>1, CommitRows
  <2> QED
    BY <2>1, <2>2
<1>7. ASSUME NEW e \in Students \X Projects
      PROVE  Only(TeamsIn(member', orphan', e[1], e[2])) = IF TeamOf[e] \in gone THEN Null ELSE TeamOf[e]
  <2> DEFINE own == TeamsIn(member, orphan, e[1], e[2])
  <2>1. e[1] \in Students /\ e[2] \in Projects /\ e = <<e[1], e[2]>> /\ e[2] # Null
    BY StoreAssumption
  <2>2. \A x \in Teams : <<e[1], x>> \in MemberKey /\ <<e[1], x>>[2] = x
    BY DEF MemberKey
  <2>3. TeamsIn(member', orphan', e[1], e[2]) = own \ gone
    BY <1>6, <2>1, <2>2 DEF TeamsIn
  <2>4. TeamOf[e] = Only(own)
    BY DEF TeamOf
  <2>5. own \in SUBSET Teams /\ \A t1, t2 \in own : t1 = t2
    BY <1>1, <2>1, TeamsInOne
  <2> HIDE DEF own, gone
  <2>6. CASE own = {}
    BY <1>3, <2>3, <2>4, <2>6, StoreAssumption DEF Only
  <2>7. ASSUME NEW t \in own
        PROVE  Only(own \ gone) = IF Only(own) \in gone THEN Null ELSE Only(own)
    <3>1. own = {t}
      BY <2>5
    <3>2. Only({t}) = t /\ Only({}) = Null
      BY DEF Only
    <3>3. CASE t \in gone
      <4>1. own \ gone = {}
        BY <3>1, <3>3
      <4> QED
        BY <3>1, <3>2, <3>3, <4>1
    <3>4. CASE t \notin gone
      <4>1. own \ gone = {t}
        BY <3>1, <3>4
      <4> QED
        BY <3>1, <3>2, <3>4, <4>1
    <3> QED
      BY <3>3, <3>4
  <2> QED
    BY <2>3, <2>4, <2>6, <2>7
<1>8. TeamOf' = [e \in Students \X Projects |-> IF TeamOf[e] \in gone THEN Null ELSE TeamOf[e]]
  BY <1>7 DEF TeamOf
<1> QED
  BY <1>3, <1>5, <1>8

LEMMA SameMembersSameTeams ==
  ASSUME \A k \in MemberKey, p \in Projects :
           member'[k] = p /\ k \notin orphan' <=> member[k] = p /\ k \notin orphan
  PROVE  TeamOf' = TeamOf
<1>1. ASSUME NEW s \in Students, NEW p \in Projects
      PROVE  TeamsIn(member', orphan', s, p) = TeamsIn(member, orphan, s, p)
  BY DEF TeamsIn, MemberKey
<1> QED
  BY <1>1 DEF TeamOf

LEMMA CommitIsRegistryStep ==
  ASSUME IInv, DepartInv, NEW w \in Workers, Commit(w)
  PROVE  Registry!Next \/ TeamOf' = TeamOf
<1> DEFINE u == tx[w]
<1>1. TypeOK /\ w \in Open \ stale /\ u \in Work
  BY DEF IInv, TypeOK, Commit, Open
<1>2. CASE Erased(u.team) # {}
  <2>1. PICK p \in Projects, gone \in SUBSET Teams :
          /\ \A e \in Students \X Projects : TeamOf[e] \in gone => e[2] = p
          /\ TeamOf' = [e \in Students \X Projects |->
                          IF TeamOf[e] \in gone THEN Null ELSE TeamOf[e]]
    BY <1>2, CommitDisbands, Zenon
  <2>2. Registry!Disband(p, gone)
    BY <2>1, RegistryReadsTeamOf, Zenon DEF Registry!Disband, Registry!Enrolment
  <2> QED
    BY <2>2 DEF Registry!Next
<1>3. CASE \E k : k \in Kept(u.member)
  <2>1. PICK s \in Students, p \in Projects, t \in Teams :
          /\ TeamOf[<<s, p>>] = Null
          /\ \A e \in Students \X Projects : TeamOf[e] = t => e[2] = p
          /\ TeamOf' = [TeamOf EXCEPT ![<<s, p>>] = t]
    BY <1>3, CommitJoins, Zenon
  <2>2. Registry!Join(s, p, t)
    BY <2>1, RegistryReadsTeamOf, Zenon DEF Registry!Join, Registry!Enrolment
  <2> QED
    BY <2>2 DEF Registry!Next
<1>4. CASE /\ Erased(u.team) = {} /\ Kept(u.member) = {}
           /\ \E k \in Erased(u.member) \cup u.orphan : member[k] # Null /\ k \notin orphan
  <2>1. \E s \in Students, p \in Projects : Registry!Leave(s, p)
    BY <1>4, CommitLeaves, RegistryReadsTeamOf DEF Registry!Leave
  <2> QED
    BY <2>1 DEF Registry!Next
<1>5. CASE /\ Kept(u.member) = {}
           /\ \A k \in Erased(u.member) \cup u.orphan : member[k] = Null \/ k \in orphan
  <2>1. ASSUME NEW k \in MemberKey, NEW p \in Projects
        PROVE  member'[k] = p /\ k \notin orphan' <=> member[k] = p /\ k \notin orphan
    <3>1. p # Null
      BY StoreAssumption
    <3>2. CASE k \in Erased(u.member)
      <4>1. member'[k] = Null
        BY <1>1, <3>2, CommitRows DEF Erased
      <4>2. member[k] = Null \/ k \in orphan
        BY <1>5, <3>2
      <4> QED
        BY <3>1, <4>1, <4>2
    <3>3. CASE k \notin Erased(u.member)
      <4>1. member'[k] = member[k]
        BY <1>1, <1>5, <3>3, CommitRows DEF Kept, Erased
      <4>2. k \in orphan' <=> k \in orphan \/ k \in u.orphan
        BY <1>1, <3>3, CommitRows
      <4> QED
        BY <1>5, <3>1, <4>1, <4>2
    <3> QED
      BY <3>2, <3>3
  <2> QED
    BY <2>1, SameMembersSameTeams
<1> QED
  BY <1>2, <1>3, <1>4, <1>5

(* The member rows implement the registry of Membership: however operations, *)
(* listeners, commits and rollbacks interleave, a student joins a team only  *)
(* out of none, leaves alone, or loses the team with all its members.        *)
THEOREM MembershipImplemented == Spec => ImplementsMembership
<1>1. Init => Registry!Init
  <2>1. SUFFICES ASSUME Init
                 PROVE  TeamOf = [e \in Students \X Projects |-> Null]
    BY RegistryReadsTeamOf DEF Registry!Init, Registry!Enrolment
  <2>2. ASSUME NEW e \in Students \X Projects
        PROVE  TeamsIn(member, orphan, e[1], e[2]) = {}
    <3>1. e[2] # Null /\ \A t \in Teams : <<e[1], t>> \in MemberKey
      BY StoreAssumption DEF MemberKey
    <3>2. \A t \in Teams : member[<<e[1], t>>] = Null
      BY <2>1, <3>1 DEF Init
    <3> QED
      BY <3>1, <3>2 DEF TeamsIn
  <2> QED
    BY <2>2 DEF TeamOf, Only
<1>2. ASSUME IInv, DepartInv, [Next]_vars
      PROVE  Registry!Next \/ TeamOf' = TeamOf
  <2>1. CASE UNCHANGED tables
    BY <2>1, SameMembersSameTeams DEF tables
  <2>2. CASE \E w \in Workers : Commit(w)
    BY <1>2, <2>2, CommitIsRegistryStep
  <2> QED
    BY <1>2, <2>1, <2>2, OtherStepsKeepTables DEF Next, vars, tables
<1>3. TeamOf' = TeamOf =>
        UNCHANGED [e \in Students \X Projects |-> CurrentTeam(e[1], e[2])]
  BY RegistryReadsTeamOf
<1> QED
  BY <1>1, <1>2, <1>3, InvariantHolds, DepartHolds, PTL
  DEF Spec, ImplementsMembership, Registry!Spec

-----------------------------------------------------------------------------
(* Promises to a caller that is alone: with one worker the unit of work      *)
(* commits to the tables it has read.                                        *)

Promised(u) == u.orphan = {} /\ JoinsWithRoom(u) /\ JoinIsAnnounced(u) /\ LeaderIsHeld(u)

SettlesPromised(w) ==
  \E u, r : Settles(w, u, r) /\ Promised(u) /\ (r # Null => ReadingHolds(u, r))

LEMMA BeginsPromised ==
  ASSUME IInv, NEW w \in Workers, NEW u, Begin(w, u), Promised(u)
  PROVE  SettlesPromised(w)
  BY BeginSettles DEF SettlesPromised

LEMMA DecidesPromised ==
  ASSUME NEW w \in Workers, NEW u, Decide(w, u), Promised(u),
         stale \subseteq stale' /\ stale' \subseteq stale \cup {w}
  PROVE  SettlesPromised(w)
  BY DecideSettles DEF SettlesPromised

LEMMA PromisedWithoutTeams ==
  ASSUME NEW u, u.team = NoWrites, u.member = NoWrites, u.orphan = {}
  PROVE  Promised(u)
<1>1. DOMAIN u.team = {} /\ DOMAIN u.member = {}
  BY DEF NoWrites
<1> QED
  BY <1>1 DEF Promised, JoinsWithRoom, JoinIsAnnounced, LeaderIsHeld, LeaderIn, InTeam, After, Kept

LEMMA PromisedCascade ==
  ASSUME NEW op, NEW gone, NEW loaded, \A k \in loaded : k[2] \in gone, NEW erased
  PROVE  /\ Promised(CascadeTeams(op, gone, loaded))
         /\ Promised([CascadeTeams(op, gone, loaded) EXCEPT !.project = erased])
<1>1. SUFFICES ASSUME NEW u, u.team = Erase(gone), u.member = Erase(loaded), u.orphan = {}
               PROVE  Promised(u)
  BY DEF CascadeTeams, Blank
<1>2. /\ DOMAIN u.team = gone /\ DOMAIN u.member = loaded /\ Kept(u.member) = {}
      /\ \A t \in gone : u.team[t] = Null
  BY <1>1, EraseRows
<1>3. \A t, s : t \notin gone => <<s, t>> \notin loaded
  OBVIOUS
<1>4. LeaderIsHeld(u)
  BY <1>2, <1>3 DEF LeaderIsHeld, LeaderIn, InTeam, After
<1> QED
  BY <1>1, <1>2, <1>4 DEF Promised, JoinsWithRoom, JoinIsAnnounced

LEMMA ProjectOpsSettlePromised ==
  ASSUME IInv, NEW w \in Workers, ProjectOps(w)
  PROVE  SettlesPromised(w)
<1>1. ASSUME NEW op, NEW write, Begin(w, [Blank(op) EXCEPT !.project = write])
      PROVE  SettlesPromised(w)
  <2> DEFINE u == [Blank(op) EXCEPT !.project = write]
  <2>1. u.team = NoWrites /\ u.member = NoWrites /\ u.orphan = {}
    BY DEF Blank
  <2>2. Begin(w, u)
    BY <1>1
  <2> HIDE DEF u
  <2>3. Promised(u)
    BY <2>1, PromisedWithoutTeams
  <2> QED
    BY <2>2, <2>3, BeginsPromised
<1>2. ASSUME NEW p \in Projects, NEW max \in Sizes, NEW start \in Dates, NEW end \in Dates,
             CreateProject(w, p, max, start, end)
      PROVE  SettlesPromised(w)
  BY <1>1, <1>2 DEF CreateProject
<1>3. ASSUME NEW p \in Projects, NEW max \in Sizes,
             NEW start \in Dates \cup {0}, NEW end \in Dates \cup {0},
             UpdateProject(w, p, max, start, end)
      PROVE  SettlesPromised(w)
  BY <1>1, <1>3 DEF UpdateProject
<1>4. ASSUME NEW p \in Projects, DeleteProject(w, p)
      PROVE  SettlesPromised(w)
  <2> DEFINE gone   == {t \in Teams : team[t] # Null /\ team[t].project = p}
             loaded == {k \in MemberKey : k[2] \in gone /\ InTeam(k[1], k[2])}
             u == [CascadeTeams("deleteProject", gone, loaded) EXCEPT !.project = Erase({p})]
  <2>1. Begin(w, u)
    BY <1>4 DEF DeleteProject
  <2>2. \A k \in loaded : k[2] \in gone
    OBVIOUS
  <2> HIDE DEF gone, loaded
  <2>3. Promised(u)
    BY <2>2, PromisedCascade
  <2> HIDE DEF u
  <2> QED
    BY <2>1, <2>3, BeginsPromised
<1> QED
  BY <1>2, <1>3, <1>4 DEF ProjectOps

LEMMA JoinRequestOpsSettlePromised ==
  ASSUME IInv, NEW w \in Workers, JoinRequestOps(w)
  PROVE  SettlesPromised(w)
<1>1. ASSUME NEW u, u.team = NoWrites, u.member = NoWrites, u.orphan = {}, Begin(w, u)
      PROVE  SettlesPromised(w)
  BY <1>1, PromisedWithoutTeams, BeginsPromised
<1>2. ASSUME NEW r \in Requests, NEW t \in Teams, NEW s \in Students,
             CreateJoinRequest(w, r, t, s)
      PROVE  SettlesPromised(w)
  BY <1>1, <1>2 DEF CreateJoinRequest, Blank
<1>3. ASSUME NEW r \in Requests, DeleteJoinRequest(w, r)
      PROVE  SettlesPromised(w)
  BY <1>1, <1>3 DEF DeleteJoinRequest, Blank
<1>4. ASSUME NEW r \in Requests, NEW accept \in BOOLEAN, NEW s \in Students,
             ResolveToJoinRequest(w, r, accept, s)
      PROVE  SettlesPromised(w)
  BY <1>1, <1>4 DEF ResolveToJoinRequest, Blank
<1> QED
  BY <1>2, <1>3, <1>4 DEF JoinRequestOps

(* A team that gets a leader gets one of its members. *)
LEMMA NewLeaderRow ==
  ASSUME IInv, NEW r \in Reading, team[r.team] # Null, r.leader = team[r.team].leader,
         NEW s \in Students
  PROVE  \A x \in Teams : After(team, NewLeader(r, s), x) =
           IF x = r.team THEN [team[r.team] EXCEPT !.leader = s] ELSE team[x]
<1> DEFINE row == [team[r.team] EXCEPT !.leader = s]
<1>0. team[r.team] \in TeamRow
  BY DEF IInv, TypeOK, Reading
<1>1. s = r.leader => row = team[r.team]
  BY <1>0 DEF TeamRow
<1>2. NewLeader(r, s) = IF s = r.leader THEN NoWrites ELSE Put(r.team, row)
  BY DEF NewLeader
<1>3. /\ DOMAIN NoWrites = {}
      /\ DOMAIN Put(r.team, row) = {r.team} /\ Put(r.team, row)[r.team] = row
  BY PutRow DEF NoWrites
<1> HIDE DEF row
<1>4. \A x \in Teams : After(team, NewLeader(r, s), x) = IF x = r.team THEN row ELSE team[x]
  BY <1>1, <1>2, <1>3 DEF After
<1> QED
  BY <1>4 DEF row

(* A member is inserted into a team with room, and the listener told.        *)
LEMMA InsertionPromised ==
  ASSUME NEW u, NEW s, NEW t, NEW p, p # Null,
         u.event = {<<s, p>>}, u.member = Put(<<s, t>>, p), u.orphan = {},
         u.request = NoWrites,
         team[t] # Null => TeamSize(t) < project[team[t].project].max,
         \A x \in Teams : LeaderIn(x) => After(team, u.team, x) = team[x]
  PROVE  Promised(u)
<1> DEFINE ins == Put(<<s, t>>, p)
<1>0. DOMAIN ins = {<<s, t>>} /\ ins[<<s, t>>] = p /\ DOMAIN NoWrites = {}
  BY PutRow DEF NoWrites
<1>2. u.member = ins
  OBVIOUS
<1> HIDE DEF ins
<1>1. /\ DOMAIN ins = {<<s, t>>} /\ ins[<<s, t>>] = p
      /\ DOMAIN NoWrites = {} /\ Kept(ins) \subseteq {<<s, t>>}
  BY <1>0 DEF Kept
<1>3. \A k \in Kept(u.member) : k[1] = s /\ k[2] = t /\ u.member[k] = p
  BY <1>1, <1>2
<1>4. JoinsWithRoom(u) /\ JoinIsAnnounced(u)
  BY <1>1, <1>3 DEF JoinsWithRoom, JoinIsAnnounced
<1>5. \A k : After(member, u.member, k) = IF k = <<s, t>> THEN p ELSE member[k]
  BY <1>1, <1>2 DEF After
<1>6. LeaderIsHeld(u)
  BY <1>5 DEF LeaderIsHeld, LeaderIn, InTeam
<1> QED
  BY <1>4, <1>6 DEF Promised

LEMMA TeamOpsSettlePromised ==
  ASSUME IInv, NEW w \in Workers, TeamOps(w)
  PROVE  SettlesPromised(w)
<1>1. ASSUME NEW op \in Operations \ {"removeMember"}, NEW t \in Teams, team[t] # Null,
             NEW s \in Students, NEW bag,
             NEW statement \in {"find", "appoint", "insert"},
             statement = "find" => bag = MembersOf(t),
             statement = "insert" => TeamSize(t) < project[team[t].project].max,
             BeginReading(w, op, Loaded(t, s, bag, statement))
      PROVE  SettlesPromised(w)
  <2> DEFINE r == Loaded(t, s, bag, statement)
  <2>1. /\ Blank(op).team = NoWrites /\ Blank(op).member = NoWrites /\ Blank(op).orphan = {}
        /\ Blank(op).op = op
    BY DEF Blank
  <2>2. Promised(Blank(op))
    BY <2>1, PromisedWithoutTeams
  <2>3. /\ r.team = t /\ r.leader = team[t].leader /\ r.bag = bag
        /\ r.next = statement
    BY DEF Loaded
  <2>4. Settles(w, Blank(op), r)
    BY <1>1 DEF BeginReading, Settles
  <2> HIDE DEF r
  <2>5. ReadingHolds(Blank(op), r)
    BY <1>1, <2>1, <2>3 DEF ReadingHolds
  <2> QED
    BY <2>2, <2>4, <2>5 DEF SettlesPromised
<1>2. ASSUME NEW t \in Teams, NEW s \in Students, NEW p \in Projects, CreateTeam(w, p, t, s)
      PROVE  SettlesPromised(w)
  <2> DEFINE row == [project |-> p, leader |-> s]
             ins == Put(<<s, t>>, p)
             new == Put(t, row)
             u == [Blank("createTeam") EXCEPT !.event = {<<s, p>>}, !.team = new, !.member = ins]
  <2>1. Begin(w, u) /\ team[t] = Null
    BY <1>2 DEF CreateTeam, FreshTeam
  <2>2. /\ u.event = {<<s, p>>} /\ u.team = new /\ u.member = ins /\ u.request = NoWrites
        /\ u.orphan = {}
    BY DEF Blank
  <2>3. DOMAIN new = {t} /\ p # Null
    BY PutRow, StoreAssumption
  <2> HIDE DEF u, new
  <2>4. \A x \in Teams : LeaderIn(x) => After(team, u.team, x) = team[x]
    BY <2>1, <2>2, <2>3 DEF LeaderIn, After
  <2>5. Promised(u)
    BY <2>1, <2>2, <2>3, <2>4, InsertionPromised
  <2> QED
    BY <2>1, <2>5, BeginsPromised
<1>3. ASSUME NEW t \in Teams, NEW s \in Students, RemoveMember(w, t, s)
      PROVE  SettlesPromised(w)
  <2> DEFINE u == [Blank("removeMember") EXCEPT !.member = Erase({<<s, t>>})]
  <2>1. Begin(w, u)
    BY <1>3 DEF RemoveMember
  <2>2. u.op = "removeMember" /\ Kept(u.member) = {} /\ u.orphan = {}
    BY EraseRows DEF Blank
  <2> HIDE DEF u
  <2>3. Promised(u)
    BY <2>2 DEF Promised, JoinsWithRoom, JoinIsAnnounced, LeaderIsHeld
  <2> QED
    BY <2>1, <2>3, BeginsPromised
<1>4. ASSUME NEW t \in Teams, NEW s \in Students, LeaveTeam(w, t, s)
      PROVE  SettlesPromised(w)
  BY <1>1, <1>4 DEF LeaveTeam, Operations
<1>5. ASSUME NEW t \in Teams, NEW s \in Students, NEW old \in Students, ChangeLeader(w, t, old, s)
      PROVE  SettlesPromised(w)
  BY <1>1, <1>5 DEF ChangeLeader, Operations
<1>6. ASSUME NEW t \in Teams, NEW s \in Students, AddMember(w, t, s)
      PROVE  SettlesPromised(w)
  BY <1>1, <1>6 DEF AddMember, Operations
<1> QED
  BY <1>2, <1>3, <1>4, <1>5, <1>6 DEF TeamOps

(* A call that goes on finds what it has loaded unchanged.                   *)
LEMMA TeamReadsSettlePromised ==
  ASSUME IInv, AloneInv, NEW w \in Workers, TeamReads(w)
  PROVE  SettlesPromised(w)
<1> DEFINE r == reading[w]
           k == <<r.student, r.team>>
<1>1. PICK statement \in Statements : Reaches(w, statement)
  BY DEF TeamReads, FindMember, CountMembers, PromoteHeir, AppointLeader, InsertMember,
         Statements
<1>2. /\ w \in Open /\ r # Null /\ r \in Reading /\ r.student \in Students
      /\ r.team \in Teams /\ team[r.team] # Null /\ team[r.team] \in TeamRow
      /\ ReadingHolds(tx[w], r) /\ Promised(tx[w])
  BY <1>1, Reached DEF AloneInv, Promised
<1> HIDE DEF r
<1>3. ASSUME NEW next \in {"count", "heir"}, ReadOn(w, next),
             r.bag = MembersOf(r.team), InTeam(r.student, r.team),
             next = "heir" => r.leader = r.student
      PROVE  SettlesPromised(w)
  <2> DEFINE q == [r EXCEPT !.next = next]
  <2>1. q.next = next /\ q.team = r.team /\ q.leader = r.leader /\ q.bag = r.bag
        /\ q.student = r.student
    BY <1>2 DEF Reading
  <2>2. ReadingHolds(tx[w], q)
    BY <1>2, <1>3, <2>1 DEF ReadingHolds
  <2>3. reading' = [reading EXCEPT ![w] = q] /\ tx' = [tx EXCEPT ![w] = tx[w]]
    BY <1>3 DEF ReadOn, r, IInv, TypeOK
  <2>4. Settles(w, tx[w], q)
    BY <1>3, <2>3 DEF ReadOn, Settles
  <2> HIDE DEF q
  <2> QED
    BY <1>2, <2>2, <2>4 DEF SettlesPromised
<1>4. CASE FindMember(w)
  <2>1. Reaches(w, "find") /\ InTeam(r.student, r.team) /\ ReadOn(w, "count")
    BY <1>4 DEF FindMember, r
  <2>2. r.bag = MembersOf(r.team)
    BY <1>2, <2>1 DEF ReadingHolds, Reaches, r
  <2> QED
    BY <1>3, <2>1, <2>2
<1>5. ASSUME NEW u, u.team = NoWrites \/ \E heir \in MembersOf(r.team) \ {r.student} :
                                            u.team = NewLeader(r, heir),
             u.team = NoWrites => r.leader # r.student,
             u.member = Erase({k}), u.orphan = {}
      PROVE  Promised(u)
  <2>1. /\ Kept(u.member) = {} /\ DOMAIN u.member = {k} /\ DOMAIN NoWrites = {}
        /\ r.leader = team[r.team].leader
    BY <1>2, <1>5, EraseRows DEF ReadingHolds, NoWrites
  <2>2. \A x \in Teams : \A l : <<l, x>> # k => After(member, u.member, <<l, x>>) = member[<<l, x>>]
    BY <2>1 DEF After
  <2>3. ASSUME NEW x \in Teams, LeaderIn(x)
        PROVE  After(member, u.member, <<After(team, u.team, x).leader, x>>) # Null
    <3>1. CASE u.team = NoWrites
      <4>1. After(team, u.team, x) = team[x] /\ <<team[x].leader, x>> # k
        BY <1>5, <2>1, <3>1 DEF After
      <4> QED
        BY <2>2, <2>3, <4>1 DEF LeaderIn, InTeam
    <3>2. ASSUME NEW heir \in MembersOf(r.team) \ {r.student}, u.team = NewLeader(r, heir)
          PROVE  After(member, u.member, <<After(team, u.team, x).leader, x>>) # Null
      <4>1. heir \in Students /\ InTeam(heir, r.team) /\ heir # r.student
        BY DEF MembersOf
      <4>2. After(team, u.team, x) =
              IF x = r.team THEN [team[r.team] EXCEPT !.leader = heir] ELSE team[x]
        BY <1>2, <2>1, <3>2, <4>1, NewLeaderRow
      <4>3. CASE x = r.team
        <5>1. After(team, u.team, x).leader = heir /\ <<heir, x>> # k
          BY <1>2, <4>1, <4>2, <4>3 DEF TeamRow
        <5> QED
          BY <2>2, <4>1, <4>3, <5>1 DEF InTeam
      <4>4. CASE x # r.team
        <5>1. After(team, u.team, x) = team[x] /\ <<team[x].leader, x>> # k
          BY <4>2, <4>4
        <5> QED
          BY <2>2, <2>3, <5>1 DEF LeaderIn, InTeam
      <4> QED
        BY <4>3, <4>4
    <3> QED
      BY <1>5, <3>1, <3>2
  <2>4. LeaderIsHeld(u)
    BY <2>3 DEF LeaderIsHeld
  <2> QED
    BY <1>5, <2>1, <2>4 DEF Promised, JoinsWithRoom, JoinIsAnnounced
<1>6. ASSUME r.next \in {"count", "heir"}
      PROVE  /\ r.bag = MembersOf(r.team) /\ InTeam(r.student, r.team)
             /\ TakesOut(r).team = NoWrites
             /\ TakesOut(r).member = Erase({k}) /\ TakesOut(r).orphan = {}
  <2>1. r.bag = MembersOf(r.team) /\ InTeam(r.student, r.team)
    BY <1>2, <1>6 DEF ReadingHolds
  <2>2. r.student \in r.bag
    BY <1>2, <2>1 DEF MembersOf
  <2> QED
    BY <2>1, <2>2 DEF TakesOut, Blank
<1>7. CASE CountMembers(w)
  <2>1. r.next = "count"
    BY <1>7 DEF CountMembers, Reaches, r
  <2>2. CASE /\ Decide(w, CascadeTeams("leaveTeam", {r.team}, r.bag \X {r.team}))
             /\ stale' = stale \cup {x \in {w} : r.lost}
    <3> DEFINE gone   == {r.team}
               loaded == r.bag \X {r.team}
               u == CascadeTeams("leaveTeam", gone, loaded)
    <3>1. \A x \in loaded : x[2] \in gone
      OBVIOUS
    <3>2. Decide(w, u) /\ stale \subseteq stale' /\ stale' \subseteq stale \cup {w}
      BY <2>2
    <3> HIDE DEF gone, loaded
    <3>3. Promised(u)
      BY <3>1, PromisedCascade
    <3> HIDE DEF u
    <3> QED
      BY <3>2, <3>3, DecidesPromised
  <2>3. CASE ReadOn(w, "heir") /\ r.leader = r.student
    BY <1>3, <1>6, <2>1, <2>3
  <2>4. CASE Decide(w, TakesOut(r)) /\ r.leader # r.student /\ stale' = stale
    <3>1. Promised(TakesOut(r))
      BY <1>5, <1>6, <2>1, <2>4
    <3> QED
      BY <2>4, <3>1, DecidesPromised
  <2> QED
    BY <1>7, <2>2, <2>3, <2>4 DEF CountMembers, r
<1>8. CASE PromoteHeir(w)
  <2>1. PICK heir \in MembersOf(r.team) \ {r.student} :
          /\ r.next = "heir" /\ stale' = stale
          /\ Decide(w, [TakesOut(r) EXCEPT !.team = NewLeader(r, heir)])
    BY <1>8 DEF PromoteHeir, Reaches, r
  <2> DEFINE u == [TakesOut(r) EXCEPT !.team = NewLeader(r, heir)]
  <2>2. /\ u.team = NewLeader(r, heir)
        /\ u.member = TakesOut(r).member /\ u.orphan = TakesOut(r).orphan
    BY DEF TakesOut, Blank
  <2>3. heir # r.leader
    BY <1>2, <2>1 DEF ReadingHolds
  <2>4. NewLeader(r, heir) # NoWrites
    <3>1. \A row : Put(r.team, row) # NoWrites
      BY PutRow DEF NoWrites
    <3> QED
      BY <2>3, <3>1 DEF NewLeader
  <2>5. Decide(w, u)
    BY <2>1
  <2> HIDE DEF u
  <2>6. Promised(u)
    BY <1>5, <1>6, <2>1, <2>2, <2>4
  <2> QED
    BY <2>1, <2>5, <2>6, DecidesPromised
<1>9. CASE AppointLeader(w)
  <2> DEFINE u == [Blank("changeLeader") EXCEPT !.team = NewLeader(r, r.student)]
  <2>1. InTeam(r.student, r.team) /\ Decide(w, u) /\ stale' = stale
    BY <1>9 DEF AppointLeader, r
  <2>2. u.team = NewLeader(r, r.student) /\ u.member = NoWrites /\ u.orphan = {}
    BY DEF Blank
  <2>3. Kept(u.member) = {} /\ DOMAIN u.member = {}
    BY <2>2, NoWritesKinds DEF NoWrites
  <2>4. \A x \in Teams : After(team, NewLeader(r, r.student), x) =
          IF x = r.team THEN [team[r.team] EXCEPT !.leader = r.student] ELSE team[x]
    BY <1>2, NewLeaderRow DEF ReadingHolds
  <2>5. [team[r.team] EXCEPT !.leader = r.student].leader = r.student
    BY <1>2 DEF TeamRow
  <2> HIDE DEF u
  <2>6. LeaderIsHeld(u)
    BY <2>1, <2>2, <2>3, <2>4, <2>5 DEF LeaderIsHeld, LeaderIn, InTeam, After
  <2>7. Promised(u)
    BY <2>2, <2>3, <2>6 DEF Promised, JoinsWithRoom, JoinIsAnnounced
  <2> QED
    BY <2>1, <2>7, DecidesPromised
<1>10. CASE InsertMember(w)
  <2> DEFINE p == team[r.team].project
             e == {<<r.student, p>>}
             u == [Blank("addMember") EXCEPT !.event = e, !.member = Put(k, p)]
  <2>1. Decide(w, u) /\ stale' = stale /\ r.next = "insert"
    BY <1>10 DEF InsertMember, Reaches, r
  <2>2. p # Null
    BY <1>2, StoreAssumption DEF TeamRow
  <2>3. TeamSize(r.team) < project[p].max
    BY <1>2, <2>1 DEF ReadingHolds
  <2>4. /\ u.event = {<<r.student, p>>} /\ u.team = NoWrites /\ u.member = Put(k, p)
        /\ u.orphan = {} /\ u.request = NoWrites /\ DOMAIN NoWrites = {}
    BY DEF Blank, NoWrites
  <2> HIDE DEF u
  <2>5. \A x \in Teams : After(team, u.team, x) = team[x]
    BY <2>4 DEF After
  <2>6. Promised(u)
    BY <2>2, <2>3, <2>4, <2>5, InsertionPromised
  <2> QED
    BY <2>1, <2>6, DecidesPromised
<1> QED
  BY <1>4, <1>7, <1>8, <1>9, <1>10 DEF TeamReads

(* A unit of work that is settled, alone, on the tables it has read.         *)
LEMMA SettlesKeepsAlone ==
  ASSUME OneWorker, IInv, AloneInv, NEW w \in Workers, SettlesPromised(w)
  PROVE  AloneInv'
<1>0. PICK u, r : Settles(w, u, r) /\ Promised(u) /\ (r # Null => ReadingHolds(u, r))
  BY DEF SettlesPromised
<1>1. tx'[w] = u /\ reading'[w] = r /\ UNCHANGED <<project, team, member, orphan, request>>
  BY <1>0 DEF Settles, tables, IInv, TypeOK
<1>2. \A x \in Open' : x = w
  BY DEF OneWorker, Open
<1>3. JoinsWithRoom(tx[w])' /\ JoinIsAnnounced(tx[w])' /\ LeaderIsHeld(tx[w])'
  BY <1>0, <1>1 DEF Promised, JoinsWithRoom, JoinIsAnnounced, LeaderIsHeld, TeamSize, MembersOf,
                    InTeam, LeaderIn, Kept, After, Pending
<1>4. orphan' = {} /\ tx'[w].orphan = {}
  BY <1>0, <1>1 DEF AloneInv, Promised
<1>5. ReadingHolds(u, r)' <=> ReadingHolds(u, r)
  BY <1>1 DEF ReadingHolds, TeamSize, MembersOf, InTeam
<1>6. reading'[w] # Null => ReadingHolds(tx[w], reading[w])'
  BY <1>0, <1>1, <1>5 DEF ReadingHolds
<1> QED
  BY <1>2, <1>3, <1>4, <1>6, Zenon DEF AloneInv

(* The listener changes neither what the unit of work does to teams and      *)
(* members nor the tables; it cancels whatever the student still requests.   *)
LEMMA ListenerKeepsAlone ==
  ASSUME OneWorker, IInv, AloneInv, NEW w \in Workers,
         AutoFlush(w) \/ HandleStudentJoinedTeam(w)
  PROVE  AloneInv'
<1> DEFINE u == tx[w]
<1>1. /\ w \in Open
      /\ tx \in [Workers -> Work \cup {Null}]
      /\ u \in Work
      /\ UNCHANGED <<project, team, member, orphan, request, reading>>
      /\ JoinsWithRoom(u) /\ JoinIsAnnounced(u) /\ LeaderIsHeld(u)
      /\ orphan = {} /\ u.orphan = {}
  BY DEF IInv, TypeOK, AutoFlush, HandleStudentJoinedTeam, tables, Open, AloneInv
<1>2. \A x \in Open' : x = w
  BY DEF OneWorker, Open
<1>6. reading[w] = Null
  <2>1. SUFFICES ASSUME reading[w] # Null
                 PROVE  FALSE
    OBVIOUS
  <2>2. u = Blank(u.op) /\ Blank(u.op).event = {}
    BY <1>1, <2>1 DEF AloneInv, ReadingHolds, Blank
  <2>3. u.event # {}
    BY DEF AutoFlush, HandleStudentJoinedTeam
  <2> QED
    BY <2>2, <2>3
<1>3. /\ tx'[w].op = u.op /\ tx'[w].team = u.team /\ tx'[w].member = u.member
      /\ tx'[w].orphan = u.orphan
  <2>1. CASE AutoFlush(w)
    BY <1>1, <2>1 DEF AutoFlush, Work
  <2>2. CASE HandleStudentJoinedTeam(w)
    <3>1. PICK new : tx' = [tx EXCEPT ![w].event = {}, ![w].request = new]
      BY <2>2 DEF HandleStudentJoinedTeam
    <3> QED
      BY <1>1, <3>1 DEF Work
  <2> QED
    BY <2>1, <2>2
<1>4. JoinsWithRoom(tx[w])' /\ LeaderIsHeld(tx[w])'
  BY <1>1, <1>3 DEF JoinsWithRoom, LeaderIsHeld, TeamSize, MembersOf, InTeam, LeaderIn,
                    Kept, After
<1>5. JoinIsAnnounced(tx[w])'
  <2>1. CASE AutoFlush(w)
    <3>1. tx'[w].event = u.event /\ tx'[w].request = u.request
      BY <1>1, <2>1 DEF AutoFlush, Work
    <3> QED
      BY <1>1, <1>3, <3>1 DEF JoinIsAnnounced, Kept, After, Pending
  <2>2. CASE HandleStudentJoinedTeam(w)
    <3>1. PICK e \in u.event :
            tx' = [tx EXCEPT
                     ![w].event = {},
                     ![w].request = [r \in DOMAIN @ \cup PendingRequests(w, e[1], e[2]) |->
                        IF r \in PendingRequests(w, e[1], e[2])
                        THEN [request[r] EXCEPT !.status = "CANCELED"] ELSE @[r]]]
      BY <2>2 DEF HandleStudentJoinedTeam
    <3> DEFINE hits == PendingRequests(w, e[1], e[2])
               new  == [r \in DOMAIN u.request \cup hits |->
                          IF r \in hits THEN [request[r] EXCEPT !.status = "CANCELED"]
                                        ELSE u.request[r]]
    <3>2. tx'[w].event = {} /\ tx'[w].request = new
      BY <1>1, <3>1 DEF Work
    <3>3. ASSUME NEW k \in Kept(u.member), NEW r \in Requests
          PROVE  ~Pending(After(request, new, r), k[1], u.member[k])
      <4>1. e = <<k[1], u.member[k]>> /\ DOMAIN u.request = {}
        BY <1>1, <3>1, <3>3 DEF JoinIsAnnounced
      <4>2. CASE r \in hits
        <5>1. request[r] \in RequestRow /\ After(request, new, r).status = "CANCELED"
          BY <4>2 DEF IInv, TypeOK, PendingRequests, RequestRow, After
        <5> QED
          BY <5>1 DEF Pending
      <4>3. CASE r \notin hits
        <5>1. After(request, new, r) = request[r]
          BY <4>1, <4>3 DEF After
        <5> QED
          BY <4>1, <4>3, <5>1 DEF PendingRequests, Pending
      <4> QED
        BY <4>2, <4>3
    <3> HIDE DEF new, hits
    <3> QED
      BY <1>1, <1>3, <3>2, <3>3 DEF JoinIsAnnounced, Kept, After, Pending
  <2> QED
    BY <1>1, <2>1, <2>2
<1>7. orphan' = {} /\ tx'[w].orphan = {} /\ reading'[w] = Null
  BY <1>1, <1>3, <1>6
<1> QED
  BY <1>2, <1>4, <1>5, <1>7, Zenon DEF AloneInv

LEMMA CommitOrphansNobody ==
  ASSUME IInv, AloneInv, NEW w \in Workers, Commit(w)
  PROVE  orphan = {} /\ orphan' = {}
  BY CommitRows DEF AloneInv, Commit

LEMMA AloneHolds ==
  ASSUME OneWorker
  PROVE  Spec => []AloneInv
<1>1. Init => AloneInv
  BY DEF Init, AloneInv, Open
<1>2. ASSUME IInv, AloneInv, [Next]_vars
      PROVE  AloneInv'
  <2>1. CASE UNCHANGED vars
    BY <1>2, <2>1 DEF vars, AloneInv, Open, JoinsWithRoom, JoinIsAnnounced, LeaderIsHeld,
                      ReadingHolds, TeamSize, MembersOf, InTeam, LeaderIn, Kept, After, Pending
  <2>2. ASSUME NEW w \in Workers, Step(w)
        PROVE  AloneInv'
    <3>1. CASE ProjectOps(w) \/ TeamOps(w) \/ TeamReads(w) \/ JoinRequestOps(w)
      <4>1. SettlesPromised(w)
        BY <1>2, <3>1, ProjectOpsSettlePromised, TeamOpsSettlePromised, TeamReadsSettlePromised,
           JoinRequestOpsSettlePromised
      <4> QED
        BY <1>2, <4>1, SettlesKeepsAlone
    <3>2. CASE AutoFlush(w) \/ HandleStudentJoinedTeam(w)
      BY <1>2, <3>2, ListenerKeepsAlone
    <3>3. CASE Commit(w) \/ Rollback(w)
      <4>1. tx'[w] = Null
        BY <1>2, <3>3 DEF Commit, Rollback, IInv, TypeOK
      <4>2. orphan' = {}
        BY <1>2, <3>3, CommitOrphansNobody DEF Rollback, tables, AloneInv
      <4> QED
        BY <4>1, <4>2 DEF OneWorker, AloneInv, Open
    <3> QED
      BY <2>2, <3>1, <3>2, <3>3 DEF Step
  <2> QED
    BY <1>2, <2>1, <2>2 DEF Next
<1> QED
  BY <1>1, <1>2, InvariantHolds, PTL DEF Spec

(* With one worker, whoever joins a team finds room in it when the member    *)
(* row lands, not only when addMember counts.                                *)
THEOREM JoinsFindRoom ==
  ASSUME OneWorker
  PROVE  Spec => JoinsOnlyWithRoom
<1> DEFINE Fits == \A t \in Teams : team[t] # Null /\ team'[t] # Null =>
                      \A s \in Students : ~InTeam(s, t) /\ InTeam(s, t)' =>
                        TeamSize(t) < project[team[t].project].max
<1>1. ASSUME IInv, AloneInv, [Next]_vars
      PROVE  Fits
  <2>1. CASE UNCHANGED tables
    BY <2>1 DEF tables, InTeam
  <2>2. ASSUME NEW w \in Workers, Commit(w), NEW t \in Teams, team[t] # Null,
               NEW s \in Students, ~InTeam(s, t), InTeam(s, t)'
        PROVE  TeamSize(t) < project[team[t].project].max
    <3>1. w \in Open /\ <<s, t>> \in MemberKey /\ TypeOK
      BY <1>1, <2>2 DEF Commit, MemberKey, IInv
    <3>2. <<s, t>> \in Kept(tx[w].member)
      BY <1>1, <2>2, <3>1, CommitRows, CommitOrphansNobody DEF Kept, InTeam
    <3> QED
      BY <1>1, <2>2, <3>1, <3>2 DEF AloneInv, JoinsWithRoom
  <2> QED
    BY <1>1, <2>1, <2>2, OtherStepsKeepTables DEF Next, vars, tables
<1> QED
  BY <1>1, InvariantHolds, AloneHolds, PTL DEF Spec, JoinsOnlyWithRoom

(* With one worker a team is led by one of its members for as long as nobody *)
(* calls removeMember: leaveTeam, changeLeader and the cascades keep it so.  *)
THEOREM LeaderStaysMember ==
  ASSUME OneWorker
  PROVE  Spec => LeaderKept
<1> DEFINE Keeps == \A t \in Teams :
                      LeaderIn(t) /\ team'[t] # Null /\ (\A w \in Workers : ~RemovesMember(w)) =>
                        LeaderIn(t)'
<1>1. ASSUME IInv, AloneInv, [Next]_vars
      PROVE  Keeps
  <2>1. CASE UNCHANGED tables
    BY <2>1 DEF tables, LeaderIn, InTeam
  <2>2. ASSUME NEW w \in Workers, Commit(w), NEW t \in Teams, LeaderIn(t), team'[t] # Null,
               ~RemovesMember(w)
        PROVE  LeaderIn(t)'
    <3>1. w \in Open /\ TypeOK /\ tx'[w] = Null
      BY <1>1, <2>2, CommitRows DEF Commit, IInv
    <3>2. tx[w].op # "removeMember"
      BY <2>2, <3>1 DEF RemovesMember, Open
    <3>3. team'[t] = After(team, tx[w].team, t)
      BY <1>1, <2>2, <3>1, CommitRows DEF After
    <3>4. team'[t].leader \in Students
      BY <1>1, <2>2, <3>1, CommitRows, WorkFields, PartialFnElim DEF TypeOK, TeamRow
    <3>5. <<team'[t].leader, t>> \in MemberKey
      BY <3>4 DEF MemberKey
    <3>6. member'[<<team'[t].leader, t>>] = After(member, tx[w].member, <<team'[t].leader, t>>)
      BY <1>1, <2>2, <3>1, <3>5, CommitRows DEF After
    <3>7. LeaderIsHeld(tx[w])
      BY <1>1, <3>1 DEF AloneInv
    <3>8. orphan' = {}
      BY <1>1, <2>2, CommitOrphansNobody
    <3> QED
      BY <2>2, <3>2, <3>3, <3>6, <3>7, <3>8 DEF LeaderIsHeld, LeaderIn, InTeam
  <2> QED
    BY <1>1, <2>1, <2>2, OtherStepsKeepTables DEF Next, vars, tables
<1> QED
  BY <1>1, InvariantHolds, AloneHolds, PTL DEF Spec, LeaderKept

(* With one worker, when a student has joined a team the listener has left   *)
(* none of the student's requests in the project pending.                    *)
THEOREM JoiningClearsRequests ==
  ASSUME OneWorker
  PROVE  Spec => JoinClearsPending
<1> DEFINE Clears == \A s \in Students, p \in Projects : ~InProject(s, p) /\ InProject(s, p)' =>
                       \A r \in Requests : ~Pending(request'[r], s, p)
<1>1. ASSUME IInv, AloneInv, [Next]_vars
      PROVE  Clears
  <2>1. CASE UNCHANGED tables
    BY <2>1 DEF tables, InProject
  <2>2. ASSUME NEW w \in Workers, Commit(w), NEW s \in Students, NEW p \in Projects,
               ~InProject(s, p), InProject(s, p)', NEW r \in Requests
        PROVE  ~Pending(request'[r], s, p)
    <3>1. w \in Open /\ TypeOK /\ tx[w].event = {}
      BY <1>1, <2>2 DEF Commit, IInv
    <3>2. PICK t \in Teams : member'[<<s, t>>] = p /\ member[<<s, t>>] # p
      BY <2>2 DEF InProject
    <3>3. <<s, t>> \in MemberKey /\ p # Null
      BY StoreAssumption DEF MemberKey
    <3>4. <<s, t>> \in Kept(tx[w].member) /\ tx[w].member[<<s, t>>] = p
      BY <1>1, <2>2, <3>1, <3>2, <3>3, CommitRows DEF Kept
    <3>5. request'[r] = After(request, tx[w].request, r)
      BY <1>1, <2>2, <3>1, CommitRows DEF After
    <3>6. JoinIsAnnounced(tx[w])
      BY <1>1, <3>1 DEF AloneInv
    <3> QED
      BY <3>1, <3>4, <3>5, <3>6 DEF JoinIsAnnounced
  <2> QED
    BY <1>1, <2>1, <2>2, OtherStepsKeepTables DEF Next, vars, tables
<1> QED
  BY <1>1, InvariantHolds, AloneHolds, PTL DEF Spec, JoinClearsPending

(* With one worker no member row is left without a team, so whoever          *)
(* existsByStudentIdAndProjectId finds in a project has a team there.        *)
THEOREM TakenHasTeam ==
  ASSUME OneWorker
  PROVE  Spec => []TakenMeansTeam
<1>1. IInv /\ AloneInv => TakenMeansTeam
  <2>1. SUFFICES ASSUME RowsAgree, orphan = {}, NEW s \in Students, NEW p \in Projects,
                        InProject(s, p)
                 PROVE  \E t \in Teams : InTeam(s, t) /\ team[t].project = p
    BY DEF TakenMeansTeam, IInv, AloneInv
  <2>2. PICK t \in Teams : member[<<s, t>>] = p
    BY <2>1 DEF InProject
  <2>3. InTeam(s, t)
    BY <2>1, <2>2, StoreAssumption DEF InTeam
  <2> QED
    BY <2>1, <2>2, <2>3 DEF RowsAgree
<1> QED
  BY <1>1, InvariantHolds, AloneHolds, PTL
=============================================================================
