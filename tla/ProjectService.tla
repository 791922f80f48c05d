---------------------------- MODULE ProjectService ----------------------------
(***************************************************************************)
(* The operations of the project service that change its tables: projects  *)
(* (ProjectService), teams and their members (TeamService) and requests to *)
(* join a team (TeamJoinRequestService), called by concurrent gRPC         *)
(* handlers.  An operation is the beginning of a transaction: its checks   *)
(* against committed rows, and the unit of work it will flush.  Where what *)
(* a method does hangs on several statements (leaveTeam, changeLeader,     *)
(* addMember), each of them is a step and commits of others come between.  *)
(* A first check that fails throws before anything is written, so the      *)
(* operation is then simply not enabled; a later one leaves the rollback.  *)
(***************************************************************************)
EXTENDS ProjectStore

(* findByStudentIdAndTeamId and countByTeamId go by the team_id of the row,  *)
(* existsByStudentIdAndProjectId by the project_id copied into it.           *)
InTeam(s, t)    == member[<<s, t>>] # Null /\ <<s, t>> \notin orphan
InProject(s, p) == \E t \in Teams : member[<<s, t>>] = p
MembersOf(t)    == {s \in Students : InTeam(s, t)}
TeamSize(t)     == Cardinality(MembersOf(t))

-----------------------------------------------------------------------------
(* ProjectService *)

(* validateDates, which createProject and updateProject call before they save. *)
ValidDates(row) == row.start <= row.end

CreateProject(w, p, max, start, end) ==
  LET row == [max |-> max, start |-> start, end |-> end] IN
  /\ FreshProject(p)
  /\ ValidDates(row)
  /\ Begin(w, [Blank("createProject") EXCEPT !.project = Put(p, row)])

(* max_students_per_team is copied whatever it is; a date left out (0) is    *)
(* kept.  Hibernate writes back the whole row.                               *)
MergedProject(p, max, start, end) ==
  [max   |-> max,
   start |-> IF start = 0 THEN project[p].start ELSE start,
   end   |-> IF end = 0 THEN project[p].end ELSE end]

(* Mutant: the dates of the request are validated instead of the merged row. *)
UpdateProject_ValidatesRequest(w, p, max, start, end) ==
  /\ project[p] # Null
  /\ start = 0 \/ end = 0 \/ start <= end
  /\ Begin(w, [Blank("updateProject") EXCEPT
                 !.project = Update(project, p, MergedProject(p, max, start, end))])

UpdateProject(w, p, max, start, end) ==
  /\ project[p] # Null
  /\ LET row == MergedProject(p, max, start, end) IN
       /\ ValidDates(row)
       /\ Begin(w, [Blank("updateProject") EXCEPT !.project = Update(project, p, row)])

(* The cascade of TeamEntity: members and join requests, as they are loaded. *)
CascadeTeams(op, gone, loaded) ==
  [Blank(op) EXCEPT
     !.team    = Erase(gone),
     !.member  = Erase(loaded),
     !.request = Erase({r \in Requests : request[r] # Null /\ request[r].team \in gone})]

DeleteProject(w, p) ==
  /\ project[p] # Null
  /\ LET gone   == {t \in Teams : team[t] # Null /\ team[t].project = p}
         loaded == {k \in MemberKey : k[2] \in gone /\ InTeam(k[1], k[2])}
     IN  Begin(w, [CascadeTeams("deleteProject", gone, loaded) EXCEPT !.project = Erase({p})])

-----------------------------------------------------------------------------
(* TeamService *)

CreateTeam(w, p, t, s) ==
  /\ ~InProject(s, p)
  /\ project[p] # Null
  /\ FreshTeam(t)
  /\ Begin(w, [Blank("createTeam") EXCEPT
                 !.event  = {<<s, p>>},
                 !.team   = Put(t, [project |-> p, leader |-> s]),
                 !.member = Put(<<s, t>>, p)])

(* getTeam: the row of the team, and its members where they are used.        *)
Loaded(t, s, bag, statement) ==
  [student |-> s, team |-> t, leader |-> team[t].leader, bag |-> bag,
   lost |-> FALSE, next |-> statement]

LeaveTeam(w, t, s) ==
  /\ team[t] # Null
  /\ BeginReading(w, "leaveTeam", Loaded(t, s, MembersOf(t), "find"))

(* findByStudentIdAndTeamId *)
FindMember(w) ==
  /\ Reaches(w, "find")
  /\ InTeam(reading[w].student, reading[w].team)
  /\ ReadOn(w, "count")

(* TeamEntity.removeMember takes the member out of the loaded collection and *)
(* sets its team to null.  Orphan removal deletes the row if the collection  *)
(* had it; a member who has joined since is not in there, and what is left   *)
(* is the null.                                                              *)
TakesOut(r) ==
  IF r.student \in r.bag
  THEN [Blank("leaveTeam") EXCEPT !.member = Erase({<<r.student, r.team>>})]
  ELSE [Blank("leaveTeam") EXCEPT !.orphan = {<<r.student, r.team>>}]

NewLeader(r, s) ==
  IF s = r.leader THEN NoWrites ELSE Put(r.team, [team[r.team] EXCEPT !.leader = s])

(* Mutant: a leader leaves like any other member. *)
CountMembers_NoPromotion(w) ==
  LET r == reading[w] IN
  /\ Reaches(w, "count")
  /\ stale' = stale
  /\ IF TeamSize(r.team) <= 1
     THEN Decide(w, CascadeTeams("leaveTeam", {r.team}, r.bag \X {r.team}))
     ELSE Decide(w, TakesOut(r))

(* countByTeamId.  The last member takes the team along, with the members    *)
(* getTeam had loaded; if the row of one is gone, its DELETE will fail.      *)
CountMembers(w) ==
  LET r == reading[w] IN
  /\ Reaches(w, "count")
  /\ \/ /\ TeamSize(r.team) <= 1
        /\ Decide(w, CascadeTeams("leaveTeam", {r.team}, r.bag \X {r.team}))
        /\ stale' = stale \cup {x \in {w} : r.lost}
     \/ /\ TeamSize(r.team) > 1
        /\ r.leader = r.student
        /\ ReadOn(w, "heir")
     \/ /\ TeamSize(r.team) > 1
        /\ r.leader # r.student
        /\ Decide(w, TakesOut(r))
        /\ UNCHANGED stale

(* Mutant: the leader goes and leaves no leader behind. *)
PromoteHeir_NullHeir(w) ==
  LET r == reading[w] IN
  /\ Reaches(w, "heir")
  /\ Decide(w, [TakesOut(r) EXCEPT
                  !.team = Put(r.team, [project |-> team[r.team].project, leader |-> Null])])
  /\ UNCHANGED stale

(* findByTeamId: a leader is replaced by whichever other member is first. *)
PromoteHeir(w) ==
  LET r == reading[w] IN
  /\ Reaches(w, "heir")
  /\ \E heir \in MembersOf(r.team) \ {r.student} :
       Decide(w, [TakesOut(r) EXCEPT !.team = NewLeader(r, heir)])
  /\ UNCHANGED stale

ChangeLeader(w, t, old, new) ==
  /\ team[t] # Null
  /\ team[t].leader = old
  /\ BeginReading(w, "changeLeader", Loaded(t, new, {}, "appoint"))

(* existsByStudentIdAndTeamId *)
AppointLeader(w) ==
  LET r == reading[w] IN
  /\ Reaches(w, "appoint")
  /\ InTeam(r.student, r.team)
  /\ Decide(w, [Blank("changeLeader") EXCEPT !.team = NewLeader(r, r.student)])
  /\ UNCHANGED stale

(* Mutant: a team that is just full still takes a member. *)
AddMember_OffByOne(w, t, s) ==
  /\ team[t] # Null
  /\ TeamSize(t) <= project[team[t].project].max
  /\ BeginReading(w, "addMember", Loaded(t, s, {}, "insert"))

(* countByTeamId, against the limit of the project. *)
AddMember(w, t, s) ==
  /\ team[t] # Null
  /\ TeamSize(t) < project[team[t].project].max
  /\ BeginReading(w, "addMember", Loaded(t, s, {}, "insert"))

(* Mutants of the rest of addMember: the student is moved from the team he   *)
(* has; no event is published; the row carries some other project.           *)
InsertMember_MovesStudent(w) ==
  LET k   == <<reading[w].student, reading[w].team>>
      p   == team[k[2]].project
      old == {x \in MemberKey : x[1] = k[1] /\ member[x] = p} \ {k} IN
  /\ Reaches(w, "insert")
  /\ Decide(w, [Blank("addMember") EXCEPT
                  !.event  = {<<k[1], p>>},
                  !.member = [x \in old \cup {k} |-> IF x \in old THEN Null ELSE p]])
  /\ UNCHANGED stale

InsertMember_NoEvent(w) ==
  LET k == <<reading[w].student, reading[w].team>>
      p == team[k[2]].project IN
  /\ Reaches(w, "insert")
  /\ ~InProject(k[1], p)
  /\ Decide(w, [Blank("addMember") EXCEPT !.member = Put(k, p)])
  /\ UNCHANGED stale

InsertMember_OtherProject(w) ==
  LET k == <<reading[w].student, reading[w].team>> IN
  /\ Reaches(w, "insert")
  /\ \E p \in Projects :
       /\ ~InProject(k[1], p)
       /\ Decide(w, [Blank("addMember") EXCEPT
                       !.event = {<<k[1], p>>}, !.member = Put(k, p)])
  /\ UNCHANGED stale

(* existsByStudentIdAndProjectId, the event and the new row. *)
InsertMember(w) ==
  LET k == <<reading[w].student, reading[w].team>>
      p == team[k[2]].project IN
  /\ Reaches(w, "insert")
  /\ ~InProject(k[1], p)
  /\ Decide(w, [Blank("addMember") EXCEPT
                  !.event  = {<<k[1], p>>},
                  !.member = Put(k, p)])
  /\ UNCHANGED stale

RemoveMember(w, t, s) ==
  /\ InTeam(s, t)
  /\ Begin(w, [Blank("removeMember") EXCEPT !.member = Erase({<<s, t>>})])

-----------------------------------------------------------------------------
(* TeamJoinRequestService *)

CreateJoinRequest(w, r, t, s) ==
  /\ team[t] # Null
  /\ FreshRequest(r)
  /\ Begin(w, [Blank("createJoinRequest") EXCEPT
                 !.request = Put(r, [student |-> s, project |-> team[t].project,
                                     team |-> t, status |-> "PENDING"])])

DeleteJoinRequest(w, r) ==
  /\ request[r] # Null
  /\ Begin(w, [Blank("deleteJoinRequest") EXCEPT !.request = Erase({r})])

(* Only the leader may resolve; the status the request has is not looked at. *)
(* The event is published whatever the decision.                             *)
ResolveToJoinRequest(w, r, accept, s) ==
  /\ request[r] # Null
  /\ team[request[r].team].leader = s
  /\ LET decided == [request[r] EXCEPT !.status = IF accept THEN "ACCEPTED" ELSE "REJECTED"]
     IN  Begin(w, [Blank("resolveToJoinRequest") EXCEPT
                     !.event   = {<<request[r].student, request[r].project>>},
                     !.request = Update(request, r, decided)])

-----------------------------------------------------------------------------
Init ==
  /\ project = [p \in Projects |-> Null]
  /\ team    = [t \in Teams |-> Null]
  /\ member  = [k \in MemberKey |-> Null]
  /\ orphan  = {}
  /\ request = [r \in Requests |-> Null]
  /\ tx      = [w \in Workers |-> Null]
  /\ reading = [w \in Workers |-> Null]
  /\ stale   = {}

ProjectOps(w) ==
  \E p \in Projects :
    \/ \E max \in Sizes, start, end \in Dates : CreateProject(w, p, max, start, end)
    \/ \E max \in Sizes, start, end \in Dates \cup {0} : UpdateProject(w, p, max, start, end)
    \/ DeleteProject(w, p)

TeamOps(w) ==
  \E t \in Teams, s \in Students :
    \/ \E p \in Projects : CreateTeam(w, p, t, s)
    \/ LeaveTeam(w, t, s)
    \/ \E old \in Students : ChangeLeader(w, t, old, s)
    \/ AddMember(w, t, s)
    \/ RemoveMember(w, t, s)

(* A call goes on to its next statement. *)
TeamReads(w) ==
  \/ FindMember(w)
  \/ CountMembers(w)
  \/ PromoteHeir(w)
  \/ AppointLeader(w)
  \/ InsertMember(w)

JoinRequestOps(w) ==
  \E r \in Requests :
    \/ \E t \in Teams, s \in Students : CreateJoinRequest(w, r, t, s)
    \/ DeleteJoinRequest(w, r)
    \/ \E accept \in BOOLEAN, s \in Students : ResolveToJoinRequest(w, r, accept, s)

Step(w) ==
  \/ ProjectOps(w)
  \/ TeamOps(w)
  \/ TeamReads(w)
  \/ JoinRequestOps(w)
  \/ AutoFlush(w)
  \/ HandleStudentJoinedTeam(w)
  \/ Commit(w)
  \/ Rollback(w)

Next == \E w \in Workers : Step(w)

Spec == Init /\ [][Next]_vars

-----------------------------------------------------------------------------
(* Type invariant of the tables (ProjectEntity, TeamEntity, TeamMemberEntity, *)
(* TeamJoinRequestEntity) and of the open units of work.                      *)
TypeOK ==
  /\ project \in [Projects -> ProjectRow \cup {Null}]
  /\ team \in [Teams -> TeamRow \cup {Null}]
  /\ member \in [MemberKey -> Projects \cup {Null}]
  /\ orphan \subseteq {k \in MemberKey : member[k] # Null}
  /\ request \in [Requests -> RequestRow \cup {Null}]
  /\ tx \in [Workers -> Work \cup {Null}]
  /\ reading \in [Workers -> Reading \cup {Null}]
  /\ \A w \in Workers : reading[w] # Null => w \in Open
  /\ stale \subseteq Open

(* A student is in one team of a project at most, whichever of addMember and *)
(* createTeam race: both only look before they insert, and the unique        *)
(* constraint that decides sees the project_id copied into the member row,   *)
(* not the project of the team.                                              *)
OneTeamPerProject ==
  \A s \in Students, t1, t2 \in Teams :
    InTeam(s, t1) /\ InTeam(s, t2) /\ team[t1].project = team[t2].project => t1 = t2

(* No row outlives the parent it refers to (only a member whose team_id is   *)
(* NULL refers to none), and the project_id that member rows and join        *)
(* requests carry next to their team_id is that of the team, though teams    *)
(* are deleted while others are adding to them.                              *)
RowsAgree ==
  /\ \A t \in Teams : team[t] # Null => project[team[t].project] # Null
  /\ \A s \in Students, t \in Teams : InTeam(s, t) =>
       team[t] # Null /\ team[t].project = member[<<s, t>>]
  /\ \A r \in Requests : request[r] # Null =>
       team[request[r].team] # Null /\ team[request[r].team].project = request[r].project

(* No project starts after it ends, although updateProject merges dates into *)
(* a row it has read earlier and two updates may overlap.                    *)
DatesOrdered == \A p \in Projects : project[p] # Null => ValidDates(project[p])

(* addMember counts the members before it inserts, so concurrent calls can   *)
(* overfill a team, but by no more than the other workers can insert at once *)
(* (a team's creator is let in whatever the limit).                          *)
CapacityBound ==
  \A t \in Teams : team[t] # Null =>
    \E size \in Sizes \cup {1} : TeamSize(t) <= size + Cardinality(Workers) - 1

(* A row the listener has cancelled, and not committed yet, is still there   *)
(* and still PENDING in the committed table: nobody decides or deletes a     *)
(* request between the UPDATE of the listener and its commit.                *)
LockedRowsStand ==
  \A w \in Workers : \A r \in Locked(w) :
    /\ request[r] # Null
    /\ tx[w].request[r].status = "CANCELED" => request[r].status = "PENDING"

(* A request that was accepted or rejected is never cancelled afterwards and *)
(* never pending again, however resolving and joining interleave.            *)
Decided(row) == row # Null /\ row.status \in {"ACCEPTED", "REJECTED"}

DecisionStands ==
  [][\A r \in Requests : Decided(request[r]) =>
       request'[r] = Null \/ Decided(request'[r])]_vars

(* The tables, read as one team per student and project, behave as the       *)
(* abstract registry: the member rows that name a team are the               *)
(* implementation of Membership.                                             *)
CurrentTeam(s, p) ==
  LET own == {t \in Teams : InTeam(s, t) /\ member[<<s, t>>] = p}
  IN  IF own = {} THEN Null ELSE CHOOSE t \in own : TRUE

Registry == INSTANCE Membership WITH
  None   <- Null,
  teamOf <- [e \in Students \X Projects |-> CurrentTeam(e[1], e[2])]

ImplementsMembership == Registry!Spec

-----------------------------------------------------------------------------
(* Promises of the methods to a caller that is alone. *)

(* Whoever joins a team does so while it has room (the check of addMember);  *)
(* creating a team is not joining it.                                        *)
JoinsOnlyWithRoom ==
  [][\A t \in Teams : team[t] # Null /\ team'[t] # Null =>
       \A s \in Students : ~InTeam(s, t) /\ InTeam(s, t)' =>
         TeamSize(t) < project[team[t].project].max]_vars

(* A team's leader stays one of its members, except when removeMember takes  *)
(* the leader out: leaveTeam and changeLeader hand the team on to a member.  *)
LeaderIn(t) == team[t] # Null /\ InTeam(team[t].leader, t)

RemovesMember(w) == tx[w] # Null /\ tx[w].op = "removeMember" /\ tx'[w] = Null

LeaderKept ==
  [][\A t \in Teams :
       LeaderIn(t) /\ team'[t] # Null /\ (\A w \in Workers : ~RemovesMember(w)) =>
         LeaderIn(t)']_vars

(* Once a student has joined a team, by addMember or by creating it, none of *)
(* the student's requests in that project is pending.                        *)
Pending(row, s, p) ==
  row # Null /\ row.student = s /\ row.project = p /\ row.status = "PENDING"

JoinClearsPending ==
  [][\A s \in Students, p \in Projects : ~InProject(s, p) /\ InProject(s, p)' =>
       \A r \in Requests : ~Pending(request'[r], s, p)]_vars

-----------------------------------------------------------------------------
(* What the code's own texts say and concurrent or unusual calls break. *)

(* JoinRequestStatus: CANCELED means that the student joined another team.   *)
CanceledMeansJoined ==
  [][\A r \in Requests :
       request[r] # Null /\ request'[r] # Null
         /\ request[r].status # "CANCELED" /\ request'[r].status = "CANCELED" =>
       InProject(request[r].student, request[r].project)']_vars

(* TeamService.changeLeader: "New leader must be a member of the team."      *)
ChangesLeader(w) == tx[w] # Null /\ tx[w].op = "changeLeader" /\ tx'[w] = Null

NewLeaderIsMember ==
  [][\A w \in Workers, t \in Teams :
       ChangesLeader(w) /\ team'[t] # Null /\ team'[t] # team[t] =>
         InTeam(team[t].leader, t)']_vars

(* TeamService.createTeam: "Student is already part of a team in this        *)
(* project.", whenever existsByStudentIdAndProjectId finds a row.            *)
TakenMeansTeam ==
  \A s \in Students, p \in Projects : InProject(s, p) =>
    \E t \in Teams : InTeam(s, t) /\ team[t].project = p
=============================================================================
