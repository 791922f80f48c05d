----------------------------- MODULE ProjectStore -----------------------------
(***************************************************************************)
(* The tables of the project service and the transactions that change      *)
(* them: PostgreSQL at its default isolation (READ COMMITTED) below the    *)
(* Hibernate unit of work that every @Transactional service method opens.  *)
(*                                                                         *)
(* A table is a function from row identities to rows, Null where there is  *)
(* no row.  A transaction reads committed rows, statement by statement,    *)
(* collects its writes in a unit of work, and flushes them all when it     *)
(* commits.  A method whose checks are made by several statements stands   *)
(* between two of them in "reading", with what it has loaded so far.       *)
(* No entity has a @Version and no query locks, so what a method read may  *)
(* be out of date when its writes land; the database then refuses only     *)
(* what a primary key, a foreign key or the unique constraint forbids.     *)
(*                                                                         *)
(* Row identities are UUIDs in the code and are never issued twice.  Here  *)
(* the identity of a deleted row may be issued again, which keeps the      *)
(* model finite without bounding how many rows are ever created; "stale"   *)
(* remembers which open transactions still rely on the deleted row.        *)
(***************************************************************************)
EXTENDS Integers, FiniteSets

CONSTANTS
  Students,   (* student identities, issued by the auth service              *)
  Projects,   (* identities for rows of table project                        *)
  Teams,      (* identities for rows of table team                           *)
  Requests,   (* identities for rows of table team_join_request              *)
  Workers,    (* threads of the gRPC server, one open transaction each       *)
  Sizes,      (* values of max_students_per_team a teacher may ask for       *)
  Dates,      (* start and end dates; 0 stands for a date left out           *)
  Null        (* the absent row, and the absent transaction                  *)

Status == {"PENDING", "ACCEPTED", "REJECTED", "CANCELED"}

ProjectRow == [max: Sizes, start: Dates, end: Dates]
TeamRow    == [project: Projects, leader: Students]
RequestRow == [student: Students, project: Projects, team: Teams, status: Status]
MemberKey  == Students \X Teams

ASSUME StoreAssumption ==
  /\ IsFiniteSet(Students)
  /\ IsFiniteSet(Workers)
  /\ Sizes \subseteq Nat
  /\ Dates \subseteq Nat \ {0}
  /\ Null \notin ProjectRow \cup TeamRow \cup RequestRow
  /\ Null \notin Projects \cup Teams

VARIABLES
  project,    (* table project                                               *)
  team,       (* table team                                                  *)
  member,     (* table team_member: the project_id column of the row, if any *)
  orphan,     (* the rows of team_member whose team_id column is NULL        *)
  request,    (* table team_join_request                                     *)
  tx,         (* the unit of work each worker has open, Null if none         *)
  reading,    (* what a worker has loaded for the checks still to be made    *)
  stale       (* workers that rely on a row deleted since they read it       *)

tables == <<project, team, member, orphan, request>>
vars   == <<project, team, member, orphan, request, tx, reading, stale>>

-----------------------------------------------------------------------------
(* Units of work. *)

PartialFn(S, R) == UNION {[D -> R] : D \in SUBSET S}

NoWrites    == [k \in {} |-> Null]
Put(k, row) == [x \in {k} |-> row]
Erase(K)    == [x \in K |-> Null]

(* Hibernate writes an entity back only if it is dirty. *)
Update(table, k, row) == IF row = table[k] THEN NoWrites ELSE Put(k, row)

Operations ==
  {"createProject", "updateProject", "deleteProject", "createTeam", "leaveTeam",
   "changeLeader", "addMember", "removeMember", "createJoinRequest",
   "deleteJoinRequest", "resolveToJoinRequest"}

(* "event" holds the StudentJoinedTeamEvent that is published but whose      *)
(* listener has not finished yet; "flushed" says that the join requests      *)
(* written so far are in the database, locked until the commit; "orphan"     *)
(* holds the members whose team is set to null.                              *)
Work ==
  [op: Operations,
   event: SUBSET (Students \X Projects),
   flushed: BOOLEAN,
   project: PartialFn(Projects, ProjectRow \cup {Null}),
   team: PartialFn(Teams, TeamRow \cup {Null}),
   member: PartialFn(MemberKey, Projects \cup {Null}),
   orphan: SUBSET MemberKey,
   request: PartialFn(Requests, RequestRow \cup {Null})]

Blank(op) ==
  [op |-> op, event |-> {}, flushed |-> FALSE, project |-> NoWrites,
   team |-> NoWrites, member |-> NoWrites, orphan |-> {}, request |-> NoWrites]

(* A call between two of its statements: the student and the team it is      *)
(* about, the leader_student_id of the team row, the members of the          *)
(* collection as getTeam initialised it whose rows are still there, whether  *)
(* any of them is gone, and the statement to come.                           *)
Statements == {"find", "count", "heir", "appoint", "insert"}

Reading ==
  [student: Students, team: Teams, leader: Students, bag: SUBSET Students,
   lost: BOOLEAN, next: Statements]

ASSUME WorkAssumption == Null \notin Work

Open == {w \in Workers : tx[w] # Null}

(* An identity the UUID generator may hand out: no row has it and no open    *)
(* transaction is about to insert one.  The members of a deleted team whose  *)
(* team_id is NULL keep its identity from being issued again, or they would  *)
(* belong to the new team.                                                   *)
FreshProject(p) == project[p] = Null /\ \A w \in Open : p \notin DOMAIN tx[w].project

FreshTeam(t) ==
  /\ team[t] = Null
  /\ \A s \in Students : member[<<s, t>>] = Null
  /\ \A w \in Open : t \notin DOMAIN tx[w].team

FreshRequest(r) == request[r] = Null /\ \A w \in Open : r \notin DOMAIN tx[w].request

Written(table, write) ==
  [k \in DOMAIN table |-> IF k \in DOMAIN write THEN write[k] ELSE table[k]]

Kept(write)   == {k \in DOMAIN write : write[k] # Null}
Erased(write) == {k \in DOMAIN write : write[k] = Null}

(* Rows deleted by unit of work v that unit of work u updates, deletes, or   *)
(* refers to by a foreign key.                                               *)
Overtakes(v, u) ==
  \/ Erased(v.project) \cap (DOMAIN u.project
                               \cup {u.team[t].project : t \in Kept(u.team)}) # {}
  \/ Erased(v.team) \cap (DOMAIN u.team \cup {k[2] : k \in Kept(u.member)}
                               \cup {u.request[r].team : r \in Kept(u.request)}) # {}
  \/ Erased(v.member) \cap (Erased(u.member) \cup u.orphan) # {}
  \/ Erased(v.request) \cap DOMAIN u.request # {}

(* Rows deleted by unit of work v without which a call that has read r can   *)
(* only fail: the team, or the member it has found.                          *)
Undercuts(v, r) ==
  \/ r.team \in Erased(v.team)
  \/ r.next \in {"count", "heir"} /\ <<r.student, r.team>> \in Erased(v.member)

(* The collection of a call that has read r, once v has deleted its rows.    *)
Outdated(v, r) ==
  LET gone == {s \in r.bag : <<s, r.team>> \in Erased(v.member)}
  IN  [r EXCEPT !.bag = @ \ gone, !.lost = @ \/ gone # {}]

(* Join requests a worker has locked with an UPDATE it has not committed.    *)
Locked(w) == IF w \in Open /\ tx[w].flushed THEN DOMAIN tx[w].request ELSE {}

LockedByOthers(w) == UNION {Locked(x) : x \in Workers \ {w}}

-----------------------------------------------------------------------------
(* Mutant: team_join_request without its foreign key. *)
ForeignKeys_RequestsUnbound(p, t, m, o, r) ==
  /\ \A x \in Teams : t[x] # Null => p[t[x].project] # Null
  /\ \A k \in MemberKey \ o : m[k] # Null => t[k[2]] # Null

(* The constraints of the schema: a member whose team_id is NULL refers to   *)
(* no team.                                                                  *)
ForeignKeys(p, t, m, o, r) ==
  /\ \A x \in Teams : t[x] # Null => p[t[x].project] # Null
  /\ \A k \in MemberKey \ o : m[k] # Null => t[k[2]] # Null
  /\ \A q \in Requests : r[q] # Null => t[r[q].team] # Null

(* Mutant: team_member without its unique constraint. *)
UniqueMember_Dropped(u) == TRUE

(* UNIQUE (student_id, project_id) on team_member, for the rows u inserts.   *)
UniqueMember(u) ==
  \A k \in Kept(u.member) : \A t \in Teams :
     <<k[1], t>> \notin Erased(u.member) => member[<<k[1], t>>] # u.member[k]

-----------------------------------------------------------------------------
(* Steps of a transaction. *)

Begin(w, u) ==
  /\ tx[w] = Null
  /\ tx' = [tx EXCEPT ![w] = u]
  /\ UNCHANGED <<tables, reading, stale>>

(* The first statement of a method that decides by several. *)
BeginReading(w, op, r) ==
  /\ tx[w] = Null
  /\ tx' = [tx EXCEPT ![w] = Blank(op)]
  /\ reading' = [reading EXCEPT ![w] = r]
  /\ UNCHANGED <<tables, stale>>

(* The call of w comes to a statement; it has failed already if it is stale. *)
Reaches(w, statement) ==
  /\ w \in Open \ stale
  /\ reading[w] # Null
  /\ reading[w].next = statement

(* The statement leaves the outcome open. *)
ReadOn(w, statement) ==
  /\ reading' = [reading EXCEPT ![w].next = statement]
  /\ UNCHANGED <<tables, tx, stale>>

(* The statement was the last one: the writes of w are settled. *)
Decide(w, u) ==
  /\ tx' = [tx EXCEPT ![w] = u]
  /\ reading' = [reading EXCEPT ![w] = Null]
  /\ UNCHANGED tables

(* The synchronous listener of StudentJoinedTeamEvent runs one UPDATE over    *)
(* the join requests.  Before a query on a table Hibernate flushes the       *)
(* pending writes to that table; their rows stay locked until the commit.    *)
AutoFlush(w) ==
  /\ w \in Open \ stale
  /\ tx[w].event # {}
  /\ ~tx[w].flushed
  /\ DOMAIN tx[w].request \cap LockedByOthers(w) = {}
  /\ tx' = [tx EXCEPT ![w].flushed = TRUE]
  /\ UNCHANGED <<tables, reading, stale>>

(* Mutant: the UPDATE without its condition on the status. *)
PendingRequests_AnyStatus(w, s, p) ==
  {r \in Requests \ DOMAIN tx[w].request :
     request[r] # Null /\ request[r].student = s /\ request[r].project = p}

(* The UPDATE itself: the student's PENDING requests in the project, other   *)
(* than the one this transaction has just decided.  It waits for rows that   *)
(* another transaction has locked and looks at their status again.           *)
PendingRequests(w, s, p) ==
  {r \in Requests \ DOMAIN tx[w].request :
     /\ request[r] # Null
     /\ request[r].student = s
     /\ request[r].project = p
     /\ request[r].status = "PENDING"}

(* Mutant: the listener runs in a transaction of its own (REQUIRES_NEW),     *)
(* which sees the committed row of the request being resolved and waits for  *)
(* the lock its own caller holds.                                            *)
HandleStudentJoinedTeam_NewTransaction(w) ==
  /\ w \in Open \ stale
  /\ tx[w].flushed
  /\ \E e \in tx[w].event :
       {r \in Requests : /\ request[r] # Null
                         /\ request[r].student = e[1]
                         /\ request[r].project = e[2]
                         /\ request[r].status = "PENDING"}
         \cap (LockedByOthers(w) \cup Locked(w)) = {}
  /\ tx' = [tx EXCEPT ![w].event = {}]
  /\ UNCHANGED <<tables, reading, stale>>

HandleStudentJoinedTeam(w) ==
  /\ w \in Open \ stale
  /\ tx[w].flushed
  /\ \E e \in tx[w].event :
       LET hits == PendingRequests(w, e[1], e[2]) IN
       /\ hits \cap LockedByOthers(w) = {}
       /\ tx' = [tx EXCEPT
            ![w].event = {},
            ![w].request = [r \in DOMAIN @ \cup hits |->
               IF r \in hits THEN [request[r] EXCEPT !.status = "CANCELED"] ELSE @[r]]]
  /\ UNCHANGED <<tables, reading, stale>>

(* Flush and commit.  Every row the unit of work updates or deletes must     *)
(* still be there, and the result must satisfy the schema.                   *)
Commit(w) ==
  LET u == tx[w] IN
  /\ w \in Open \ stale
  /\ reading[w] = Null
  /\ u.event = {}
  /\ DOMAIN u.request \cap LockedByOthers(w) = {}
  /\ UniqueMember(u)
  /\ project' = Written(project, u.project)
  /\ team'    = Written(team, u.team)
  /\ member'  = Written(member, u.member)
  /\ orphan'  = (orphan \cup u.orphan) \ Erased(u.member)
  /\ request' = Written(request, u.request)
  /\ ForeignKeys(project', team', member', orphan', request')
  /\ stale' = (stale \ {w}) \cup {x \in Open \ {w} :
                 Overtakes(u, tx[x]) \/ (reading[x] # Null /\ Undercuts(u, reading[x]))}
  /\ tx' = [tx EXCEPT ![w] = Null]
  /\ reading' = [x \in Workers |->
                   IF reading[x] = Null THEN Null ELSE Outdated(u, reading[x])]

(* Rollback: a check throws, the flush hits a missing row or a constraint,   *)
(* the database picks the transaction as a deadlock victim, or the           *)
(* connection or the service is lost.                                        *)
Rollback(w) ==
  /\ w \in Open
  /\ tx' = [tx EXCEPT ![w] = Null]
  /\ reading' = [reading EXCEPT ![w] = Null]
  /\ stale' = stale \ {w}
  /\ UNCHANGED tables
=============================================================================
