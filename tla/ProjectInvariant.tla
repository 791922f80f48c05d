--------------------------- MODULE ProjectInvariant ---------------------------
(***************************************************************************)
(* The inductive invariant of the project service: what makes the          *)
(* properties of ProjectService survive a commit.  The tables alone do not *)
(* tell: whether a commit is harmless depends on what the unit of work     *)
(* assumed when it began and still relies on.                              *)
(***************************************************************************)
EXTENDS ProjectService

(* The key the schema enforces, in terms of the copied project_id. *)
UniqueKeys ==
  \A s \in Students, t1, t2 \in Teams :
    member[<<s, t1>>] # Null /\ member[<<s, t1>>] = member[<<s, t2>>] => t1 = t2

(* What a unit of work is, whatever has happened since it began. *)
Sound(u) ==
  /\ \A p \in Kept(u.project) : ValidDates(u.project[p])
  /\ \A k1, k2 \in Kept(u.member) : k1 = k2
  /\ u.event # {} \/ u.flushed => Erased(u.request) = {}
  /\ \A r \in Kept(u.request) : u.request[r].status = "CANCELED" => u.flushed /\ u.event = {}

(* A team a unit of work writes is either a row of the table, of the same    *)
(* project, or claimed by this unit of work alone, and no member is in it.   *)
TeamsCurrent(w, u) ==
  \A t \in Kept(u.team) :
    IF team[t] # Null
    THEN u.team[t].project = team[t].project
    ELSE /\ \A x \in Open \ {w} : t \notin DOMAIN tx[x].team
         /\ \A s \in Students : member[<<s, t>>] = Null

(* A member is inserted into a team of the table, or into the team the same  *)
(* unit of work creates, under the project of that team.                     *)
MembersCurrent(u) ==
  \A k \in Kept(u.member) :
    IF team[k[2]] # Null
    THEN team[k[2]].project = u.member[k]
    ELSE k[2] \in Kept(u.team) /\ u.team[k[2]].project = u.member[k]

(* A join request a unit of work writes differs from the row in its status   *)
(* only, or is a new one, pending, claimed by this unit of work alone.       *)
RequestsCurrent(w, u) ==
  \A r \in Kept(u.request) :
    IF request[r] # Null
    THEN /\ u.request[r].student = request[r].student
         /\ u.request[r].project = request[r].project
         /\ u.request[r].team = request[r].team
         /\ u.request[r].status # "PENDING"
    ELSE /\ team[u.request[r].team] # Null
         /\ team[u.request[r].team].project = u.request[r].project
         /\ u.event = {} /\ ~u.flushed
         /\ \A x \in Open \ {w} : r \notin DOMAIN tx[x].request

(* A member whose team is set to null is there. *)
OrphansCurrent(u) == \A k \in u.orphan : member[k] # Null

Current(w, u) ==
  /\ TeamsCurrent(w, u)
  /\ MembersCurrent(u)
  /\ OrphansCurrent(u)
  /\ RequestsCurrent(w, u)

(* The team a call reads about is there, and so is the member it has found.  *)
ReadingCurrent(r) ==
  /\ team[r.team] # Null
  /\ r.next \in {"count", "heir"} => member[<<r.student, r.team>>] # Null

(* A member row names the project of the team in whose place it is, whether  *)
(* it still refers to that team or not.                                      *)
PlacesAgree ==
  \A k \in MemberKey : member[k] # Null /\ team[k[2]] # Null =>
    team[k[2]].project = member[k]

IInv ==
  /\ TypeOK
  /\ RowsAgree
  /\ PlacesAgree
  /\ UniqueKeys
  /\ DatesOrdered
  /\ LockedRowsStand
  /\ \A w \in Open : Sound(tx[w])
  /\ \A w \in Open \ stale :
       Current(w, tx[w]) /\ (reading[w] # Null => ReadingCurrent(reading[w]))

(* For membership: a unit of work inserts a member, or deletes one, or sets  *)
(* the team of one to null, or deletes teams, all of one project, and their  *)
(* members with them.                                                        *)
Departs(u) ==
  /\ Kept(u.member) # {} =>
       Erased(u.member) = {} /\ Erased(u.team) = {} /\ u.orphan = {}
  /\ u.orphan # {} => Erased(u.member) = {} /\ Erased(u.team) = {}
  /\ \A k1, k2 \in u.orphan : k1 = k2
  /\ Erased(u.team) = {} => \A k1, k2 \in Erased(u.member) : k1 = k2
  /\ Erased(u.team) # {} => \A k \in Erased(u.member) : k[2] \in Erased(u.team)

DisbandsOneProject(u) ==
  \A t1, t2 \in Erased(u.team) :
    team[t1] # Null /\ team[t1].project = team[t2].project

DepartInv ==
  /\ \A w \in Open : Departs(tx[w])
  /\ \A w \in Open \ stale : DisbandsOneProject(tx[w])

(* For the capacity of teams: the workers that have counted the members of t *)
(* and are about to insert another one.                                      *)
Joining(t) ==
  {w \in Open :
     \/ \E s \in Students : <<s, t>> \in Kept(tx[w].member)
     \/ reading[w] # Null /\ reading[w].next = "insert" /\ reading[w].team = t}

SpaceInv ==
  \A t \in Teams : team[t] # Null =>
    \E size \in Sizes \cup {1} :
      TeamSize(t) + Cardinality(Joining(t)) <= size + Cardinality(Workers) - 1

(***************************************************************************)
(* Calls that do not overlap (one worker): what a unit of work has found    *)
(* still holds when it commits.                                             *)
(***************************************************************************)
OneWorker == \A w1, w2 \in Workers : w1 = w2

(* The table as the unit of work would leave it. *)
After(table, write, k) == IF k \in DOMAIN write THEN write[k] ELSE table[k]

(* A member is inserted into a team that has room, or that is new. *)
JoinsWithRoom(u) ==
  \A k \in Kept(u.member) : team[k[2]] # Null =>
    TeamSize(k[2]) < project[team[k[2]].project].max

(* The listener has still to be told that a student joins, or it has taken   *)
(* every pending request of the student in the project.                      *)
JoinIsAnnounced(u) ==
  \A k \in Kept(u.member) :
    IF u.event = {}
    THEN \A r \in Requests : ~Pending(After(request, u.request, r), k[1], u.member[k])
    ELSE u.event = {<<k[1], u.member[k]>>} /\ DOMAIN u.request = {}

(* The leader of a team stays a member, or leaves it to one who does. *)
LeaderIsHeld(u) ==
  u.op # "removeMember" =>
    \A t \in Teams : LeaderIn(t) /\ After(team, u.team, t) # Null =>
      After(member, u.member, <<After(team, u.team, t).leader, t>>) # Null

(* What a call has loaded is still so. *)
ReadingHolds(u, r) ==
  /\ u = Blank(u.op) /\ u.op # "removeMember"
  /\ team[r.team] # Null /\ r.leader = team[r.team].leader
  /\ r.next \in {"find", "count", "heir"} => r.bag = MembersOf(r.team)
  /\ r.next \in {"count", "heir"} => InTeam(r.student, r.team)
  /\ r.next = "heir" => r.leader = r.student
  /\ r.next = "insert" => TeamSize(r.team) < project[team[r.team].project].max

AloneInv ==
  /\ orphan = {}
  /\ \A w \in Open :
       /\ tx[w].orphan = {}
       /\ JoinsWithRoom(tx[w])
       /\ JoinIsAnnounced(tx[w])
       /\ LeaderIsHeld(tx[w])
       /\ reading[w] # Null => ReadingHolds(tx[w], reading[w])
=============================================================================
