---------------------------- MODULE ProjectProofs ----------------------------
(***************************************************************************)
(* Theorems about the project service, for every number of students,       *)
(* projects, teams, join requests and workers.                             *)
(***************************************************************************)
EXTENDS ProjectInvariant, FiniteSetTheorems, TLAPS

-----------------------------------------------------------------------------
(* Lemmas about units of work. *)

(* What membership in PartialFn means. *)
LEMMA PartialFnElim ==
  ASSUME NEW S, NEW R, NEW f \in PartialFn(S, R)
  PROVE  /\ DOMAIN f \subseteq S
         /\ \A k \in DOMAIN f : f[k] \in R
         /\ f = [k \in DOMAIN f |-> f[k]]
  BY DEF PartialFn

LEMMA PartialFnIntro ==
  ASSUME NEW S, NEW R, NEW D \in SUBSET S, NEW f \in [D -> R]
  PROVE  f \in PartialFn(S, R)
  BY DEF PartialFn

LEMMA NoWritesType ==
  ASSUME NEW S, NEW R
  PROVE  NoWrites \in PartialFn(S, R) /\ DOMAIN NoWrites = {}
  BY DEF PartialFn, NoWrites

LEMMA PutRow ==
  ASSUME NEW k, NEW row
  PROVE  DOMAIN Put(k, row) = {k} /\ Put(k, row)[k] = row
  BY DEF Put

LEMMA PutType ==
  ASSUME NEW S, NEW R, NEW k \in S, NEW row \in R
  PROVE  Put(k, row) \in PartialFn(S, R \cup {Null})
<1>1. Put(k, row) \in [{k} -> R \cup {Null}] /\ {k} \in SUBSET S
  BY DEF Put
<1> QED
  BY <1>1, PartialFnIntro, Zenon

LEMMA EraseRows ==
  ASSUME NEW K
  PROVE  /\ DOMAIN Erase(K) = K
         /\ \A k \in K : Erase(K)[k] = Null
         /\ Kept(Erase(K)) = {}
  BY DEF Erase, Kept

LEMMA EraseType ==
  ASSUME NEW S, NEW R, NEW K \in SUBSET S
  PROVE  Erase(K) \in PartialFn(S, R \cup {Null})
<1>1. Erase(K) \in [K -> R \cup {Null}]
  BY DEF Erase
<1> QED
  BY <1>1, PartialFnIntro

(* Writing a table keeps its type. *)
LEMMA WrittenType ==
  ASSUME NEW S, NEW R, NEW table \in [S -> R], NEW write \in PartialFn(S, R)
  PROVE  /\ Written(table, write) \in [S -> R]
         /\ \A k \in S : Written(table, write)[k] =
                           IF k \in DOMAIN write THEN write[k] ELSE table[k]
  BY PartialFnElim DEF Written

-----------------------------------------------------------------------------
(* Beginning an operation. *)

(* A unit of work that is all right to begin with. *)
Claims(u) ==
  /\ \A t \in DOMAIN u.team : team[t] # Null \/ FreshTeam(t)
  /\ \A r \in DOMAIN u.request : request[r] # Null \/ FreshRequest(r)

Fit(w, u) ==
  u \in Work /\ ~u.flushed /\ Sound(u) /\ Current(w, u) /\ Claims(u)

(* A step of worker w that makes u its unit of work and leaves r to be read  *)
(* on, and the tables alone.                                                 *)
Settles(w, u, r) ==
  /\ tx' = [tx EXCEPT ![w] = u]
  /\ reading' = [reading EXCEPT ![w] = r]
  /\ stale \subseteq stale' /\ stale' \subseteq stale \cup {w}
  /\ UNCHANGED tables

LEMMA SettlesKeepsInvariant ==
  ASSUME IInv, NEW w \in Workers, NEW u, Fit(w, u),
         NEW r \in Reading \cup {Null}, r # Null => ReadingCurrent(r),
         Settles(w, u, r)
  PROVE  IInv'
<1>1. /\ tx' = [tx EXCEPT ![w] = u]
      /\ reading' = [reading EXCEPT ![w] = r]
      /\ stale \subseteq stale' /\ stale' \subseteq stale \cup {w}
      /\ UNCHANGED <<project, team, member, orphan, request>>
  BY DEF Settles, tables
<1>2. /\ tx \in [Workers -> Work \cup {Null}] /\ stale \subseteq Open /\ u \in Work
      /\ reading \in [Workers -> Reading \cup {Null}] /\ u # Null
  BY WorkAssumption DEF IInv, TypeOK, Fit
<1>3. /\ tx' \in [Workers -> Work \cup {Null}]
      /\ tx'[w] = u
      /\ \A x \in Workers \ {w} : tx'[x] = tx[x]
      /\ reading' \in [Workers -> Reading \cup {Null}]
      /\ reading'[w] = r
      /\ \A x \in Workers \ {w} : reading'[x] = reading[x]
  BY <1>1, <1>2
<1>4. w \in Open' /\ Open' \subseteq Open \cup {w} /\ Open \subseteq Open'
  BY <1>2, <1>3 DEF Open
<1>5. TypeOK'
  BY <1>1, <1>2, <1>3, <1>4 DEF IInv, TypeOK
<1>6. RowsAgree' /\ PlacesAgree' /\ UniqueKeys' /\ DatesOrdered'
  BY <1>1 DEF IInv, RowsAgree, InTeam, PlacesAgree, UniqueKeys, DatesOrdered, ValidDates
<1>7. LockedRowsStand'
  BY <1>1, <1>3, <1>4 DEF IInv, LockedRowsStand, Locked, Open, Fit
<1>8. ASSUME NEW x \in Open'
      PROVE  Sound(tx[x])'
  <2>1. CASE x = w
    BY <2>1, <1>3 DEF Fit, Sound, Kept, Erased, ValidDates
  <2>2. CASE x # w
    <3>1. x \in Open /\ tx'[x] = tx[x]
      BY <2>2, <1>3, <1>4 DEF Open
    <3> QED
      BY <3>1 DEF IInv, Sound, Kept, Erased, ValidDates
  <2> QED
    BY <2>1, <2>2
<1>9. ASSUME NEW x \in Open' \ stale'
      PROVE  Current(x, tx[x])'
  <2>1. CASE x = w
    <3>1. TeamsCurrent(w, u)'
      BY <1>1, <1>3, <1>4 DEF Fit, Current, TeamsCurrent, Kept
    <3>2. MembersCurrent(u)' /\ OrphansCurrent(u)'
      BY <1>1 DEF Fit, Current, MembersCurrent, OrphansCurrent, Kept
    <3>3. RequestsCurrent(w, u)'
      BY <1>1, <1>3, <1>4 DEF Fit, Current, RequestsCurrent, Kept
    <3> QED
      BY <2>1, <1>3, <3>1, <3>2, <3>3
      DEF Current, TeamsCurrent, MembersCurrent, OrphansCurrent, RequestsCurrent
  <2>2. CASE x # w
    <3>1. x \in Open \ stale /\ tx'[x] = tx[x] /\ Current(x, tx[x])
      BY <2>2, <1>1, <1>3, <1>4 DEF Open, IInv
    <3>2. TeamsCurrent(x, tx[x])'
      <4>1. ASSUME NEW t \in Kept(tx[x].team), team[t] = Null
            PROVE  t \notin DOMAIN u.team
        BY <4>1, <3>1, <1>2 DEF Fit, Claims, FreshTeam, Kept
      <4> QED
        BY <1>1, <1>3, <1>4, <3>1, <4>1 DEF Current, TeamsCurrent, Kept
    <3>3. MembersCurrent(tx[x])' /\ OrphansCurrent(tx[x])'
      BY <1>1, <3>1 DEF Current, MembersCurrent, OrphansCurrent, Kept
    <3>4. RequestsCurrent(x, tx[x])'
      <4>1. ASSUME NEW q \in Kept(tx[x].request), request[q] = Null
            PROVE  q \notin DOMAIN u.request
        BY <4>1, <3>1, <1>2 DEF Fit, Claims, FreshRequest, Kept
      <4> QED
        BY <1>1, <1>3, <1>4, <3>1, <4>1 DEF Current, RequestsCurrent, Kept
    <3> QED
      BY <3>2, <3>3, <3>4 DEF Current
  <2> QED
    BY <2>1, <2>2
<1>10. ASSUME NEW x \in Open' \ stale', reading'[x] # Null
       PROVE  ReadingCurrent(reading[x])'
  <2>1. CASE x = w
    BY <2>1, <1>1, <1>3, <1>10 DEF ReadingCurrent
  <2>2. CASE x # w
    <3>1. x \in Open \ stale /\ reading'[x] = reading[x]
      BY <2>2, <1>1, <1>3, <1>4 DEF Open
    <3> QED
      BY <3>1, <1>1, <1>10 DEF IInv, ReadingCurrent
  <2> QED
    BY <2>1, <2>2
<1> QED
  BY <1>5, <1>6, <1>7, <1>8, <1>9, <1>10 DEF IInv

(* Beginning an operation whose only statement of note has been made, or     *)
(* deciding at the last one.                                                 *)
LEMMA BeginSettles ==
  ASSUME IInv, NEW w \in Workers, NEW u, Begin(w, u)
  PROVE  Settles(w, u, Null)
<1>1. reading \in [Workers -> Reading \cup {Null}] /\ reading[w] = Null
  BY DEF Begin, IInv, TypeOK, Open
<1>2. reading = [reading EXCEPT ![w] = Null]
  BY <1>1
<1> QED
  BY <1>2 DEF Begin, Settles

LEMMA DecideSettles ==
  ASSUME NEW w \in Workers, NEW u, Decide(w, u),
         stale \subseteq stale' /\ stale' \subseteq stale \cup {w}
  PROVE  Settles(w, u, Null)
  BY DEF Decide, Settles

LEMMA BeginKeepsInvariant ==
  ASSUME IInv, NEW w \in Workers, NEW u, Fit(w, u), Begin(w, u)
  PROVE  IInv'
  BY BeginSettles, SettlesKeepsInvariant

(* A call begins to read; it has written nothing.                            *)
LEMMA BlankFit ==
  ASSUME NEW w \in Workers, NEW op \in Operations
  PROVE  Fit(w, Blank(op))
<1>1. /\ Blank(op) \in Work /\ ~Blank(op).flushed
      /\ Blank(op).event = {} /\ Blank(op).project = NoWrites /\ Blank(op).team = NoWrites
      /\ Blank(op).member = NoWrites /\ Blank(op).orphan = {} /\ Blank(op).request = NoWrites
  BY NoWritesType DEF Blank, Work
<1>2. Sound(Blank(op))
  BY <1>1, NoWritesType DEF Sound, Kept, Erased
<1>3. Current(w, Blank(op))
  BY <1>1, NoWritesType
  DEF Current, TeamsCurrent, MembersCurrent, OrphansCurrent, RequestsCurrent, Kept
<1>4. Claims(Blank(op))
  BY <1>1, NoWritesType DEF Claims
<1> QED
  BY <1>1, <1>2, <1>3, <1>4 DEF Fit

LEMMA LoadedType ==
  ASSUME IInv, NEW t \in Teams, team[t] # Null, NEW s \in Students,
         NEW bag \in SUBSET Students, NEW statement \in Statements
  PROVE  /\ Loaded(t, s, bag, statement) \in Reading
         /\ Loaded(t, s, bag, statement).team = t
         /\ Loaded(t, s, bag, statement).next = statement
<1>1. team[t].leader \in Students
  BY DEF IInv, TypeOK, TeamRow
<1> QED
  BY <1>1 DEF Loaded, Reading

LEMMA BeginReadingKeepsInvariant ==
  ASSUME IInv, NEW w \in Workers, NEW op \in Operations, NEW t \in Teams, team[t] # Null,
         NEW s \in Students, NEW bag \in SUBSET Students,
         NEW statement \in {"find", "appoint", "insert"},
         BeginReading(w, op, Loaded(t, s, bag, statement))
  PROVE  IInv'
<1> DEFINE r == Loaded(t, s, bag, statement)
<1>1. r \in Reading /\ r.team = t /\ r.next = statement
  BY LoadedType DEF Statements
<1>2. ReadingCurrent(r)
  BY <1>1 DEF ReadingCurrent
<1>3. Settles(w, Blank(op), r)
  BY DEF BeginReading, Settles
<1> HIDE DEF r
<1> QED
  BY <1>1, <1>2, <1>3, BlankFit, SettlesKeepsInvariant

(* Going on to the next statement. *)
LEMMA ReadOnKeepsInvariant ==
  ASSUME IInv, NEW w \in Open \ stale, NEW statement \in Statements,
         reading[w] # Null, ReadOn(w, statement),
         member[<<reading[w].student, reading[w].team>>] # Null
  PROVE  IInv'
<1>1. /\ UNCHANGED <<project, team, member, orphan, request, tx, stale>>
      /\ Open' = Open /\ w \in Workers
      /\ reading' = [reading EXCEPT ![w].next = statement]
  BY DEF ReadOn, tables, Open
<1>2. reading \in [Workers -> Reading \cup {Null}] /\ reading[w] \in Reading
  BY <1>1 DEF IInv, TypeOK
<1>3. [reading[w] EXCEPT !.next = statement] \in Reading
  BY <1>2 DEF Reading
<1>4. /\ reading' \in [Workers -> Reading \cup {Null}]
      /\ reading'[w] = [reading[w] EXCEPT !.next = statement]
      /\ \A x \in Workers \ {w} : reading'[x] = reading[x]
  BY <1>1, <1>2, <1>3
<1>5. TypeOK'
  BY <1>1, <1>4 DEF IInv, TypeOK
<1>6. RowsAgree' /\ PlacesAgree' /\ UniqueKeys' /\ DatesOrdered'
  BY <1>1 DEF IInv, RowsAgree, InTeam, PlacesAgree, UniqueKeys, DatesOrdered, ValidDates
<1>7. LockedRowsStand'
  BY <1>1 DEF IInv, LockedRowsStand, Locked
<1>8. \A x \in Open' : Sound(tx[x])'
  BY <1>1 DEF IInv, Sound, Kept, Erased, ValidDates
<1>9. \A x \in Open' \ stale' : Current(x, tx[x])'
  BY <1>1
  DEF IInv, Current, TeamsCurrent, MembersCurrent, OrphansCurrent, RequestsCurrent, Kept
<1>10. ASSUME NEW x \in Open' \ stale', reading'[x] # Null
       PROVE  ReadingCurrent(reading[x])'
  <2>1. CASE x = w
    <3>1. reading'[w].team = reading[w].team /\ reading'[w].student = reading[w].student
      BY <1>2, <1>4 DEF Reading
    <3>2. team[reading[w].team] # Null
      BY DEF IInv, ReadingCurrent
    <3> QED
      BY <2>1, <1>1, <3>1, <3>2 DEF ReadingCurrent
  <2>2. CASE x # w
    <3>1. x \in Open \ stale /\ reading'[x] = reading[x]
      BY <2>2, <1>1, <1>4 DEF Open
    <3> QED
      BY <3>1, <1>1, <1>10 DEF IInv, ReadingCurrent
  <2> QED
    BY <2>1, <2>2
<1> QED
  BY <1>5, <1>6, <1>7, <1>8, <1>9, <1>10 DEF IInv

-----------------------------------------------------------------------------
(* Committing. *)

LEMMA WorkFields ==
  ASSUME NEW u \in Work
  PROVE  /\ u.project \in PartialFn(Projects, ProjectRow \cup {Null})
         /\ u.team \in PartialFn(Teams, TeamRow \cup {Null})
         /\ u.member \in PartialFn(MemberKey, Projects \cup {Null})
         /\ u.request \in PartialFn(Requests, RequestRow \cup {Null})
         /\ u.orphan \in SUBSET MemberKey
         /\ DOMAIN u.project \subseteq Projects
         /\ DOMAIN u.team \subseteq Teams
         /\ DOMAIN u.member \subseteq MemberKey
         /\ DOMAIN u.request \subseteq Requests
  BY PartialFnElim DEF Work

(* The collection of a call may shrink, the rest of what it has read stays.  *)
LEMMA OutdatedFields ==
  ASSUME NEW v, NEW r \in Reading
  PROVE  /\ Outdated(v, r) \in Reading
         /\ Outdated(v, r).student = r.student
         /\ Outdated(v, r).team = r.team
         /\ Outdated(v, r).leader = r.leader
         /\ Outdated(v, r).next = r.next
<1> DEFINE gone == {s \in r.bag : <<s, r.team>> \in Erased(v.member)}
           bag  == r.bag \ gone
           lost == r.lost \/ gone # {}
<1>1. Outdated(v, r) = [r EXCEPT !.bag = bag, !.lost = lost]
  BY DEF Outdated
<1>2. bag \in SUBSET Students /\ lost \in BOOLEAN
  BY DEF Reading
<1> HIDE DEF bag, lost
<1> QED
  BY <1>1, <1>2 DEF Reading

(* What a commit leaves behind: every row of every table.                    *)
LEMMA CommitRows ==
  ASSUME IInv, NEW w \in Workers, Commit(w)
  PROVE  /\ tx[w] \in Work
         /\ \A p \in Projects : project'[p] =
              IF p \in DOMAIN tx[w].project THEN tx[w].project[p] ELSE project[p]
         /\ \A t \in Teams : team'[t] =
              IF t \in DOMAIN tx[w].team THEN tx[w].team[t] ELSE team[t]
         /\ \A k \in MemberKey : member'[k] =
              IF k \in DOMAIN tx[w].member THEN tx[w].member[k] ELSE member[k]
         /\ orphan' = (orphan \cup tx[w].orphan) \ Erased(tx[w].member)
         /\ \A r \in Requests : request'[r] =
              IF r \in DOMAIN tx[w].request THEN tx[w].request[r] ELSE request[r]
         /\ tx'[w] = Null
         /\ \A x \in Workers \ {w} : tx'[x] = tx[x]
         /\ Open' = Open \ {w}
         /\ \A x \in Open' \ stale' : x \in Open \ stale /\ ~Overtakes(tx[w], tx[x])
         /\ TypeOK'
<1>1. /\ TypeOK /\ tx[w] \in Work /\ w \in Open \ stale /\ Current(w, tx[w])
  BY DEF IInv, TypeOK, Commit, Open
<1>2. /\ project' \in [Projects -> ProjectRow \cup {Null}]
      /\ \A p \in Projects : project'[p] =
           IF p \in DOMAIN tx[w].project THEN tx[w].project[p] ELSE project[p]
  BY <1>1, WorkFields, WrittenType DEF TypeOK, Commit
<1>3. /\ team' \in [Teams -> TeamRow \cup {Null}]
      /\ \A t \in Teams : team'[t] =
           IF t \in DOMAIN tx[w].team THEN tx[w].team[t] ELSE team[t]
  BY <1>1, WorkFields, WrittenType DEF TypeOK, Commit
<1>4. /\ member' \in [MemberKey -> Projects \cup {Null}]
      /\ \A k \in MemberKey : member'[k] =
           IF k \in DOMAIN tx[w].member THEN tx[w].member[k] ELSE member[k]
  BY <1>1, WorkFields, WrittenType DEF TypeOK, Commit
<1>5. /\ request' \in [Requests -> RequestRow \cup {Null}]
      /\ \A r \in Requests : request'[r] =
           IF r \in DOMAIN tx[w].request THEN tx[w].request[r] ELSE request[r]
  BY <1>1, WorkFields, WrittenType DEF TypeOK, Commit
<1>6. /\ tx' \in [Workers -> Work \cup {Null}]
      /\ tx'[w] = Null
      /\ \A x \in Workers \ {w} : tx'[x] = tx[x]
  BY <1>1 DEF TypeOK, Commit
<1>7. Open' = Open \ {w}
  BY <1>6 DEF Open
<1>8. /\ stale' \subseteq Open'
      /\ \A x \in Open' \ stale' : x \in Open \ stale /\ ~Overtakes(tx[w], tx[x])
  BY <1>1, <1>7 DEF TypeOK, Commit
<1>9. orphan' = (orphan \cup tx[w].orphan) \ Erased(tx[w].member)
  BY DEF Commit
<1>10. orphan' \subseteq {k \in MemberKey : member'[k] # Null}
  <2>1. SUFFICES ASSUME NEW k \in orphan'
                 PROVE  k \in MemberKey /\ member'[k] # Null
    OBVIOUS
  <2>2. k \in MemberKey /\ member[k] # Null /\ k \notin Erased(tx[w].member)
    BY <1>1, <1>9, <2>1, WorkFields DEF TypeOK, Current, OrphansCurrent
  <2> QED
    BY <1>4, <2>2 DEF Erased
<1>11. /\ reading' \in [Workers -> Reading \cup {Null}]
       /\ \A x \in Workers : reading'[x] # Null => x \in Open'
  <2>1. ASSUME NEW x \in Workers, reading[x] # Null
        PROVE  Outdated(tx[w], reading[x]) \in Reading
    <3>1. reading[x] \in Reading
      BY <1>1, <2>1 DEF TypeOK
    <3> QED
      BY <3>1, OutdatedFields
  <2>2. reading[w] = Null
    BY DEF Commit
  <2> QED
    BY <1>1, <1>7, <2>1, <2>2 DEF TypeOK, Commit
<1> QED
  BY <1>1, <1>2, <1>3, <1>4, <1>5, <1>6, <1>7, <1>8, <1>9, <1>10, <1>11 DEF TypeOK

(* What a commit leaves of the calls that are reading. *)
LEMMA CommitReading ==
  ASSUME IInv, NEW w \in Workers, Commit(w), NEW x \in Workers, reading'[x] # Null
  PROVE  /\ reading[x] # Null
         /\ reading[x] \in Reading
         /\ reading'[x] = Outdated(tx[w], reading[x])
         /\ reading'[x].student = reading[x].student
         /\ reading'[x].team = reading[x].team
         /\ reading'[x].leader = reading[x].leader
         /\ reading'[x].next = reading[x].next
         /\ x \in Open' \ stale' => ~Undercuts(tx[w], reading[x])
<1>1. /\ reading[x] # Null /\ reading[x] \in Reading
      /\ reading'[x] = Outdated(tx[w], reading[x])
  BY DEF Commit, IInv, TypeOK
<1>2. x \in Open' \ stale' => ~Undercuts(tx[w], reading[x])
  BY <1>1, CommitRows DEF Commit
<1> QED
  BY <1>1, <1>2, OutdatedFields

(* The team of a row that survives the commit keeps its project.             *)
LEMMA CommitKeepsProject ==
  ASSUME IInv, NEW w \in Workers, Commit(w),
         NEW t \in Teams, team[t] # Null, team'[t] # Null
  PROVE  team'[t].project = team[t].project
<1>1. w \in Open \ stale
  BY DEF Commit
<1>2. TeamsCurrent(w, tx[w])
  BY <1>1 DEF IInv, Current
<1> QED
  BY <1>2, CommitRows DEF IInv, TeamsCurrent, Kept

LEMMA CommitKeepsPlaces ==
  ASSUME IInv, NEW w \in Workers, Commit(w)
  PROVE  PlacesAgree'
<1> DEFINE u == tx[w]
<1>1. w \in Open \ stale /\ Current(w, u) /\ u \in Work
  BY DEF Commit, IInv, TypeOK, Open
<1>2. SUFFICES ASSUME NEW k \in MemberKey, member'[k] # Null, team'[k[2]] # Null
               PROVE  team'[k[2]].project = member'[k]
  BY DEF PlacesAgree
<1>3. k[1] \in Students /\ k[2] \in Teams /\ k = <<k[1], k[2]>>
  BY DEF MemberKey
<1>4. CASE k \in DOMAIN u.member
  <2>1. k \in Kept(u.member) /\ member'[k] = u.member[k]
    BY <1>1, <1>2, <1>4, CommitRows DEF Kept
  <2>2. CASE team[k[2]] # Null
    BY <1>1, <1>2, <1>3, <2>1, <2>2, CommitKeepsProject DEF Current, MembersCurrent
  <2>3. CASE team[k[2]] = Null
    BY <1>1, <1>3, <2>1, <2>3, CommitRows DEF Current, MembersCurrent, Kept
  <2> QED
    BY <2>2, <2>3
<1>5. CASE k \notin DOMAIN u.member
  <2>1. member'[k] = member[k]
    BY <1>1, <1>5, CommitRows
  <2>2. CASE team[k[2]] # Null
    BY <1>2, <1>3, <2>1, <2>2, CommitKeepsProject DEF IInv, PlacesAgree
  <2>3. CASE team[k[2]] = Null
    <3>1. k[2] \in Kept(u.team)
      BY <1>1, <1>2, <1>3, <2>3, CommitRows DEF Kept
    <3>2. member[<<k[1], k[2]>>] = Null
      BY <1>1, <1>3, <2>3, <3>1 DEF Current, TeamsCurrent
    <3> QED
      BY <1>2, <1>3, <2>1, <3>2
  <2> QED
    BY <2>2, <2>3
<1> QED
  BY <1>4, <1>5

LEMMA CommitKeepsRowsAgree ==
  ASSUME IInv, NEW w \in Workers, Commit(w)
  PROVE  RowsAgree'
<1> DEFINE u == tx[w]
<1>1. w \in Open \ stale /\ Current(w, u) /\ RowsAgree /\ TypeOK
  BY DEF Commit, IInv
<1>2. ForeignKeys(project', team', member', orphan', request')
  BY DEF Commit
<1>3. TypeOK'
  BY <1>1, CommitRows
<1>4. ASSUME NEW s \in Students, NEW t \in Teams, InTeam(s, t)'
      PROVE  team'[t] # Null /\ team'[t].project = member'[<<s, t>>]
  <2>1. <<s, t>> \in MemberKey /\ <<s, t>>[2] = t
    BY DEF MemberKey
  <2>2. member'[<<s, t>>] # Null /\ <<s, t>> \notin orphan'
    BY <1>4 DEF InTeam
  <2>3. team'[t] # Null
    BY <1>2, <2>1, <2>2 DEF ForeignKeys
  <2> QED
    BY <2>1, <2>2, <2>3, CommitKeepsPlaces DEF PlacesAgree
<1>5. ASSUME NEW r \in Requests, request'[r] # Null
      PROVE  team'[request'[r].team] # Null
               /\ team'[request'[r].team].project = request'[r].project
  <2> DEFINE t == request'[r].team
  <2>1. t \in Teams /\ team'[t] # Null
    BY <1>2, <1>3, <1>5 DEF ForeignKeys, TypeOK, RequestRow
  <2>2. team[t] # Null /\ team[t].project = request'[r].project
    <3>1. CASE r \in DOMAIN u.request
      <4>1. r \in Kept(u.request) /\ request'[r] = u.request[r]
        BY <1>1, <1>5, <3>1, CommitRows DEF Kept
      <4> QED
        BY <1>1, <4>1 DEF Current, RequestsCurrent, RowsAgree
    <3>2. CASE r \notin DOMAIN u.request
      <4>1. request'[r] = request[r]
        BY <1>1, <3>2, CommitRows
      <4> QED
        BY <1>1, <1>5, <4>1 DEF RowsAgree
    <3> QED
      BY <3>1, <3>2
  <2> QED
    BY <2>1, <2>2, CommitKeepsProject
<1> QED
  BY <1>2, <1>4, <1>5 DEF RowsAgree, ForeignKeys

LEMMA CommitKeepsUniqueKeys ==
  ASSUME IInv, NEW w \in Workers, Commit(w)
  PROVE  UniqueKeys'
<1> DEFINE u == tx[w]
<1>1. w \in Open /\ Sound(u) /\ UniqueKeys /\ TypeOK /\ UniqueMember(u)
  BY DEF Commit, IInv
<1>2. SUFFICES ASSUME NEW s \in Students, NEW t1 \in Teams, NEW t2 \in Teams,
                      member'[<<s, t1>>] # Null,
                      member'[<<s, t1>>] = member'[<<s, t2>>],
                      t1 # t2
               PROVE  FALSE
  BY DEF UniqueKeys
<1>3. <<s, t1>> \in MemberKey /\ <<s, t2>> \in MemberKey
  BY DEF MemberKey
<1>4. ASSUME NEW t \in Teams, <<s, t>> \in DOMAIN u.member, member'[<<s, t>>] # Null
      PROVE  /\ <<s, t>> \in Kept(u.member)
             /\ member'[<<s, t>>] = u.member[<<s, t>>]
  BY <1>1, <1>4, CommitRows DEF Kept, MemberKey
<1>5. ASSUME NEW t \in Teams, <<s, t>> \notin DOMAIN u.member
      PROVE  member'[<<s, t>>] = member[<<s, t>>] /\ <<s, t>> \notin Erased(u.member)
  BY <1>1, <1>5, CommitRows DEF Erased, MemberKey
<1>6. CASE <<s, t1>> \in DOMAIN u.member /\ <<s, t2>> \in DOMAIN u.member
  BY <1>1, <1>2, <1>4, <1>6 DEF Sound
<1>7. CASE <<s, t1>> \in DOMAIN u.member /\ <<s, t2>> \notin DOMAIN u.member
  BY <1>1, <1>2, <1>4, <1>5, <1>7 DEF UniqueMember
<1>8. CASE <<s, t1>> \notin DOMAIN u.member /\ <<s, t2>> \in DOMAIN u.member
  BY <1>1, <1>2, <1>4, <1>5, <1>8 DEF UniqueMember
<1>9. CASE <<s, t1>> \notin DOMAIN u.member /\ <<s, t2>> \notin DOMAIN u.member
  BY <1>1, <1>2, <1>5, <1>9 DEF UniqueKeys
<1> QED
  BY <1>6, <1>7, <1>8, <1>9

(* What the other open units of work rely on survives the commit.            *)
LEMMA CommitKeepsCurrent ==
  ASSUME IInv, NEW w \in Workers, Commit(w), NEW x \in Open' \ stale'
  PROVE  Current(x, tx[x])'
<1> DEFINE u == tx[w]
           v == tx[x]
<1>1. TypeOK /\ w \in Open \ stale /\ Current(w, u)
  BY DEF Commit, IInv
<1>2. /\ x \in Open \ stale
      /\ x # w
      /\ x \in Workers
      /\ tx'[x] = v
      /\ ~Overtakes(u, v)
      /\ Open' = Open \ {w}
      /\ \A y \in Open' : tx'[y] = tx[y]
  BY <1>1, CommitRows DEF Open
<1>3. u \in Work /\ v \in Work /\ Current(x, v)
  BY <1>1, <1>2 DEF IInv, TypeOK, Open
<1>4. TeamsCurrent(x, v)'
  <2>1. SUFFICES ASSUME NEW t \in Kept(v.team)
                 PROVE  IF team'[t] # Null
                        THEN v.team[t].project = team'[t].project
                        ELSE /\ \A y \in Open' \ {x} : t \notin DOMAIN tx'[y].team
                             /\ \A s \in Students : member'[<<s, t>>] = Null
    BY <1>2 DEF TeamsCurrent, Kept
  <2>2. t \in Teams /\ t \in DOMAIN v.team
    BY <1>3, WorkFields DEF Kept
  <2>3. t \notin Erased(u.team)
    BY <1>2, <2>2 DEF Overtakes
  <2>4. CASE team[t] # Null
    <3>1. team'[t] # Null
      BY <1>1, <2>2, <2>3, <2>4, CommitRows DEF Erased
    <3> QED
      BY <1>3, <2>2, <2>4, <3>1, CommitKeepsProject DEF Current, TeamsCurrent
  <2>5. CASE team[t] = Null
    <3>1. \A y \in Open \ {x} : t \notin DOMAIN tx[y].team
      BY <1>3, <2>5 DEF Current, TeamsCurrent
    <3>2. team'[t] = Null
      BY <1>1, <1>2, <2>2, <2>5, <3>1, CommitRows
    <3>3. ASSUME NEW s \in Students
          PROVE  member'[<<s, t>>] = Null
      <4>1. <<s, t>> \in MemberKey /\ <<s, t>>[2] = t
        BY <2>2 DEF MemberKey
      <4>2. member[<<s, t>>] = Null
        BY <1>3, <2>5 DEF Current, TeamsCurrent
      <4>3. t \notin DOMAIN u.team
        BY <1>1, <1>2, <3>1
      <4>4. <<s, t>> \notin Kept(u.member)
        BY <1>1, <2>5, <4>1, <4>3 DEF Current, MembersCurrent, Kept
      <4> QED
        BY <4>1, <4>2, <4>4, CommitRows DEF Kept
    <3> QED
      BY <1>2, <3>1, <3>2, <3>3
  <2> QED
    BY <2>4, <2>5
<1>5. MembersCurrent(v)'
  <2>1. SUFFICES ASSUME NEW k \in Kept(v.member)
                 PROVE  IF team'[k[2]] # Null
                        THEN team'[k[2]].project = v.member[k]
                        ELSE k[2] \in Kept(v.team) /\ v.team[k[2]].project = v.member[k]
    BY <1>2 DEF MembersCurrent, Kept
  <2>2. k \in DOMAIN v.member /\ k \in MemberKey /\ k[2] \in Teams
    BY <1>3, WorkFields DEF Kept, MemberKey
  <2>3. k[2] \notin Erased(u.team)
    BY <1>2, <2>2 DEF Overtakes
  <2>4. CASE team[k[2]] # Null
    <3>1. team'[k[2]] # Null
      BY <1>1, <2>2, <2>3, <2>4, CommitRows DEF Erased
    <3> QED
      BY <1>3, <2>2, <2>4, <3>1, CommitKeepsProject DEF Current, MembersCurrent
  <2>5. CASE team[k[2]] = Null
    <3>1. k[2] \in Kept(v.team) /\ v.team[k[2]].project = v.member[k]
      BY <1>3, <2>5 DEF Current, MembersCurrent
    <3>2. \A y \in Open \ {x} : k[2] \notin DOMAIN tx[y].team
      BY <1>3, <2>5, <3>1 DEF Current, TeamsCurrent
    <3>3. team'[k[2]] = Null
      BY <1>1, <1>2, <2>2, <2>5, <3>2, CommitRows
    <3> QED
      BY <3>1, <3>3
  <2> QED
    BY <2>4, <2>5
<1>6. RequestsCurrent(x, v)'
  <2>1. SUFFICES ASSUME NEW r \in Kept(v.request)
                 PROVE  IF request'[r] # Null
                        THEN /\ v.request[r].student = request'[r].student
                             /\ v.request[r].project = request'[r].project
                             /\ v.request[r].team = request'[r].team
                             /\ v.request[r].status # "PENDING"
                        ELSE /\ team'[v.request[r].team] # Null
                             /\ team'[v.request[r].team].project = v.request[r].project
                             /\ v.event = {} /\ ~v.flushed
                             /\ \A y \in Open' \ {x} : r \notin DOMAIN tx'[y].request
    BY <1>2 DEF RequestsCurrent, Kept
  <2>2. r \in DOMAIN v.request /\ r \in Requests /\ v.request[r] \in RequestRow
    BY <1>3, WorkFields, PartialFnElim DEF Kept
  <2>3. r \notin Erased(u.request) /\ v.request[r].team \notin Erased(u.team)
    BY <1>2, <2>1, <2>2 DEF Overtakes
  <2>4. CASE request[r] # Null
    <3>1. CASE r \in DOMAIN u.request
      <4>1. r \in Kept(u.request) /\ request'[r] = u.request[r] /\ request'[r] # Null
        BY <1>1, <2>2, <2>3, <3>1, CommitRows DEF Kept, Erased
      <4> QED
        BY <1>1, <1>3, <2>1, <2>4, <4>1 DEF Current, RequestsCurrent
    <3>2. CASE r \notin DOMAIN u.request
      <4>1. request'[r] = request[r]
        BY <1>1, <2>2, <3>2, CommitRows
      <4> QED
        BY <1>3, <2>1, <2>4, <4>1 DEF Current, RequestsCurrent
    <3> QED
      BY <3>1, <3>2
  <2>5. CASE request[r] = Null
    <3>1. /\ team[v.request[r].team] # Null
          /\ team[v.request[r].team].project = v.request[r].project
          /\ v.event = {} /\ ~v.flushed
          /\ \A y \in Open \ {x} : r \notin DOMAIN tx[y].request
      BY <1>3, <2>1, <2>5 DEF Current, RequestsCurrent
    <3>2. request'[r] = Null
      BY <1>1, <1>2, <2>2, <2>5, <3>1, CommitRows
    <3>3. v.request[r].team \in Teams /\ team'[v.request[r].team] # Null
      BY <1>1, <2>2, <2>3, <3>1, CommitRows DEF RequestRow, Erased
    <3> QED
      BY <1>2, <3>1, <3>2, <3>3, CommitKeepsProject
  <2> QED
    BY <2>4, <2>5
<1>7. OrphansCurrent(v)'
  <2>1. SUFFICES ASSUME NEW k \in v.orphan
                 PROVE  member'[k] # Null
    BY <1>2 DEF OrphansCurrent
  <2>2. k \in MemberKey /\ member[k] # Null
    BY <1>3, WorkFields DEF Current, OrphansCurrent
  <2>3. k \notin Erased(u.member)
    BY <1>2 DEF Overtakes
  <2> QED
    BY <2>2, <2>3, CommitRows DEF Erased
<1> QED
  BY <1>4, <1>5, <1>6, <1>7 DEF Current

(* The team and the member a call has read about survive it, or it fails.    *)
LEMMA CommitKeepsReading ==
  ASSUME IInv, NEW w \in Workers, Commit(w), NEW x \in Open' \ stale', reading'[x] # Null
  PROVE  ReadingCurrent(reading[x])'
<1> DEFINE r == reading[x]
<1>1. x \in Workers /\ x \in Open \ stale
  BY CommitRows DEF Open
<1>2. /\ r # Null /\ r \in Reading /\ ~Undercuts(tx[w], r)
      /\ reading'[x].student = r.student
      /\ reading'[x].team = r.team
      /\ reading'[x].next = r.next
  BY <1>1, CommitReading
<1>3. ReadingCurrent(r)
  BY <1>1, <1>2 DEF IInv
<1>4. r.team \in Teams /\ <<r.student, r.team>> \in MemberKey
  BY <1>2 DEF Reading, MemberKey
<1>5. team'[r.team] # Null
  BY <1>2, <1>3, <1>4, CommitRows DEF Undercuts, ReadingCurrent, Erased
<1>6. r.next \in {"count", "heir"} => member'[<<r.student, r.team>>] # Null
  BY <1>2, <1>3, <1>4, CommitRows DEF Undercuts, ReadingCurrent, Erased
<1> QED
  BY <1>2, <1>5, <1>6 DEF ReadingCurrent

LEMMA CommitKeepsInvariant ==
  ASSUME IInv, NEW w \in Workers, Commit(w)
  PROVE  IInv'
<1>1. TypeOK /\ tx[w] \in Work /\ w \in Open /\ Sound(tx[w])
  BY DEF IInv, TypeOK, Commit, Open
<1>2. TypeOK' /\ RowsAgree' /\ PlacesAgree' /\ UniqueKeys'
  BY <1>1, CommitRows, CommitKeepsRowsAgree, CommitKeepsPlaces, CommitKeepsUniqueKeys
<1>3. DatesOrdered'
  BY <1>1, CommitRows DEF IInv, DatesOrdered, Sound, ValidDates, Kept
<1>4. LockedRowsStand'
  <2>1. SUFFICES ASSUME NEW x \in Workers, NEW r \in Locked(x)'
                 PROVE  /\ request'[r] # Null
                        /\ tx'[x].request[r].status = "CANCELED" => request'[r].status = "PENDING"
    BY DEF LockedRowsStand
  <2>2. x # w /\ tx'[x] = tx[x] /\ r \in Locked(x) /\ x \in Open
    BY <1>1, CommitRows DEF Locked
  <2>3. r \in Requests /\ r \notin DOMAIN tx[w].request
    BY <1>1, <2>2, WorkFields DEF Locked, LockedByOthers, Commit, TypeOK, Open
  <2>4. request'[r] = request[r]
    BY <1>1, <2>3, CommitRows
  <2> QED
    BY <2>2, <2>4 DEF IInv, LockedRowsStand
<1>5. ASSUME NEW x \in Open'
      PROVE  Sound(tx[x])'
  <2>1. x \in Open /\ tx'[x] = tx[x]
    BY <1>1, CommitRows DEF Open
  <2> QED
    BY <2>1 DEF IInv, Sound, Kept, Erased, ValidDates
<1> QED
  BY <1>2, <1>3, <1>4, <1>5, CommitKeepsCurrent, CommitKeepsReading DEF IInv

-----------------------------------------------------------------------------
(* The listener, and rolling back. *)

(* A step that leaves the tables alone and changes one unit of work.         *)
LEMMA OneWorkerSteps ==
  ASSUME IInv, NEW w \in Open \ stale, NEW u \in Work,
         tx' = [tx EXCEPT ![w] = u],
         UNCHANGED <<tables, reading, stale>>,
         u.team = tx[w].team, u.member = tx[w].member, u.orphan = tx[w].orphan,
         \A r \in DOMAIN u.request \ DOMAIN tx[w].request : request[r] # Null,
         Sound(u), RequestsCurrent(w, u),
         u.flushed => \A r \in DOMAIN u.request :
           /\ request[r] # Null
           /\ u.request[r].status = "CANCELED" => request[r].status = "PENDING"
  PROVE  IInv'
<1>1. /\ tx \in [Workers -> Work \cup {Null}]
      /\ stale \subseteq Open
      /\ UNCHANGED <<project, team, member, orphan, request, reading, stale>>
  BY DEF IInv, TypeOK, tables
<1>2. /\ tx' \in [Workers -> Work \cup {Null}]
      /\ w \in Workers
      /\ tx'[w] = u
      /\ \A x \in Workers \ {w} : tx'[x] = tx[x]
      /\ Open' = Open
  BY <1>1, WorkAssumption DEF Open
<1>3. TypeOK'
  BY <1>1, <1>2 DEF IInv, TypeOK
<1>4. RowsAgree' /\ PlacesAgree' /\ UniqueKeys' /\ DatesOrdered'
  BY <1>1 DEF IInv, RowsAgree, InTeam, PlacesAgree, UniqueKeys, DatesOrdered, ValidDates
<1>5. LockedRowsStand'
  BY <1>1, <1>2 DEF IInv, LockedRowsStand, Locked, Open
<1>6. ASSUME NEW x \in Open'
      PROVE  Sound(tx[x])'
  <2>1. CASE x = w
    BY <2>1, <1>2 DEF Sound, Kept, Erased, ValidDates
  <2>2. CASE x # w
    <3>1. x \in Open /\ tx'[x] = tx[x]
      BY <2>2, <1>2 DEF Open
    <3> QED
      BY <3>1 DEF IInv, Sound, Kept, Erased, ValidDates
  <2> QED
    BY <2>1, <2>2
<1>7. ASSUME NEW x \in Open' \ stale'
      PROVE  Current(x, tx[x])'
  <2>1. x \in Open \ stale /\ Current(x, tx[x]) /\ x \in Workers
    BY <1>1, <1>2 DEF IInv, Open
  <2>2. CASE x = w
    <3>1. TeamsCurrent(x, u)'
      BY <1>1, <1>2, <2>1, <2>2 DEF Current, TeamsCurrent, Kept, Open
    <3>2. MembersCurrent(u)' /\ OrphansCurrent(u)'
      BY <1>1, <2>1, <2>2 DEF Current, MembersCurrent, OrphansCurrent, Kept
    <3>3. RequestsCurrent(x, u)'
      BY <1>1, <1>2, <2>2 DEF RequestsCurrent, Kept, Open
    <3> QED
      BY <1>2, <2>2, <3>1, <3>2, <3>3
      DEF Current, TeamsCurrent, MembersCurrent, OrphansCurrent, RequestsCurrent
  <2>3. CASE x # w
    <3>1. tx'[x] = tx[x]
      BY <1>2, <2>1, <2>3
    <3>2. TeamsCurrent(x, tx[x])'
      BY <1>1, <1>2, <2>1, <3>1 DEF Current, TeamsCurrent, Kept, Open
    <3>3. MembersCurrent(tx[x])' /\ OrphansCurrent(tx[x])'
      BY <1>1, <2>1, <3>1 DEF Current, MembersCurrent, OrphansCurrent, Kept
    <3>4. RequestsCurrent(x, tx[x])'
      <4>1. ASSUME NEW r \in Kept(tx[x].request), request[r] = Null
            PROVE  r \notin DOMAIN u.request
        BY <2>1, <2>3, <4>1 DEF Current, RequestsCurrent
      <4> QED
        BY <1>1, <1>2, <2>1, <3>1, <4>1 DEF Current, RequestsCurrent, Kept, Open
    <3> QED
      BY <3>2, <3>3, <3>4 DEF Current
  <2> QED
    BY <2>2, <2>3
<1>8. \A x \in Open' \ stale' : reading'[x] # Null => ReadingCurrent(reading[x])'
  BY <1>1, <1>2 DEF IInv, ReadingCurrent
<1> QED
  BY <1>3, <1>4, <1>5, <1>6, <1>7, <1>8 DEF IInv

(* A unit of work whose event is still to be handled has only decided        *)
(* requests that exist, and cancelled none.                                  *)
LEMMA WithEvent ==
  ASSUME IInv, NEW w \in Open \ stale, tx[w].event # {}
  PROVE  \A r \in DOMAIN tx[w].request :
           /\ r \in Kept(tx[w].request)
           /\ request[r] # Null
           /\ tx[w].request[r].status # "CANCELED"
  BY DEF IInv, Current, RequestsCurrent, Sound, Kept, Erased

LEMMA AutoFlushKeepsInvariant ==
  ASSUME IInv, NEW w \in Workers, AutoFlush(w)
  PROVE  IInv'
<1> DEFINE u == [tx[w] EXCEPT !.flushed = TRUE]
<1>1. /\ w \in Open \ stale
      /\ tx[w].event # {}
      /\ tx' = [tx EXCEPT ![w] = u]
      /\ UNCHANGED <<tables, reading, stale>>
  BY DEF AutoFlush
<1>2. tx[w] \in Work /\ Sound(tx[w]) /\ Current(w, tx[w])
  BY <1>1 DEF IInv, TypeOK, Open
<1>3. /\ u \in Work
      /\ u.flushed
      /\ u.event = tx[w].event
      /\ u.project = tx[w].project
      /\ u.team = tx[w].team
      /\ u.member = tx[w].member
      /\ u.orphan = tx[w].orphan
      /\ u.request = tx[w].request
  BY <1>2 DEF Work
<1>4. \A r \in DOMAIN u.request :
        r \in Kept(u.request) /\ request[r] # Null /\ u.request[r].status # "CANCELED"
  BY <1>1, <1>3, WithEvent
<1>5. Sound(u)
  BY <1>2, <1>3, <1>4 DEF Sound, Kept, Erased
<1>6. RequestsCurrent(w, u)
  BY <1>2, <1>3, <1>4 DEF Current, RequestsCurrent, Kept
<1> QED
  BY <1>1, <1>3, <1>4, <1>5, <1>6, OneWorkerSteps

LEMMA HandleStudentJoinedTeamKeepsInvariant ==
  ASSUME IInv, NEW w \in Workers, HandleStudentJoinedTeam(w)
  PROVE  IInv'
<1>1. PICK e \in tx[w].event :
        tx' = [tx EXCEPT
                 ![w].event = {},
                 ![w].request = [r \in DOMAIN @ \cup PendingRequests(w, e[1], e[2]) |->
                    IF r \in PendingRequests(w, e[1], e[2])
                    THEN [request[r] EXCEPT !.status = "CANCELED"] ELSE @[r]]]
  BY DEF HandleStudentJoinedTeam
<1> DEFINE hits == PendingRequests(w, e[1], e[2])
           old  == tx[w].request
           new  == [r \in DOMAIN old \cup hits |->
                      IF r \in hits THEN [request[r] EXCEPT !.status = "CANCELED"] ELSE old[r]]
           u    == [tx[w] EXCEPT !.event = {}, !.request = new]
<1>2. /\ w \in Open \ stale
      /\ tx[w].event # {}
      /\ tx[w].flushed
      /\ UNCHANGED <<tables, reading, stale>>
  BY <1>1 DEF HandleStudentJoinedTeam
<1>3. TypeOK /\ tx[w] \in Work /\ Sound(tx[w]) /\ Current(w, tx[w])
  BY <1>2 DEF IInv, TypeOK, Open
<1>4. /\ hits \subseteq Requests
      /\ \A r \in hits : /\ request[r] \in RequestRow
                         /\ request[r] # Null
                         /\ request[r].status = "PENDING"
                         /\ r \notin DOMAIN old
  BY <1>3 DEF PendingRequests, TypeOK
<1>5. \A r \in DOMAIN old :
        /\ r \in Kept(old)
        /\ request[r] # Null
        /\ old[r].status # "CANCELED"
  BY <1>2, WithEvent
<1>6. /\ DOMAIN new = DOMAIN old \cup hits
      /\ \A r \in hits : new[r] = [request[r] EXCEPT !.status = "CANCELED"]
      /\ \A r \in DOMAIN old : new[r] = old[r]
  BY <1>4
<1>7. \A r \in hits : /\ new[r] \in RequestRow
                      /\ new[r].student = request[r].student
                      /\ new[r].project = request[r].project
                      /\ new[r].team = request[r].team
                      /\ new[r].status = "CANCELED"
  BY <1>4, <1>6 DEF RequestRow, Status
<1>8. new \in PartialFn(Requests, RequestRow \cup {Null})
  <2>1. /\ DOMAIN old \subseteq Requests
        /\ \A r \in DOMAIN old : old[r] \in RequestRow \cup {Null}
    BY <1>3, WorkFields, PartialFnElim
  <2>2. new \in [DOMAIN old \cup hits -> RequestRow \cup {Null}]
    BY <1>6, <1>7, <2>1
  <2> QED
    BY <1>4, <2>1, <2>2, PartialFnIntro
<1>9. /\ u \in Work
      /\ u.flushed
      /\ u.event = {}
      /\ u.project = tx[w].project
      /\ u.team = tx[w].team
      /\ u.member = tx[w].member
      /\ u.orphan = tx[w].orphan
      /\ u.request = new
  <2> HIDE DEF new
  <2> QED
    BY <1>2, <1>3, <1>8 DEF Work
<1>10. tx' = [tx EXCEPT ![w] = u]
  BY <1>1
<1>11. Sound(u)
  BY <1>3, <1>4, <1>5, <1>6, <1>7, <1>9, StoreAssumption DEF Sound, Kept, Erased
<1>12. RequestsCurrent(w, u)
  <2>1. ASSUME NEW r \in Kept(u.request)
        PROVE  /\ request[r] # Null
               /\ u.request[r].student = request[r].student
               /\ u.request[r].project = request[r].project
               /\ u.request[r].team = request[r].team
               /\ u.request[r].status # "PENDING"
    <3>1. CASE r \in hits
      BY <3>1, <1>4, <1>7, <1>9
    <3>2. CASE r \in DOMAIN old
      BY <3>2, <1>3, <1>5, <1>6, <1>9 DEF Current, RequestsCurrent
    <3> QED
      BY <2>1, <1>6, <1>9, <3>1, <3>2 DEF Kept
  <2> QED
    BY <2>1 DEF RequestsCurrent
<1>13. \A r \in DOMAIN u.request :
         /\ request[r] # Null
         /\ u.request[r].status = "CANCELED" => request[r].status = "PENDING"
  BY <1>4, <1>5, <1>6, <1>9
<1>14. \A r \in DOMAIN u.request \ DOMAIN tx[w].request : request[r] # Null
  BY <1>13
<1> HIDE DEF u
<1> QED
  BY <1>2, <1>9, <1>10, <1>11, <1>12, <1>13, <1>14, OneWorkerSteps

LEMMA RollbackKeepsInvariant ==
  ASSUME IInv, NEW w \in Workers, Rollback(w)
  PROVE  IInv'
<1>1. /\ UNCHANGED <<project, team, member, orphan, request>>
      /\ tx' = [tx EXCEPT ![w] = Null]
      /\ reading' = [reading EXCEPT ![w] = Null]
      /\ reading \in [Workers -> Reading \cup {Null}]
      /\ stale' = stale \ {w}
      /\ tx \in [Workers -> Work \cup {Null}]
      /\ stale \subseteq Open
  BY DEF Rollback, tables, IInv, TypeOK
<1>2. /\ tx' \in [Workers -> Work \cup {Null}]
      /\ tx'[w] = Null
      /\ \A x \in Workers \ {w} : tx'[x] = tx[x]
      /\ Open' = Open \ {w}
      /\ reading' \in [Workers -> Reading \cup {Null}]
      /\ reading'[w] = Null
      /\ \A x \in Workers \ {w} : reading'[x] = reading[x]
  BY <1>1 DEF Open
<1>3. TypeOK'
  BY <1>1, <1>2 DEF IInv, TypeOK
<1>4. RowsAgree' /\ PlacesAgree' /\ UniqueKeys' /\ DatesOrdered'
  BY <1>1 DEF IInv, RowsAgree, InTeam, PlacesAgree, UniqueKeys, DatesOrdered, ValidDates
<1>5. LockedRowsStand'
  BY <1>1, <1>2 DEF IInv, LockedRowsStand, Locked
<1>6. \A x \in Open' : Sound(tx[x])'
  BY <1>2 DEF IInv, Sound, Kept, Erased, ValidDates, Open
<1>7. ASSUME NEW x \in Open' \ stale'
      PROVE  Current(x, tx[x])'
  <2>1. x \in Open \ stale /\ tx'[x] = tx[x] /\ Current(x, tx[x])
        /\ \A y \in Open' \ {x} : y \in Open \ {x} /\ tx'[y] = tx[y]
    BY <1>1, <1>2 DEF IInv, Open
  <2>2. TeamsCurrent(x, tx[x])'
    BY <1>1, <2>1 DEF Current, TeamsCurrent, Kept
  <2>3. MembersCurrent(tx[x])' /\ OrphansCurrent(tx[x])'
    BY <1>1, <2>1 DEF Current, MembersCurrent, OrphansCurrent, Kept
  <2>4. RequestsCurrent(x, tx[x])'
    BY <1>1, <2>1 DEF Current, RequestsCurrent, Kept
  <2> QED
    BY <2>2, <2>3, <2>4 DEF Current
<1>8. \A x \in Open' \ stale' : reading'[x] # Null => ReadingCurrent(reading[x])'
  BY <1>1, <1>2 DEF IInv, ReadingCurrent, Open
<1> QED
  BY <1>3, <1>4, <1>5, <1>6, <1>7, <1>8 DEF IInv

-----------------------------------------------------------------------------
(* The operations: each begins with a fit unit of work. *)

(* Writing one row, or none if it is not dirty.                              *)
LEMMA UpdateRows ==
  ASSUME NEW table, NEW k, NEW row
  PROVE  /\ DOMAIN Update(table, k, row) \subseteq {k}
         /\ \A x \in DOMAIN Update(table, k, row) : Update(table, k, row)[x] = row
  BY DEF Update, NoWrites, Put

LEMMA UpdateType ==
  ASSUME NEW S, NEW R, NEW table, NEW k \in S, NEW row \in R
  PROVE  Update(table, k, row) \in PartialFn(S, R \cup {Null})
<1>1. CASE row = table[k]
  <2>1. Update(table, k, row) = NoWrites
    BY <1>1 DEF Update
  <2> QED
    BY <2>1, NoWritesType
<1>2. CASE row # table[k]
  <2>1. Update(table, k, row) = Put(k, row)
    BY <1>2 DEF Update
  <2> QED
    BY <2>1, PutType
<1> QED
  BY <1>1, <1>2

(* Saving a valid project row.                                               *)
LEMMA ProjectWriteKeepsInvariant ==
  ASSUME IInv, NEW w \in Workers, NEW op \in Operations,
         NEW row \in ProjectRow, ValidDates(row),
         NEW write \in PartialFn(Projects, ProjectRow \cup {Null}),
         \A p \in DOMAIN write : write[p] = row,
         NEW u, u = [Blank(op) EXCEPT !.project = write],
         Begin(w, u)
  PROVE  IInv'
<1>1. /\ u \in Work /\ ~u.flushed /\ u.event = {}
      /\ u.project = write
      /\ u.team = NoWrites /\ u.member = NoWrites /\ u.orphan = {} /\ u.request = NoWrites
  BY NoWritesType DEF Work, Blank
<1>2. Sound(u)
  BY <1>1, NoWritesType DEF Sound, Kept, Erased
<1>3. Current(w, u)
  BY <1>1, NoWritesType
  DEF Current, TeamsCurrent, MembersCurrent, OrphansCurrent, RequestsCurrent, Kept
<1>4. Claims(u)
  BY <1>1, NoWritesType DEF Claims
<1> QED
  BY <1>1, <1>2, <1>3, <1>4, BeginKeepsInvariant DEF Fit

LEMMA CreateProjectKeepsInvariant ==
  ASSUME IInv, NEW w \in Workers, NEW p \in Projects, NEW max \in Sizes,
         NEW start \in Dates, NEW end \in Dates,
         CreateProject(w, p, max, start, end)
  PROVE  IInv'
<1>1. PICK row \in ProjectRow :
        ValidDates(row) /\ Begin(w, [Blank("createProject") EXCEPT !.project = Put(p, row)])
  BY DEF CreateProject, ProjectRow
<1>2. Put(p, row) \in PartialFn(Projects, ProjectRow \cup {Null})
  BY PutType
<1>4. DOMAIN Put(p, row) = {p} /\ Put(p, row)[p] = row
  BY PutRow
<1>3. "createProject" \in Operations
  BY DEF Operations
<1> QED
  BY <1>1, <1>2, <1>3, <1>4, ProjectWriteKeepsInvariant

LEMMA UpdateProjectKeepsInvariant ==
  ASSUME IInv, NEW w \in Workers, NEW p \in Projects, NEW max \in Sizes,
         NEW start \in Dates \cup {0}, NEW end \in Dates \cup {0},
         UpdateProject(w, p, max, start, end)
  PROVE  IInv'
<1>1. MergedProject(p, max, start, end) \in ProjectRow
  BY DEF UpdateProject, MergedProject, ProjectRow, IInv, TypeOK
<1>2. PICK row \in ProjectRow :
        /\ ValidDates(row)
        /\ Begin(w, [Blank("updateProject") EXCEPT !.project = Update(project, p, row)])
  BY <1>1 DEF UpdateProject
<1>3. Update(project, p, row) \in PartialFn(Projects, ProjectRow \cup {Null})
  BY UpdateType
<1>5. \A k \in DOMAIN Update(project, p, row) : Update(project, p, row)[k] = row
  BY UpdateRows
<1>4. "updateProject" \in Operations
  BY DEF Operations
<1> QED
  BY <1>2, <1>3, <1>4, <1>5, ProjectWriteKeepsInvariant

(* Deleting teams with their members and join requests.                      *)
LEMMA CascadeKeepsInvariant ==
  ASSUME IInv, NEW w \in Workers, NEW op \in Operations, NEW gone \in SUBSET Teams,
         \A t \in gone : team[t] # Null,
         NEW loaded \in SUBSET MemberKey,
         NEW erased \in PartialFn(Projects, ProjectRow \cup {Null}), Kept(erased) = {},
         NEW u, \/ u = CascadeTeams(op, gone, loaded)
                \/ u = [CascadeTeams(op, gone, loaded) EXCEPT !.project = erased],
         Settles(w, u, Null)
  PROVE  IInv'
<1> DEFINE Q == {r \in Requests : request[r] # Null /\ request[r].team \in gone}
<1>1. /\ Q \in SUBSET Requests
      /\ \A r \in Q : request[r] # Null
  OBVIOUS
<1>2. /\ Erase(gone) \in PartialFn(Teams, TeamRow \cup {Null})
      /\ DOMAIN Erase(gone) = gone /\ Kept(Erase(gone)) = {}
  BY EraseType, EraseRows
<1>3. /\ Erase(loaded) \in PartialFn(MemberKey, Projects \cup {Null})
      /\ Kept(Erase(loaded)) = {}
  BY EraseType, EraseRows
<1>4. /\ Erase(Q) \in PartialFn(Requests, RequestRow \cup {Null})
      /\ DOMAIN Erase(Q) = Q /\ Kept(Erase(Q)) = {}
  BY <1>1, EraseType, EraseRows
<1>5. /\ u \in Work /\ ~u.flushed /\ u.event = {}
      /\ Kept(u.project) = {} /\ u.team = Erase(gone)
      /\ u.member = Erase(loaded) /\ u.orphan = {} /\ u.request = Erase(Q)
  <2>1. PICK kept \in PartialFn(Projects, ProjectRow \cup {Null}) :
          /\ Kept(kept) = {}
          /\ \/ u = CascadeTeams(op, gone, loaded) /\ kept = NoWrites
             \/ u = [CascadeTeams(op, gone, loaded) EXCEPT !.project = kept]
    BY NoWritesType DEF Kept
  <2>2. /\ ~u.flushed /\ u.event = {} /\ u.project = kept /\ u.team = Erase(gone)
        /\ u.member = Erase(loaded) /\ u.orphan = {} /\ u.request = Erase(Q)
    BY <2>1 DEF CascadeTeams, Blank
  <2>3. Blank(op) \in Work
    BY BlankFit DEF Fit
  <2> HIDE DEF Q
  <2>4. [Blank(op) EXCEPT !.team = Erase(gone), !.member = Erase(loaded), !.request = Erase(Q)]
          \in Work
    <3>1. [Blank(op) EXCEPT !.team = Erase(gone)] \in Work
      BY <2>3, <1>2 DEF Work
    <3>2. [[Blank(op) EXCEPT !.team = Erase(gone)] EXCEPT !.member = Erase(loaded)] \in Work
      BY <3>1, <1>3 DEF Work
    <3>3. [[[Blank(op) EXCEPT !.team = Erase(gone)] EXCEPT !.member = Erase(loaded)]
              EXCEPT !.request = Erase(Q)] \in Work
      BY <3>2, <1>4 DEF Work
    <3> QED
      BY <3>3
  <2>5. CascadeTeams(op, gone, loaded) \in Work
    BY <2>4 DEF CascadeTeams, Q
  <2>6. u \in Work
    BY <2>1, <2>5 DEF Work
  <2> QED
    BY <2>1, <2>2, <2>6
<1>6. Sound(u)
  BY <1>2, <1>3, <1>4, <1>5 DEF Sound
<1>7. Current(w, u)
  BY <1>2, <1>3, <1>4, <1>5
  DEF Current, TeamsCurrent, MembersCurrent, OrphansCurrent, RequestsCurrent
<1>8. Claims(u)
  BY <1>1, <1>2, <1>4, <1>5 DEF Claims
<1> QED
  BY <1>5, <1>6, <1>7, <1>8, SettlesKeepsInvariant DEF Fit

LEMMA DeleteProjectKeepsInvariant ==
  ASSUME IInv, NEW w \in Workers, NEW p \in Projects, DeleteProject(w, p)
  PROVE  IInv'
<1> DEFINE gone   == {t \in Teams : team[t] # Null /\ team[t].project = p}
           loaded == {k \in MemberKey : k[2] \in gone /\ InTeam(k[1], k[2])}
           u == [CascadeTeams("deleteProject", gone, loaded) EXCEPT !.project = Erase({p})]
<1>1. Begin(w, u)
  BY DEF DeleteProject
<1>2. Erase({p}) \in PartialFn(Projects, ProjectRow \cup {Null}) /\ Kept(Erase({p})) = {}
  BY EraseType, EraseRows
<1>3. /\ gone \in SUBSET Teams /\ \A t \in gone : team[t] # Null
      /\ loaded \in SUBSET MemberKey
  OBVIOUS
<1>4. "deleteProject" \in Operations
  BY DEF Operations
<1> HIDE DEF gone, loaded
<1>5. Settles(w, u, Null)
  BY <1>1, BeginSettles
<1> QED
  BY <1>2, <1>3, <1>4, <1>5, CascadeKeepsInvariant

(* Teams that get another leader, members that go.                           *)
LEMMA TeamChangeKeepsInvariant ==
  ASSUME IInv, NEW w \in Workers, NEW u \in Work,
         ~u.flushed, u.event = {}, u.project = NoWrites, u.request = NoWrites,
         Kept(u.member) = {},
         OrphansCurrent(u),
         \A t \in DOMAIN u.team :
            team[t] # Null /\ u.team[t].project = team[t].project,
         Settles(w, u, Null)
  PROVE  IInv'
<1>1. Sound(u)
  BY NoWritesType DEF Sound, Kept, Erased
<1>2. Current(w, u)
  BY NoWritesType DEF Current, TeamsCurrent, MembersCurrent, RequestsCurrent, Kept
<1>3. Claims(u)
  BY NoWritesType DEF Claims
<1> QED
  BY <1>1, <1>2, <1>3, SettlesKeepsInvariant DEF Fit

LEMMA RemoveMemberKeepsInvariant ==
  ASSUME IInv, NEW w \in Workers, NEW t \in Teams, NEW s \in Students,
         RemoveMember(w, t, s)
  PROVE  IInv'
<1> DEFINE gone == Erase({<<s, t>>})
<1>1. PICK u : u = [Blank("removeMember") EXCEPT !.member = gone] /\ Begin(w, u)
  BY DEF RemoveMember
<1>2. gone \in PartialFn(MemberKey, Projects \cup {Null}) /\ Kept(gone) = {}
  <2>1. {<<s, t>>} \in SUBSET MemberKey
    BY DEF MemberKey
  <2> QED
    BY <2>1, EraseType, EraseRows
<1> HIDE DEF gone
<1>3. /\ u \in Work /\ ~u.flushed /\ u.event = {} /\ u.project = NoWrites
      /\ u.team = NoWrites /\ u.member = gone /\ u.orphan = {} /\ u.request = NoWrites
  BY <1>1, <1>2, NoWritesType DEF Blank, Work, Operations
<1>4. OrphansCurrent(u) /\ Settles(w, u, Null)
  BY <1>1, <1>3, BeginSettles DEF OrphansCurrent
<1> QED
  BY <1>2, <1>3, <1>4, NoWritesType, TeamChangeKeepsInvariant

(* The methods that decide by several statements: what they read first. *)
LEMMA TeamCallsKeepInvariant ==
  ASSUME IInv, NEW w \in Workers, NEW t \in Teams, NEW s \in Students,
         \/ LeaveTeam(w, t, s)
         \/ \E old \in Students : ChangeLeader(w, t, old, s)
         \/ AddMember(w, t, s)
  PROVE  IInv'
<1>1. team[t] # Null
  BY DEF LeaveTeam, ChangeLeader, AddMember
<1>2. PICK op \in Operations, bag \in SUBSET Students,
           statement \in {"find", "appoint", "insert"} :
        BeginReading(w, op, Loaded(t, s, bag, statement))
  BY DEF LeaveTeam, ChangeLeader, AddMember, Operations, MembersOf
<1> QED
  BY <1>1, <1>2, BeginReadingKeepsInvariant

(* What a call that comes to its next statement knows. *)
LEMMA Reached ==
  ASSUME IInv, NEW w \in Workers, NEW statement, Reaches(w, statement)
  PROVE  /\ w \in Open \ stale
         /\ reading[w] # Null
         /\ reading[w] \in Reading
         /\ reading[w].student \in Students
         /\ reading[w].team \in Teams
         /\ reading[w].bag \subseteq Students
         /\ <<reading[w].student, reading[w].team>> \in MemberKey
         /\ team[reading[w].team] # Null
         /\ team[reading[w].team] \in TeamRow
         /\ statement \in {"count", "heir"} =>
              member[<<reading[w].student, reading[w].team>>] # Null
<1>1. w \in Open \ stale /\ reading[w] # Null /\ reading[w].next = statement
  BY DEF Reaches
<1>2. reading[w] \in Reading /\ ReadingCurrent(reading[w])
  BY <1>1 DEF IInv, TypeOK
<1>3. reading[w].student \in Students /\ reading[w].team \in Teams
  BY <1>2 DEF Reading
<1> QED
  BY <1>1, <1>2, <1>3 DEF ReadingCurrent, Reading, MemberKey, IInv, TypeOK

LEMMA NewLeaderType ==
  ASSUME IInv, NEW r \in Reading, team[r.team] # Null, NEW s \in Students
  PROVE  /\ NewLeader(r, s) \in PartialFn(Teams, TeamRow \cup {Null})
         /\ \A x \in DOMAIN NewLeader(r, s) :
              team[x] # Null /\ NewLeader(r, s)[x].project = team[x].project
<1> DEFINE row == [team[r.team] EXCEPT !.leader = s]
<1>0. r.team \in Teams /\ team[r.team] \in TeamRow
  BY DEF IInv, TypeOK, Reading
<1>1. row \in TeamRow /\ row.project = team[r.team].project
  BY <1>0 DEF TeamRow
<1>2. NewLeader(r, s) = IF s = r.leader THEN NoWrites ELSE Put(r.team, row)
  BY DEF NewLeader
<1> HIDE DEF row
<1>3. /\ Put(r.team, row) \in PartialFn(Teams, TeamRow \cup {Null})
      /\ DOMAIN Put(r.team, row) = {r.team} /\ Put(r.team, row)[r.team] = row
  BY <1>0, <1>1, PutType, PutRow
<1>4. NoWrites \in PartialFn(Teams, TeamRow \cup {Null}) /\ DOMAIN NoWrites = {}
  BY NoWritesType
<1> QED
  BY <1>1, <1>2, <1>3, <1>4

(* Taking a member out of a team: the row goes, or it loses its team.        *)
LEMMA TakesOutFields ==
  ASSUME NEW r
  PROVE  LET u == TakesOut(r) IN
         /\ u.op = "leaveTeam" /\ ~u.flushed /\ u.event = {} /\ u.project = NoWrites
         /\ u.team = NoWrites /\ u.request = NoWrites
         /\ \/ /\ r.student \in r.bag
               /\ u.member = Erase({<<r.student, r.team>>}) /\ u.orphan = {}
            \/ /\ r.student \notin r.bag
               /\ u.member = NoWrites /\ u.orphan = {<<r.student, r.team>>}
  BY DEF TakesOut, Blank

LEMMA TakesOutType ==
  ASSUME NEW r, <<r.student, r.team>> \in MemberKey,
         NEW write \in PartialFn(Teams, TeamRow \cup {Null})
  PROVE  /\ [TakesOut(r) EXCEPT !.team = write] \in Work
         /\ TakesOut(r) \in Work
         /\ Kept(TakesOut(r).member) = {}
<1> DEFINE k == <<r.student, r.team>>
<1>1. /\ Erase({k}) \in PartialFn(MemberKey, Projects \cup {Null})
      /\ Kept(Erase({k})) = {}
  BY EraseType, EraseRows
<1>2. /\ NoWrites \in PartialFn(MemberKey, Projects \cup {Null})
      /\ NoWrites \in PartialFn(Teams, TeamRow \cup {Null})
      /\ NoWrites \in PartialFn(Projects, ProjectRow \cup {Null})
      /\ NoWrites \in PartialFn(Requests, RequestRow \cup {Null})
      /\ Kept(NoWrites) = {}
  BY NoWritesType DEF Kept
<1>3. "leaveTeam" \in Operations
  BY DEF Operations
<1>4. CASE r.student \in r.bag
  <2>1. TakesOut(r) =
          [op |-> "leaveTeam", event |-> {}, flushed |-> FALSE, project |-> NoWrites,
           team |-> NoWrites, member |-> Erase({k}), orphan |-> {}, request |-> NoWrites]
    BY <1>4 DEF TakesOut, Blank
  <2> HIDE DEF k
  <2>2. TakesOut(r) \in Work
    BY <2>1, <1>1, <1>2, <1>3 DEF Work
  <2>3. [TakesOut(r) EXCEPT !.team = write] \in Work
    BY <2>2 DEF Work
  <2>4. TakesOut(r).member = Erase({k})
    BY <2>1
  <2> QED
    BY <2>2, <2>3, <2>4, <1>1
<1>5. CASE r.student \notin r.bag
  <2>1. TakesOut(r) =
          [op |-> "leaveTeam", event |-> {}, flushed |-> FALSE, project |-> NoWrites,
           team |-> NoWrites, member |-> NoWrites, orphan |-> {k}, request |-> NoWrites]
    BY <1>5 DEF TakesOut, Blank
  <2>2. {k} \in SUBSET MemberKey
    OBVIOUS
  <2> HIDE DEF k
  <2>3. TakesOut(r) \in Work
    BY <2>1, <2>2, <1>2, <1>3 DEF Work
  <2>4. [TakesOut(r) EXCEPT !.team = write] \in Work
    BY <2>3 DEF Work
  <2> QED
    BY <2>1, <2>3, <2>4, <1>2
<1> QED
  BY <1>4, <1>5

LEMMA FindMemberKeepsInvariant ==
  ASSUME IInv, NEW w \in Workers, FindMember(w)
  PROVE  IInv'
<1>1. Reaches(w, "find") /\ ReadOn(w, "count")
      /\ member[<<reading[w].student, reading[w].team>>] # Null
  BY DEF FindMember, InTeam
<1> QED
  BY <1>1, Reached, ReadOnKeepsInvariant DEF Statements

(* A call of leaveTeam takes its student out, and may name another leader.   *)
LEMMA TakesOutKeepsInvariant ==
  ASSUME IInv, NEW w \in Workers, NEW statement \in {"count", "heir"}, Reaches(w, statement),
         NEW write \in PartialFn(Teams, TeamRow \cup {Null}),
         \A t \in DOMAIN write : team[t] # Null /\ write[t].project = team[t].project,
         NEW u, u = [TakesOut(reading[w]) EXCEPT !.team = write],
         Decide(w, u), stale' = stale
  PROVE  IInv'
<1> DEFINE r == reading[w]
<1>1. <<r.student, r.team>> \in MemberKey /\ member[<<r.student, r.team>>] # Null
  BY Reached
<1>2. u \in Work /\ TakesOut(r) \in Work /\ Kept(TakesOut(r).member) = {}
  BY <1>1, TakesOutType
<1>3. /\ u.team = write /\ u.member = TakesOut(r).member /\ u.orphan = TakesOut(r).orphan
      /\ u.flushed = TakesOut(r).flushed /\ u.event = TakesOut(r).event
      /\ u.project = TakesOut(r).project /\ u.request = TakesOut(r).request
  BY <1>2 DEF TakesOut, Blank
<1>4. /\ ~u.flushed /\ u.event = {} /\ u.project = NoWrites /\ u.request = NoWrites
      /\ u.orphan \subseteq {<<r.student, r.team>>}
  BY <1>3, TakesOutFields
<1>5. OrphansCurrent(u)
  BY <1>1, <1>4 DEF OrphansCurrent
<1>6. Settles(w, u, Null)
  BY DecideSettles
<1>7. Kept(u.member) = {}
  BY <1>2, <1>3
<1>8. \A t \in DOMAIN u.team : team[t] # Null /\ u.team[t].project = team[t].project
  BY <1>3
<1> QED
  BY <1>2, <1>4, <1>5, <1>6, <1>7, <1>8, TeamChangeKeepsInvariant

LEMMA CountMembersKeepsInvariant ==
  ASSUME IInv, NEW w \in Workers, CountMembers(w)
  PROVE  IInv'
<1> DEFINE r == reading[w]
           u == CascadeTeams("leaveTeam", {r.team}, r.bag \X {r.team})
<1>1. Reaches(w, "count")
  BY DEF CountMembers
<1>2. /\ w \in Open \ stale /\ r # Null /\ r \in Reading /\ r.team \in Teams
      /\ r.bag \subseteq Students /\ team[r.team] # Null
      /\ member[<<r.student, r.team>>] # Null
  BY <1>1, Reached
<1>3. CASE Decide(w, u) /\ stale' = stale \cup {x \in {w} : r.lost}
  <2>1. Settles(w, u, Null)
    <3> HIDE DEF u, r
    <3> QED
      BY <1>3, DecideSettles
  <2>2. NoWrites \in PartialFn(Projects, ProjectRow \cup {Null}) /\ Kept(NoWrites) = {}
    BY NoWritesType DEF Kept
  <2>3. /\ {r.team} \in SUBSET Teams /\ \A t \in {r.team} : team[t] # Null
        /\ r.bag \X {r.team} \in SUBSET MemberKey
    BY <1>2 DEF MemberKey
  <2>4. "leaveTeam" \in Operations
    BY DEF Operations
  <2> QED
    BY <2>1, <2>2, <2>3, <2>4, CascadeKeepsInvariant
<1>4. CASE ReadOn(w, "heir")
  BY <1>2, <1>4, ReadOnKeepsInvariant DEF Statements
<1>5. CASE Decide(w, TakesOut(r)) /\ stale' = stale
  <2>1. NoWrites \in PartialFn(Teams, TeamRow \cup {Null}) /\ DOMAIN NoWrites = {}
    BY NoWritesType
  <2>2. <<r.student, r.team>> \in MemberKey
    BY <1>1, Reached
  <2>3. TakesOut(r) = [TakesOut(r) EXCEPT !.team = NoWrites]
    <3>1. TakesOut(r) \in Work /\ TakesOut(r).team = NoWrites
      BY <2>1, <2>2, TakesOutType, TakesOutFields
    <3> QED
      BY <3>1 DEF Work
  <2> QED
    BY <1>1, <1>5, <2>1, <2>3, TakesOutKeepsInvariant
<1> QED
  BY <1>3, <1>4, <1>5 DEF CountMembers

LEMMA PromoteHeirKeepsInvariant ==
  ASSUME IInv, NEW w \in Workers, PromoteHeir(w)
  PROVE  IInv'
<1> DEFINE r == reading[w]
<1>1. Reaches(w, "heir")
  BY DEF PromoteHeir
<1>2. PICK heir \in Students :
        Decide(w, [TakesOut(r) EXCEPT !.team = NewLeader(r, heir)]) /\ stale' = stale
  BY DEF PromoteHeir, MembersOf
<1>3. r \in Reading /\ team[r.team] # Null
  BY <1>1, Reached
<1>4. /\ NewLeader(r, heir) \in PartialFn(Teams, TeamRow \cup {Null})
      /\ \A t \in DOMAIN NewLeader(r, heir) :
           team[t] # Null /\ NewLeader(r, heir)[t].project = team[t].project
  BY <1>3, NewLeaderType
<1> QED
  BY <1>1, <1>2, <1>4, TakesOutKeepsInvariant

LEMMA AppointLeaderKeepsInvariant ==
  ASSUME IInv, NEW w \in Workers, AppointLeader(w)
  PROVE  IInv'
<1> DEFINE r == reading[w]
<1>1. Reaches(w, "appoint") /\ stale' = stale
  BY DEF AppointLeader
<1>2. PICK u : u = [Blank("changeLeader") EXCEPT !.team = NewLeader(r, r.student)] /\ Decide(w, u)
  BY DEF AppointLeader
<1>3. r \in Reading /\ r.student \in Students /\ team[r.team] # Null
  BY <1>1, Reached
<1>4. /\ NewLeader(r, r.student) \in PartialFn(Teams, TeamRow \cup {Null})
      /\ \A t \in DOMAIN NewLeader(r, r.student) :
           team[t] # Null /\ NewLeader(r, r.student)[t].project = team[t].project
  BY <1>3, NewLeaderType
<1>5. /\ u \in Work /\ ~u.flushed /\ u.event = {} /\ u.project = NoWrites
      /\ u.team = NewLeader(r, r.student) /\ u.member = NoWrites /\ u.orphan = {}
      /\ u.request = NoWrites
  BY <1>2, <1>4, NoWritesType DEF Blank, Work, Operations
<1>6. Kept(u.member) = {} /\ OrphansCurrent(u)
  BY <1>5, NoWritesType DEF Kept, OrphansCurrent
<1>7. Settles(w, u, Null)
  BY <1>1, <1>2, DecideSettles
<1> QED
  BY <1>4, <1>5, <1>6, <1>7, TeamChangeKeepsInvariant

LEMMA CreateTeamKeepsInvariant ==
  ASSUME IInv, NEW w \in Workers, NEW p \in Projects, NEW t \in Teams, NEW s \in Students,
         CreateTeam(w, p, t, s)
  PROVE  IInv'
<1> DEFINE k   == <<s, t>>
           e   == {<<s, p>>}
           row == [project |-> p, leader |-> s]
           put == Put(t, row)
           ins == Put(k, p)
           u   == [Blank("createTeam") EXCEPT !.event = e, !.team = put, !.member = ins]
<1>1. Begin(w, u) /\ FreshTeam(t) /\ team[t] = Null
  BY DEF CreateTeam, FreshTeam
<1>2. /\ row \in TeamRow /\ row.project = p /\ e \in SUBSET (Students \X Projects)
      /\ k \in MemberKey /\ k[1] = s /\ k[2] = t
  BY DEF TeamRow, MemberKey
<1> HIDE DEF k, e, row
<1>3. row # Null /\ p # Null
  BY <1>2, StoreAssumption
<1>4. put \in PartialFn(Teams, TeamRow \cup {Null}) /\ DOMAIN put = {t} /\ put[t] = row
  BY <1>2, PutType, PutRow
<1>5. ins \in PartialFn(MemberKey, Projects \cup {Null}) /\ DOMAIN ins = {k} /\ ins[k] = p
  BY <1>2, PutType, PutRow
<1> HIDE DEF put, ins
<1>6. /\ u \in Work /\ ~u.flushed /\ u.project = NoWrites /\ u.request = NoWrites
      /\ u.team = put /\ u.member = ins /\ u.orphan = {}
  BY <1>2, <1>4, <1>5, NoWritesType DEF Blank, Work, Operations
<1> HIDE DEF u
<1>7. Sound(u)
  BY <1>5, <1>6, NoWritesType DEF Sound, Kept, Erased
<1>8. TeamsCurrent(w, u)
  BY <1>1, <1>4, <1>6 DEF TeamsCurrent, FreshTeam, Kept
<1>9. MembersCurrent(u) /\ OrphansCurrent(u)
  BY <1>1, <1>2, <1>3, <1>4, <1>5, <1>6 DEF MembersCurrent, OrphansCurrent, Kept
<1>10. RequestsCurrent(w, u)
  BY <1>6, NoWritesType DEF RequestsCurrent, Kept
<1>11. Claims(u)
  BY <1>1, <1>4, <1>6, NoWritesType DEF Claims
<1> QED
  BY <1>1, <1>6, <1>7, <1>8, <1>9, <1>10, <1>11, BeginKeepsInvariant DEF Fit, Current

LEMMA InsertMemberKeepsInvariant ==
  ASSUME IInv, NEW w \in Workers, InsertMember(w)
  PROVE  IInv'
<1> DEFINE s   == reading[w].student
           t   == reading[w].team
           p   == team[t].project
           k   == <<s, t>>
           e   == {<<s, p>>}
           ins == Put(k, p)
           u   == [Blank("addMember") EXCEPT !.event = e, !.member = ins]
<1>1. Reaches(w, "insert") /\ stale' = stale /\ Decide(w, u) /\ k[1] = s /\ k[2] = t
  BY DEF InsertMember
<1>2. /\ s \in Students /\ t \in Teams /\ k \in MemberKey /\ team[t] # Null
      /\ p \in Projects
  <2>1. /\ s \in Students /\ t \in Teams /\ k \in MemberKey /\ team[t] # Null
        /\ team[t] \in TeamRow
    BY <1>1, Reached
  <2> QED
    BY <2>1 DEF TeamRow
<1> HIDE DEF s, t
<1>3. e \in SUBSET (Students \X Projects)
  BY <1>2
<1> HIDE DEF p, k, e
<1>4. ins \in PartialFn(MemberKey, Projects \cup {Null}) /\ DOMAIN ins = {k} /\ ins[k] = p
  BY <1>2, PutType, PutRow
<1> HIDE DEF ins
<1>5. /\ u \in Work /\ ~u.flushed /\ u.project = NoWrites /\ u.request = NoWrites
      /\ u.team = NoWrites /\ u.member = ins /\ u.orphan = {}
  BY <1>3, <1>4, NoWritesType DEF Blank, Work, Operations
<1> HIDE DEF u
<1>6. Sound(u)
  BY <1>4, <1>5, NoWritesType DEF Sound, Kept, Erased
<1>7. MembersCurrent(u) /\ OrphansCurrent(u)
  BY <1>1, <1>2, <1>4, <1>5 DEF MembersCurrent, OrphansCurrent, Kept, p
<1>8. TeamsCurrent(w, u) /\ RequestsCurrent(w, u) /\ Claims(u)
  BY <1>5, NoWritesType DEF TeamsCurrent, RequestsCurrent, Claims, Kept
<1>9. Settles(w, u, Null)
  BY <1>1, DecideSettles
<1> QED
  BY <1>5, <1>6, <1>7, <1>8, <1>9, SettlesKeepsInvariant DEF Fit, Current

LEMMA CreateJoinRequestKeepsInvariant ==
  ASSUME IInv, NEW w \in Workers, NEW r \in Requests, NEW t \in Teams, NEW s \in Students,
         CreateJoinRequest(w, r, t, s)
  PROVE  IInv'
<1> DEFINE row == [student |-> s, project |-> team[t].project, team |-> t, status |-> "PENDING"]
           ins == Put(r, row)
           u   == [Blank("createJoinRequest") EXCEPT !.request = ins]
<1>1. Begin(w, u) /\ team[t] # Null /\ FreshRequest(r)
  BY DEF CreateJoinRequest
<1>2. team[t].project \in Projects /\ request[r] = Null
  <2>1. team[t] \in TeamRow
    BY <1>1 DEF IInv, TypeOK
  <2> QED
    BY <1>1, <2>1 DEF FreshRequest, TeamRow
<1>3. /\ row \in RequestRow
      /\ row.team = t /\ row.project = team[t].project /\ row.status = "PENDING"
  BY <1>2 DEF RequestRow, Status
<1> HIDE DEF row
<1>4. ins \in PartialFn(Requests, RequestRow \cup {Null}) /\ DOMAIN ins = {r} /\ ins[r] = row
  BY <1>3, PutType, PutRow
<1> HIDE DEF ins
<1>5. /\ u \in Work /\ ~u.flushed /\ u.event = {} /\ u.project = NoWrites
      /\ u.team = NoWrites /\ u.member = NoWrites /\ u.orphan = {} /\ u.request = ins
  BY <1>4, NoWritesType DEF Blank, Work, Operations
<1> HIDE DEF u
<1>6. Sound(u)
  BY <1>3, <1>4, <1>5, NoWritesType DEF Sound, Kept, Erased
<1>7. TeamsCurrent(w, u) /\ MembersCurrent(u) /\ OrphansCurrent(u)
  BY <1>5, NoWritesType DEF TeamsCurrent, MembersCurrent, OrphansCurrent, Kept
<1>8. RequestsCurrent(w, u)
  BY <1>1, <1>2, <1>3, <1>4, <1>5 DEF RequestsCurrent, FreshRequest, Kept
<1>9. Claims(u)
  BY <1>1, <1>4, <1>5, NoWritesType DEF Claims
<1> QED
  BY <1>1, <1>5, <1>6, <1>7, <1>8, <1>9, BeginKeepsInvariant DEF Fit, Current

LEMMA DeleteJoinRequestKeepsInvariant ==
  ASSUME IInv, NEW w \in Workers, NEW r \in Requests, DeleteJoinRequest(w, r)
  PROVE  IInv'
<1> DEFINE gone == Erase({r})
<1>1. PICK u : u = [Blank("deleteJoinRequest") EXCEPT !.request = gone] /\ Begin(w, u)
  BY DEF DeleteJoinRequest
<1>2. /\ gone \in PartialFn(Requests, RequestRow \cup {Null})
      /\ DOMAIN gone = {r} /\ Kept(gone) = {}
  BY EraseType, EraseRows
<1> HIDE DEF gone
<1>3. /\ u \in Work /\ ~u.flushed /\ u.event = {} /\ u.project = NoWrites
      /\ u.team = NoWrites /\ u.member = NoWrites /\ u.orphan = {} /\ u.request = gone
  BY <1>1, <1>2, NoWritesType DEF Blank, Work, Operations
<1>4. DOMAIN u.request = {r} /\ Kept(u.request) = {} /\ request[r] # Null
  BY <1>2, <1>3 DEF DeleteJoinRequest
<1>5. Sound(u) /\ Current(w, u)
  BY <1>3, <1>4, NoWritesType
  DEF Sound, Current, TeamsCurrent, MembersCurrent, OrphansCurrent, RequestsCurrent, Kept, Erased
<1>6. Claims(u)
  BY <1>3, <1>4, NoWritesType DEF Claims
<1> QED
  BY <1>1, <1>3, <1>5, <1>6, BeginKeepsInvariant DEF Fit

LEMMA ResolveToJoinRequestKeepsInvariant ==
  ASSUME IInv, NEW w \in Workers, NEW r \in Requests, NEW accept \in BOOLEAN,
         NEW s \in Students, ResolveToJoinRequest(w, r, accept, s)
  PROVE  IInv'
<1>0. request[r] \in RequestRow /\ request[r] # Null
  BY DEF ResolveToJoinRequest, IInv, TypeOK
<1> DEFINE e == {<<request[r].student, request[r].project>>}
           decided == [request[r] EXCEPT !.status = IF accept THEN "ACCEPTED" ELSE "REJECTED"]
<1>1. e \in SUBSET (Students \X Projects)
  BY <1>0 DEF RequestRow
<1>2. /\ decided \in RequestRow
      /\ decided.student = request[r].student
      /\ decided.project = request[r].project
      /\ decided.team = request[r].team
      /\ decided.status \in {"ACCEPTED", "REJECTED"}
  BY <1>0 DEF RequestRow, Status
<1> DEFINE u == [Blank("resolveToJoinRequest") EXCEPT
                   !.event = e, !.request = Update(request, r, decided)]
<1>3. Begin(w, u)
  BY DEF ResolveToJoinRequest
<1> HIDE DEF e, decided
<1>4. Update(request, r, decided) \in PartialFn(Requests, RequestRow \cup {Null})
  BY <1>2, UpdateType
<1>5. /\ u \in Work /\ ~u.flushed /\ u.project = NoWrites
      /\ u.team = NoWrites /\ u.member = NoWrites /\ u.orphan = {} /\ u.request = Update(request, r, decided)
  BY <1>1, <1>4, NoWritesType DEF Blank, Work, Operations
<1>6. DOMAIN u.request \subseteq {r} /\ \A x \in DOMAIN u.request : u.request[x] = decided
  BY <1>5, UpdateRows
<1> HIDE DEF u
<1>7. decided # Null
  BY <1>2, StoreAssumption
<1>8. Sound(u)
  BY <1>2, <1>5, <1>6, <1>7, NoWritesType DEF Sound, Kept, Erased
<1>9. RequestsCurrent(w, u)
  BY <1>0, <1>2, <1>6 DEF RequestsCurrent, Kept
<1>10. TeamsCurrent(w, u) /\ MembersCurrent(u) /\ OrphansCurrent(u)
  BY <1>5, NoWritesType DEF TeamsCurrent, MembersCurrent, OrphansCurrent, Kept
<1>11. Claims(u)
  BY <1>0, <1>5, <1>6, NoWritesType DEF Claims
<1> QED
  BY <1>3, <1>5, <1>8, <1>9, <1>10, <1>11, BeginKeepsInvariant DEF Fit, Current

-----------------------------------------------------------------------------
(* The invariant and what it implies. *)

LEMMA InitInvariant == Init => IInv
<1> SUFFICES ASSUME Init
             PROVE  IInv
  OBVIOUS
<1>1. Open = {}
  BY DEF Init, Open
<1>2. /\ project \in [Projects -> ProjectRow \cup {Null}]
      /\ team \in [Teams -> TeamRow \cup {Null}]
      /\ member \in [MemberKey -> Projects \cup {Null}]
      /\ request \in [Requests -> RequestRow \cup {Null}]
      /\ tx \in [Workers -> Work \cup {Null}]
      /\ orphan = {}
      /\ reading \in [Workers -> Reading \cup {Null}]
      /\ \A w \in Workers : reading[w] = Null
      /\ stale = {}
  BY DEF Init
<1>3. RowsAgree /\ PlacesAgree /\ DatesOrdered
  BY DEF Init, RowsAgree, PlacesAgree, InTeam, MemberKey, DatesOrdered
<1>4. UniqueKeys
  BY DEF Init, UniqueKeys, MemberKey
<1>5. LockedRowsStand
  BY <1>1 DEF LockedRowsStand, Locked
<1> QED
  BY <1>1, <1>2, <1>3, <1>4, <1>5 DEF IInv, TypeOK

LEMMA StepKeepsInvariant ==
  ASSUME IInv, NEW w \in Workers, Step(w)
  PROVE  IInv'
<1>1. CASE ProjectOps(w)
  BY <1>1, CreateProjectKeepsInvariant, UpdateProjectKeepsInvariant, DeleteProjectKeepsInvariant
  DEF ProjectOps
<1>2. CASE TeamOps(w)
  BY <1>2, CreateTeamKeepsInvariant, TeamCallsKeepInvariant, RemoveMemberKeepsInvariant
  DEF TeamOps
<1>3. CASE JoinRequestOps(w)
  BY <1>3, CreateJoinRequestKeepsInvariant, DeleteJoinRequestKeepsInvariant,
     ResolveToJoinRequestKeepsInvariant
  DEF JoinRequestOps
<1>4. CASE AutoFlush(w)
  BY <1>4, AutoFlushKeepsInvariant
<1>5. CASE HandleStudentJoinedTeam(w)
  BY <1>5, HandleStudentJoinedTeamKeepsInvariant
<1>6. CASE Commit(w)
  BY <1>6, CommitKeepsInvariant
<1>7. CASE Rollback(w)
  BY <1>7, RollbackKeepsInvariant
<1>8. CASE TeamReads(w)
  BY <1>8, FindMemberKeepsInvariant, CountMembersKeepsInvariant, PromoteHeirKeepsInvariant,
     AppointLeaderKeepsInvariant, InsertMemberKeepsInvariant
  DEF TeamReads
<1> QED
  BY <1>1, <1>2, <1>3, <1>4, <1>5, <1>6, <1>7, <1>8 DEF Step

LEMMA StutterKeepsInvariant ==
  ASSUME IInv, UNCHANGED vars
  PROVE  IInv'
<1>1. /\ UNCHANGED <<project, team, member, orphan, request, tx, reading, stale>>
      /\ Open' = Open
  BY DEF vars, Open
<1>2. TypeOK' /\ RowsAgree' /\ PlacesAgree' /\ UniqueKeys' /\ DatesOrdered'
  BY <1>1
  DEF IInv, TypeOK, RowsAgree, InTeam, PlacesAgree, UniqueKeys, DatesOrdered, ValidDates
<1>3. LockedRowsStand'
  BY <1>1 DEF IInv, LockedRowsStand, Locked
<1>4. \A w \in Open' : Sound(tx[w])'
  BY <1>1 DEF IInv, Sound, Kept, Erased, ValidDates
<1>5. \A w \in Open' \ stale' : Current(w, tx[w])'
  BY <1>1
  DEF IInv, Current, TeamsCurrent, MembersCurrent, OrphansCurrent, RequestsCurrent, Kept
<1>6. \A w \in Open' \ stale' : reading'[w] # Null => ReadingCurrent(reading[w])'
  BY <1>1 DEF IInv, ReadingCurrent
<1> QED
  BY <1>1, <1>2, <1>3, <1>4, <1>5, <1>6 DEF IInv

(* The inductive invariant holds of the project service, whatever is called  *)
(* concurrently and wherever it is rolled back.                              *)
THEOREM InvariantHolds == Spec => []IInv
<1>1. IInv /\ [Next]_vars => IInv'
  BY StepKeepsInvariant, StutterKeepsInvariant DEF Next
<1> QED
  BY InitInvariant, <1>1, PTL DEF Spec

(* Type correctness: every table holds rows of its entity, and every open    *)
(* unit of work is one that some operation can have begun.                   *)
THEOREM TypeCorrect == Spec => []TypeOK
<1>1. IInv => TypeOK
  BY DEF IInv
<1> QED
  BY InvariantHolds, <1>1, PTL

(* Member rows and join requests agree with their team about the project,    *)
(* and no row outlives the parent it refers to (cascades of TeamEntity,      *)
(* foreign keys), members without a team (leaveTeam) being the exception.    *)
THEOREM TablesAgree == Spec => []RowsAgree
<1>1. IInv => RowsAgree
  BY DEF IInv
<1> QED
  BY InvariantHolds, <1>1, PTL

(* A student is never in two teams of a project: the check of createTeam and *)
(* addMember races, the unique constraint on the copied project_id does not. *)
THEOREM StudentInOneTeam == Spec => []OneTeamPerProject
<1>1. IInv => OneTeamPerProject
  BY DEF IInv, OneTeamPerProject, RowsAgree, UniqueKeys, InTeam, MemberKey
<1> QED
  BY InvariantHolds, <1>1, PTL

(* No project starts after its end, although updateProject merges its dates  *)
(* into a row read before.                                                   *)
THEOREM ProjectDatesOrdered == Spec => []DatesOrdered
<1>1. IInv => DatesOrdered
  BY DEF IInv
<1> QED
  BY InvariantHolds, <1>1, PTL

(* Between the listener's UPDATE of a join request and the commit, no other  *)
(* transaction decides or deletes that request.                              *)
THEOREM LocksHold == Spec => []LockedRowsStand
<1>1. IInv => LockedRowsStand
  BY DEF IInv
<1> QED
  BY InvariantHolds, <1>1, PTL

-----------------------------------------------------------------------------
(* Decisions. *)

(* Only a commit changes the tables. *)
LEMMA OtherStepsKeepTables ==
  ASSUME NEW w \in Workers, Step(w), ~Commit(w)
  PROVE  UNCHANGED tables
<1>0. ASSUME NEW u, Begin(w, u)
      PROVE  UNCHANGED tables
  BY <1>0 DEF Begin
<1>1. CASE ProjectOps(w) \/ JoinRequestOps(w)
  <2>1. \E u : Begin(w, u)
    BY <1>1, Zenon
    DEF ProjectOps, JoinRequestOps, CreateProject, UpdateProject, DeleteProject,
        CreateJoinRequest, DeleteJoinRequest, ResolveToJoinRequest
  <2> QED
    BY <1>0, <2>1
<1>2. CASE TeamOps(w)
  <2>1. (\E u : Begin(w, u)) \/ (\E op, r : BeginReading(w, op, r))
    BY <1>2, Zenon DEF TeamOps, CreateTeam, LeaveTeam, ChangeLeader, AddMember, RemoveMember
  <2> QED
    BY <1>0, <2>1 DEF BeginReading
<1>3. CASE TeamReads(w)
  BY <1>3 DEF TeamReads, ReadOn, Decide, FindMember, CountMembers, PromoteHeir, AppointLeader,
              InsertMember
<1>4. CASE AutoFlush(w) \/ HandleStudentJoinedTeam(w) \/ Rollback(w)
  BY <1>4 DEF AutoFlush, HandleStudentJoinedTeam, Rollback
<1> QED
  BY <1>1, <1>2, <1>3, <1>4 DEF Step

LEMMA CommitKeepsDecisions ==
  ASSUME IInv, NEW w \in Workers, Commit(w),
         NEW r \in Requests, Decided(request[r]), request'[r] # Null
  PROVE  Decided(request'[r])
<1> DEFINE u == tx[w]
<1>1. TypeOK /\ w \in Open \ stale /\ u \in Work /\ Sound(u) /\ RequestsCurrent(w, u)
  BY DEF IInv, TypeOK, Commit, Open, Current
<1>2. CASE r \notin DOMAIN u.request
  BY <1>1, <1>2, CommitRows
<1>3. CASE r \in DOMAIN u.request
  <2>1. r \in Kept(u.request) /\ request'[r] = u.request[r] /\ request[r] # Null
    BY <1>1, <1>3, CommitRows DEF Kept, Decided
  <2>2. request'[r].status \in Status /\ request'[r].status # "PENDING"
    BY <1>1, <2>1, WorkFields, PartialFnElim DEF RequestsCurrent, RequestRow, Kept
  <2>3. request'[r].status # "CANCELED"
    <3>1. SUFFICES ASSUME u.request[r].status = "CANCELED"
                   PROVE  FALSE
      BY <2>1
    <3>2. u.flushed
      BY <1>1, <2>1, <3>1 DEF Sound
    <3>3. r \in Locked(w)
      BY <1>1, <1>3, <3>2 DEF Locked
    <3>4. request[r].status = "PENDING"
      BY <3>1, <3>3 DEF IInv, LockedRowsStand
    <3> QED
      BY <3>4 DEF Decided
  <2> QED
    BY <2>1, <2>2, <2>3 DEF Decided, Status, Kept
<1> QED
  BY <1>2, <1>3

(* A decision on a join request is final: resolving and joining, however     *)
(* they interleave, never cancel or reopen a request that has been decided.  *)
THEOREM DecisionsAreFinal == Spec => DecisionStands
<1>1. ASSUME IInv, [Next]_vars
      PROVE  \A r \in Requests : Decided(request[r]) =>
               request'[r] = Null \/ Decided(request'[r])
  <2>1. CASE UNCHANGED tables
    BY <2>1 DEF tables, Decided
  <2>2. CASE \E w \in Workers : Commit(w)
    BY <1>1, <2>2, CommitKeepsDecisions
  <2> QED
    BY <1>1, <2>1, <2>2, OtherStepsKeepTables DEF Next, vars, tables
<1> QED
  BY <1>1, InvariantHolds, PTL DEF Spec, DecisionStands

-----------------------------------------------------------------------------
(* How far concurrent calls of addMember can overfill a team: by one member  *)
(* less than there are workers, and no further, for any number of workers.   *)
(* Members and workers about to insert one are counted together: a check     *)
(* passes while there is room, and a commit turns a worker that joins into a *)
(* member.                                                                   *)

LEMMA CountStudents ==
  ASSUME NEW M \in SUBSET Students
  PROVE  IsFiniteSet(M) /\ Cardinality(M) \in Nat
  BY StoreAssumption, FS_Subset, FS_CardinalityType

LEMMA CountWorkers ==
  ASSUME NEW J \in SUBSET Workers
  PROVE  /\ IsFiniteSet(J)
         /\ Cardinality(J) \in Nat
         /\ Cardinality(J) <= Cardinality(Workers)
         /\ Cardinality(Workers) \in Nat
  BY StoreAssumption, FS_Subset, FS_CardinalityType

(* Fewer members and fewer workers joining leave at least as much space.     *)
LEMMA SpaceShrinks ==
  ASSUME NEW M \in SUBSET Students, NEW J \in SUBSET Workers,
         NEW M2 \in SUBSET M, NEW J2 \in SUBSET J
  PROVE  Cardinality(M2) + Cardinality(J2) <= Cardinality(M) + Cardinality(J)
<1>1. Cardinality(M2) <= Cardinality(M) /\ Cardinality(M) \in Nat /\ Cardinality(M2) \in Nat
  BY CountStudents, FS_Subset
<1>2. Cardinality(J2) <= Cardinality(J) /\ Cardinality(J) \in Nat /\ Cardinality(J2) \in Nat
  BY CountWorkers, FS_Subset
<1> QED
  BY <1>1, <1>2

(* A commit that turns worker w into member s leaves the sum as it was.      *)
LEMMA SpaceMoves ==
  ASSUME NEW M \in SUBSET Students, NEW J \in SUBSET Workers,
         NEW s, NEW w \in J,
         NEW M2 \in SUBSET (M \cup {s}), NEW J2 \in SUBSET (J \ {w}),
         M2 \subseteq Students
  PROVE  Cardinality(M2) + Cardinality(J2) <= Cardinality(M) + Cardinality(J)
<1>1. IsFiniteSet(M) /\ Cardinality(M) \in Nat
  BY CountStudents
<1>2. IsFiniteSet(J) /\ Cardinality(J) \in Nat
  BY CountWorkers
<1>3. /\ IsFiniteSet(M \cup {s})
      /\ Cardinality(M \cup {s}) <= Cardinality(M) + 1
      /\ Cardinality(M \cup {s}) \in Nat
  BY <1>1, FS_AddElement
<1>4. /\ IsFiniteSet(J \ {w})
      /\ Cardinality(J \ {w}) = Cardinality(J) - 1
  BY <1>2, FS_RemoveElement
<1>5. Cardinality(M2) <= Cardinality(M \cup {s}) /\ Cardinality(M2) \in Nat
  BY <1>3, FS_Subset, CountStudents
<1>6. Cardinality(J2) <= Cardinality(J \ {w}) /\ Cardinality(J2) \in Nat
  BY <1>4, FS_Subset, CountWorkers
<1> QED
  BY <1>1, <1>2, <1>3, <1>4, <1>5, <1>6

-----------------------------------------------------------------------------
(* Beginning an operation. *)

(* The worker with unit of work u that has read r is about to insert a       *)
(* member of t.                                                              *)
Joins(t, u, r) ==
  \/ \E s \in Students : <<s, t>> \in Kept(u.member)
  \/ r # Null /\ r.next = "insert" /\ r.team = t

(* A worker turns to inserting a member only into a team with room, or into  *)
(* a team that has no row yet.                                               *)
Roomy(w, u, r) ==
  \A t \in Teams : Joins(t, u, r) =>
    \/ w \in Joining(t)
    \/ team[t] = Null
    \/ \E size \in Sizes : TeamSize(t) < size

LEMMA SettlesKeepsSpace ==
  ASSUME TypeOK, SpaceInv, NEW w \in Workers, NEW u, NEW r, Settles(w, u, r), Roomy(w, u, r)
  PROVE  SpaceInv'
<1>1. /\ UNCHANGED <<team, member, orphan>>
      /\ tx' = [tx EXCEPT ![w] = u] /\ reading' = [reading EXCEPT ![w] = r]
      /\ tx \in [Workers -> Work \cup {Null}] /\ reading \in [Workers -> Reading \cup {Null}]
  BY DEF Settles, tables, TypeOK
<1>2. SUFFICES ASSUME NEW t \in Teams, team[t] # Null
               PROVE  \E size \in Sizes \cup {1} :
                        TeamSize(t)' + Cardinality(Joining(t)') <= size + Cardinality(Workers) - 1
  BY <1>1 DEF SpaceInv
<1>3. MembersOf(t)' = MembersOf(t) /\ TeamSize(t)' = TeamSize(t)
  BY <1>1 DEF MembersOf, TeamSize, InTeam
<1>4. MembersOf(t) \in SUBSET Students /\ TeamSize(t) \in Nat
  BY CountStudents DEF MembersOf, TeamSize
<1>5. Joining(t) \in SUBSET Workers /\ Joining(t)' \in SUBSET Workers
  BY DEF Joining, Open
<1>6. CASE \E size \in Sizes : TeamSize(t) < size
  <2>1. PICK size \in Sizes : TeamSize(t) < size
    BY <1>6
  <2>2. size \in Nat
    BY StoreAssumption
  <2>3. /\ Cardinality(Joining(t)') <= Cardinality(Workers)
        /\ Cardinality(Joining(t)') \in Nat /\ Cardinality(Workers) \in Nat
    BY <1>5, CountWorkers
  <2> QED
    BY <1>3, <1>4, <2>1, <2>2, <2>3
<1>7. CASE Joins(t, u, r) => w \in Joining(t)
  <2>1. Joining(t)' \subseteq Joining(t)
    <3>1. SUFFICES ASSUME NEW x \in Joining(t)'
                   PROVE  x \in Joining(t)
      OBVIOUS
    <3>2. CASE x = w
      BY <1>1, <1>7, <3>1, <3>2 DEF Joining, Joins, Open, Kept
    <3>3. CASE x # w
      BY <1>1, <3>1, <3>3 DEF Joining, Open, Kept
    <3> QED
      BY <3>2, <3>3
  <2>2. PICK size \in Sizes \cup {1} :
          TeamSize(t) + Cardinality(Joining(t)) <= size + Cardinality(Workers) - 1
    BY <1>2 DEF SpaceInv
  <2>3. Cardinality(Joining(t)') <= Cardinality(Joining(t))
    BY <1>5, <2>1, FS_Subset, CountWorkers
  <2>4. size \in Nat
    BY StoreAssumption
  <2>5. /\ Cardinality(Joining(t)') \in Nat /\ Cardinality(Joining(t)) \in Nat
        /\ Cardinality(Workers) \in Nat
    BY <1>5, CountWorkers
  <2> QED
    BY <1>3, <1>4, <2>2, <2>3, <2>4, <2>5
<1> QED
  BY <1>2, <1>6, <1>7 DEF Roomy

(* Every operation but createTeam and addMember inserts no member at all.    *)
LEMMA NothingInserted ==
  ASSUME IInv, SpaceInv, NEW w \in Workers, NEW u, Begin(w, u) \/ Settles(w, u, Null),
         u.member = NoWrites \/ \E K : u.member = Erase(K)
  PROVE  SpaceInv'
<1>1. Kept(u.member) = {}
  BY NoWritesType, EraseRows DEF Kept
<1>2. Roomy(w, u, Null)
  BY <1>1 DEF Roomy, Joins
<1>3. Settles(w, u, Null)
  BY BeginSettles
<1> QED
  BY <1>2, <1>3, SettlesKeepsSpace DEF IInv

LEMMA ProjectOpsKeepSpace ==
  ASSUME IInv, SpaceInv, NEW w \in Workers, ProjectOps(w)
  PROVE  SpaceInv'
<1>1. ASSUME NEW op, NEW write, Begin(w, [Blank(op) EXCEPT !.project = write])
      PROVE  SpaceInv'
  <2>1. [Blank(op) EXCEPT !.project = write].member = NoWrites
    BY DEF Blank
  <2> QED
    BY <1>1, <2>1, NothingInserted
<1>2. ASSUME NEW op, NEW gone, NEW loaded, NEW write,
             Begin(w, [CascadeTeams(op, gone, loaded) EXCEPT !.project = write])
      PROVE  SpaceInv'
  <2>1. \E K : [CascadeTeams(op, gone, loaded) EXCEPT !.project = write].member = Erase(K)
    BY DEF Blank, CascadeTeams
  <2> QED
    BY <1>2, <2>1, NothingInserted
<1>3. ASSUME NEW p \in Projects, NEW max \in Sizes, NEW start \in Dates, NEW end \in Dates,
             CreateProject(w, p, max, start, end)
      PROVE  SpaceInv'
  BY <1>1, <1>3 DEF CreateProject
<1>4. ASSUME NEW p \in Projects, NEW max \in Sizes,
             NEW start \in Dates \cup {0}, NEW end \in Dates \cup {0},
             UpdateProject(w, p, max, start, end)
      PROVE  SpaceInv'
  BY <1>1, <1>4 DEF UpdateProject
<1>5. ASSUME NEW p \in Projects, DeleteProject(w, p)
      PROVE  SpaceInv'
  BY <1>2, <1>5 DEF DeleteProject
<1> QED
  BY <1>3, <1>4, <1>5 DEF ProjectOps

LEMMA JoinRequestOpsKeepSpace ==
  ASSUME IInv, SpaceInv, NEW w \in Workers, JoinRequestOps(w)
  PROVE  SpaceInv'
<1>1. ASSUME NEW op, NEW write, Begin(w, [Blank(op) EXCEPT !.request = write])
      PROVE  SpaceInv'
  <2>1. [Blank(op) EXCEPT !.request = write].member = NoWrites
    BY DEF Blank
  <2> QED
    BY <1>1, <2>1, NothingInserted
<1>3. ASSUME NEW r \in Requests, NEW t \in Teams, NEW s \in Students,
             CreateJoinRequest(w, r, t, s)
      PROVE  SpaceInv'
  BY <1>1, <1>3 DEF CreateJoinRequest
<1>4. ASSUME NEW r \in Requests, DeleteJoinRequest(w, r)
      PROVE  SpaceInv'
  BY <1>1, <1>4 DEF DeleteJoinRequest
<1>5. ASSUME NEW r \in Requests, NEW accept \in BOOLEAN, NEW s \in Students,
             ResolveToJoinRequest(w, r, accept, s)
      PROVE  SpaceInv'
  <2>1. \E event, write : Begin(w, [Blank("resolveToJoinRequest") EXCEPT
                                     !.event = event, !.request = write])
    BY <1>5, Zenon DEF ResolveToJoinRequest
  <2>2. PICK event, write : Begin(w, [Blank("resolveToJoinRequest") EXCEPT
                                        !.event = event, !.request = write])
    BY <2>1, Zenon
  <2> DEFINE u == [Blank("resolveToJoinRequest") EXCEPT !.event = event, !.request = write]
  <2>3. u.member = NoWrites
    BY DEF Blank
  <2>4. Begin(w, u)
    BY <2>2, Zenon
  <2> HIDE DEF u
  <2> QED
    BY <2>3, <2>4, NothingInserted
<1> QED
  BY <1>3, <1>4, <1>5 DEF JoinRequestOps

LEMMA AddMemberKeepsSpace ==
  ASSUME IInv, SpaceInv, NEW w \in Workers, NEW t \in Teams, NEW s \in Students,
         AddMember(w, t, s)
  PROVE  SpaceInv'
<1> DEFINE u == Blank("addMember")
           r == Loaded(t, s, {}, "insert")
<1>1. /\ BeginReading(w, u.op, r) /\ team[t] # Null
      /\ TeamSize(t) < project[team[t].project].max
  BY DEF AddMember, Blank
<1>2. project[team[t].project].max \in Sizes
  <2>1. team[t].project \in Projects
    BY <1>1 DEF IInv, TypeOK, TeamRow
  <2>2. project[team[t].project] # Null
    BY <1>1 DEF IInv, RowsAgree
  <2> QED
    BY <2>1, <2>2 DEF IInv, TypeOK, ProjectRow
<1>3. Kept(u.member) = {} /\ r.team = t
  BY NoWritesType DEF Blank, Loaded, Kept
<1>4. Roomy(w, u, r)
  BY <1>1, <1>2, <1>3 DEF Roomy, Joins
<1>5. Settles(w, u, r)
  BY DEF AddMember, BeginReading, Settles
<1> HIDE DEF u, r
<1> QED
  BY <1>4, <1>5, SettlesKeepsSpace DEF IInv

LEMMA InsertMemberKeepsSpace ==
  ASSUME IInv, SpaceInv, NEW w \in Workers, InsertMember(w)
  PROVE  SpaceInv'
<1> DEFINE s   == reading[w].student
           t   == reading[w].team
           p   == team[t].project
           ins == Put(<<s, t>>, p)
           u   == [Blank("addMember") EXCEPT !.event = {<<s, p>>}, !.member = ins]
<1>1. Reaches(w, "insert") /\ Decide(w, u) /\ stale' = stale
  BY DEF InsertMember
<1>2. w \in Joining(t)
  BY <1>1 DEF Reaches, Joining
<1>3. DOMAIN ins = {<<s, t>>}
  BY DEF Put
<1>4. u.member = ins
  BY DEF Blank
<1>5. \A x \in Teams, y \in Students : <<y, x>> \in Kept(u.member) => x = t
  BY <1>3, <1>4 DEF Kept
<1>6. Roomy(w, u, Null)
  BY <1>2, <1>5 DEF Roomy, Joins
<1>7. Settles(w, u, Null)
  BY <1>1, DecideSettles
<1> HIDE DEF u
<1> QED
  BY <1>6, <1>7, SettlesKeepsSpace DEF IInv

LEMMA CreateTeamKeepsSpace ==
  ASSUME IInv, SpaceInv, NEW w \in Workers, NEW p \in Projects, NEW t \in Teams,
         NEW s \in Students, CreateTeam(w, p, t, s)
  PROVE  SpaceInv'
<1> DEFINE ins == Put(<<s, t>>, p)
           u   == [Blank("createTeam") EXCEPT
                     !.event  = {<<s, p>>},
                     !.team   = Put(t, [project |-> p, leader |-> s]),
                     !.member = ins]
<1>1. Begin(w, u) /\ team[t] = Null
  BY DEF CreateTeam, FreshTeam
<1>2. DOMAIN ins = {<<s, t>>}
  BY DEF Put
<1>3. u.member = ins
  BY DEF Blank
<1>4. \A x \in Teams, y \in Students : <<y, x>> \in Kept(u.member) => x = t
  BY <1>2, <1>3 DEF Kept
<1>5. Roomy(w, u, Null)
  BY <1>1, <1>4 DEF Roomy, Joins
<1>6. Settles(w, u, Null)
  BY <1>1, BeginSettles
<1> HIDE DEF u
<1> QED
  BY <1>5, <1>6, SettlesKeepsSpace DEF IInv

(* Of the calls that begin by reading only addMember is about to insert.     *)
LEMMA ReadingInsertsNothing ==
  ASSUME IInv, SpaceInv, NEW w \in Workers, NEW op, NEW r, BeginReading(w, op, r),
         r.next # "insert"
  PROVE  SpaceInv'
<1>1. Kept(Blank(op).member) = {}
  BY NoWritesType DEF Blank, Kept
<1>2. Roomy(w, Blank(op), r)
  BY <1>1 DEF Roomy, Joins
<1>3. Settles(w, Blank(op), r)
  BY DEF BeginReading, Settles
<1> QED
  BY <1>2, <1>3, SettlesKeepsSpace DEF IInv

LEMMA TeamOpsKeepSpace ==
  ASSUME IInv, SpaceInv, NEW w \in Workers, TeamOps(w)
  PROVE  SpaceInv'
<1>1. ASSUME NEW t \in Teams, NEW s \in Students, RemoveMember(w, t, s)
      PROVE  SpaceInv'
  <2> DEFINE u == [Blank("removeMember") EXCEPT !.member = Erase({<<s, t>>})]
  <2>1. Begin(w, u) /\ u.member = Erase({<<s, t>>})
    BY <1>1 DEF RemoveMember, Blank
  <2> QED
    BY <2>1, NothingInserted
<1>2. ASSUME NEW t \in Teams, NEW s \in Students, LeaveTeam(w, t, s)
      PROVE  SpaceInv'
  <2>1. Loaded(t, s, MembersOf(t), "find").next # "insert"
    BY DEF Loaded
  <2> QED
    BY <1>2, <2>1, ReadingInsertsNothing DEF LeaveTeam
<1>3. ASSUME NEW t \in Teams, NEW s \in Students, NEW old \in Students,
             ChangeLeader(w, t, old, s)
      PROVE  SpaceInv'
  <2>1. Loaded(t, s, {}, "appoint").next # "insert"
    BY DEF Loaded
  <2> QED
    BY <1>3, <2>1, ReadingInsertsNothing DEF ChangeLeader
<1> QED
  BY <1>1, <1>2, <1>3, AddMemberKeepsSpace, CreateTeamKeepsSpace DEF TeamOps

-----------------------------------------------------------------------------
(* Committing. *)

LEMMA CommitKeepsSpace ==
  ASSUME IInv, SpaceInv, NEW w \in Workers, Commit(w)
  PROVE  SpaceInv'
<1> DEFINE u == tx[w]
<1>1. SUFFICES ASSUME NEW t \in Teams, team'[t] # Null
               PROVE  \E size \in Sizes \cup {1} :
                        TeamSize(t)' + Cardinality(Joining(t)') <= size + Cardinality(Workers) - 1
  BY DEF SpaceInv
<1>2. /\ TypeOK /\ w \in Open \ stale /\ u \in Work /\ Sound(u) /\ TeamsCurrent(w, u)
      /\ \A s \in Students : member'[<<s, t>>] =
           IF <<s, t>> \in DOMAIN u.member THEN u.member[<<s, t>>] ELSE member[<<s, t>>]
      /\ orphan' = (orphan \cup u.orphan) \ Erased(u.member)
  <2>1. TypeOK /\ w \in Open \ stale
    BY DEF IInv, Commit
  <2>2. u \in Work /\ Sound(u) /\ TeamsCurrent(w, u)
    BY <2>1 DEF IInv, TypeOK, Open, Current
  <2>3. \A s \in Students : <<s, t>> \in MemberKey
    BY DEF MemberKey
  <2> QED
    BY <2>1, <2>2, <2>3, CommitRows
<1> DEFINE M  == MembersOf(t)
           M2 == MembersOf(t)'
           J  == Joining(t)
           J2 == Joining(t)'
<1>3. /\ M \in SUBSET Students /\ M2 \in SUBSET Students
      /\ J \in SUBSET Workers /\ J2 \in SUBSET Workers
  BY DEF MembersOf, Joining, Open
<1>4. J2 \subseteq J \ {w}
  <2>1. SUFFICES ASSUME NEW x \in J2
                 PROVE  x \in J \ {w}
    OBVIOUS
  <2>2. x \in Workers /\ x # w /\ x \in Open /\ tx'[x] = tx[x]
    BY <1>2, <2>1, CommitRows DEF Joining, Open
  <2>3. CASE reading'[x] # Null /\ reading'[x].next = "insert" /\ reading'[x].team = t
    <3>1. reading[x] # Null /\ reading[x].next = "insert" /\ reading[x].team = t
      BY <2>2, <2>3, CommitReading
    <3> QED
      BY <2>2, <3>1 DEF Joining
  <2>4. CASE \E s \in Students : <<s, t>> \in Kept(tx[x].member)
    BY <2>2, <2>4 DEF Joining
  <2> QED
    BY <2>1, <2>2, <2>3, <2>4 DEF Joining, Kept
<1>5. ASSUME NEW s \in M2, s \notin M
      PROVE  <<s, t>> \in Kept(u.member) /\ w \in J
  <2>1. s \in Students /\ member'[<<s, t>>] # Null /\ <<s, t>> \notin orphan'
    BY <1>3, <1>5 DEF MembersOf, InTeam
  <2>2. <<s, t>> \notin Erased(u.member)
    BY <1>2, <2>1 DEF Erased
  <2>3. <<s, t>> \notin orphan
    BY <1>2, <2>1, <2>2
  <2>4. member[<<s, t>>] = Null
    BY <1>5, <2>1, <2>3 DEF MembersOf, InTeam
  <2> QED
    BY <1>2, <2>1, <2>4 DEF Joining, Kept
<1>6. \A s1, s2 \in Students : <<s1, t>> \in Kept(u.member) /\ <<s2, t>> \in Kept(u.member) => s1 = s2
  <2>1. ASSUME NEW s1 \in Students, NEW s2 \in Students,
               <<s1, t>> \in Kept(u.member), <<s2, t>> \in Kept(u.member)
        PROVE  s1 = s2
    <3>1. <<s1, t>> = <<s2, t>>
      BY <1>2, <2>1 DEF Sound
    <3> QED
      BY <3>1
  <2> QED
    BY <2>1
<1>7. TeamSize(t)' = Cardinality(M2)
  BY DEF TeamSize
<1>8. CASE team[t] # Null
  <2>1. PICK size \in Sizes \cup {1} :
          Cardinality(M) + Cardinality(J) <= size + Cardinality(Workers) - 1
    BY <1>8 DEF SpaceInv, TeamSize
  <2>2. Cardinality(M2) + Cardinality(J2) <= Cardinality(M) + Cardinality(J)
    <3>1. CASE M2 \subseteq M
      BY <1>3, <1>4, <3>1, SpaceShrinks
    <3>2. CASE \E s \in M2 : s \notin M
      <4>1. PICK s \in M2 : s \notin M
        BY <3>2
      <4>2. M2 \subseteq M \cup {s}
        BY <1>3, <1>5, <1>6, <4>1
      <4> QED
        BY <1>3, <1>4, <1>5, <4>1, <4>2, SpaceMoves
    <3> QED
      BY <3>1, <3>2
  <2>3. /\ size \in Nat
        /\ Cardinality(M) \in Nat /\ Cardinality(M2) \in Nat
        /\ Cardinality(J) \in Nat /\ Cardinality(J2) \in Nat /\ Cardinality(Workers) \in Nat
    BY <1>3, StoreAssumption, CountStudents, CountWorkers
  <2> HIDE DEF M, M2, J, J2
  <2>4. Cardinality(M2) + Cardinality(J2) <= size + Cardinality(Workers) - 1
    BY <2>1, <2>2, <2>3
  <2> QED
    BY <2>4, <1>7 DEF M2, J2
<1>9. CASE team[t] = Null
  <2>1. M = {}
    BY <1>9 DEF IInv, RowsAgree, MembersOf, InTeam, MemberKey
  <2>2. \A s1, s2 \in M2 : s1 = s2
    BY <1>3, <1>5, <1>6, <2>1
  <2> HIDE DEF M2
  <2>3. Cardinality(M2) \in Nat /\ Cardinality(M2) <= 1
    <3>1. CASE M2 = {}
      BY <3>1, FS_EmptySet
    <3>2. CASE \E s \in M2 : TRUE
      <4>1. PICK s \in M2 : M2 = {s}
        BY <2>2, <3>2
      <4> QED
        BY <4>1, FS_Singleton
    <3> QED
      BY <3>1, <3>2
  <2>4. /\ Cardinality(Workers \ {w}) = Cardinality(Workers) - 1
        /\ IsFiniteSet(Workers \ {w})
    BY <1>2, StoreAssumption, FS_RemoveElement
  <2>5. Cardinality(J2) \in Nat /\ Cardinality(J2) <= Cardinality(Workers) - 1
    BY <1>3, <1>4, <2>4, CountWorkers, FS_Subset
  <2>6. Cardinality(Workers) \in Nat
    BY CountWorkers
  <2> HIDE DEF M2, J2
  <2>7. Cardinality(M2) + Cardinality(J2) <= 1 + Cardinality(Workers) - 1
    BY <2>3, <2>5, <2>6
  <2> QED
    BY <2>7, <1>7 DEF M2, J2
<1> QED
  BY <1>8, <1>9

-----------------------------------------------------------------------------
(* The remaining steps, and the bound. *)

LEMMA FewerJoining ==
  ASSUME SpaceInv, UNCHANGED <<team, member, orphan>>,
         \A t \in Teams : Joining(t)' \subseteq Joining(t)
  PROVE  SpaceInv'
<1>1. SUFFICES ASSUME NEW t \in Teams, team[t] # Null
               PROVE  \E size \in Sizes \cup {1} :
                        TeamSize(t)' + Cardinality(Joining(t)') <= size + Cardinality(Workers) - 1
  BY DEF SpaceInv
<1>2. PICK size \in Sizes \cup {1} :
        TeamSize(t) + Cardinality(Joining(t)) <= size + Cardinality(Workers) - 1
  BY <1>1 DEF SpaceInv
<1>3. TeamSize(t)' = TeamSize(t)
  BY DEF TeamSize, MembersOf, InTeam
<1>4. TeamSize(t) \in Nat
  BY CountStudents DEF TeamSize, MembersOf
<1>5. Joining(t) \in SUBSET Workers /\ Joining(t)' \in SUBSET Workers
  BY DEF Joining, Open
<1>6. /\ Cardinality(Joining(t)') <= Cardinality(Joining(t))
      /\ Cardinality(Joining(t)) \in Nat /\ Cardinality(Joining(t)') \in Nat
      /\ Cardinality(Workers) \in Nat /\ size \in Nat
  BY <1>5, FS_Subset, CountWorkers, StoreAssumption
<1> QED
  BY <1>2, <1>3, <1>4, <1>6

LEMMA TeamReadsKeepSpace ==
  ASSUME IInv, SpaceInv, NEW w \in Workers, TeamReads(w)
  PROVE  SpaceInv'
<1> DEFINE r == reading[w]
<1>1. ASSUME NEW statement \in {"count", "heir"}, ReadOn(w, statement), w \in Open, r # Null
      PROVE  SpaceInv'
  <2>1. r \in Reading /\ reading \in [Workers -> Reading \cup {Null}]
    BY <1>1 DEF IInv, TypeOK
  <2>2. /\ reading'[w] = [r EXCEPT !.next = statement]
        /\ \A x \in Workers \ {w} : reading'[x] = reading[x]
        /\ UNCHANGED <<team, member, orphan, tx>>
    BY <1>1, <2>1 DEF ReadOn, tables
  <2>3. reading'[w].next # "insert"
    BY <2>1, <2>2 DEF Reading
  <2>4. ASSUME NEW t \in Teams
        PROVE  Joining(t)' \subseteq Joining(t)
    BY <2>2, <2>3 DEF Joining, Open
  <2> QED
    BY <2>2, <2>4, FewerJoining
<1>2. ASSUME NEW write, Decide(w, [TakesOut(r) EXCEPT !.team = write]) \/ Decide(w, TakesOut(r)),
             stale' = stale
      PROVE  SpaceInv'
  <2>1. [TakesOut(r) EXCEPT !.team = write].member = TakesOut(r).member
    BY DEF TakesOut, Blank
  <2>2. PICK u : Decide(w, u) /\ u.member = TakesOut(r).member
    BY <1>2, <2>1
  <2>3. Settles(w, u, Null)
    BY <1>2, <2>2, DecideSettles
  <2>4. u.member = NoWrites \/ u.member = Erase({<<r.student, r.team>>})
    BY <2>2 DEF TakesOut, Blank
  <2> QED
    BY <2>3, <2>4, NothingInserted
<1>3. ASSUME NEW gone, NEW loaded, Decide(w, CascadeTeams("leaveTeam", gone, loaded)),
             stale' = stale \cup {x \in {w} : r.lost}
      PROVE  SpaceInv'
  <2> DEFINE u == CascadeTeams("leaveTeam", gone, loaded)
  <2>1. u.member = Erase(loaded)
    BY DEF CascadeTeams, Blank
  <2> HIDE DEF u
  <2>2. Settles(w, u, Null)
    BY <1>3, DecideSettles DEF u
  <2> QED
    BY <2>1, <2>2, NothingInserted
<1>4. CASE FindMember(w)
  BY <1>1, <1>4 DEF FindMember, Reaches
<1>5. CASE CountMembers(w)
  BY <1>1, <1>2, <1>3, <1>5 DEF CountMembers, Reaches
<1>6. CASE PromoteHeir(w)
  BY <1>2, <1>6 DEF PromoteHeir
<1>7. CASE AppointLeader(w)
  <2> DEFINE u == [Blank("changeLeader") EXCEPT !.team = NewLeader(r, r.student)]
  <2>1. Decide(w, u) /\ stale' = stale /\ u.member = NoWrites
    BY <1>7 DEF AppointLeader, Blank
  <2> HIDE DEF u
  <2>2. Settles(w, u, Null)
    BY <2>1, DecideSettles
  <2> QED
    BY <2>1, <2>2, NothingInserted
<1> QED
  BY <1>4, <1>5, <1>6, <1>7, InsertMemberKeepsSpace DEF TeamReads

LEMMA StepKeepsSpace ==
  ASSUME IInv, SpaceInv, NEW w \in Workers, Step(w)
  PROVE  SpaceInv'
<1>1. CASE AutoFlush(w)
  <2>1. tx[w] \in Work /\ tx \in [Workers -> Work \cup {Null}]
    BY <1>1 DEF AutoFlush, IInv, TypeOK, Open
  <2>2. /\ \A x \in Workers \ {w} : tx'[x] = tx[x]
        /\ tx'[w].member = tx[w].member
        /\ w \in Open
    BY <1>1, <2>1 DEF AutoFlush, Work
  <2> QED
    BY <1>1, <2>2, FewerJoining DEF AutoFlush, tables, Joining, Open
<1>2. CASE HandleStudentJoinedTeam(w)
  <2>1. tx[w] \in Work /\ tx \in [Workers -> Work \cup {Null}]
    BY <1>2 DEF HandleStudentJoinedTeam, IInv, TypeOK, Open
  <2>2. /\ \A x \in Workers \ {w} : tx'[x] = tx[x]
        /\ tx'[w].member = tx[w].member
        /\ w \in Open
    BY <1>2, <2>1 DEF HandleStudentJoinedTeam, Work
  <2> QED
    BY <1>2, <2>2, FewerJoining DEF HandleStudentJoinedTeam, tables, Joining, Open
<1>3. CASE Rollback(w)
  BY <1>3, FewerJoining DEF Rollback, tables, Joining, Open, IInv, TypeOK
<1>4. CASE TeamReads(w)
  BY <1>4, TeamReadsKeepSpace
<1> QED
  BY <1>1, <1>2, <1>3, <1>4, ProjectOpsKeepSpace, TeamOpsKeepSpace, JoinRequestOpsKeepSpace,
     CommitKeepsSpace
  DEF Step

(* The members of a team and the workers about to add one never need more    *)
(* room than some limit a teacher may set (or the creator's place) plus the  *)
(* workers but one.                                                          *)
THEOREM SpaceHolds == Spec => []SpaceInv
<1>1. Init => SpaceInv
  BY DEF Init, SpaceInv
<1>2. ASSUME IInv, SpaceInv, [Next]_vars
      PROVE  SpaceInv'
  <2>1. CASE UNCHANGED vars
    BY <1>2, <2>1, FewerJoining DEF vars, Joining, Open
  <2>2. CASE Next
    BY <1>2, <2>2, StepKeepsSpace DEF Next
  <2> QED
    BY <1>2, <2>1, <2>2
<1> QED
  BY <1>1, <1>2, InvariantHolds, PTL DEF Spec

(* Concurrent calls of addMember overfill a team by no more members than     *)
(* there are other workers.                                                  *)
THEOREM OverfullByOtherWorkersOnly == Spec => []CapacityBound
<1>1. SpaceInv => CapacityBound
  <2>1. SUFFICES ASSUME SpaceInv, NEW t \in Teams, team[t] # Null
                 PROVE  \E size \in Sizes \cup {1} :
                          TeamSize(t) <= size + Cardinality(Workers) - 1
    BY DEF CapacityBound
  <2>2. PICK size \in Sizes \cup {1} :
          TeamSize(t) + Cardinality(Joining(t)) <= size + Cardinality(Workers) - 1
    BY <2>1 DEF SpaceInv
  <2>3. TeamSize(t) \in Nat
    BY CountStudents DEF TeamSize, MembersOf
  <2>4. Joining(t) \in SUBSET Workers
    BY DEF Joining, Open
  <2>5. Cardinality(Joining(t)) \in Nat /\ Cardinality(Workers) \in Nat /\ size \in Nat
    BY <2>4, CountWorkers, StoreAssumption
  <2> QED
    BY <2>2, <2>3, <2>5
<1> QED
  BY SpaceHolds, <1>1, PTL
=============================================================================
