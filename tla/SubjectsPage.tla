------------------------------ MODULE SubjectsPage ------------------------------
(***************************************************************************)
(* SubjectsPage.jsx: subjects with their projects, registration and teams of a       *)
(* student, the dialogs of teachers and admins, and the calls behind them.  Two of      *)
(* those calls are two steps for the services: a new team reads the registration         *)
(* first, a deletion looks for projects first.                                            *)
(*                                                                                        *)
(* A task is one run of an async handler with what it read at the click: a write, then     *)
(* loadData, then the rest.                                                                 *)
(***************************************************************************)
EXTENDS Naturals

CONSTANTS
  Subjects, Projects,   \* ids of rows that exist or may be created
  Texts,                \* what a form with all its required fields may hold
  Tasks,                \* slots for tasks (bound)
  MaxClicks,            \* bound: tasks and page visits
  MaxFaults,            \* bound: calls that fail, and listings that are incomplete
  MaxElsewhere,         \* bound: changes made by other people
  Null

VARIABLES
  role,      \* "student" or "admin": who uses the page
  server,    \* the rows of the subject and project services
  page,      \* the state of the mounted page, or Null
  sentTo,    \* the project page the user was sent to last, or Null
  tasks, bounds, flags

vars == <<role, server, page, sentTo, tasks, bounds, flags>>

Items == Subjects \cup Projects
Kinds == {"subject", "project"}   \* the two dialogs with a form
KindOf(i) == IF i \in Subjects THEN "subject" ELSE "project"

(* text: Null for a row that does not exist; of: the subject of a project;          *)
(* registered, inTeam: the subjects and projects of the student.                       *)
Rows == [text : [Items -> Texts \cup {Null}], of : [Projects -> Subjects \cup {Null}],
         registered : SUBSET Subjects, inTeam : SUBSET Projects]
Exists(rows, i) == rows.text[i] # Null

NoTask == [kind |-> "none"]

(* Of the four dialogs one at most is open, for it covers the page.             *)
Closed == [kind |-> "none", target |-> Null, text |-> Null, subject |-> Null]

(* overlap: two tasks ran at once; stale: the page's copy may differ from the rows;   *)
(* linked: a project was created after a deletion of a subject had looked for projects.   *)
NoFlags == [overlap |-> FALSE, stale |-> FALSE, linked |-> FALSE]

Running == {k \in Tasks : tasks[k].kind # "none"}
Mattering ==
  {k \in Running : tasks[k].mounted \/ tasks[k].phase \notin {"reload", "loaded", "loadFailed"}}
Attached(k) == k \in Running /\ tasks[k].mounted
Deleting == \E k \in Running : tasks[k].kind = "delete" /\ tasks[k].phase = "checked"

(***************************************************************************)
(* What the page shows.                                                     *)
(***************************************************************************)
Shown == page # Null /\ ~page.loading
IsStudent == Shown /\ role = "student" /\ page.dialog = Closed
IsAdmin == Shown /\ role = "admin" /\ page.dialog = Closed
In(kinds) == Shown /\ page.dialog.kind \in kinds

(* "Unregister from subject" is hidden for these.                             *)
SubjectsWhereStudentHasTeam == {page.rows.of[p] : p \in page.rows.inTeam}

(* The projects come subject by subject, so that one without a subject is missing.   *)
Listing ==
  LET listed(p) == Exists(server, p) /\ server.of[p] # Null /\ Exists(server, server.of[p])
  IN [text |-> [i \in Items |->
                  IF i \in Projects /\ ~listed(i) THEN Null ELSE server.text[i]],
      of |-> [p \in Projects |-> IF listed(p) THEN server.of[p] ELSE Null],
      registered |-> server.registered,
      inTeam |-> {p \in server.inTeam : listed(p)}]

(* What is left of it when the router cannot get the projects of some subjects, which it  *)
(* skips, or the members of some teams, of which only the leader then counts.                 *)
PartOfListing(skipped, teamless) ==
  LET kept(p) == Listing.of[p] \notin skipped
  IN [text |-> [i \in Items |-> IF i \in Projects /\ ~kept(i) THEN Null ELSE Listing.text[i]],
      of |-> [p \in Projects |-> IF kept(p) THEN Listing.of[p] ELSE Null],
      registered |-> Listing.registered,
      inTeam |-> {p \in Listing.inTeam \ teamless : kept(p)}]

NoRows == [text |-> [i \in Items |-> Null], of |-> [p \in Projects |-> Null],
           registered |-> {}, inTeam |-> {}]

(***************************************************************************)
(* Tasks.                                                                   *)
(***************************************************************************)
Clickable == bounds.clicks < MaxClicks
Click == Clickable /\ bounds' = [bounds EXCEPT !.clicks = @ + 1]

Task(kind, phase, target, form) ==
  [kind |-> kind, phase |-> phase, target |-> target, form |-> form,
   rows |-> Null, mounted |-> TRUE]

(* The slots are alike: a new task takes the free one that CHOOSE names.        *)
Slot == CHOOSE k \in Tasks : tasks[k] = NoTask

Start(task) ==
  /\ Running # Tasks /\ tasks' = [tasks EXCEPT ![Slot] = task]
  /\ flags' = [flags EXCEPT !.overlap = @ \/ Mattering # {}]

SetPage(k, p) == page' = IF tasks[k].mounted THEN p ELSE page
End(k) == tasks' = [tasks EXCEPT ![k] = NoTask]

(* finally: the buttons of the form are enabled again.                        *)
Released(k, p) ==
  CASE tasks[k].kind = "save" -> [p EXCEPT !.submitting = @ \ {tasks[k].form.kind}]
    [] tasks[k].kind = "team" -> [p EXCEPT !.creating = FALSE]
    [] OTHER -> p

(* One subject has a project, in which the student, when there is one, may be in a       *)
(* team already; the others are empty.                                                    *)
Seeded ==
  LET s == CHOOSE s \in Subjects : TRUE
      p == CHOOSE p \in Projects : TRUE
      x == CHOOSE x \in Texts : TRUE
  IN {[text |-> [i \in Items |-> IF i \in Subjects \cup {p} THEN x ELSE Null],
      of |-> [q \in Projects |-> IF q = p THEN s ELSE Null],
      registered |-> IF role = "student" THEN {s} ELSE {}, inTeam |-> teams] :
      teams \in IF role = "student" THEN {{}, {p}} ELSE {{}}}

Init ==
  /\ role \in {"student", "admin"} /\ server \in Seeded
  /\ page = Null /\ sentTo = Null /\ tasks = [k \in Tasks |-> NoTask]
  /\ bounds = [clicks |-> 0, faults |-> 0, elsewhere |-> 0]
  /\ flags = NoFlags

Open ==
  /\ page = Null /\ Click
  /\ page' = [loading |-> TRUE, rows |-> NoRows, dialog |-> Closed,
              submitting |-> {}, creating |-> FALSE]
  /\ Start(Task("load", "reload", Null, Null))
  /\ UNCHANGED <<role, server, sentTo>>

Leave ==
  /\ page # Null /\ Click
  /\ page' = Null
  /\ tasks' = [k \in Tasks |-> IF k \in Running THEN [tasks[k] EXCEPT !.mounted = FALSE]
                               ELSE NoTask]
  /\ UNCHANGED <<role, server, sentTo, flags>>

(***************************************************************************)
(* Students: no button of these is disabled while its call is on its way.    *)
(***************************************************************************)
HandleRegisterSubject(s) ==
  /\ IsStudent /\ Exists(page.rows, s) /\ s \notin page.rows.registered /\ Click
  /\ Start(Task("register", "asked", s, Null))
  /\ UNCHANGED <<role, server, page, sentTo>>

HandleLeaveSubject_WithTeam(s) ==
  /\ IsStudent /\ Exists(page.rows, s) /\ s \in page.rows.registered /\ Click
  /\ Start(Task("leave", "asked", s, Null))
  /\ UNCHANGED <<role, server, page, sentTo>>

HandleLeaveSubject(s) ==
  /\ IsStudent /\ Exists(page.rows, s) /\ s \in page.rows.registered
  /\ s \notin SubjectsWhereStudentHasTeam /\ Click
  /\ Start(Task("leave", "asked", s, Null))
  /\ UNCHANGED <<role, server, page, sentTo>>

SetDialog(d) ==
  page' = [page EXCEPT !.dialog = d] /\ UNCHANGED <<role, server, sentTo, tasks, bounds, flags>>

(* A dialog is opened to save it, so not after the last click.                   *)
Opens(d) == Clickable /\ SetDialog(d)

OpenCreateTeamDialog(p) ==
  /\ IsStudent
  /\ Exists(page.rows, p) /\ p \notin page.rows.inTeam /\ page.rows.of[p] \in page.rows.registered
  /\ Opens([Closed EXCEPT !.kind = "team", !.target = p])

HandleCreateTeam ==
  /\ In({"team"}) /\ ~page.creating /\ Click
  /\ page' = [page EXCEPT !.creating = TRUE]
  /\ Start(Task("team", "asked", page.dialog.target, Null))
  /\ UNCHANGED <<role, server, sentTo>>

(***************************************************************************)
(* Teachers and admins.                                                     *)
(***************************************************************************)
OpenEditor(i) ==
  /\ IsAdmin /\ Exists(page.rows, i)
  /\ Opens([Closed EXCEPT !.kind = KindOf(i), !.target = i,
                          !.subject = IF i \in Projects THEN page.rows.of[i] ELSE Null])

OpenCreator(d) ==
  /\ IsAdmin
  /\ \E s \in IF d = "subject" THEN {Null} ELSE {s \in Subjects : Exists(page.rows, s)} :
       Opens([Closed EXCEPT !.kind = d, !.subject = s])

(* What the form may hold by the click: what is typed before matters to nobody.    *)
Filled(dialog) == {[dialog EXCEPT !.text = x] : x \in Texts}

(* Cancel is disabled while the call of the dialog is on its way; Escape is not.   *)
CloseDialog == Shown /\ page.dialog # Closed /\ SetDialog(Closed)

(* The target and the form are those of the click.                              *)
HandleSave ==
  /\ In(Kinds) /\ page.dialog.kind \notin page.submitting /\ Click
  /\ page' = [page EXCEPT !.submitting = @ \cup {page.dialog.kind}]
  /\ \E form \in Filled(page.dialog) : Start(Task("save", "asked", form.target, form))
  /\ UNCHANGED <<role, server, sentTo>>

SetDeleteSubjectTarget(s) ==
  /\ IsAdmin /\ Exists(page.rows, s)
  /\ Opens([Closed EXCEPT !.kind = "delete", !.target = s])

(* The button of the confirmation stays enabled: a second click asks again.      *)
HandleDeleteSubject ==
  /\ In({"delete"}) /\ Click
  /\ Start(Task("delete", "asked", page.dialog.target, Null))
  /\ UNCHANGED <<role, server, page, sentTo>>

(***************************************************************************)
(* The code behind the awaits.                                              *)
(***************************************************************************)
WriteAnswered_NoReload(k) ==
  /\ k \in Running /\ tasks[k].phase = "done" /\ tasks[k].kind # "team"
  /\ SetPage(k, Released(k, [page EXCEPT !.dialog = Closed])) /\ End(k)
  /\ UNCHANGED <<role, server, sentTo, bounds, flags>>

(* The dialog of the task's kind closes, also when it is another one by now.     *)
WriteAnswered(k) ==
  LET task == tasks[k]
      kind == IF task.kind = "save" THEN task.form.kind ELSE task.kind
  IN /\ k \in Running /\ task.phase = "done"
     /\ tasks' = [tasks EXCEPT ![k].phase = "reload"]
     /\ SetPage(k, [page EXCEPT !.loading = TRUE,
                                !.dialog = IF @.kind = kind THEN Closed ELSE @])
     /\ UNCHANGED <<role, server, sentTo, bounds, flags>>

WriteFailed_GoesOn(k) ==
  /\ k \in Running /\ tasks[k].phase = "failed"
  /\ IF tasks[k].kind = "team"
     THEN /\ page' = Null /\ sentTo' = tasks[k].target
          /\ tasks' = [j \in Tasks |-> IF j = k \/ j \notin Running THEN NoTask
                                       ELSE [tasks[j] EXCEPT !.mounted = FALSE]]
     ELSE SetPage(k, Released(k, page)) /\ End(k) /\ UNCHANGED sentTo
  /\ UNCHANGED <<role, server, bounds, flags>>

WriteFailed(k) ==
  /\ k \in Running /\ tasks[k].phase = "failed"
  /\ SetPage(k, Released(k, page)) /\ End(k)
  /\ UNCHANGED <<role, server, sentTo, bounds, flags>>

(* After a new team the user is sent to its project, from wherever they are by    *)
(* then; the page is unmounted.                                                      *)
LoadAnswered(k) ==
  LET task == tasks[k]
      filled == IF task.phase = "loaded" THEN [page EXCEPT !.rows = task.rows] ELSE page
  IN /\ k \in Running /\ task.phase \in {"loaded", "loadFailed"}
     /\ IF task.kind = "team"
        THEN /\ page' = Null /\ sentTo' = task.target
             /\ tasks' = [j \in Tasks |->
                  IF j = k \/ j \notin Running THEN NoTask
                  ELSE [tasks[j] EXCEPT !.mounted = FALSE]]
        ELSE /\ SetPage(k, [Released(k, filled) EXCEPT !.loading = FALSE])
             /\ End(k) /\ UNCHANGED sentTo
     /\ flags' = [flags EXCEPT !.stale = @ \/ (task.mounted /\ task.phase = "loadFailed")]
     /\ UNCHANGED <<role, server, bounds>>

(***************************************************************************)
(* The services.                                                            *)
(***************************************************************************)
(* An unused id, if there is one.                                               *)
Fresh(ids) ==
  LET unused == {j \in ids : ~Exists(server, j)}
  IN IF unused = {} THEN {} ELSE {CHOOSE j \in unused : TRUE}

(* The rows after the write of a task, one for each way it can succeed.          *)
Written(task) ==
  LET i == task.target
      set(j) == [server EXCEPT !.text[j] = task.form.text]
  IN CASE task.kind = "register" ->
            IF Exists(server, i) THEN {[server EXCEPT !.registered = @ \cup {i}]} ELSE {}
       [] task.kind = "leave" ->
            IF Exists(server, i) THEN {[server EXCEPT !.registered = @ \ {i}]} ELSE {}
       [] task.kind = "save" /\ i # Null -> IF Exists(server, i) THEN {set(i)} ELSE {}
       [] task.kind = "save" /\ i = Null /\ task.form.kind = "subject" ->
            {set(j) : j \in Fresh(Subjects)}
       [] task.kind = "save" /\ i = Null /\ task.form.kind = "project" ->
            {[set(j) EXCEPT !.of[j] = task.form.subject] : j \in Fresh(Projects)}
       [] task.kind = "team" ->
            IF Exists(server, i) THEN {[server EXCEPT !.inTeam = @ \cup {i}]} ELSE {}
       [] task.kind = "delete" ->
            IF Exists(server, i)
            THEN {[server EXCEPT !.text[i] = Null, !.registered = @ \ {i}]} ELSE {}
       [] OTHER -> {}

Allowed_NoProjectCheck(task) ==
  IF task.kind = "team"
  THEN /\ task.target \notin server.inTeam
       /\ Exists(server, task.target) /\ server.of[task.target] \in server.registered
  ELSE TRUE

(* A new team: is the student registered, and in no team yet?  A deletion: has the    *)
(* subject no projects?                                                                *)
Allowed(task) ==
  IF task.kind = "team"
  THEN /\ task.target \notin server.inTeam
       /\ Exists(server, task.target) /\ server.of[task.target] \in server.registered
  ELSE \A p \in Projects : Exists(server, p) => server.of[p] # task.target

ServeCheck(k) ==
  /\ k \in Running /\ tasks[k].kind \in {"team", "delete"} /\ tasks[k].phase = "asked"
  /\ tasks' = [tasks EXCEPT ![k].phase = IF Allowed(tasks[k]) THEN "checked" ELSE "failed"]
  /\ UNCHANGED <<role, server, page, sentTo, bounds, flags>>

(* A new project is stored whether its subject exists or not.                    *)
LateLink(task) ==
  /\ task.kind = "save" /\ task.form.kind = "project"
  /\ Deleting \/ ~Exists(server, task.form.subject)

ServeWrite(k) ==
  /\ k \in Running
  /\ tasks[k].phase = IF tasks[k].kind \in {"team", "delete"} THEN "checked" ELSE "asked"
  /\ LET ways == Written(tasks[k])
     IN /\ IF ways = {} THEN UNCHANGED server ELSE server' \in ways
        /\ tasks' = [tasks EXCEPT ![k].phase = IF ways = {} THEN "failed" ELSE "done"]
  /\ flags' = [flags EXCEPT !.linked = @ \/ LateLink(tasks[k])]
  /\ UNCHANGED <<role, page, sentTo, bounds>>

ServeLoad(k) ==
  /\ k \in Running /\ tasks[k].phase = "reload"
  /\ tasks' = [tasks EXCEPT ![k].phase = "loaded", ![k].rows = Listing]
  /\ flags' = [flags EXCEPT !.stale = @ /\ ~tasks[k].mounted]
  /\ UNCHANGED <<role, server, page, sentTo, bounds>>

Fault == bounds.faults < MaxFaults /\ bounds' = [bounds EXCEPT !.faults = @ + 1]

(* The router answers all the same when calls of its own fail.                  *)
ServeLoadPartly(k) ==
  /\ k \in Running /\ tasks[k].phase = "reload" /\ Fault
  /\ \E skipped \in SUBSET Subjects, teamless \in SUBSET server.inTeam :
       tasks' = [tasks EXCEPT ![k].phase = "loaded",
                              ![k].rows = PartOfListing(skipped, teamless)]
  /\ flags' = [flags EXCEPT !.stale = @ \/ tasks[k].mounted]
  /\ UNCHANGED <<role, server, page, sentTo>>

(* A call fails, before or after the services have done their work.              *)
CallFails(k) ==
  /\ Fault /\ k \in Running /\ tasks[k].phase \in {"asked", "checked", "done", "reload", "loaded"}
  /\ LET loading == tasks[k].phase \in {"reload", "loaded"}
     IN /\ tasks' = [tasks EXCEPT ![k].phase = IF loading THEN "loadFailed" ELSE "failed"]
        /\ flags' = [flags EXCEPT !.stale = @ \/ ~loading]
  /\ UNCHANGED <<role, server, page, sentTo>>

(* Another teacher adds a project; an admin registers the student.                 *)
Elsewhere ==
  /\ bounds.elsewhere < MaxElsewhere
  /\ bounds' = [bounds EXCEPT !.elsewhere = @ + 1]
  /\ \E s \in Subjects : /\ Exists(server, s)
       /\ \/ \E p \in Fresh(Projects), x \in Texts :
               server' = [server EXCEPT !.text[p] = x, !.of[p] = s]
          \/ /\ role = "student" /\ s \notin server.registered
             /\ server' = [server EXCEPT !.registered = @ \cup {s}]
  /\ flags' = [flags EXCEPT !.stale = TRUE, !.linked = @ \/ Deleting]
  /\ UNCHANGED <<role, page, sentTo, tasks>>

Next ==
  \/ Open \/ Leave \/ CloseDialog \/ HandleCreateTeam \/ HandleSave \/ HandleDeleteSubject
  \/ \E s \in Subjects : HandleRegisterSubject(s) \/ HandleLeaveSubject(s) \/ SetDeleteSubjectTarget(s)
  \/ \E p \in Projects : OpenCreateTeamDialog(p)
  \/ \E i \in Items : OpenEditor(i)
  \/ \E d \in Kinds : OpenCreator(d)
  \/ \E k \in Tasks :
       \/ WriteAnswered(k) \/ WriteFailed(k) \/ LoadAnswered(k)
       \/ ServeCheck(k) \/ ServeWrite(k) \/ ServeLoad(k) \/ ServeLoadPartly(k) \/ CallFails(k)
  \/ Elsewhere

Spec == Init /\ [][Next]_vars

(***************************************************************************)
(* Properties.                                                              *)
(***************************************************************************)
Dialogs == [kind : Kinds \cup {"none", "delete", "team"}, target : Items \cup {Null},
            text : Texts \cup {Null}, subject : Subjects \cup {Null}]
Pages == [loading : BOOLEAN, rows : Rows, dialog : Dialogs,
          submitting : SUBSET Kinds, creating : BOOLEAN]

(* The variables keep their types (SubjectsPage.jsx:74-104).                   *)
TypeOK ==
  /\ server \in Rows /\ sentTo \in Projects \cup {Null}
  /\ page \in Pages \cup {Null}
  /\ \A k \in Running :
       /\ tasks[k].kind \in {"load", "register", "leave", "save", "delete", "team"}
       /\ tasks[k].target \in Items \cup {Null}
       /\ tasks[k].form \in Dialogs \cup {Null}
       /\ tasks[k].rows \in Rows \cup {Null}
       /\ tasks[k].mounted => page # Null

(* The spinner and the disabled buttons have a task of this page behind them that      *)
(* will end them, whatever fails: the finally clauses of SubjectsPage.jsx:162, :233,     *)
(* :315, :351.                                                                           *)
NeverStuck ==
  page # Null =>
    /\ page.loading => \E k \in Tasks : Attached(k) /\ tasks[k].phase \in {"reload", "loaded", "loadFailed"}
    /\ page.creating => \E k \in Tasks : Attached(k) /\ tasks[k].kind = "team"
    /\ \A d \in page.submitting :
         \E k \in Tasks : Attached(k) /\ tasks[k].kind = "save" /\ tasks[k].form.kind = d

(* Once nothing runs, the page shows what the services have, own writes included,       *)
(* unless a call failed, somebody else wrote, or two tasks overlapped (:170-188 and       *)
(* :237-247 disable nothing).                                                              *)
ShowsOwnWrites ==
  Shown /\ Running = {} /\ ~flags.stale /\ ~flags.overlap => page.rows = Listing

(* A student in a team is registered for its subject: the button that would break it    *)
(* is hidden (:119-133, :536-546), and the router checks a new team (projects.rs:197-223).   *)
(* The condition names what neither stops: overlapping calls, and an old copy.               *)
Registered == \A p \in server.inTeam : server.of[p] \in server.registered
TeamsAreRegistered ==
  ~flags.overlap /\ bounds.faults = 0 /\ bounds.elsewhere = 0 => Registered

(* No project is left without its subject: the subject service looks for projects         *)
(* before it deletes (SubjectManager.cs:101), unless one is created after it looked.         *)
NoOrphans ==
  ~flags.linked =>
    \A p \in Projects : Exists(server, p) => Exists(server, server.of[p])

(* The user is only sent to a project in which they have a team, whatever dialog is         *)
(* open by the time the calls end (:341-347).                                                 *)
SentToOwnTeam == sentTo # Null => sentTo \in server.inTeam
=============================================================================
