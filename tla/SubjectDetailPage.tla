--------------------------- MODULE SubjectDetailPage ---------------------------
(***************************************************************************)
(* SubjectDetailPage.jsx: who is enrolled in a subject and who teaches it, as an       *)
(* admin or a teacher sees and changes it.  Teachers may only remove students, and of      *)
(* the subjects they teach only; the gateway asks for the role, not for the subject.         *)
(*                                                                                            *)
(* A task is one run of an async handler: a write to the subject on show, then loadData         *)
(* of the subject of the path, with what it read at the click.                                    *)
(***************************************************************************)
EXTENDS Naturals

CONSTANTS
  Subjects, Students, Teachers,
  Me,             \* the teacher who uses the page, if it is a teacher
  Taught,         \* the subject that has teachers in the beginning
  Tasks,          \* slots for tasks (bound)
  MaxClicks,      \* bound: tasks and navigations
  MaxFaults,      \* bound: calls that fail
  MaxElsewhere,   \* bound: changes made by other people
  Null

VARIABLES
  role,     \* "admin" or "teacher": who uses the page
  server,   \* the rows of the subject service
  page,     \* the state of the mounted page, or Null
  tasks, bounds, flags

vars == <<role, server, page, tasks, bounds, flags>>

NoRow == [students |-> {}, teachers |-> {}]
Row == [students : SUBSET Students, teachers : SUBSET Teachers]
NoTask == [kind |-> "none"]

(* overlap: two tasks ran at once; stale: the page's copy may differ from the row, for  *)
(* a call failed or somebody else wrote.                                                  *)
NoFlags == [overlap |-> FALSE, stale |-> FALSE]

Running == {k \in Tasks : tasks[k].kind # "none"}
Mattering ==
  {k \in Running : tasks[k].mounted \/ tasks[k].phase \notin {"reload", "loaded", "loadFailed"}}
Attached(k) == k \in Running /\ tasks[k].mounted
Loading(k) == Attached(k) /\ tasks[k].phase \in {"reload", "loaded", "loadFailed"}

(***************************************************************************)
(* What the page shows.                                                     *)
(***************************************************************************)
Shown == page # Null /\ ~page.loading /\ page.shown # Null

CanManageStudents_AnyTeacher == Shown

CanManageStudents == Shown /\ (role = "admin" \/ Me \in page.row.teachers)

AvailableStudents == Students \ page.row.students
AvailableTeachers == Teachers \ page.row.teachers

(***************************************************************************)
(* Tasks.                                                                   *)
(***************************************************************************)
Click == bounds.clicks < MaxClicks /\ bounds' = [bounds EXCEPT !.clicks = @ + 1]

Task(kind, phase, target, user) ==
  [kind |-> kind, phase |-> phase, target |-> target, user |-> user,
   subject |-> page'.url, row |-> Null, mounted |-> TRUE]

(* The slots are alike: a new task takes the free one that CHOOSE names.        *)
Slot == CHOOSE k \in Tasks : tasks[k] = NoTask

Start(task) ==
  /\ Running # Tasks /\ tasks' = [tasks EXCEPT ![Slot] = task]
  /\ flags' = [flags EXCEPT !.overlap = @ \/ Mattering # {}]

SetPage(k, p) == page' = IF tasks[k].mounted THEN p ELSE page
End(k) == tasks' = [tasks EXCEPT ![k] = NoTask]

(* finally of runMembershipUpdate.                                              *)
Released(k, p) == IF tasks[k].kind = "load" THEN p ELSE [p EXCEPT !.saving = FALSE]

Mounted(s) ==
  [url |-> s, shown |-> Null, row |-> NoRow, loading |-> TRUE, saving |-> FALSE,
   studentToAdd |-> Null, teacherToAdd |-> Null]

(* loadData, as the effect on the subject of the path runs it.                  *)
EffectLoad == Start(Task("load", "reload", Null, Null))

Init ==
  /\ role \in {"admin", "teacher"}
  /\ server = [s \in Subjects |->
       IF s = Taught THEN [students |-> Students, teachers |-> {Me}]
       ELSE [students |-> Students, teachers |-> {}]]
  /\ page = Null /\ tasks = [k \in Tasks |-> NoTask]
  /\ bounds = [clicks |-> 0, faults |-> 0, elsewhere |-> 0]
  /\ flags = NoFlags

Open(s) ==
  /\ page = Null /\ Click /\ page' = Mounted(s) /\ EffectLoad
  /\ UNCHANGED <<role, server>>

(* From one subject straight to another: the page stays mounted.                *)
SwitchSubject(s) ==
  /\ page # Null /\ page.url # s /\ Click
  /\ page' = [page EXCEPT !.url = s, !.loading = TRUE] /\ EffectLoad
  /\ UNCHANGED <<role, server>>

Leave ==
  /\ page # Null /\ Click /\ page' = Null
  /\ tasks' = [k \in Tasks |-> IF k \in Running THEN [tasks[k] EXCEPT !.mounted = FALSE]
                               ELSE NoTask]
  /\ UNCHANGED <<role, server, flags>>

(***************************************************************************)
(* The handlers.  A second task can be started while one is saving, for the     *)
(* buttons that remove somebody stay enabled.                                     *)
(***************************************************************************)
PickStudent(u) ==
  /\ Shown /\ role = "admin" /\ ~page.saving
  /\ u \in AvailableStudents /\ page.studentToAdd # u
  /\ page' = [page EXCEPT !.studentToAdd = u]
  /\ UNCHANGED <<role, server, tasks, bounds, flags>>

PickTeacher(u) ==
  /\ Shown /\ role = "admin" /\ ~page.saving
  /\ u \in AvailableTeachers /\ page.teacherToAdd # u
  /\ page' = [page EXCEPT !.teacherToAdd = u]
  /\ UNCHANGED <<role, server, tasks, bounds, flags>>

(* The update goes to the subject on show, its reload to that of the path.      *)
RunMembershipUpdate(kind, u) ==
  /\ Click /\ page' = [page EXCEPT !.saving = TRUE]
  /\ Start(Task(kind, "asked", page.shown, u))
  /\ UNCHANGED <<role, server>>

HandleAddStudent ==
  /\ Shown /\ role = "admin" /\ ~page.saving /\ page.studentToAdd # Null
  /\ RunMembershipUpdate("addStudent", page.studentToAdd)

HandleRemoveStudent(u) ==
  CanManageStudents /\ u \in page.row.students /\ RunMembershipUpdate("removeStudent", u)

HandleAddTeacher ==
  /\ Shown /\ role = "admin" /\ ~page.saving /\ page.teacherToAdd # Null
  /\ RunMembershipUpdate("addTeacher", page.teacherToAdd)

HandleRemoveTeacher(u) ==
  /\ Shown /\ role = "admin" /\ u \in page.row.teachers
  /\ RunMembershipUpdate("removeTeacher", u)

(***************************************************************************)
(* The code behind the awaits.                                              *)
(***************************************************************************)
WriteAnswered(k) ==
  /\ k \in Running /\ tasks[k].phase = "done"
  /\ tasks' = [tasks EXCEPT ![k].phase = "reload"]
  /\ SetPage(k, [page EXCEPT !.loading = TRUE])
  /\ UNCHANGED <<role, server, bounds, flags>>

WriteFailed(k) ==
  /\ k \in Running /\ tasks[k].phase = "failed"
  /\ SetPage(k, Released(k, page)) /\ End(k)
  /\ UNCHANGED <<role, server, bounds, flags>>

LoadAnswered_KeepsPicks(k) ==
  LET task == tasks[k]
      after == IF task.phase = "loaded"
               THEN [page EXCEPT !.shown = task.subject, !.row = task.row]
               ELSE [page EXCEPT !.shown = Null]
  IN /\ k \in Running /\ task.phase \in {"loaded", "loadFailed"}
     /\ SetPage(k, [Released(k, after) EXCEPT !.loading = FALSE]) /\ End(k)
     /\ UNCHANGED <<role, server, bounds, flags>>

(* Whichever subject the answer is of, it replaces what is shown, and the spinner         *)
(* goes; a failure is "Subject not found".                                                *)
LoadAnswered(k) ==
  LET task == tasks[k]
      after == IF task.phase = "loaded"
               THEN [page EXCEPT !.shown = task.subject, !.row = task.row,
                                 !.studentToAdd = Null, !.teacherToAdd = Null]
               ELSE [page EXCEPT !.shown = Null]
  IN /\ k \in Running /\ task.phase \in {"loaded", "loadFailed"}
     /\ SetPage(k, [Released(k, after) EXCEPT !.loading = FALSE]) /\ End(k)
     /\ UNCHANGED <<role, server, bounds, flags>>

(***************************************************************************)
(* The gateway and the subject service.                                     *)
(***************************************************************************)
Permitted(task) == role = "admin" \/ task.kind = "removeStudent"

Written(task) ==
  LET s == task.target
      u == task.user
  IN CASE task.kind = "addStudent" -> [server EXCEPT ![s].students = @ \cup {u}]
       [] task.kind = "removeStudent" -> [server EXCEPT ![s].students = @ \ {u}]
       [] task.kind = "addTeacher" -> [server EXCEPT ![s].teachers = @ \cup {u}]
       [] task.kind = "removeTeacher" -> [server EXCEPT ![s].teachers = @ \ {u}]

ServeWrite(k) ==
  /\ k \in Running /\ tasks[k].phase = "asked"
  /\ server' = IF Permitted(tasks[k]) THEN Written(tasks[k]) ELSE server
  /\ tasks' = [tasks EXCEPT ![k].phase = IF Permitted(tasks[k]) THEN "done" ELSE "failed"]
  /\ UNCHANGED <<role, page, bounds, flags>>

ServeLoad(k) ==
  /\ k \in Running /\ tasks[k].phase = "reload"
  /\ tasks' = [tasks EXCEPT ![k].phase = "loaded", ![k].row = server[tasks[k].subject]]
  /\ flags' = [flags EXCEPT !.stale = @ /\ ~tasks[k].mounted]
  /\ UNCHANGED <<role, server, page, bounds>>

(* A call fails, before or after the service has done its work.                 *)
CallFails(k) ==
  /\ bounds.faults < MaxFaults /\ bounds' = [bounds EXCEPT !.faults = @ + 1]
  /\ k \in Running /\ tasks[k].phase \in {"asked", "done", "reload", "loaded"}
  /\ tasks' = [tasks EXCEPT ![k].phase =
                 IF tasks[k].phase \in {"asked", "done"} THEN "failed" ELSE "loadFailed"]
  /\ flags' = [flags EXCEPT !.stale = @ \/ tasks[k].phase \in {"asked", "done"}]
  /\ UNCHANGED <<role, server, page>>

(* An admin takes a subject away from its teacher, or a student leaves one.        *)
Elsewhere(s) ==
  /\ bounds.elsewhere < MaxElsewhere
  /\ bounds' = [bounds EXCEPT !.elsewhere = @ + 1]
  /\ \/ Me \in server[s].teachers /\ server' = [server EXCEPT ![s].teachers = @ \ {Me}]
     \/ \E u \in server[s].students : server' = [server EXCEPT ![s].students = @ \ {u}]
  /\ flags' = [flags EXCEPT !.stale = TRUE]
  /\ UNCHANGED <<role, page, tasks>>

Next ==
  \/ \E s \in Subjects : Open(s) \/ SwitchSubject(s) \/ Elsewhere(s)
  \/ Leave \/ HandleAddStudent \/ HandleAddTeacher
  \/ \E u \in Students : PickStudent(u) \/ HandleRemoveStudent(u)
  \/ \E u \in Teachers : PickTeacher(u) \/ HandleRemoveTeacher(u)
  \/ \E k \in Tasks : \/ WriteAnswered(k) \/ WriteFailed(k) \/ LoadAnswered(k)
                      \/ ServeWrite(k) \/ ServeLoad(k) \/ CallFails(k)

Spec == Init /\ [][Next]_vars

(***************************************************************************)
(* Properties.                                                              *)
(***************************************************************************)
Pages ==
  [url : Subjects, shown : Subjects \cup {Null}, row : Row, loading : BOOLEAN, saving : BOOLEAN,
   studentToAdd : Students \cup {Null}, teacherToAdd : Teachers \cup {Null}]

(* The variables keep their types (SubjectDetailPage.jsx:95-102).              *)
TypeOK ==
  /\ server \in [Subjects -> Row]
  /\ page \in Pages \cup {Null}
  /\ \A k \in Running :
       /\ tasks[k].kind \in {"load", "addStudent", "removeStudent", "addTeacher", "removeTeacher"}
       /\ tasks[k].target \in Subjects \cup {Null} /\ tasks[k].subject \in Subjects
       /\ tasks[k].row \in Row \cup {Null}
       /\ tasks[k].mounted => page # Null

(* The spinner and the disabled fields have a task of this page behind them that will    *)
(* end them, whatever fails: the finally clauses of SubjectDetailPage.jsx:179, :197.        *)
NeverStuck ==
  page # Null =>
    /\ page.loading => \E k \in Tasks : Loading(k)
    /\ page.saving => \E k \in Tasks : Attached(k) /\ tasks[k].kind # "load"

(* Once nothing runs, the page shows the subject of its path as the service has it, or    *)
(* says that it was not found, and what is picked can still be added; unless a call          *)
(* failed, somebody else wrote, or two tasks of the user overlapped (:161-200).               *)
SubjectAsStored ==
  Shown /\ Running = {} /\ ~flags.stale /\ ~flags.overlap =>
    /\ page.shown = page.url /\ page.row = server[page.url]
    /\ page.studentToAdd \notin page.row.students /\ page.teacherToAdd \notin page.row.teachers

(* A teacher removes students from subjects they teach only, also when the answer of         *)
(* another subject has replaced what is shown: the page is the only guard (:108-110;            *)
(* grpc_auth.rs:117 asks for the role), so that it has to be up to date.                         *)
RemovesOwn ==
  \A s \in Subjects :
    /\ server'[s].students # server[s].students
    /\ role = "teacher" /\ bounds'.elsewhere = 0
    => Me \in server[s].teachers
=============================================================================
