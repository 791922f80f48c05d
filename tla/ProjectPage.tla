------------------------------ MODULE ProjectPage ------------------------------
(***************************************************************************)
(* ProjectDetailPage.jsx: what one user sees of a project, its teams, files and    *)
(* evaluations, the drafts a teacher types, and the calls the page makes.            *)
(*                                                                                  *)
(* Every handler is an async function: a write, then loadData, then what is left.     *)
(* A task is one run of such a function; what it read before its first await (the      *)
(* project of the path, the drafts) is part of it.  Tasks outlive the page: what they    *)
(* then set is dropped.  Rows whose fields the page only displays are left out.           *)
(***************************************************************************)
EXTENDS Naturals, FiniteSets

CONSTANTS
  Projects, Teams,
  ProjectOf,      \* the project of a team
  Taught,         \* the projects the teacher teaches
  Students, Me,   \* Me is the student who uses the page
  Seats,          \* max_students_per_team
  Marks,          \* scores with feedback that the page accepts as valid
  Files,
  Tasks,          \* slots for tasks (bound)
  MaxClicks,      \* bound: tasks started by the user, and navigations
  MaxFaults,      \* bound: calls that fail, and listings that are incomplete
  MaxElsewhere,   \* bound: changes made by other people
  Null

VARIABLES
  role,       \* "teacher" or "student": who uses the page
  server,     \* the rows of the project and evaluation services
  page,       \* the state of the mounted page, or Null
  tasks,
  bounds,     \* clicks, faults and changes made elsewhere so far
  flags       \* history, see NoFlags

vars == <<role, server, page, tasks, bounds, flags>>

NoTeam == [members |-> {}, leader |-> Null, file |-> Null, mark |-> Null]
Row == [members : SUBSET Students, leader : Students \cup {Null},
        file : Files \cup {Null}, mark : Marks \cup {Null}]
NoTask == [kind |-> "none"]

(* moved: the path changed while a task ran; overlap: two tasks ran at once;        *)
(* stale: the page's copy may differ from the rows, for a load failed or was not       *)
(* complete, or somebody else changed them.                                            *)
NoFlags == [moved |-> FALSE, overlap |-> FALSE, stale |-> FALSE]

Running == {k \in Tasks : tasks[k].kind # "none"}
Mattering ==  \* a load of a page that is gone changes nothing
  {k \in Running : tasks[k].mounted \/ tasks[k].phase \in {"asked", "done", "failed"}}
Attached(k) == tasks[k].kind # "none" /\ tasks[k].mounted
Loading(k) == Attached(k) /\ tasks[k].phase \in {"reload", "loaded", "loadFailed"}

(***************************************************************************)
(* What the page derives from its state.                                    *)
(***************************************************************************)
Shown == page # Null /\ ~page.loading /\ page.shown # Null

IsProjectTeacher_AnyTeacher == Shown /\ role = "teacher"

IsProjectTeacher == Shown /\ role = "teacher" /\ page.shown \in Taught

InTeam(s, t) == s \in page.rows[t].members

CanManageOwnTeam(t) == role = "student" /\ InTeam(Me, t) /\ page.rows[t].leader = Me

CandidateStudents == {s \in Students : \A t \in Teams : ~InTeam(s, t)}

(* A draft can be saved when it is valid and differs from what was loaded.    *)
CanSave(t) == page.drafts[t] \in Marks /\ page.drafts[t] # page.rows[t].mark

(* The router lists the teams of the project and keeps from a student the file and     *)
(* the evaluation of a team that is not theirs.                                         *)
Listing(p) ==
  [t \in Teams |->
     IF ProjectOf[t] # p \/ server[t].members = {} THEN NoTeam
     ELSE IF role = "student" /\ Me \notin server[t].members
     THEN [server[t] EXCEPT !.file = Null, !.mark = Null]
     ELSE server[t]]

PartOfListing(p, unmarked, skipped) ==
  [t \in Teams |-> IF t \in skipped THEN NoTeam
                   ELSE IF t \in unmarked THEN [Listing(p)[t] EXCEPT !.mark = Null]
                   ELSE Listing(p)[t]]

(***************************************************************************)
(* Tasks.                                                                   *)
(***************************************************************************)
Clickable == bounds.clicks < MaxClicks
Click == Clickable /\ bounds' = [bounds EXCEPT !.clicks = @ + 1]

(* The fields a kind of task has no use for are Null.                          *)
Task(kind, phase, team, data, queue) ==
  [kind |-> kind, phase |-> phase, team |-> team, data |-> data, queue |-> queue,
   project |-> page'.url, rows |-> Null, mounted |-> TRUE]

(* The slots are alike: a new task takes the free one that CHOOSE names.        *)
Slot == CHOOSE k \in Tasks : tasks[k] = NoTask

Start(task) ==
  /\ Running # Tasks /\ tasks' = [tasks EXCEPT ![Slot] = task]
  /\ flags' = [flags EXCEPT !.overlap = @ \/ Mattering # {}]

SetPage(k, p) == page' = IF tasks[k].mounted THEN p ELSE page

End(k) == tasks' = [tasks EXCEPT ![k] = NoTask]

BeginReload_NoSpinner(k, p) ==
  tasks' = [tasks EXCEPT ![k].phase = "reload"] /\ SetPage(k, p)

(* loadData with the project of the path the function was called under: the whole     *)
(* page gives way to a spinner.                                                        *)
BeginReload(k, p) ==
  /\ tasks' = [tasks EXCEPT ![k].phase = "reload"]
  /\ SetPage(k, [p EXCEPT !.loading = TRUE])

Released_NotOnFailure(k, p) ==
  IF tasks[k].phase \in {"failed", "loadFailed"} THEN p
  ELSE [p EXCEPT !.saving = FALSE, !.creating = FALSE, !.submitting = FALSE]

(* finally: the flag that disabled the buttons of this kind of task.            *)
Released(k, p) ==
  CASE tasks[k].kind \in {"save", "saveAll"} -> [p EXCEPT !.saving = FALSE]
    [] tasks[k].kind = "create" -> [p EXCEPT !.creating = FALSE]
    [] tasks[k].kind = "submit" -> [p EXCEPT !.submitting = FALSE]
    [] OTHER -> p

Mounted(p) ==
  [url |-> p, shown |-> Null, loading |-> TRUE,
   rows |-> [t \in Teams |-> NoTeam], drafts |-> [t \in Teams |-> Null],
   pick |-> Null, dialog |-> FALSE,
   saving |-> FALSE, creating |-> FALSE, submitting |-> FALSE]

(* The effect on the project of the path.                                       *)
EffectLoad == Start(Task("load", "reload", Null, Null, {}))

Empty == [t \in Teams |-> NoTeam]
Formed == [t \in Teams |-> [NoTeam EXCEPT !.members = Students \ {Me},
                                          !.leader = CHOOSE s \in Students \ {Me} : TRUE]]
Init ==
  /\ role \in {"teacher", "student"} /\ server = IF role = "student" THEN Empty ELSE Formed
  /\ page = Null /\ tasks = [k \in Tasks |-> NoTask]
  /\ bounds = [clicks |-> 0, faults |-> 0, elsewhere |-> 0]
  /\ flags = NoFlags

(***************************************************************************)
(* Navigation.                                                              *)
(***************************************************************************)
Open(p) ==
  /\ page = Null /\ Click
  /\ page' = Mounted(p) /\ EffectLoad
  /\ UNCHANGED <<role, server>>

(* The history of the browser leads from one project straight to another: the path      *)
(* changes, the page stays mounted with all its state.                                   *)
SwitchProject(p) ==
  /\ page # Null /\ page.url # p /\ Click
  /\ page' = [page EXCEPT !.url = p, !.loading = TRUE]
  /\ Running # Tasks
  /\ tasks' = [tasks EXCEPT ![Slot] = Task("load", "reload", Null, Null, {})]
  /\ flags' = [flags EXCEPT !.moved = @ \/ Mattering # {}, !.overlap = @ \/ Mattering # {}]
  /\ UNCHANGED <<role, server>>

Leave ==
  /\ page # Null /\ Click
  /\ page' = Null
  /\ tasks' = [k \in Tasks |-> IF tasks[k] = NoTask THEN NoTask
                               ELSE [tasks[k] EXCEPT !.mounted = FALSE]]
  /\ UNCHANGED <<role, server, flags>>

(***************************************************************************)
(* The teacher's forms.                                                     *)
(***************************************************************************)
SetEvaluationField(t, draft) ==
  /\ IsProjectTeacher /\ ~page.saving /\ page.rows[t] # NoTeam
  /\ page' = [page EXCEPT !.drafts[t] = draft]
  /\ UNCHANGED <<role, server, tasks, bounds, flags>>

(* The drafts are those of the click, however the page changes meanwhile.      *)
HandleSaveEvaluation(t) ==
  /\ IsProjectTeacher /\ CanSave(t) /\ ~page.saving /\ Click
  /\ page' = [page EXCEPT !.saving = TRUE]
  /\ Start(Task("save", "asked", t, [d \in {t} |-> page.drafts[t]], {}))
  /\ UNCHANGED <<role, server>>

HandleSaveAllEvaluations ==
  LET dirty == {t \in Teams : CanSave(t)}
  IN /\ IsProjectTeacher /\ dirty # {} /\ ~page.saving /\ Click
     /\ page' = [page EXCEPT !.saving = TRUE]
     /\ \E t \in dirty :
          Start(Task("saveAll", "asked", t, [d \in dirty |-> page.drafts[d]], dirty))
     /\ UNCHANGED <<role, server>>

(* The loop saves one team after the other; without a reload in between.        *)
SaveNext(k) ==
  LET rest == tasks[k].queue \ {tasks[k].team}
  IN /\ tasks[k].kind = "saveAll" /\ tasks[k].phase = "done" /\ rest # {}
     /\ \E t \in rest :
          tasks' = [tasks EXCEPT ![k].team = t, ![k].queue = rest, ![k].phase = "asked"]
     /\ UNCHANGED <<role, server, page, bounds, flags>>

(***************************************************************************)
(* The student's team.                                                      *)
(***************************************************************************)
(* A dialog is opened, and a student is picked, for a click that is left.        *)
OpenCreateTeamDialog ==
  /\ Clickable /\ Shown /\ role = "student" /\ \A t \in Teams : ~InTeam(Me, t)
  /\ ~page.dialog /\ page' = [page EXCEPT !.dialog = TRUE]
  /\ UNCHANGED <<role, server, tasks, bounds, flags>>

(* Cancel is disabled while the team is created; Escape is not.                  *)
CloseCreateTeamDialog ==
  /\ Shown /\ page.dialog /\ page' = [page EXCEPT !.dialog = FALSE]
  /\ UNCHANGED <<role, server, tasks, bounds, flags>>

HandleCreateTeam ==
  /\ Shown /\ page.dialog /\ ~page.creating /\ Click
  /\ page' = [page EXCEPT !.creating = TRUE]
  /\ Start(Task("create", "asked", Null, Null, {}))
  /\ UNCHANGED <<role, server>>

PickMember(s) ==
  /\ Clickable /\ Shown /\ \E t \in Teams : CanManageOwnTeam(t) /\ Cardinality(page.rows[t].members) < Seats
  /\ s \in CandidateStudents /\ page.pick # s
  /\ page' = [page EXCEPT !.pick = s]
  /\ UNCHANGED <<role, server, tasks, bounds, flags>>

(* None of the three buttons below is disabled while a call is on its way.        *)
HandleAddMember(t) ==
  /\ Shown /\ CanManageOwnTeam(t) /\ Cardinality(page.rows[t].members) < Seats
  /\ page.pick # Null /\ Click
  /\ UNCHANGED page /\ Start(Task("add", "asked", t, page.pick, {}))
  /\ UNCHANGED <<role, server>>

HandleRemoveMember(t, s) ==
  /\ Shown /\ CanManageOwnTeam(t) /\ InTeam(s, t) /\ s # Me /\ Click
  /\ UNCHANGED page /\ Start(Task("remove", "asked", t, s, {}))
  /\ UNCHANGED <<role, server>>

HandleLeaveTeam(t) ==
  /\ Shown /\ role = "student" /\ InTeam(Me, t) /\ page.rows[t].mark = Null /\ Click
  /\ UNCHANGED page /\ Start(Task("leave", "asked", t, Me, {}))
  /\ UNCHANGED <<role, server>>

HandleSubmitFile(t, f) ==
  /\ Shown /\ role = "student" /\ InTeam(Me, t) /\ ~page.submitting /\ Click
  /\ page' = [page EXCEPT !.submitting = TRUE]
  /\ Start(Task("submit", "asked", t, f, {}))
  /\ UNCHANGED <<role, server>>

(***************************************************************************)
(* The code behind the awaits.                                              *)
(***************************************************************************)
WriteAnswered_NoReload(k) ==
  /\ tasks[k].kind # "none" /\ tasks[k].phase = "done"
  /\ tasks[k].kind = "saveAll" => tasks[k].queue = {tasks[k].team}
  /\ SetPage(k, Released(k, page)) /\ End(k)
  /\ UNCHANGED <<role, server, bounds, flags>>

WriteAnswered_AfterFirst(k) ==
  /\ tasks[k].kind # "none" /\ tasks[k].phase = "done"
  /\ BeginReload(k, page)
  /\ UNCHANGED <<role, server, bounds, flags>>

(* The write is done; a dialog that is open then closes, whichever it is.       *)
WriteAnswered(k) ==
  LET kind == tasks[k].kind
      after == CASE kind = "create" -> [page EXCEPT !.dialog = FALSE]
                 [] kind = "add" -> [page EXCEPT !.pick = Null]
                 [] OTHER -> page
  IN /\ kind # "none" /\ tasks[k].phase = "done"
     /\ kind = "saveAll" => tasks[k].queue = {tasks[k].team}
     /\ BeginReload(k, IF tasks[k].mounted THEN after ELSE page)
     /\ UNCHANGED <<role, server, bounds, flags>>

WriteFailed(k) ==
  /\ tasks[k].kind # "none" /\ tasks[k].phase = "failed"
  /\ SetPage(k, Released(k, page)) /\ End(k)
  /\ flags' = [flags EXCEPT !.stale = TRUE]
  /\ UNCHANGED <<role, server, bounds>>

(* The answer of loadData replaces the copies and every draft; a failed one leaves     *)
(* them.  Either way the spinner goes and the function goes on: after a new team         *)
(* it sets the path, of the project it was called under, also when the user has left.     *)
LoadAnswered(k) ==
  LET task == tasks[k]
      filled == [page EXCEPT !.shown = task.project, !.rows = task.rows,
                             !.drafts = [t \in Teams |-> task.rows[t].mark]]
      returns == task.kind = "create" /\ (page = Null \/ page.url # task.project)
      after == [Released(k, IF task.phase = "loaded" THEN filled ELSE page)
                  EXCEPT !.loading = FALSE]
  IN /\ task.kind # "none" /\ task.phase \in {"loaded", "loadFailed"}
     /\ IF ~returns THEN SetPage(k, after) /\ End(k)
        ELSE /\ page' = IF page = Null THEN Mounted(task.project)
                        ELSE [(IF task.mounted THEN after ELSE page)
                                EXCEPT !.url = task.project, !.loading = TRUE]
             /\ tasks' = [tasks EXCEPT ![k] = Task("load", "reload", Null, Null, {})]
     /\ flags' = [flags EXCEPT
          !.moved = @ \/ (returns /\ Running # {k}),
          !.stale = @ \/ (task.mounted /\ task.phase = "loadFailed")]
     /\ UNCHANGED <<role, server, bounds>>

(***************************************************************************)
(* The services.                                                            *)
(***************************************************************************)
FreeIn(s, p) == \A t \in Teams : ProjectOf[t] = p => s \notin server[t].members

(* A member leaves or is removed: the team of the last one is deleted, that of a         *)
(* leader who leaves gets another.  An evaluation is kept under the id of its team.       *)
Without(row, s) ==
  LET rest == row.members \ {s}
  IN IF rest = {} THEN [NoTeam EXCEPT !.mark = row.mark]
     ELSE [row EXCEPT !.members = rest,
                      !.leader = IF @ = s THEN CHOOSE m \in rest : TRUE ELSE @]

(* The rows after the write of a task, one element for each way it can succeed.      *)
Written(task) ==
  LET t == task.team
      d == task.data
      one(allowed, row) == IF allowed THEN {[server EXCEPT ![t] = row]} ELSE {}
  IN CASE task.kind \in {"save", "saveAll"} -> one(TRUE, [server[t] EXCEPT !.mark = d[t]])
       [] task.kind = "submit" -> one(Me \in server[t].members, [server[t] EXCEPT !.file = d])
       [] task.kind = "add" ->
            one(server[t].leader = Me /\ FreeIn(d, ProjectOf[t])
                  /\ Cardinality(server[t].members) < Seats,
                [server[t] EXCEPT !.members = @ \cup {d}])
       [] task.kind = "remove" ->
            one(server[t].leader = Me /\ d \in server[t].members, Without(server[t], d))
       [] task.kind = "leave" -> one(Me \in server[t].members, Without(server[t], Me))
       [] task.kind = "create" ->
            {[server EXCEPT ![n] = [NoTeam EXCEPT !.members = {Me}, !.leader = Me]] :
               n \in {n \in Teams : /\ ProjectOf[n] = task.project /\ server[n] = NoTeam
                                    /\ FreeIn(Me, task.project)}}
       [] OTHER -> {}

ServeWrite(k) ==
  /\ tasks[k].kind # "none" /\ tasks[k].phase = "asked"
  /\ LET ways == Written(tasks[k])
     IN /\ IF ways = {} THEN UNCHANGED server ELSE server' \in ways
        /\ tasks' = [tasks EXCEPT ![k].phase = IF ways = {} THEN "failed" ELSE "done"]
  /\ UNCHANGED <<role, page, bounds, flags>>

ServeLoad(k) ==
  /\ tasks[k].kind # "none" /\ tasks[k].phase = "reload"
  /\ tasks' = [tasks EXCEPT ![k].phase = "loaded", ![k].rows = Listing(tasks[k].project)]
  /\ flags' = [flags EXCEPT !.stale = @ /\ ~tasks[k].mounted]
  /\ UNCHANGED <<role, server, page, bounds>>

Fault == bounds.faults < MaxFaults /\ bounds' = [bounds EXCEPT !.faults = @ + 1]

(* The router answers without the evaluations when it cannot list them, and without the *)
(* teams it cannot get.                                                                     *)
ServeLoadPartly(k) ==
  /\ tasks[k].kind # "none" /\ tasks[k].phase = "reload" /\ Fault
  /\ \E unmarked, skipped \in SUBSET Teams :
       /\ unmarked \in {{}, Teams}
       /\ tasks' = [tasks EXCEPT
            ![k].phase = "loaded", ![k].rows = PartOfListing(tasks[k].project, unmarked, skipped)]
  /\ flags' = [flags EXCEPT !.stale = @ \/ tasks[k].mounted]
  /\ UNCHANGED <<role, server, page>>

(* A call fails, before or after the service has done its work.                 *)
CallFails(k) ==
  /\ tasks[k].kind # "none" /\ tasks[k].phase \in {"asked", "done", "reload", "loaded"} /\ Fault
  /\ tasks' = [tasks EXCEPT ![k].phase =
                 IF tasks[k].phase \in {"asked", "done"} THEN "failed" ELSE "loadFailed"]
  /\ UNCHANGED <<role, server, page, flags>>

(* Another teacher or member changes a row.                                     *)
Elsewhere(t) ==
  /\ bounds.elsewhere < MaxElsewhere
  /\ bounds' = [bounds EXCEPT !.elsewhere = @ + 1]
  /\ \/ server[t].members # {} /\ \E m \in Marks : server' = [server EXCEPT ![t].mark = m]
     \/ \E s \in Students \ {Me} :
          \/ /\ FreeIn(s, ProjectOf[t]) /\ server[t] = NoTeam
             /\ server' = [server EXCEPT ![t].members = {s}, ![t].leader = s]
          \/ /\ s \in server[t].members
             /\ server' = [server EXCEPT ![t] = Without(@, s)]
  /\ flags' = [flags EXCEPT !.stale = TRUE]
  /\ UNCHANGED <<role, page, tasks>>

Next ==
  \/ \E p \in Projects : Open(p) \/ SwitchProject(p)
  \/ Leave \/ OpenCreateTeamDialog \/ CloseCreateTeamDialog \/ HandleCreateTeam
  \/ HandleSaveAllEvaluations
  \/ \E t \in Teams :
       \/ \E m \in Marks \cup {Null} : SetEvaluationField(t, m)
       \/ HandleSaveEvaluation(t) \/ HandleAddMember(t) \/ HandleLeaveTeam(t)
       \/ \E s \in Students : HandleRemoveMember(t, s)
       \/ \E f \in Files : HandleSubmitFile(t, f)
       \/ Elsewhere(t)
  \/ \E s \in Students : PickMember(s)
  \/ \E k \in Tasks :
       \/ SaveNext(k) \/ WriteAnswered(k) \/ WriteFailed(k) \/ LoadAnswered(k)
       \/ ServeWrite(k) \/ ServeLoad(k) \/ ServeLoadPartly(k) \/ CallFails(k)

Spec == Init /\ [][Next]_vars

(***************************************************************************)
(* Properties.                                                              *)
(***************************************************************************)
PageState ==
  [url : Projects, shown : Projects \cup {Null}, loading : BOOLEAN, rows : [Teams -> Row],
   drafts : [Teams -> Marks \cup {Null}], pick : Students \cup {Null}, dialog : BOOLEAN,
   saving : BOOLEAN, creating : BOOLEAN, submitting : BOOLEAN]

(* The variables keep their types (ProjectDetailPage.jsx:47-63).              *)
TypeOK ==
  /\ server \in [Teams -> Row]
  /\ page \in PageState \cup {Null}
  /\ \A k \in Running :
       /\ tasks[k].kind \in {"load", "save", "saveAll", "create", "add", "leave", "remove", "submit"}
       /\ tasks[k].phase \in {"asked", "done", "failed", "reload", "loaded", "loadFailed"}
       /\ tasks[k].rows \in [Teams -> Row] \cup {Null}
       /\ tasks[k].mounted => page # Null

(* The spinner and the disabled buttons always have a call of this page behind them     *)
(* that will end them, whatever fails or overtakes: the finally clauses of                *)
(* ProjectDetailPage.jsx:182, :252, :272, :334, :371.                                      *)
NeverStuck ==
  page # Null =>
    LET runs(kinds) == \E k \in Tasks : Attached(k) /\ tasks[k].kind \in kinds
    IN /\ page.loading => \E k \in Tasks : Loading(k)
       /\ page.saving => runs({"save", "saveAll"})
       /\ page.creating => runs({"create"})
       /\ page.submitting => runs({"submit"})

(* While a teacher can type, no answer is on its way that would replace the drafts:      *)
(* loadData (:126) hides the page, and the fields are disabled during a save (:981, :993).       *)
(* Not so once the path has changed under a task that was running.                          *)
NothingOverwritten ==
  role = "teacher" /\ Shown /\ ~flags.moved => \A k \in Tasks : ~Loading(k)

(* Once nothing runs, the page shows the project of its path as the services have it,    *)
(* own writes included, unless a call failed, somebody else wrote, two tasks of the         *)
(* user overlapped (:375-409 disable nothing), or the page of a project left behind set       *)
(* the path back while another was loading (:367; loadData does not look at the path).          *)
ShowsOwnWrites ==
  Shown /\ Running = {} /\ ~flags.stale /\ ~flags.overlap /\ ~flags.moved =>
    page.shown = page.url /\ page.rows = Listing(page.url)

(* When "Saved n evaluations" appears (:267), all n drafts of the click are stored.       *)
AllSaved ==
  [][\A k \in Tasks :
       /\ tasks[k].kind = "saveAll" /\ tasks[k].phase = "done"
       /\ tasks'[k].kind = "saveAll" /\ tasks'[k].phase = "reload"
       /\ bounds.elsewhere = 0 /\ ~flags.overlap
       => \A t \in DOMAIN tasks[k].data : server[t].mark = tasks[k].data[t]]_vars

(* The page never changes the evaluation of a project its teacher does not teach, also    *)
(* when the answer of a project left behind has replaced what is shown: the evaluation       *)
(* service asks nobody (:65-66, :747 and :958 are the only guards).                                 *)
GradesOwn ==
  \A t \in Teams :
    server'[t].mark # server[t].mark /\ bounds' = bounds => ProjectOf[t] \in Taught
=============================================================================
