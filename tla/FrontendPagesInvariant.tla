------------------------ MODULE FrontendPagesInvariant ------------------------
(***************************************************************************)
(* What the pages of FrontendPages keep of their tasks, so that the properties      *)
(* stated there survive every answer.  A page alone does not tell: whether an         *)
(* answer is harmless depends on what its task carries and on who started it.           *)
(***************************************************************************)
EXTENDS FrontendPages, Sequences

-----------------------------------------------------------------------------
(* The accounts page. *)

AccountTask ==
  [kind : {"load", "save"},
   phase : {"asked", "checked", "done", "reload", "loaded", "failed"},
   target : Accounts \cup {Null}, form : Account!Form \cup {Null},
   rows : Account!Listing \cup {Null}, mounted : BOOLEAN]

AccountFlags == [stale : BOOLEAN, early : BOOLEAN, crossed : BOOLEAN]

(* What a task carries by its phase.                                           *)
AccountTaskSound(task) ==
  /\ task.phase \in {"asked", "checked", "done"} => task.kind = "save" /\ task.form \in Account!Account
  /\ task.phase = "loaded" => task.rows \in Account!Listing

Saving(k) == Account!Attached(k) /\ accountTasks[k].kind = "save"

(* A page waits for one save at most, and asks for a confirmation only when it   *)
(* waits for none: the form it asks about is the one that was filled.             *)
AccountSaves ==
  accountPage # Null =>
    /\ \A k \in Tasks : Saving(k) => accountPage.submitting
    /\ \A k1, k2 \in Tasks : Saving(k1) /\ Saving(k2) => k1 = k2
    /\ accountPage.confirming =>
         /\ accountPage.form \in Account!Account
         /\ accountPage.dialogOpen /\ ~accountPage.submitting

(* Unless a write fell between a check and its write, every check still holds.   *)
ChecksHold ==
  ~accountFlags.crossed =>
    \A k \in Account!Checked : Account!Allowed(accountTasks[k].target, accountTasks[k].form)

AccountTyped ==
  /\ Account!TypeOK
  /\ accountTasks \in [Tasks -> AccountTask \cup {Account!NoTask}]
  /\ accountFlags \in AccountFlags
  /\ \A k \in Account!Running : AccountTaskSound(accountTasks[k])

AccountKept == Account!AdminRemains /\ Account!EmailsUnique /\ ChecksHold

AccountInv == AccountTyped /\ AccountSaves /\ Account!NeverStuck /\ AccountKept

(* One task at most belongs to the page.  What it has listed is still stored, and so is  *)
(* what the page shows but for a save that it has not listed yet; a form that is open by    *)
(* then was opened early.                                                                     *)
AccountShows ==
  accountPage # Null =>
    /\ \A k1, k2 \in Tasks : Account!Attached(k1) /\ Account!Attached(k2) => k1 = k2
    /\ accountPage.loading => accountPage.editing = Null
    /\ \A k \in Tasks : Account!Attached(k) =>
         LET task == accountTasks[k]
         IN /\ task.kind = "load" => accountPage.loading
            /\ task.kind = "load" /\ task.phase = "failed" => accountFlags.stale
            /\ task.phase \in {"reload", "loaded"} /\ accountPage.editing # Null => accountFlags.early
            /\ task.phase = "loaded" /\ ~accountFlags.stale => task.rows = accountRows
    /\ /\ ~accountFlags.stale /\ ~accountPage.loading
       /\ \A k \in Tasks : Account!Attached(k) =>
            accountTasks[k].phase \notin {"done", "reload", "loaded"}
       => /\ accountPage.users = accountRows
          /\ accountPage.editing # Null /\ ~accountFlags.early =>
               accountPage.base = accountRows[accountPage.editing]

-----------------------------------------------------------------------------
(* The subjects page. *)

SubjectTask ==
  [kind : {"load", "register", "leave", "save", "delete", "team"},
   phase : {"asked", "checked", "done", "reload", "loaded", "failed", "loadFailed"},
   target : Subject!Items \cup {Null}, form : Subject!Dialogs \cup {Null},
   rows : Subject!Rows \cup {Null}, mounted : BOOLEAN]

SubjectFlags == [overlap : BOOLEAN, stale : BOOLEAN, linked : BOOLEAN]
SubjectBounds == [clicks : Nat, faults : Nat, elsewhere : Nat]

Loading == {"reload", "loaded", "loadFailed"}

(* What a form is about: a row that exists, or a new one, a project of a subject. *)
FormSound(form) ==
  /\ form \in Subject!Dialogs /\ form.kind \in Subject!Kinds
  /\ form.target = Null /\ form.kind = "project" => form.subject \in Subjects

(* A dialog and a task are about rows of their kind, and of their role.          *)
DialogSound(d) ==
  /\ d.kind = "none" \/ FormSound(d) \/ d.kind \in {"team", "delete"}
  /\ d.kind = "team" => d.target \in Projects /\ subjectRole = "student"
  /\ d.kind = "delete" => d.target \in Subjects
  /\ d.kind \in {"delete"} \cup Subject!Kinds => subjectRole = "admin"

SubjectTaskSound(task) ==
  /\ task.kind = "load" => task.phase \in Loading
  /\ task.kind \in {"register", "leave", "delete"} => task.target \in Subjects
  /\ task.kind = "team" => task.target \in Projects
  /\ task.kind = "save" =>
       FormSound(task.form) /\ task.form.text \in Texts /\ task.target = task.form.target
  /\ task.kind \in {"register", "leave", "team"} => subjectRole = "student"
  /\ task.kind \in {"save", "delete"} => subjectRole = "admin"
  /\ task.phase = "checked" => task.kind \in {"team", "delete"}
  /\ task.phase = "loaded" => task.rows \in Subject!Rows
  /\ task.phase = "loadFailed" => subjectBounds.faults # 0
  /\ task.kind = "team" /\ task.phase \in Loading \cup {"done"} =>
       task.target \in subjectRows.inTeam

SubjectTyped ==
  /\ Subject!TypeOK
  /\ subjectRole \in {"student", "admin"}
  /\ subjectTasks \in [Tasks -> SubjectTask \cup {Subject!NoTask}]
  /\ subjectFlags \in SubjectFlags /\ subjectBounds \in SubjectBounds
  /\ \A k \in Subject!Running : SubjectTaskSound(subjectTasks[k])
  /\ subjectPage # Null => DialogSound(subjectPage.dialog)

(* Projects have the subjects they were created for, and a deletion that has      *)
(* looked for projects still finds none, unless one was created after it looked.   *)
SubjectLinks ==
  /\ \A p \in Projects : Subject!Exists(subjectRows, p) => subjectRows.of[p] \in Subjects
  /\ ~subjectFlags.linked =>
       \A k \in Subject!Running :
         subjectTasks[k].kind = "delete" /\ subjectTasks[k].phase = "checked" =>
           Subject!Allowed(subjectTasks[k])

(* Only students are in teams, of projects that their page lists; no deletion is    *)
(* about while a student uses the page.                                               *)
TeamsListed ==
  /\ subjectRole = "admin" => subjectRows.inTeam = {}
  /\ subjectRole = "student" => ~subjectFlags.linked
  /\ \A p \in subjectRows.inTeam :
       /\ Subject!Exists(subjectRows, p) /\ Subject!Exists(subjectRows, subjectRows.of[p])

(* Calls that neither overlap nor fail, with nobody else about.                  *)
Undisturbed ==
  ~subjectFlags.overlap /\ subjectBounds.faults = 0 /\ subjectBounds.elsewhere = 0

(* Then one task at most matters, of the mounted page if there is one; what it has  *)
(* asked for still holds, and the page shows what the services have, but for a write   *)
(* that it has not heard of.                                                              *)
SubjectCopies ==
  Undisturbed =>
    /\ \A k1, k2 \in Subject!Mattering : k1 = k2
    /\ subjectPage # Null => \A k \in Subject!Mattering : subjectTasks[k].mounted
    /\ \A k \in Subject!Running :
         LET task == subjectTasks[k]
         IN /\ task.kind = "team" /\ task.phase = "checked" =>
                 subjectRows.of[task.target] \in subjectRows.registered
            /\ task.kind = "leave" /\ task.phase = "asked" =>
                 \A p \in subjectRows.inTeam : subjectRows.of[p] # task.target
            /\ task.mounted /\ task.phase \in Loading => subjectPage.loading
            /\ task.mounted /\ task.phase = "loaded" => task.rows = Subject!Listing
    /\ Subject!Shown /\ (\A k \in Subject!Mattering : subjectTasks[k].phase # "done") =>
         subjectPage.rows = Subject!Listing

SubjectInv ==
  /\ SubjectTyped /\ Subject!NeverStuck /\ Subject!SentToOwnTeam
  /\ SubjectLinks /\ Subject!NoOrphans
  /\ TeamsListed /\ SubjectCopies /\ Subject!TeamsAreRegistered

(* Tasks that do not overlap leave one at most that matters, of the mounted page if there *)
(* is one.  What it has listed is still stored, and so is what the page shows but for a       *)
(* write that it has not heard of; also when calls fail or others write.                        *)
SubjectShows ==
  ~subjectFlags.overlap =>
    /\ \A k1, k2 \in Subject!Mattering : k1 = k2
    /\ subjectPage # Null => \A k \in Subject!Mattering : subjectTasks[k].mounted
    /\ \A k \in Subject!Running :
         subjectTasks[k].mounted /\ subjectTasks[k].phase \in Loading => subjectPage.loading
    /\ ~subjectFlags.stale =>
         /\ \A k \in Subject!Running :
              subjectTasks[k].mounted /\ subjectTasks[k].phase = "loaded" =>
                subjectTasks[k].rows = Subject!Listing
         /\ Subject!Shown /\ (\A k \in Subject!Mattering : subjectTasks[k].phase # "done") =>
              subjectPage.rows = Subject!Listing

-----------------------------------------------------------------------------
(* The profile dialog and the picture in the header. *)

ProfileTask ==
  [kind : {"avatar", "password"}, phase : {"asked", "checked", "done", "failed"},
   current : Passwords \cup {Null}, value : Pictures \cup Passwords \cup {Null}, mounted : BOOLEAN]

ProfileFlags == [stale : BOOLEAN, late : BOOLEAN]

ProfileTaskSound(task) ==
  /\ task.kind = "avatar" => task.phase # "checked" /\ task.value \in Pictures \cup {Null}
  /\ task.kind = "password" => task.value \in Passwords

ProfileTyped ==
  /\ Profile!TypeOK
  /\ profileTasks \in [Tasks -> ProfileTask \cup {Profile!NoTask}]
  /\ profileFlags \in ProfileFlags
  /\ \A k \in Profile!Running : ProfileTaskSound(profileTasks[k])

SavingKind(k, kind) == Profile!Attached(k) /\ profileTasks[k].kind = kind

(* A shell waits for one save of each kind at most, and its button is disabled    *)
(* meanwhile.                                                                      *)
ProfileSaves ==
  shell # Null =>
    /\ \A kind \in {"avatar", "password"} : \A k1, k2 \in Tasks :
         SavingKind(k1, kind) /\ SavingKind(k2, kind) => k1 = k2
    /\ \A k \in Tasks : SavingKind(k, "avatar") => shell.savingAvatar
    /\ \A k \in Tasks : SavingKind(k, "password") => shell.savingPassword

(* While a save runs no message says that its kind is saved, and what it has       *)
(* written is still there when its answer comes.                                    *)
MessagesKept ==
  shell # Null /\ ~profileFlags.late =>
    /\ shell.savingAvatar => shell.success # "avatar"
    /\ shell.savingPassword => shell.success # "password"
    /\ \A k \in Tasks : SavingKind(k, "avatar") /\ profileTasks[k].phase = "done" =>
         stored.avatar = profileTasks[k].value
    /\ \A k \in Tasks : SavingKind(k, "password") /\ profileTasks[k].phase = "done" =>
         stored.password = profileTasks[k].value

(* The picture on show is the stored one but for a save that has been written and   *)
(* not been answered.                                                                *)
PictureKept ==
  /\ shell # Null /\ ~shell.fetching /\ ~profileFlags.stale
  /\ \A k \in Tasks : SavingKind(k, "avatar") => profileTasks[k].phase # "done"
  => shell.avatar = stored.avatar

ProfileInv ==
  /\ ProfileTyped /\ Profile!NeverStuck /\ ProfileSaves
  /\ MessagesKept /\ PictureKept /\ Profile!SuccessTrue

-----------------------------------------------------------------------------
(* Sending notifications. *)

ComposeKinds == {"create", "cancel", "reschedule", "load", "left", "source", "options"}
ComposeFlags == [crossed : BOOLEAN, overlap : BOOLEAN, stale : BOOLEAN]

(* What a task goes through and carries, by its kind.                            *)
ComposePhases(kind) ==
  CASE kind \in {"source", "options"} -> {"asked", "failed"}
    [] kind \in {"load", "left"} -> {"reload", "loaded", "listed", "failed"}
    [] OTHER -> {"asked", "done", "reload", "loaded", "listed", "failed"}

ComposeTargets(kind) == IF kind \in {"cancel", "reschedule"} THEN Batches ELSE {Null}

ComposeData(kind) ==
  CASE kind = "source" -> SUBSET Users
    [] kind = "create" -> Compose!Triggers
    [] kind = "reschedule" -> Times
    [] kind = "left" -> Compose!Triggers \cup {Null}
    [] OTHER -> {Null}

(* What is asked for together with the list is on its way while the list is, and longer    *)
(* if the list was faster.                                                                     *)
ComposeTask(task) ==
  /\ task \in [kind : ComposeKinds, phase : ComposePhases(task.kind),
               target : ComposeTargets(task.kind), data : ComposeData(task.kind),
               list : Compose!Lists \cup {Null}, rest : BOOLEAN]
  /\ task.phase = "loaded" => task.list \in Compose!Lists
  /\ task.rest => task.kind \in {"load", "create"} /\ task.phase \notin {"asked", "done"}
  /\ task.phase = "listed" => task.rest

(* A batch that waits has a time, and so has the dialog about one a batch.       *)
ComposeTyped ==
  /\ Compose!TypeOK
  /\ DOMAIN composeTasks = Tasks /\ composeFlags \in ComposeFlags
  /\ \A k \in Tasks : composeTasks[k] = Compose!NoTask \/ ComposeTask(composeTasks[k])
  /\ \A b \in Batches : batch[b].stage = "pending" => batch[b].at \in Times
  /\ composePage.dialog = "reschedule" => composePage.target \in Batches
  /\ composePage.loading => composePage.dialog = "none"

(* Two readings of a source may run, for a late answer about the sources enables the  *)
(* button; but each will put the same users into the form.                              *)
SourcesAgree ==
  Compose!Composing /\ ~composeFlags.crossed =>
    \A k \in Compose!Running : composeTasks[k].kind = "source" =>
      /\ composeTasks[k].data \cup SourceUsers = chosen
      /\ composePage.to \cup SourceUsers = chosen

(* Tasks that did not overlap leave one at most that lists the batches, itself or by a     *)
(* call left behind; what it has listed is still stored, and the page shows what is, but for   *)
(* a write it has not listed yet.                                                               *)
ListKept ==
  ~composeFlags.overlap =>
    /\ \A k1, k2 \in Compose!Listing : k1 = k2
    /\ ~composeFlags.stale =>
         /\ \A k \in Compose!Listing :
              composeTasks[k].phase = "loaded" => composeTasks[k].list = Compose!Stored
         /\ (\A k \in Compose!Listing : composeTasks[k].phase \in {"asked", "listed"}) =>
              composePage.scheduled = Compose!Stored

ComposeInv ==
  /\ ComposeTyped /\ Compose!NeverStuck /\ SourcesAgree
  /\ Compose!RecipientsAsChosen /\ ListKept

-----------------------------------------------------------------------------
(* The notification centre. *)

Listed(n) == \E i \in 1..Len(stream) : stream[i].id = n
Announced(n) == \E i \in 1..Len(stream) : stream[i].id = n /\ stream[i].status = "unread"
MarkedOk(n) == \E m \in MarkCalls : marks[m] # Null /\ marks[m].id = n /\ marks[m].stage = "ok"

(* Whatever the client has of a notification, the service has delivered it; and a     *)
(* mark that it has answered is made.                                                  *)
CenterKnown ==
  /\ latest # Null => inbox[latest.id] # "absent"
  /\ \A i \in 1..Len(stream) : inbox[stream[i].id] # "absent"
  /\ listPage # Null => \A n \in Notes : listPage.list[n] # "absent" => inbox[n] # "absent"
  /\ \A l \in Loads : loads[l].stage = "ok" =>
       \A n \in Notes : loads[l].list[n] # "absent" => inbox[n] # "absent"
  /\ \A m \in MarkCalls : marks[m] # Null =>
       /\ inbox[marks[m].id] # "absent"
       /\ marks[m].stage = "ok" => inbox[marks[m].id] = "read"

(* The last record of a notification in the stream tells its status, and a stream     *)
(* that has ended carries none.                                                        *)
StreamTells ==
  /\ \A i \in 1..Len(stream) :
       (\A j \in 1..Len(stream) : j > i => stream[j].id # stream[i].id)
         => inbox[stream[i].id] = stream[i].status
  /\ ~streamUp => stream = <<>>

(* The unread notifications as the counter should have them: those that the stream    *)
(* has announced already, and those whose mark has yet to be answered.                 *)
Counted == {n \in Notes : (inbox[n] = "unread" /\ ~Announced(n)) \/ MarkedOk(n)}

(* A notification is announced once, while it is unread and nobody reads it.           *)
RecordsExact ==
  /\ \A i \in 1..Len(stream) : stream[i].status = "unread" =>
       inbox[stream[i].id] = "unread" /\ ~Center!Marking(stream[i].id)
  /\ \A i, j \in 1..Len(stream) :
       stream[i].id = stream[j].id /\ stream[i].status = "unread" /\ stream[j].status = "unread"
         => i = j

(* It is marked once, and unread until the service answers.                            *)
MarksExact ==
  /\ \A m \in MarkCalls : marks[m] # Null =>
       /\ marks[m].stage \in {"asked", "ok"}
       /\ marks[m].stage = "asked" => inbox[marks[m].id] = "unread"
  /\ \A m1, m2 \in MarkCalls :
       marks[m1] # Null /\ marks[m2] # Null /\ marks[m1].id = marks[m2].id => m1 = m2

CounterExact ==
  ~raced =>
    /\ RecordsExact /\ MarksExact
    /\ load.stage # "failed"
    /\ load.stage = "none" => badge = Cardinality(Counted)
    /\ load.stage = "ok" => load.unread = Cardinality(Counted)

(* What the stream does not tell about, a list that was read for the page has right,  *)
(* and so has the page itself when no list is on its way; and no such list lacks what    *)
(* the page has.                                                                          *)
ListsExact ==
  listPage # Null /\ ~listRaced =>
    /\ streamUp
    /\ \A l \in Loads : loads[l].stage # "failed"
    /\ \A l \in Loads : loads[l].stage = "ok" => \A n \in Notes :
         /\ ~Listed(n) => loads[l].list[n] = inbox[n]
         /\ listPage.list[n] # "absent" => loads[l].list[n] # "absent"
    /\ ~Center!ListPending => \A n \in Notes : ~Listed(n) => listPage.list[n] = inbox[n]

CenterInv == Center!TypeOK /\ CenterKnown /\ StreamTells /\ CounterExact /\ ListsExact

-----------------------------------------------------------------------------
(* The page of a subject. *)

DetailTask ==
  [kind : {"load", "addStudent", "removeStudent", "addTeacher", "removeTeacher"},
   phase : {"asked", "done", "failed"} \cup Loading,
   target : Subjects \cup {Null}, user : Students \cup Teachers \cup {Null},
   subject : Subjects, row : Detail!Row \cup {Null}, mounted : BOOLEAN]

DetailTaskSound(task) ==
  /\ task.kind = "load" => task.phase \in Loading
  /\ task.kind # "load" => task.target \in Subjects
  /\ task.kind \in {"addStudent", "removeStudent"} => task.user \in Students
  /\ task.kind \in {"addTeacher", "removeTeacher"} => task.user \in Teachers
  /\ task.phase = "loaded" => task.row \in Detail!Row
  /\ detailRole = "teacher" => task.kind \in {"load", "removeStudent"}

DetailTyped ==
  /\ Detail!TypeOK
  /\ detailRole \in {"admin", "teacher"}
  /\ detailTasks \in [Tasks -> DetailTask \cup {Detail!NoTask}]
  /\ detailBounds \in [clicks : Nat, faults : Nat, elsewhere : Nat]
  /\ detailFlags \in [overlap : BOOLEAN, stale : BOOLEAN]
  /\ \A k \in Detail!Running : DetailTaskSound(detailTasks[k])

(* The subjects that the teacher teaches: until somebody else changes them, every      *)
(* copy that says so is right, and what is removed from is one of them.                   *)
Teaches(s) == Teacher \in detailRows[s].teachers

TaughtTask(task) ==
  /\ task.phase = "loaded" /\ Teacher \in task.row.teachers => Teaches(task.subject)
  /\ task.kind = "removeStudent" => Teaches(task.target)

TaughtPage ==
  detailPage # Null /\ detailPage.shown # Null /\ Teacher \in detailPage.row.teachers =>
    Teaches(detailPage.shown)

OwnSubjects ==
  detailRole = "teacher" /\ detailBounds.elsewhere = 0 =>
    TaughtPage /\ \A k \in Detail!Running : TaughtTask(detailTasks[k])

DetailInv == DetailTyped /\ Detail!NeverStuck /\ OwnSubjects

(* What is picked can still be added to what is shown.                          *)
PicksSound ==
  detailPage # Null => /\ detailPage.studentToAdd \notin detailPage.row.students
                       /\ detailPage.teacherToAdd \notin detailPage.row.teachers

(* Tasks that do not overlap leave one at most that matters, which reads the subject of   *)
(* the path; then as for the subjects page.                                                   *)
DetailShows ==
  ~detailFlags.overlap =>
    /\ \A k1, k2 \in Detail!Mattering : k1 = k2
    /\ detailPage # Null => \A k \in Detail!Mattering : detailTasks[k].mounted
    /\ \A k \in Detail!Running : detailTasks[k].mounted =>
         LET task == detailTasks[k]
         IN /\ task.subject = detailPage.url
            /\ task.phase \in Loading => detailPage.loading
            /\ task.phase = "loaded" /\ ~detailFlags.stale => task.row = detailRows[task.subject]
    /\ /\ Detail!Shown /\ ~detailFlags.stale
       /\ \A k \in Detail!Mattering : detailTasks[k].phase # "done"
       => detailPage.shown = detailPage.url /\ detailPage.row = detailRows[detailPage.url]

-----------------------------------------------------------------------------
(* The project page. *)

AllTeams == OwnTeams \cup OtherTeams
SaveKinds == {"save", "saveAll"}
MemberKinds == {"add", "remove", "leave"}
ProjectBounds == [clicks : Nat, faults : Nat, elsewhere : Nat]
ProjectFlags == [moved : BOOLEAN, overlap : BOOLEAN, stale : BOOLEAN]

(* What a task goes through and carries, by its kind.                            *)
ProjectPhases(kind) == IF kind = "load" THEN Loading ELSE {"asked", "done", "failed"} \cup Loading

ProjectTeams(kind) == IF kind \in {"load", "create"} THEN {Null} ELSE AllTeams

ProjectData(kind) ==
  CASE kind \in SaveKinds -> UNION {[D -> Scores] : D \in SUBSET OwnTeams}
    [] kind \in MemberKinds -> Students
    [] kind = "submit" -> Files
    [] OTHER -> {Null}

(* The rows of one project.                                                      *)
RowsOf(p, rows) == \A t \in AllTeams : ProjectOf[t] # p => rows[t] = Project!NoTeam

(* Only teachers save, and only students have a team.  A save is about teams of the  *)
(* project that is taught, whatever is on show when it ends.                            *)
ProjectTask(task) ==
  /\ task \in [kind : {"load", "create", "submit"} \cup SaveKinds \cup MemberKinds,
               phase : ProjectPhases(task.kind), team : ProjectTeams(task.kind),
               data : ProjectData(task.kind), queue : SUBSET AllTeams,
               project : {OwnProject, OtherProject},
               rows : [AllTeams -> Project!Row] \cup {Null}, mounted : BOOLEAN]
  /\ task.kind \in SaveKinds => projectRole = "teacher" /\ task.team \in DOMAIN task.data
  /\ task.kind \in {"create", "submit"} \cup MemberKinds => projectRole = "student"
  /\ task.kind = "saveAll" => task.team \in task.queue /\ task.queue \subseteq DOMAIN task.data
  /\ task.phase = "loaded" => task.rows \in [AllTeams -> Project!Row] /\ RowsOf(task.project, task.rows)

ProjectTyped ==
  /\ Project!TypeOK
  /\ projectRole \in {"teacher", "student"}
  /\ DOMAIN projectTasks = Tasks /\ projectFlags \in ProjectFlags
  /\ projectBounds \in ProjectBounds
  /\ \A k \in Tasks : projectTasks[k] = Project!NoTask \/ ProjectTask(projectTasks[k])

(* The page shows, and has drafts of, the teams of one project only, and only a      *)
(* student has the dialog for a new one.                                               *)
PageSound ==
  projectPage # Null =>
    /\ projectPage.dialog => projectRole = "student"
    /\ RowsOf(projectPage.shown, projectPage.rows)
    /\ \A t \in AllTeams : ProjectOf[t] # projectPage.shown => projectPage.drafts[t] = Null

(* As long as the path stays, a teacher's page waits for one task at a time, behind  *)
(* a spinner or with its fields disabled.                                               *)
TeacherWaits ==
  projectRole = "teacher" /\ ~projectFlags.moved =>
    /\ \A k1, k2 \in Tasks : Project!Attached(k1) /\ Project!Attached(k2) => k1 = k2
    /\ \A k \in Tasks : Project!Loading(k) => projectPage.loading
    /\ \A k \in Tasks : Project!Attached(k) /\ projectTasks[k].kind \in SaveKinds => projectPage.saving

(* Saves that overlap with nothing leave stored what they have been through.      *)
SavedSoFar(task) ==
  task.kind = "saveAll" /\ task.phase \in {"asked", "done"} =>
    \A t \in DOMAIN task.data :
      t \notin task.queue \/ (t = task.team /\ task.phase = "done") =>
        projectRows[t].mark = task.data[t]

SavesStored ==
  projectRole = "teacher" /\ ~projectFlags.overlap =>
    /\ \A k1, k2 \in Project!Mattering : k1 = k2
    /\ projectBounds.elsewhere = 0 => \A k \in Project!Running : SavedSoFar(projectTasks[k])

ProjectInv ==
  /\ ProjectTyped /\ Project!NeverStuck /\ PageSound /\ TeacherWaits /\ SavesStored

(* What the router lists of each project.                                        *)
Listings == [p \in {OwnProject, OtherProject} |-> Project!Listing(p)]

(* As long as tasks do not overlap and the path does not change under one, the page waits *)
(* for one at most, about the project of the path; a page that waits for none shows what     *)
(* is stored, for a write that fails is taken for one that may have been stored.                *)
ProjectShows ==
  ~projectFlags.overlap /\ ~projectFlags.moved =>
    /\ \A k1, k2 \in Project!Mattering : k1 = k2
    /\ projectPage # Null => \A k \in Project!Mattering : projectTasks[k].mounted
    /\ \A k \in Project!Running : projectTasks[k].mounted =>
         LET task == projectTasks[k]
         IN /\ task.project = projectPage.url
            /\ task.phase \in Loading => projectPage.loading
            /\ task.phase = "loaded" /\ ~projectFlags.stale => task.rows = Listings[task.project]
    /\ Project!Shown /\ ~projectFlags.stale /\ Project!Mattering = {} =>
         projectPage.shown = projectPage.url /\ projectPage.rows = Listings[projectPage.url]
=============================================================================
