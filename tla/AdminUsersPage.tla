---------------------------- MODULE AdminUsersPage ----------------------------
(***************************************************************************)
(* AdminUsersPage.jsx: an admin lists, creates and edits accounts, their own included,  *)
(* with the checks of the auth service behind it.  The service checks first and writes     *)
(* later, and other admins write too.                                                       *)
(*                                                                                           *)
(* An account is its e-mail and its role; names and passwords are left out.                   *)
(***************************************************************************)
EXTENDS Naturals, FiniteSets

CONSTANTS
  Accounts,       \* ids of accounts that exist or may be created
  Me,             \* the admin who uses the page
  Admins,         \* the admins in the beginning; the rest do not exist
  EmailOf,        \* the e-mail an account has in the beginning
  Emails,
  Tasks,          \* slots for tasks (bound)
  MaxClicks,      \* bound: visits and saved forms
  MaxFaults,      \* bound: calls that fail
  MaxElsewhere,   \* bound: changes made by other admins
  Null

VARIABLES
  server,    \* the accounts of the auth service
  page,      \* the state of the mounted page, or Null
  tasks, bounds, flags

vars == <<server, page, tasks, bounds, flags>>

Roles == {"admin", "student"}   \* a teacher is treated like a student here
Account == [email : Emails, role : Roles]
Form == [email : Emails \cup {Null}, role : Roles]
InitialForm == [email |-> Null, role |-> "student"]
NoTask == [kind |-> "none"]

(* stale: the page's copy may differ from the accounts, for a call failed, another admin     *)
(* wrote, or a save outlived its page; early: the form was opened before the save before it     *)
(* had been reloaded; crossed: a write fell between another check and its write.                  *)
NoFlags == [stale |-> FALSE, early |-> FALSE, crossed |-> FALSE]

Exists(a) == server[a] # Null
Running == {k \in Tasks : tasks[k].kind # "none"}
Attached(k) == k \in Running /\ tasks[k].mounted

Shown == page # Null /\ ~page.loading
Free == Shown /\ ~page.dialogOpen
Editing == Shown /\ page.dialogOpen /\ ~page.confirming

(***************************************************************************)
(* Tasks.                                                                   *)
(***************************************************************************)
Clickable == bounds.clicks < MaxClicks
Click == Clickable /\ bounds' = [bounds EXCEPT !.clicks = @ + 1]

Task(kind, phase, target, form) ==
  [kind |-> kind, phase |-> phase, target |-> target, form |-> form, rows |-> Null,
   mounted |-> TRUE]

(* The slots are alike: a new task takes the free one that CHOOSE names.        *)
Slot == CHOOSE k \in Tasks : tasks[k] = NoTask

Start(task) == Running # Tasks /\ tasks' = [tasks EXCEPT ![Slot] = task]

SetPage(k, p) == page' = IF tasks[k].mounted THEN p ELSE page
End(k) == tasks' = [tasks EXCEPT ![k] = NoTask]

Init ==
  /\ server = [a \in Accounts |-> IF a \in Admins THEN [email |-> EmailOf[a], role |-> "admin"]
                                  ELSE Null]
  /\ page = Null /\ tasks = [k \in Tasks |-> NoTask]
  /\ bounds = [clicks |-> 0, faults |-> 0, elsewhere |-> 0]
  /\ flags = NoFlags

Open ==
  /\ page = Null /\ Click
  /\ page' = [users |-> [a \in Accounts |-> Null], loading |-> TRUE, dialogOpen |-> FALSE,
              confirming |-> FALSE, submitting |-> FALSE, editing |-> Null, base |-> Null,
              form |-> InitialForm]
  /\ Start(Task("load", "reload", Null, Null))
  /\ UNCHANGED <<server, flags>>

Leave ==
  /\ page # Null /\ page' = Null
  /\ tasks' = [k \in Tasks |-> IF k \in Running THEN [tasks[k] EXCEPT !.mounted = FALSE]
                               ELSE NoTask]
  /\ UNCHANGED <<server, bounds, flags>>

(***************************************************************************)
(* The dialogs.                                                             *)
(***************************************************************************)
Quietly == UNCHANGED <<server, tasks, bounds>>

(* A form is opened to be saved, so not after the last click.                   *)
OpenCreateDialog ==
  /\ Free /\ Clickable
  /\ page' = [page EXCEPT !.dialogOpen = TRUE, !.editing = Null, !.base = Null,
                          !.form = InitialForm]
  /\ Quietly /\ UNCHANGED flags

Listed(a) == page.users[a] # Null

(* The form is a copy of the listed row, also while the list is loaded again.      *)
OpenEditDialog(a) ==
  /\ Free /\ Listed(a) /\ Clickable
  /\ page' = [page EXCEPT !.dialogOpen = TRUE, !.editing = a, !.base = page.users[a],
                          !.form = page.users[a]]
  /\ flags' = [flags EXCEPT !.early = page.submitting]
  /\ Quietly

Closed(p) ==
  [p EXCEPT !.dialogOpen = FALSE, !.editing = Null, !.base = Null, !.form = InitialForm]

(* Cancel is disabled while the form is saved; Escape is not.                    *)
CloseDialog == Editing /\ page' = Closed(page) /\ Quietly /\ UNCHANGED flags

(* What the form may hold by the click: what is typed before matters to nobody.    *)
Filled == Account

IsSelfRoleChange(form) == page.editing = Me /\ form.role # "admin"

SubmitUser(p) ==
  /\ Click /\ page' = [p EXCEPT !.submitting = TRUE]
  /\ Start(Task("save", "asked", p.editing, p.form))
  /\ UNCHANGED <<server, flags>>

CanSubmit == Editing /\ ~page.submitting /\ Clickable

HandleSubmitUser ==
  /\ CanSubmit
  /\ \E form \in Filled :
       LET filled == [page EXCEPT !.form = form]
       IN IF IsSelfRoleChange(form)
          THEN page' = [filled EXCEPT !.confirming = TRUE] /\ Quietly /\ UNCHANGED flags
          ELSE SubmitUser(filled)

CancelConfirm ==
  /\ Shown /\ page.confirming /\ page' = [page EXCEPT !.confirming = FALSE]
  /\ Quietly /\ UNCHANGED flags

Confirm == Shown /\ page.confirming /\ SubmitUser([page EXCEPT !.confirming = FALSE])

(***************************************************************************)
(* The code behind the awaits.                                              *)
(***************************************************************************)
SaveAnswered_NoReload(k) ==
  /\ k \in Running /\ tasks[k].phase = "done"
  /\ SetPage(k, [Closed(page) EXCEPT !.submitting = FALSE]) /\ End(k)
  /\ UNCHANGED <<server, bounds, flags>>

(* The dialog closes, whichever account is in it by now; then the list is loaded again      *)
(* behind the page, which stays usable.                                                       *)
SaveAnswered(k) ==
  /\ k \in Running /\ tasks[k].phase = "done"
  /\ tasks' = [tasks EXCEPT ![k].phase = "reload"] /\ SetPage(k, Closed(page))
  /\ UNCHANGED <<server, bounds, flags>>

Released(k, p) ==
  IF tasks[k].kind = "load" THEN [p EXCEPT !.loading = FALSE]
  ELSE [p EXCEPT !.submitting = FALSE]

ListAnswered(k) ==
  /\ k \in Running /\ tasks[k].phase = "loaded"
  /\ SetPage(k, Released(k, [page EXCEPT !.users = tasks[k].rows])) /\ End(k)
  /\ UNCHANGED <<server, bounds, flags>>

TaskFailed(k) ==
  /\ k \in Running /\ tasks[k].phase = "failed"
  /\ SetPage(k, Released(k, page)) /\ End(k)
  /\ UNCHANGED <<server, bounds, flags>>

(***************************************************************************)
(* The gateway and the auth service.                                        *)
(***************************************************************************)
IsAdmin(a) == Exists(a) /\ server[a].role = "admin"

OnlyAdmin(a) == IsAdmin(a) /\ \A b \in Accounts \ {a} : ~IsAdmin(b)

Taken(a, email) == \E b \in Accounts \ {a} : Exists(b) /\ server[b].email = email

Allowed_LastAdminToo(a, form) == ~Taken(a, form.email)

Allowed_OwnEmailOnly(a, form) ==
  a # Null => ~(OnlyAdmin(a) /\ form.role # "admin")

(* update_user and create_user: the last admin stays one, and no two accounts share    *)
(* an e-mail.                                                                              *)
Allowed(a, form) ==
  /\ ~Taken(a, form.email)
  /\ a # Null => ~(OnlyAdmin(a) /\ form.role # "admin")

Checked == {k \in Running : tasks[k].phase = "checked"}
Fresh == {a \in Accounts : ~Exists(a)}

(* The gateway lets admins pass, by the role they have at the call.             *)
ServeCheck(k) ==
  /\ k \in Running /\ tasks[k].phase = "asked"
  /\ tasks' = [tasks EXCEPT ![k].phase =
       IF IsAdmin(Me) /\ Allowed(tasks[k].target, tasks[k].form) THEN "checked" ELSE "failed"]
  /\ UNCHANGED <<server, page, bounds, flags>>

ServeWrite(k) ==
  /\ k \in Running /\ tasks[k].phase = "checked"
  /\ LET a == IF tasks[k].target # Null THEN tasks[k].target ELSE CHOOSE b \in Fresh : TRUE
     IN IF tasks[k].target = Null /\ Fresh = {}
        THEN UNCHANGED server /\ tasks' = [tasks EXCEPT ![k].phase = "failed"]
        ELSE /\ server' = [server EXCEPT ![a] = tasks[k].form]
             /\ tasks' = [tasks EXCEPT ![k].phase = "done"]
  /\ flags' = [flags EXCEPT
       !.stale = @ \/ ~tasks[k].mounted, !.crossed = @ \/ Checked \ {k} # {}]
  /\ UNCHANGED <<page, bounds>>

ServeList(k) ==
  /\ k \in Running /\ tasks[k].phase = "reload"
  /\ tasks' = [tasks EXCEPT ![k].phase = "loaded", ![k].rows = server]
  /\ flags' = [flags EXCEPT !.stale = @ /\ ~tasks[k].mounted]
  /\ UNCHANGED <<server, page, bounds>>

CallFails(k) ==
  /\ bounds.faults < MaxFaults /\ bounds' = [bounds EXCEPT !.faults = @ + 1]
  /\ k \in Running /\ tasks[k].phase # "failed"
  /\ tasks' = [tasks EXCEPT ![k].phase = "failed"]
  /\ flags' = [flags EXCEPT !.stale = TRUE]
  /\ UNCHANGED <<server, page>>

(* Another admin edits an account, at once.                                      *)
Elsewhere(a) ==
  /\ bounds.elsewhere < MaxElsewhere
  /\ bounds' = [bounds EXCEPT !.elsewhere = @ + 1]
  /\ \E b \in Accounts \ {Me} : IsAdmin(b)
  /\ Exists(a) /\ \E form \in Account \ {server[a]} :
       Allowed(a, form) /\ server' = [server EXCEPT ![a] = form]
  /\ flags' = [flags EXCEPT
       !.stale = TRUE, !.crossed = @ \/ Checked # {}]
  /\ UNCHANGED <<page, tasks>>

Next ==
  \/ Open \/ Leave \/ OpenCreateDialog \/ CloseDialog \/ HandleSubmitUser
  \/ CancelConfirm \/ Confirm
  \/ \E a \in Accounts : OpenEditDialog(a) \/ Elsewhere(a)
  \/ \E k \in Tasks : \/ SaveAnswered(k) \/ ListAnswered(k) \/ TaskFailed(k)
                      \/ ServeCheck(k) \/ ServeWrite(k) \/ ServeList(k) \/ CallFails(k)

Spec == Init /\ [][Next]_vars

(***************************************************************************)
(* Properties.                                                              *)
(***************************************************************************)
Listing == [Accounts -> Account \cup {Null}]
Pages == [users : Listing, loading : BOOLEAN, dialogOpen : BOOLEAN, confirming : BOOLEAN,
          submitting : BOOLEAN, editing : Accounts \cup {Null}, base : Account \cup {Null},
          form : Form]

(* The variables keep their types (AdminUsersPage.jsx:39-48).                  *)
TypeOK ==
  /\ server \in Listing
  /\ page \in Pages \cup {Null}
  /\ \A k \in Running :
       /\ tasks[k].kind \in {"load", "save"}
       /\ tasks[k].target \in Accounts \cup {Null} /\ tasks[k].form \in Form \cup {Null}
       /\ tasks[k].rows \in Listing \cup {Null}
       /\ tasks[k].mounted => page # Null

(* The spinner and the disabled buttons have a task of this page behind them that will    *)
(* end them, whatever fails: the finally clauses of AdminUsersPage.jsx:64 and :161.          *)
NeverStuck ==
  page # Null =>
    /\ page.loading => \E k \in Tasks : Attached(k) /\ tasks[k].kind = "load"
    /\ page.submitting => \E k \in Tasks : Attached(k) /\ tasks[k].kind = "save"

(* Once nothing runs, the list is that of the service, and an open form started from the    *)
(* account as it is stored, so that saving it undoes nothing (:82-93, :150-151); unless a       *)
(* call failed, another admin wrote, a save outlived its page, or the form was opened from       *)
(* the list of before the last save, which nothing prevents.                                       *)
AccountsAsStored ==
  Shown /\ Running = {} /\ ~flags.stale =>
    /\ page.users = server
    /\ page.editing # Null /\ ~flags.early => page.base = server[page.editing]

(* An admin remains, also when the one who uses the page gives up the role: the auth         *)
(* service looks for another before it writes (service.rs:217-230), unless another admin       *)
(* or another save does so in between.                                                          *)
AdminRemains == ~flags.crossed => \E a \in Accounts : IsAdmin(a)

(* No two accounts have the same e-mail, which is the name they sign in with: no index of       *)
(* the database says so, only the checks before the writes (service.rs:61-69, :232-239).            *)
EmailsUnique ==
  ~flags.crossed =>
    \A a, b \in Accounts : Exists(a) /\ Exists(b) /\ server[a].email = server[b].email => a = b
=============================================================================
