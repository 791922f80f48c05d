-------------------------- MODULE FrontendFormsProofs --------------------------
(***************************************************************************)
(* The accounts page, the subjects page, the page of a subject and the profile dialog *)
(* for any number of rows, tasks, clicks and faults: the invariants of                    *)
(* FrontendPagesInvariant are inductive, and imply what their modules promise.               *)
(***************************************************************************)
EXTENDS FrontendPagesInvariant, FiniteSetTheorems, TLAPS

-----------------------------------------------------------------------------
(* The accounts page. *)

LEMMA AccountSlot ==
  ASSUME AccountTyped, Account!Running # Tasks
  PROVE  Account!Slot \in Tasks /\ accountTasks[Account!Slot] = Account!NoTask
<1>1. \E k \in Tasks : accountTasks[k] = Account!NoTask
  BY DEF AccountTyped, AccountTask, Account!Running, Account!NoTask
<1> QED
  BY <1>1 DEF Account!Slot

LEMMA AccountTaskType ==
  ASSUME AccountTyped, NEW k \in Account!Running
  PROVE  /\ k \in Tasks /\ accountTasks[k] \in AccountTask
         /\ AccountTaskSound(accountTasks[k])
         /\ accountTasks[k].mounted => accountPage \in Account!Pages /\ accountPage # Null
BY DEF AccountTyped, AccountTask, Account!Running, Account!NoTask, Account!TypeOK

LEMMA AccountTypes ==
  ASSUME AccountInv
  PROVE  /\ AccountTyped /\ DOMAIN accountTasks = Tasks
         /\ accountRows \in Account!Listing /\ accountPage \in Account!Pages \cup {Null}
         /\ accountFlags \in AccountFlags
BY DEF AccountInv, AccountTyped, Account!TypeOK

LEMMA AccountTypedIntro ==
  ASSUME accountRows' \in Account!Listing, accountPage' \in Account!Pages \cup {Null},
         accountTasks' \in [Tasks -> AccountTask \cup {Account!NoTask}],
         accountFlags' \in AccountFlags,
         \A k \in Tasks : accountTasks'[k] # Account!NoTask =>
           /\ AccountTaskSound(accountTasks'[k])
           /\ accountTasks'[k].mounted => accountPage' # Null
  PROVE  AccountTyped'
BY DEF AccountTyped, Account!TypeOK, AccountTask, Account!Running, Account!NoTask

(* A task that takes another step, or ends.                                      *)
LEMMA AccountTaskStep ==
  ASSUME AccountTyped, NEW k \in Tasks, NEW t \in AccountTask \cup {Account!NoTask},
         t # Account!NoTask => AccountTaskSound(t) /\ (t.mounted => accountPage' # Null),
         accountTasks' = [accountTasks EXCEPT ![k] = t],
         accountRows' \in Account!Listing, accountPage' \in Account!Pages \cup {Null},
         accountPage # Null => accountPage' # Null,
         accountFlags' \in AccountFlags
  PROVE  AccountTyped'
<1>1. accountTasks' \in [Tasks -> AccountTask \cup {Account!NoTask}]
  BY DEF AccountTyped
<1>2. ASSUME NEW j \in Tasks, accountTasks'[j] # Account!NoTask
      PROVE  AccountTaskSound(accountTasks'[j]) /\ (accountTasks'[j].mounted => accountPage' # Null)
  <2>1. CASE j = k
    BY <1>2, <2>1 DEF AccountTyped
  <2>2. CASE j # k
    <3>1. accountTasks'[j] = accountTasks[j] /\ j \in Account!Running
      BY <1>2, <2>2 DEF AccountTyped, AccountTask, Account!Running, Account!NoTask
    <3> QED
      BY <3>1, AccountTaskType
  <2> QED
    BY <2>1, <2>2
<1> QED
  BY <1>1, <1>2, AccountTypedIntro

(* What stays true of the accounts when nobody writes and no check is added.     *)
LEMMA AccountRowsStand ==
  ASSUME AccountKept, UNCHANGED accountRows,
         accountFlags.crossed => accountFlags'.crossed,
         \A k \in Account!Checked' :
           k \in Account!Checked /\ accountTasks'[k].target = accountTasks[k].target
                                 /\ accountTasks'[k].form = accountTasks[k].form
  PROVE  AccountKept'
BY DEF AccountKept, Account!AdminRemains, Account!EmailsUnique, ChecksHold, Account!Allowed,
       Account!Taken, Account!OnlyAdmin, Account!IsAdmin, Account!Exists

(* What the dialogs do.                                                          *)
LEMMA AccountQuiet ==
  ASSUME AccountInv, accountPage # Null, accountPage' \in Account!Pages,
         UNCHANGED <<accountRows, accountTasks>>,
         accountPage'.loading = accountPage.loading,
         accountPage'.submitting = accountPage.submitting,
         accountPage'.confirming => /\ accountPage'.form \in Account!Account
                                    /\ accountPage'.dialogOpen /\ ~accountPage'.submitting,
         accountFlags' \in AccountFlags, accountFlags'.crossed = accountFlags.crossed
  PROVE  AccountInv'
<1>1. accountPage' # Null
  BY AccountsAssumption
<1>2. AccountTyped'
  <2>1. accountTasks' \in [Tasks -> AccountTask \cup {Account!NoTask}] /\ accountRows' \in Account!Listing
    BY DEF AccountInv, AccountTyped, Account!TypeOK
  <2>2. ASSUME NEW k \in Tasks, accountTasks'[k] # Account!NoTask
        PROVE  AccountTaskSound(accountTasks'[k])
    <3>1. k \in Account!Running
      BY <2>2, <2>1 DEF AccountTask, Account!Running, Account!NoTask
    <3> QED
      BY <3>1, AccountTaskType DEF AccountInv
  <2> QED
    BY <1>1, <2>1, <2>2, AccountTypedIntro
<1>3. AccountKept'
  BY AccountRowsStand DEF AccountInv, Account!Checked, Account!Running
<1>4. AccountSaves' /\ Account!NeverStuck'
  BY <1>1 DEF AccountInv, AccountSaves, Account!NeverStuck, Saving, Account!Attached, Account!Running
<1> QED
  BY <1>2, <1>3, <1>4 DEF AccountInv

LEMMA AccountDialogs ==
  ASSUME AccountInv,
         \/ Account!OpenCreateDialog \/ Account!CloseDialog \/ Account!CancelConfirm
         \/ \E a \in Accounts : Account!OpenEditDialog(a)
  PROVE  AccountInv'
<1>1. /\ accountPage # Null => accountPage \in Account!Pages
      /\ accountFlags \in AccountFlags
      /\ Account!InitialForm \in Account!Form
  BY DEF AccountInv, AccountTyped, Account!TypeOK, Account!InitialForm, Account!Form, Account!Roles
<1>2. accountPage # Null /\ accountPage.confirming =>
        /\ accountPage.form \in Account!Account
        /\ accountPage.dialogOpen /\ ~accountPage.submitting
  BY DEF AccountInv, AccountSaves
<1>3. CASE Account!OpenCreateDialog
  BY <1>1, <1>2, <1>3, AccountQuiet
  DEF Account!OpenCreateDialog, Account!Free, Account!Shown, Account!Pages, Account!Quietly
<1>4. CASE Account!CloseDialog
  BY <1>1, <1>2, <1>4, AccountQuiet
  DEF Account!CloseDialog, Account!Closed, Account!Editing, Account!Shown, Account!Pages, Account!Quietly
<1>5. CASE Account!CancelConfirm
  BY <1>1, <1>2, <1>5, AccountQuiet
  DEF Account!CancelConfirm, Account!Shown, Account!Pages, Account!Quietly
<1>6. ASSUME NEW a \in Accounts, Account!OpenEditDialog(a)
      PROVE  AccountInv'
  <2>1. /\ accountPage.users[a] \in Account!Account
        /\ accountPage \in Account!Pages
        /\ accountFlags' \in AccountFlags /\ accountFlags'.crossed = accountFlags.crossed
        /\ ~accountPage.confirming
    BY <1>1, <1>2, <1>6 DEF Account!OpenEditDialog, Account!Free, Account!Shown, Account!Listed,
         Account!Pages, Account!Listing, AccountFlags
  <2>2. accountPage.users[a] \in Account!Form
    BY <2>1 DEF Account!Account, Account!Form
  <2> QED
    BY <1>1, <1>6, <2>1, <2>2, AccountQuiet
    DEF Account!OpenEditDialog, Account!Free, Account!Shown, Account!Pages, Account!Quietly
<1> QED
  BY <1>3, <1>4, <1>5, <1>6

(* A handler that starts: Slot is taken by a task of the mounted page.           *)
LEMMA AccountStart ==
  ASSUME AccountInv, NEW t \in AccountTask, AccountTaskSound(t), t.mounted,
         Account!Start(t), t.phase \in {"asked", "reload"},
         accountPage' \in Account!Pages, UNCHANGED <<accountRows, accountFlags>>,
         accountPage'.loading =>
           (accountPage # Null /\ accountPage.loading) \/ t.kind = "load",
         accountPage'.submitting <=>
           (accountPage # Null /\ accountPage.submitting) \/ t.kind = "save",
         t.kind = "save" => accountPage # Null /\ ~accountPage.submitting,
         ~accountPage'.confirming
  PROVE  AccountInv'
<1>1. PICK k \in Tasks :
        /\ accountTasks[k] = Account!NoTask
        /\ accountTasks' = [accountTasks EXCEPT ![k] = t]
        /\ accountPage' # Null
  BY AccountSlot, AccountsAssumption DEF Account!Start, AccountInv
<1>2. AccountTyped'
  BY <1>1, AccountTypes, AccountTaskStep
<1>3. /\ accountTasks'[k] = t /\ t.kind # "none"
      /\ \A j \in Tasks \ {k} : accountTasks'[j] = accountTasks[j]
      /\ accountTasks[k].kind = "none"
  BY <1>1 DEF AccountInv, AccountTyped, AccountTask, Account!NoTask
<1>4. AccountKept'
  BY <1>3, AccountRowsStand DEF AccountInv, Account!Checked, Account!Running
<1>5. \A j \in Tasks : Saving(j) => accountPage # Null /\ accountPage.submitting
  BY AccountTaskType DEF AccountInv, AccountSaves, Saving, Account!Attached
<1>6. \A j \in Tasks : Saving(j)' <=> IF j = k THEN t.kind = "save" ELSE Saving(j)
  BY <1>3 DEF Saving, Account!Attached, Account!Running
<1>7. AccountSaves'
  BY <1>1, <1>5, <1>6 DEF AccountSaves, AccountInv
<1>8. Account!NeverStuck'
  <2>1. \A j \in Tasks : Account!Attached(j) => Account!Attached(j)' /\ accountTasks'[j] = accountTasks[j]
    BY <1>3 DEF Account!Attached, Account!Running
  <2>2. accountTasks'[k].mounted
    BY <1>3
  <2>3. Account!Attached(k)'
    BY <1>1, <1>3, <2>2 DEF Account!Attached, Account!Running
  <2>4. accountPage'.loading => \E j \in Tasks : Account!Attached(j)' /\ accountTasks'[j].kind = "load"
    BY <1>1, <1>3, <2>1, <2>3 DEF AccountInv, Account!NeverStuck
  <2>5. accountPage'.submitting => \E j \in Tasks : Account!Attached(j)' /\ accountTasks'[j].kind = "save"
    BY <1>1, <1>3, <2>1, <2>3 DEF AccountInv, Account!NeverStuck
  <2> QED
    BY <2>4, <2>5 DEF Account!NeverStuck
<1> QED
  BY <1>2, <1>4, <1>7, <1>8 DEF AccountInv

LEMMA AccountClicks ==
  ASSUME AccountInv, Account!Open \/ Account!HandleSubmitUser \/ Account!Confirm
  PROVE  AccountInv'
<1>1. /\ accountPage # Null => accountPage \in Account!Pages
      /\ accountFlags \in AccountFlags
      /\ Account!InitialForm \in Account!Form
  BY DEF AccountInv, AccountTyped, Account!TypeOK, Account!InitialForm, Account!Form, Account!Roles
<1>2. CASE Account!Open
  <2> DEFINE t == Account!Task("load", "reload", Null, Null)
  <2>1. t \in AccountTask /\ AccountTaskSound(t) /\ t.mounted /\ t.kind = "load" /\ t.phase = "reload"
    BY DEF Account!Task, AccountTask, AccountTaskSound
  <2>2. /\ accountPage' \in Account!Pages /\ accountPage'.loading /\ ~accountPage'.submitting
        /\ ~accountPage'.confirming
    BY <1>1, <1>2 DEF Account!Open, Account!Pages, Account!Listing
  <2>3. Account!Start(t) /\ accountPage = Null /\ UNCHANGED <<accountRows, accountFlags>>
    BY <1>2 DEF Account!Open
  <2> HIDE DEF t
  <2> QED
    BY <2>1, <2>2, <2>3, AccountStart
<1>3. ASSUME NEW p \in Account!Pages, p.form \in Account!Account, Account!SubmitUser(p),
             accountPage # Null, ~accountPage.submitting, p.loading = accountPage.loading,
             ~p.confirming
      PROVE  AccountInv'
  <2> DEFINE t == Account!Task("save", "asked", p.editing, p.form)
  <2>0. p.form \in Account!Form /\ p.editing \in Accounts \cup {Null}
    BY <1>3 DEF Account!Pages
  <2>1. t \in AccountTask /\ AccountTaskSound(t) /\ t.mounted /\ t.kind = "save" /\ t.phase = "asked"
    BY <1>3, <2>0 DEF Account!Task, AccountTask, AccountTaskSound
  <2>2. /\ accountPage' \in Account!Pages /\ accountPage'.loading = p.loading
        /\ accountPage'.submitting /\ ~accountPage'.confirming
    BY <1>3 DEF Account!SubmitUser, Account!Pages
  <2>3. Account!Start(t) /\ UNCHANGED <<accountRows, accountFlags>>
    BY <1>3 DEF Account!SubmitUser
  <2> HIDE DEF t
  <2> QED
    BY <1>3, <2>1, <2>2, <2>3, AccountStart
<1>4. CASE Account!HandleSubmitUser
  <2>1. PICK form \in Account!Account :
          LET filled == [accountPage EXCEPT !.form = form]
          IN IF Account!IsSelfRoleChange(form)
             THEN /\ accountPage' = [filled EXCEPT !.confirming = TRUE]
                  /\ Account!Quietly /\ UNCHANGED accountFlags
             ELSE Account!SubmitUser(filled)
    BY <1>4 DEF Account!HandleSubmitUser, Account!Filled
  <2>2. /\ accountPage # Null /\ accountPage \in Account!Pages
        /\ accountPage.dialogOpen /\ ~accountPage.confirming /\ ~accountPage.submitting
    BY <1>1, <1>4 DEF Account!HandleSubmitUser, Account!CanSubmit, Account!Editing, Account!Shown
  <2>3. form \in Account!Form
    BY DEF Account!Account, Account!Form
  <2> DEFINE filled == [accountPage EXCEPT !.form = form]
  <2>4. /\ filled \in Account!Pages /\ filled.form = form /\ filled.loading = accountPage.loading
        /\ ~filled.confirming
    BY <2>2, <2>3 DEF Account!Pages
  <2>5. CASE Account!IsSelfRoleChange(form)
    <3>1. /\ accountPage' \in Account!Pages /\ accountPage'.form = form
          /\ accountPage'.loading = accountPage.loading
          /\ accountPage'.submitting = accountPage.submitting /\ accountPage'.dialogOpen
      BY <2>1, <2>2, <2>3, <2>5 DEF Account!Pages
    <3> QED
      BY <1>1, <2>1, <2>2, <2>5, <3>1, AccountQuiet DEF Account!Quietly
  <2>6. CASE ~Account!IsSelfRoleChange(form)
    <3>1. Account!SubmitUser(filled)
      BY <2>1, <2>6
    <3> HIDE DEF filled
    <3> QED
      BY <1>3, <2>2, <2>4, <3>1
  <2> QED
    BY <2>5, <2>6
<1>5. CASE Account!Confirm
  <2> DEFINE p == [accountPage EXCEPT !.confirming = FALSE]
  <2>1. /\ accountPage # Null /\ accountPage \in Account!Pages /\ accountPage.confirming
        /\ Account!SubmitUser(p)
    BY <1>1, <1>5 DEF Account!Confirm, Account!Shown
  <2>2. accountPage.form \in Account!Account /\ ~accountPage.submitting
    BY <2>1 DEF AccountInv, AccountSaves
  <2>3. /\ p \in Account!Pages /\ p.form = accountPage.form /\ p.loading = accountPage.loading
        /\ ~p.confirming
    BY <2>1 DEF Account!Pages
  <2> HIDE DEF p
  <2> QED
    BY <1>3, <2>1, <2>2, <2>3
<1> QED
  BY <1>2, <1>4, <1>5

LEMMA AccountLeave ==
  ASSUME AccountInv, Account!Leave
  PROVE  AccountInv'
<1>1. ASSUME NEW k \in Tasks
      PROVE  /\ accountTasks'[k] \in AccountTask \cup {Account!NoTask}
             /\ k \in Account!Running <=> k \in Account!Running'
             /\ accountTasks'[k] # Account!NoTask =>
                  /\ k \in Account!Running
                  /\ AccountTaskSound(accountTasks'[k]) /\ ~accountTasks'[k].mounted
                  /\ accountTasks'[k].phase = accountTasks[k].phase
                  /\ accountTasks'[k].target = accountTasks[k].target
                  /\ accountTasks'[k].form = accountTasks[k].form
  <2>1. CASE k \in Account!Running
    <3>1. /\ accountTasks[k] \in AccountTask /\ AccountTaskSound(accountTasks[k])
          /\ accountTasks'[k] = [accountTasks[k] EXCEPT !.mounted = FALSE]
      BY <2>1, AccountTaskType DEF Account!Leave, AccountInv
    <3> QED
      BY <2>1, <3>1 DEF AccountTask, AccountTaskSound, Account!Running, Account!NoTask
  <2>2. CASE k \notin Account!Running
    BY <2>2 DEF Account!Leave, Account!Running, Account!NoTask
  <2> QED
    BY <2>1, <2>2
<1>2. AccountTyped'
  <2>1. accountTasks' \in [Tasks -> AccountTask \cup {Account!NoTask}]
    BY <1>1 DEF Account!Leave
  <2> QED
    BY <1>1, <2>1, AccountTypedIntro DEF AccountInv, AccountTyped, Account!TypeOK, Account!Leave
<1>3. AccountKept'
  BY <1>1, AccountRowsStand DEF AccountInv, Account!Leave, Account!Checked, Account!Running, Account!NoTask
<1> QED
  BY <1>2, <1>3 DEF AccountInv, AccountSaves, Account!NeverStuck, Account!Leave

(* The code behind the awaits: the task goes on to the list, or ends.            *)
LEMMA AccountAnswers ==
  ASSUME AccountInv, NEW k \in Tasks,
         Account!SaveAnswered(k) \/ Account!ListAnswered(k) \/ Account!TaskFailed(k)
  PROVE  AccountInv'
<1> DEFINE task == accountTasks[k]
<1>1. /\ task \in AccountTask /\ AccountTaskSound(task)
      /\ task.mounted => accountPage \in Account!Pages /\ accountPage # Null
      /\ k \in Account!Running /\ UNCHANGED <<accountRows, accountFlags>>
  BY AccountTaskType
  DEF Account!SaveAnswered, Account!ListAnswered, Account!TaskFailed, AccountInv
<1>2. PICK t \in AccountTask \cup {Account!NoTask} :
        /\ accountTasks' = [accountTasks EXCEPT ![k] = t]
        /\ t # Account!NoTask =>
             /\ AccountTaskSound(t) /\ t.phase = "reload" /\ task.phase = "done"
             /\ t.mounted = task.mounted /\ t.kind = task.kind
             /\ accountPage' = IF task.mounted THEN Account!Closed(accountPage) ELSE accountPage
        /\ t = Account!NoTask =>
             /\ ~task.mounted => accountPage' = accountPage
             /\ task.mounted =>
                  accountPage' \in
                    {Account!Released(k, accountPage),
                     Account!Released(k, [accountPage EXCEPT !.users = task.rows])}
             /\ task.mounted =>
                  accountPage' = Account!Released(k, accountPage) \/ task.rows \in Account!Listing
  <2>1. CASE Account!SaveAnswered(k)
    <3> DEFINE t == [task EXCEPT !.phase = "reload"]
    <3>1. /\ t \in AccountTask /\ AccountTaskSound(t) /\ t # Account!NoTask
          /\ t.phase = "reload" /\ t.mounted = task.mounted /\ t.kind = task.kind
      BY <1>1 DEF AccountTask, AccountTaskSound, Account!NoTask
    <3>2. accountTasks' = [accountTasks EXCEPT ![k] = t] /\ task.phase = "done"
      BY <2>1 DEF Account!SaveAnswered
    <3> HIDE DEF t
    <3> QED
      BY <2>1, <3>1, <3>2 DEF Account!SaveAnswered, Account!SetPage
  <2>2. CASE Account!ListAnswered(k) \/ Account!TaskFailed(k)
    <3>1. accountTasks' = [accountTasks EXCEPT ![k] = Account!NoTask]
      BY <2>2 DEF Account!ListAnswered, Account!TaskFailed, Account!End
    <3> QED
      BY <1>1, <2>2, <3>1 DEF Account!ListAnswered, Account!TaskFailed, Account!SetPage, AccountTaskSound
  <2> QED
    BY <2>1, <2>2
<1> HIDE DEF task
<1>3. /\ accountTasks'[k] = t
      /\ \A j \in Tasks \ {k} : accountTasks'[j] = accountTasks[j]
  BY <1>2 DEF AccountInv, AccountTyped
<1>4. ASSUME task.mounted
      PROVE  /\ accountPage' \in Account!Pages /\ accountPage' # Null
             /\ accountPage'.confirming = accountPage.confirming
             /\ t # Account!NoTask =>
                  /\ accountPage'.loading = accountPage.loading
                  /\ accountPage'.submitting = accountPage.submitting
             /\ t = Account!NoTask =>
                  /\ accountPage'.loading = IF task.kind = "load" THEN FALSE ELSE accountPage.loading
                  /\ accountPage'.submitting =
                       IF task.kind = "save" THEN FALSE ELSE accountPage.submitting
                  /\ accountPage'.form = accountPage.form
                  /\ accountPage'.dialogOpen = accountPage.dialogOpen
  <2>1. accountPage \in Account!Pages /\ task.kind \in {"load", "save"}
    BY <1>1, <1>4 DEF AccountTask
  <2>2. CASE t # Account!NoTask
    <3>1. accountPage' = Account!Closed(accountPage)
      BY <1>2, <1>4, <2>2
    <3>2. Account!InitialForm \in Account!Form
      BY DEF Account!InitialForm, Account!Form, Account!Roles
    <3>3. accountPage' \in Account!Pages
      BY <2>1, <3>1, <3>2 DEF Account!Closed, Account!Pages
    <3> QED
      BY <2>1, <2>2, <3>1, <3>3, AccountsAssumption DEF Account!Closed, Account!Pages
  <2>3. CASE t = Account!NoTask
    <3>1. PICK p \in Account!Pages :
            /\ accountPage' = Account!Released(k, p)
            /\ p.confirming = accountPage.confirming /\ p.loading = accountPage.loading
            /\ p.submitting = accountPage.submitting
            /\ p.form = accountPage.form /\ p.dialogOpen = accountPage.dialogOpen
      <4>1. CASE accountPage' = Account!Released(k, accountPage)
        BY <2>1, <4>1
      <4>2. CASE task.rows \in Account!Listing
                 /\ accountPage' = Account!Released(k, [accountPage EXCEPT !.users = task.rows])
        <5> DEFINE p == [accountPage EXCEPT !.users = task.rows]
        <5>1. /\ p \in Account!Pages
              /\ p.confirming = accountPage.confirming /\ p.loading = accountPage.loading
              /\ p.submitting = accountPage.submitting
              /\ p.form = accountPage.form /\ p.dialogOpen = accountPage.dialogOpen
          BY <2>1, <4>2 DEF Account!Pages
        <5>2. accountPage' = Account!Released(k, p)
          BY <4>2
        <5> HIDE DEF p
        <5> QED
          BY <5>1, <5>2
      <4> QED
        BY <1>2, <1>4, <2>3, <4>1, <4>2
    <3>2. accountPage' \in Account!Pages /\ accountPage'.confirming = p.confirming
          /\ accountPage'.loading = (IF task.kind = "load" THEN FALSE ELSE p.loading)
          /\ accountPage'.submitting = (IF task.kind = "save" THEN FALSE ELSE p.submitting)
          /\ accountPage'.form = p.form /\ accountPage'.dialogOpen = p.dialogOpen
      <4>1. CASE task.kind = "load"
        <5>1. accountPage' = [p EXCEPT !.loading = FALSE]
          BY <3>1, <4>1 DEF Account!Released, task
        <5> QED
          BY <4>1, <5>1 DEF Account!Pages
      <4>2. CASE task.kind = "save"
        <5>1. accountPage' = [p EXCEPT !.submitting = FALSE]
          BY <3>1, <4>2 DEF Account!Released, task
        <5> QED
          BY <4>2, <5>1 DEF Account!Pages
      <4> QED
        BY <2>1, <4>1, <4>2
    <3>3. accountPage' # Null
      BY <3>2, AccountsAssumption DEF Account!Pages
    <3> QED
      BY <2>3, <3>1, <3>2, <3>3
  <2> QED
    BY <2>2, <2>3
<1>5. AccountTyped'
  <2>1. accountPage' \in Account!Pages \cup {Null} /\ (accountPage # Null => accountPage' # Null)
    BY <1>2, <1>4 DEF AccountInv, AccountTyped, Account!TypeOK
  <2>2. t # Account!NoTask => AccountTaskSound(t) /\ (t.mounted => accountPage' # Null)
    BY <1>2, <1>4
  <2>3. accountRows' \in Account!Listing /\ accountFlags' \in AccountFlags
    BY <1>1 DEF AccountInv, AccountTyped, Account!TypeOK
  <2> QED
    BY <1>2, <2>1, <2>2, <2>3, AccountTaskStep DEF AccountInv
<1>6. AccountKept'
  BY <1>1, <1>2, <1>3, AccountRowsStand DEF AccountInv, Account!Checked, Account!Running, Account!NoTask
<1>7. \A j \in Tasks : Saving(j)' <=>
        IF j = k THEN t # Account!NoTask /\ Saving(j) ELSE Saving(j)
  <2>1. t # Account!NoTask => t.kind # "none" /\ t.kind = task.kind /\ t.mounted = task.mounted
    BY <1>2 DEF AccountTask
  <2> QED
    BY <1>1, <1>3, <2>1 DEF Saving, Account!Attached, Account!Running, Account!NoTask, task
<1>8. AccountSaves'
  <2>1. CASE ~task.mounted
    BY <1>1, <1>2, <1>7, <2>1 DEF AccountInv, AccountSaves, Saving, Account!Attached, task
  <2>2. CASE task.mounted /\ t # Account!NoTask
    <3>1. Saving(k)
      BY <1>1, <1>2, <2>2 DEF Saving, Account!Attached, AccountTaskSound, task
    <3> QED
      BY <1>1, <1>4, <1>7, <2>2, <3>1 DEF AccountInv, AccountSaves
  <2>3. CASE task.mounted /\ t = Account!NoTask
    <3>1. Saving(k) <=> task.kind = "save"
      BY <1>1, <2>3 DEF Saving, Account!Attached, task
    <3> QED
      BY <1>1, <1>4, <1>7, <2>3, <3>1 DEF AccountInv, AccountSaves
  <2> QED
    BY <2>1, <2>2, <2>3
<1>9. Account!NeverStuck'
  <2>1. ASSUME NEW j \in Tasks, Account!Attached(j), j # k \/ t # Account!NoTask
        PROVE  Account!Attached(j)' /\ accountTasks'[j].kind = accountTasks[j].kind
    BY <1>2, <1>3, <2>1 DEF Account!Attached, Account!Running, task
  <2>2. CASE ~task.mounted
    <3>1. ~Account!Attached(k) /\ accountPage' = accountPage
      BY <1>2, <2>2 DEF Account!Attached, task
    <3> QED
      BY <2>1, <3>1 DEF AccountInv, Account!NeverStuck
  <2>3. CASE task.mounted
    BY <1>1, <1>4, <2>1, <2>3 DEF AccountInv, Account!NeverStuck, task
  <2> QED
    BY <2>2, <2>3
<1> QED
  BY <1>5, <1>6, <1>8, <1>9 DEF AccountInv

(* What the services do to a task: the page does not notice.                     *)
LEMMA AccountServed ==
  ASSUME AccountInv, NEW k \in Account!Running, NEW t \in AccountTask, AccountTaskSound(t),
         t.kind = accountTasks[k].kind, t.mounted = accountTasks[k].mounted,
         accountTasks' = [accountTasks EXCEPT ![k] = t], UNCHANGED accountPage,
         accountRows' \in Account!Listing, accountFlags' \in AccountFlags, AccountKept'
  PROVE  AccountInv'
<1>1. k \in Tasks /\ accountTasks[k] \in AccountTask /\ t.kind # "none"
  BY AccountTaskType DEF AccountInv, AccountTask
<1>2. accountTasks'[k] = t /\ \A j \in Tasks \ {k} : accountTasks'[j] = accountTasks[j]
  BY <1>1 DEF AccountInv, AccountTyped
<1>3. \A j \in Tasks : /\ Account!Attached(j)' <=> Account!Attached(j)
                       /\ Account!Attached(j) => accountTasks'[j].kind = accountTasks[j].kind
  BY <1>1, <1>2 DEF Account!Attached, Account!Running
<1>4. AccountTyped'
  <2>1. t.mounted => accountPage' # Null
    BY AccountTaskType DEF AccountInv
  <2> QED
    BY <1>1, <2>1, AccountTypes, AccountTaskStep
<1>5. AccountSaves' /\ Account!NeverStuck'
  <2>1. \A j \in Tasks : Saving(j)' <=> Saving(j)
    BY <1>3 DEF Saving
  <2> QED
    BY <1>3, <2>1 DEF AccountInv, AccountSaves, Account!NeverStuck
<1> QED
  BY <1>4, <1>5 DEF AccountInv

LEMMA AccountServices ==
  ASSUME AccountInv, NEW k \in Tasks,
         \/ Account!ServeCheck(k) \/ Account!ServeList(k) \/ Account!CallFails(k)
  PROVE  AccountInv'
<1> DEFINE task == accountTasks[k]
<1>1. /\ k \in Account!Running /\ task \in AccountTask /\ AccountTaskSound(task)
      /\ accountRows \in Account!Listing /\ UNCHANGED <<accountRows, accountPage>>
      /\ accountFlags \in AccountFlags
  BY AccountTaskType
  DEF Account!ServeCheck, Account!ServeList, Account!CallFails, AccountInv, AccountTyped, Account!TypeOK
<1>2. ASSUME NEW phase \in {"checked", "loaded", "failed"}, NEW rows \in Account!Listing \cup {Null},
             phase = "checked" => task.phase = "asked" /\ Account!Allowed(task.target, task.form),
             phase = "loaded" => rows \in Account!Listing,
             accountTasks' = [accountTasks EXCEPT ![k] = [task EXCEPT !.phase = phase, !.rows = rows]],
             accountFlags' \in AccountFlags, accountFlags'.crossed = accountFlags.crossed
      PROVE  AccountInv'
  <2> DEFINE t == [task EXCEPT !.phase = phase, !.rows = rows]
  <2>1. /\ t \in AccountTask /\ AccountTaskSound(t) /\ t.kind = task.kind /\ t.mounted = task.mounted
        /\ t.phase = phase /\ t.target = task.target /\ t.form = task.form
    BY <1>1, <1>2 DEF AccountTask, AccountTaskSound
  <2> HIDE DEF t
  <2>2. accountTasks'[k] = t /\ \A j \in Tasks \ {k} : accountTasks'[j] = accountTasks[j]
    BY <1>2 DEF AccountInv, AccountTyped, t
  <2>3. AccountKept'
    <3>1. CASE phase # "checked"
      BY <1>1, <1>2, <2>1, <2>2, <3>1, AccountRowsStand
      DEF AccountInv, Account!Checked, Account!Running
    <3>2. CASE phase = "checked"
      <4>1. \A j \in Account!Checked' \ {k} : j \in Account!Checked /\ accountTasks'[j] = accountTasks[j]
        BY <2>2 DEF Account!Checked, Account!Running
      <4>2. ASSUME NEW a, NEW form, Account!Allowed(a, form)
            PROVE  Account!Allowed(a, form)'
        BY <1>1, <4>2
        DEF Account!Allowed, Account!Taken, Account!OnlyAdmin, Account!IsAdmin, Account!Exists
      <4>3. Account!Allowed(accountTasks'[k].target, accountTasks'[k].form)
        BY <1>2, <2>1, <2>2, <3>2
      <4>4. ChecksHold'
        BY <1>2, <4>1, <4>2, <4>3 DEF AccountInv, AccountKept, ChecksHold
      <4> QED
        BY <1>1, <1>2, <4>4
        DEF AccountInv, AccountKept, Account!AdminRemains, Account!EmailsUnique,
            Account!IsAdmin, Account!Exists
    <3> QED
      BY <3>1, <3>2
  <2> QED
    BY <1>1, <1>2, <2>1, <2>3, AccountServed DEF t
<1>3. CASE Account!ServeCheck(k)
  <2>1. PICK phase \in {"checked", "failed"} :
          /\ accountTasks' = [accountTasks EXCEPT ![k].phase = phase]
          /\ phase = "checked" => task.phase = "asked" /\ Account!Allowed(task.target, task.form)
    BY <1>3 DEF Account!ServeCheck
  <2>2. [task EXCEPT !.phase = phase] = [task EXCEPT !.phase = phase, !.rows = task.rows]
    BY <1>1 DEF AccountTask
  <2>3. task.rows \in Account!Listing \cup {Null} /\ UNCHANGED accountFlags
    BY <1>1, <1>3 DEF AccountTask, Account!ServeCheck
  <2> QED
    BY <1>1, <1>2, <2>1, <2>2, <2>3
<1>4. CASE Account!ServeList(k)
  <2>1. /\ accountTasks' = [accountTasks EXCEPT
                              ![k] = [task EXCEPT !.phase = "loaded", !.rows = accountRows]]
        /\ accountFlags' \in AccountFlags /\ accountFlags'.crossed = accountFlags.crossed
    BY <1>1, <1>4 DEF Account!ServeList, AccountFlags, AccountInv, AccountTyped, AccountTask
  <2> QED
    BY <1>1, <1>2, <2>1
<1>5. CASE Account!CallFails(k)
  <2>1. [task EXCEPT !.phase = "failed"] = [task EXCEPT !.phase = "failed", !.rows = task.rows]
    BY <1>1 DEF AccountTask
  <2>2. /\ accountTasks' = [accountTasks EXCEPT ![k] = [task EXCEPT !.phase = "failed"]]
        /\ accountFlags' \in AccountFlags /\ accountFlags'.crossed = accountFlags.crossed
        /\ task.rows \in Account!Listing \cup {Null}
    BY <1>1, <1>5 DEF Account!CallFails, AccountFlags, AccountTask
  <2> QED
    BY <1>1, <1>2, <2>1, <2>2
<1> QED
  BY <1>3, <1>4, <1>5

(* A write that its check allows, of an account or of a new one.                 *)
LEMMA AllowedWrite ==
  ASSUME AccountInv, ~accountFlags.crossed, NEW a \in Accounts, NEW form \in Account!Account,
         NEW target, Account!Allowed(target, form),
         target = a \/ (target = Null /\ ~Account!Exists(a)),
         accountRows' = [accountRows EXCEPT ![a] = form]
  PROVE  /\ accountRows' \in Account!Listing
         /\ \E b \in Accounts : Account!IsAdmin(b)'
         /\ Account!EmailsUnique'
<1>1. accountRows \in Account!Listing /\ form # Null
  BY AccountsAssumption
  DEF AccountInv, AccountTyped, Account!TypeOK, Account!Account, Account!Form
<1>2. /\ accountRows' \in Account!Listing /\ accountRows'[a] = form
      /\ \A b \in Accounts \ {a} : accountRows'[b] = accountRows[b]
  BY <1>1 DEF Account!Listing
<1>3. PICK b \in Accounts : Account!IsAdmin(b)
  BY DEF AccountInv, AccountKept, Account!AdminRemains
<1>4. \A c \in Accounts \ {a} : Account!Exists(c) => accountRows[c].email # form.email
  BY AccountsAssumption DEF Account!Allowed, Account!Taken
<1>5. Account!EmailsUnique'
  BY <1>1, <1>2, <1>4 DEF AccountInv, AccountKept, Account!EmailsUnique, Account!Exists
<1>6. \E c \in Accounts : Account!IsAdmin(c)'
  <2>1. ASSUME NEW c \in Accounts \ {a}, Account!IsAdmin(c)
        PROVE  Account!IsAdmin(c)'
    BY <1>2, <2>1 DEF Account!IsAdmin, Account!Exists
  <2>2. CASE form.role = "admin"
    BY <1>1, <1>2, <2>2 DEF Account!IsAdmin, Account!Exists
  <2>3. CASE form.role # "admin" /\ b = a
    <3>1. target = a /\ target # Null
      BY <1>3, <2>3, AccountsAssumption DEF Account!IsAdmin
    <3>2. \E c \in Accounts \ {a} : Account!IsAdmin(c)
      BY <1>3, <2>3, <3>1 DEF Account!Allowed, Account!OnlyAdmin
    <3> QED
      BY <2>1, <3>2
  <2> QED
    BY <1>3, <2>1, <2>2, <2>3
<1> QED
  BY <1>2, <1>5, <1>6

LEMMA AccountServeWrite ==
  ASSUME AccountInv, NEW k \in Tasks, Account!ServeWrite(k)
  PROVE  AccountInv'
<1> DEFINE task == accountTasks[k]
<1>1. /\ k \in Account!Running /\ task \in AccountTask /\ task.phase = "checked"
      /\ task.form \in Account!Account /\ accountRows \in Account!Listing /\ UNCHANGED accountPage
      /\ task.target \in Accounts \cup {Null}
  BY AccountTaskType
  DEF Account!ServeWrite, AccountInv, AccountTyped, Account!TypeOK, AccountTaskSound, AccountTask
<1>2. /\ accountFlags' \in AccountFlags
      /\ accountFlags.crossed => accountFlags'.crossed
      /\ ~accountFlags'.crossed => Account!Checked \subseteq {k}
  BY <1>1 DEF Account!ServeWrite, AccountFlags, AccountInv, AccountTyped
<1>3. PICK phase \in {"done", "failed"} :
        /\ accountTasks' = [accountTasks EXCEPT ![k] = [task EXCEPT !.phase = phase]]
        /\ \/ UNCHANGED accountRows
           \/ \E a \in Accounts :
                /\ task.target = a \/ (task.target = Null /\ ~Account!Exists(a))
                /\ accountRows' = [accountRows EXCEPT ![a] = task.form]
  <2>1. CASE task.target = Null /\ Account!Fresh = {}
    BY <2>1 DEF Account!ServeWrite
  <2>2. CASE task.target = Null /\ Account!Fresh # {}
    <3>1. (CHOOSE b \in Account!Fresh : TRUE) \in Account!Fresh
      BY <2>2
    <3> QED
      BY <2>2, <3>1 DEF Account!ServeWrite, Account!Fresh
  <2>3. CASE task.target # Null
    BY <1>1, <2>3 DEF Account!ServeWrite
  <2> QED
    BY <2>1, <2>2, <2>3
<1> DEFINE t == [task EXCEPT !.phase = phase]
<1>4. /\ t \in AccountTask /\ AccountTaskSound(t) /\ t.kind = task.kind /\ t.mounted = task.mounted
      /\ t.phase = phase
  <2>1. task.kind = "save"
    BY <1>1, AccountTaskType DEF AccountInv, AccountTaskSound
  <2> QED
    BY <1>1, <2>1 DEF AccountTask, AccountTaskSound
<1> HIDE DEF t
<1>5. accountTasks'[k] = t /\ \A j \in Tasks \ {k} : accountTasks'[j] = accountTasks[j]
  BY <1>3 DEF AccountInv, AccountTyped, t
<1>6. accountRows' \in Account!Listing /\ AccountKept'
  <2>1. CASE UNCHANGED accountRows
    BY <1>1, <1>2, <1>4, <1>5, <2>1, AccountRowsStand
    DEF AccountInv, Account!Checked, Account!Running
  <2>2. ASSUME NEW a \in Accounts,
               task.target = a \/ (task.target = Null /\ ~Account!Exists(a)),
               accountRows' = [accountRows EXCEPT ![a] = task.form]
        PROVE  accountRows' \in Account!Listing /\ AccountKept'
    <3>1. accountRows' \in Account!Listing
      BY <1>1, <2>2 DEF Account!Listing
    <3>2. CASE accountFlags'.crossed
      BY <3>1, <3>2 DEF AccountKept, Account!AdminRemains, Account!EmailsUnique, ChecksHold
    <3>3. CASE ~accountFlags'.crossed
      <4>1. ~accountFlags.crossed /\ k \in Account!Checked
        BY <1>1, <1>2, <3>3 DEF Account!Checked
      <4>2. Account!Allowed(task.target, task.form)
        BY <4>1 DEF AccountInv, AccountKept, ChecksHold
      <4>3. Account!Checked' = {}
        BY <1>2, <1>4, <1>5, <3>3 DEF Account!Checked, Account!Running
      <4>4. /\ \E b \in Accounts : Account!IsAdmin(b)'
            /\ Account!EmailsUnique'
        BY <1>1, <2>2, <4>1, <4>2, AllowedWrite
      <4> QED
        BY <3>1, <4>3, <4>4 DEF AccountKept, Account!AdminRemains, ChecksHold
    <3> QED
      BY <3>2, <3>3
  <2> QED
    BY <1>3, <2>1, <2>2
<1> QED
  BY <1>1, <1>2, <1>3, <1>4, <1>6, AccountServed DEF t

LEMMA AccountElsewhere ==
  ASSUME AccountInv, NEW a \in Accounts, Account!Elsewhere(a)
  PROVE  AccountInv'
<1>1. PICK form \in Account!Account :
        Account!Allowed(a, form) /\ accountRows' = [accountRows EXCEPT ![a] = form]
  BY DEF Account!Elsewhere
<1>2. /\ accountFlags' \in AccountFlags /\ (accountFlags.crossed => accountFlags'.crossed)
      /\ ~accountFlags'.crossed => Account!Checked = {}
      /\ UNCHANGED <<accountPage, accountTasks>>
  BY DEF Account!Elsewhere, AccountFlags, AccountInv, AccountTyped
<1>3. accountRows' \in Account!Listing
  BY <1>1 DEF AccountInv, AccountTyped, Account!TypeOK, Account!Listing
<1>4. AccountTyped'
  <2>1. \A k \in Account!Running' : k \in Account!Running
    BY <1>2 DEF Account!Running
  <2>2. \A k \in Account!Running : AccountTaskSound(accountTasks[k])'
    BY <1>2, AccountTaskType DEF AccountInv
  <2> QED
    BY <1>2, <1>3, <2>1, <2>2 DEF AccountInv, AccountTyped, Account!TypeOK
<1>5. AccountKept'
  <2>1. CASE accountFlags'.crossed
    BY <2>1 DEF AccountKept, Account!AdminRemains, Account!EmailsUnique, ChecksHold
  <2>2. CASE ~accountFlags'.crossed
    <3>1. Account!Checked' = {}
      BY <1>2, <2>2 DEF Account!Checked, Account!Running
    <3>2. /\ \E b \in Accounts : Account!IsAdmin(b)'
          /\ Account!EmailsUnique'
      BY <1>1, <1>2, <2>2, AllowedWrite
    <3> QED
      BY <3>1, <3>2 DEF AccountKept, Account!AdminRemains, ChecksHold
  <2> QED
    BY <2>1, <2>2
<1>6. AccountSaves' /\ Account!NeverStuck'
  BY <1>2 DEF AccountInv, AccountSaves, Account!NeverStuck, Saving, Account!Attached, Account!Running
<1> QED
  BY <1>4, <1>5, <1>6 DEF AccountInv

LEMMA AccountInit == Account!Init => AccountInv
<1> SUFFICES ASSUME Account!Init
             PROVE  AccountInv
  OBVIOUS
<1>1. \A a \in Accounts :
        accountRows[a] = IF a = Admin THEN [email |-> AdminEmail, role |-> "admin"]
                         ELSE IF a = OtherAdmin THEN [email |-> OtherEmail, role |-> "admin"]
                         ELSE Null
  BY DEF Account!Init
<1>2. accountRows \in Account!Listing
  <2>1. \A e \in {AdminEmail, OtherEmail} : [email |-> e, role |-> "admin"] \in Account!Account
    BY AccountsAssumption DEF Account!Account, Account!Roles
  <2>2. \A a \in Accounts : accountRows[a] \in Account!Account \cup {Null}
    BY <1>1, <2>1
  <2> QED
    BY <2>2 DEF Account!Init, Account!Listing
<1>3. Account!Running = {} /\ accountPage = Null /\ accountFlags \in AccountFlags
  BY DEF Account!Init, Account!Running, Account!NoTask, AccountFlags, Account!NoFlags
<1>4. accountTasks \in [Tasks -> AccountTask \cup {Account!NoTask}]
  BY DEF Account!Init
<1>5. [email |-> AdminEmail, role |-> "admin"] # Null
  BY AccountsAssumption DEF Account!Form, Account!Roles
<1>6. Account!AdminRemains
  BY <1>1, <1>5, AccountsAssumption DEF Account!AdminRemains, Account!IsAdmin, Account!Exists
<1>7. Account!EmailsUnique
  BY <1>1, AccountsAssumption DEF Account!EmailsUnique, Account!Exists
<1> QED
  BY <1>2, <1>3, <1>4, <1>6, <1>7
  DEF AccountInv, AccountTyped, Account!TypeOK, AccountSaves, Account!NeverStuck, AccountKept,
      ChecksHold, Account!Checked

LEMMA AccountStep == AccountInv /\ Account!Next => AccountInv'
BY AccountDialogs, AccountClicks, AccountLeave, AccountAnswers, AccountServices,
   AccountServeWrite, AccountElsewhere DEF Account!Next

-----------------------------------------------------------------------------
(* The subjects page. *)

LEMMA SubjectSlot ==
  ASSUME SubjectTyped, Subject!Running # Tasks
  PROVE  Subject!Slot \in Tasks /\ subjectTasks[Subject!Slot] = Subject!NoTask
<1>1. \E k \in Tasks : subjectTasks[k] = Subject!NoTask
  BY DEF SubjectTyped, SubjectTask, Subject!Running, Subject!NoTask
<1> QED
  BY <1>1 DEF Subject!Slot

LEMMA SubjectTaskType ==
  ASSUME SubjectTyped, NEW k \in Subject!Running
  PROVE  /\ k \in Tasks /\ subjectTasks[k] \in SubjectTask
         /\ SubjectTaskSound(subjectTasks[k])
         /\ subjectTasks[k].mounted => subjectPage \in Subject!Pages /\ subjectPage # Null
BY DEF SubjectTyped, SubjectTask, Subject!Running, Subject!NoTask, Subject!TypeOK

(* What is true of a task stays true while teams and failures only add up.       *)
LEMMA SubjectTaskStands ==
  ASSUME UNCHANGED subjectRole, subjectRows.inTeam \subseteq subjectRows'.inTeam,
         subjectBounds.faults # 0 => subjectBounds'.faults # 0,
         NEW t, SubjectTaskSound(t)
  PROVE  SubjectTaskSound(t)'
BY DEF SubjectTaskSound, FormSound

(* A task that starts, takes another step, or ends.                              *)
LEMMA SubjectTypes ==
  ASSUME SubjectTyped
  PROVE  /\ DOMAIN subjectTasks = Tasks /\ sentTo \in Projects \cup {Null}
         /\ subjectRows \in Subject!Rows /\ subjectPage \in Subject!Pages \cup {Null}
         /\ subjectFlags \in SubjectFlags /\ subjectBounds \in SubjectBounds
         /\ subjectPage # Null => DialogSound(subjectPage.dialog)
BY DEF SubjectTyped, Subject!TypeOK

LEMMA SubjectTaskStep ==
  ASSUME SubjectTyped, NEW k \in Tasks, NEW t \in SubjectTask \cup {Subject!NoTask},
         t # Subject!NoTask => SubjectTaskSound(t)' /\ (t.mounted => subjectPage' # Null),
         subjectTasks' = [subjectTasks EXCEPT ![k] = t],
         UNCHANGED subjectRole, sentTo' \in Projects \cup {Null},
         subjectRows' \in Subject!Rows, subjectRows.inTeam \subseteq subjectRows'.inTeam,
         subjectPage' \in Subject!Pages \cup {Null}, subjectPage # Null => subjectPage' # Null,
         subjectPage' # Null => DialogSound(subjectPage'.dialog),
         subjectFlags' \in SubjectFlags, subjectBounds' \in SubjectBounds,
         subjectBounds.faults # 0 => subjectBounds'.faults # 0
  PROVE  SubjectTyped'
<1>1. subjectTasks' \in [Tasks -> SubjectTask \cup {Subject!NoTask}]
  BY DEF SubjectTyped
<1>2. ASSUME NEW j \in Subject!Running'
      PROVE  /\ j \in Tasks /\ subjectTasks'[j] \in SubjectTask
             /\ SubjectTaskSound(subjectTasks[j])'
             /\ subjectTasks'[j].mounted => subjectPage' # Null
  <2>1. j \in Tasks /\ subjectTasks'[j] \in SubjectTask /\ subjectTasks'[j] # Subject!NoTask
    BY <1>1 DEF SubjectTask, Subject!Running, Subject!NoTask
  <2>2. CASE j = k
    BY <2>1, <2>2 DEF SubjectTyped
  <2>3. CASE j # k
    <3>1. subjectTasks'[j] = subjectTasks[j] /\ j \in Subject!Running
      BY <2>1, <2>3 DEF SubjectTyped, Subject!Running
    <3> QED
      BY <2>1, <3>1, SubjectTaskType, SubjectTaskStands
  <2> QED
    BY <2>2, <2>3
<1>4. subjectPage' # Null => DialogSound(subjectPage.dialog)'
  BY DEF DialogSound, FormSound
<1>5. Subject!TypeOK'
  BY <1>2 DEF Subject!TypeOK, SubjectTask
<1>6. subjectRole' \in {"student", "admin"}
  BY DEF SubjectTyped
<1> QED
  BY <1>1, <1>2, <1>4, <1>5, <1>6 DEF SubjectTyped

(* The rows as they are: what the pages do on their own leaves them alone.       *)
LEMMA SubjectRowsSame ==
  ASSUME UNCHANGED subjectRows
  PROVE  /\ Subject!Listing' = Subject!Listing
         /\ \A t : Subject!Allowed(t)' <=> Subject!Allowed(t)
<1>1. Subject!Listing' = Subject!Listing
  BY DEF Subject!Listing, Subject!Exists
<1>2. ASSUME NEW t
      PROVE  Subject!Allowed(t)' <=> Subject!Allowed(t)
  BY DEF Subject!Allowed, Subject!Exists
<1> QED
  BY <1>1, <1>2

LEMMA SubjectDialogStep ==
  ASSUME SubjectInv, NEW d \in Subject!Dialogs, DialogSound(d), Subject!Shown, Subject!SetDialog(d)
  PROVE  SubjectInv'
<1>1. /\ subjectPage \in Subject!Pages /\ subjectPage # Null
      /\ UNCHANGED <<subjectRole, subjectRows, sentTo, subjectTasks, subjectBounds, subjectFlags>>
  BY DEF SubjectInv, SubjectTyped, Subject!TypeOK, Subject!SetDialog, Subject!Shown
<1>2. /\ subjectPage' \in Subject!Pages /\ subjectPage' # Null /\ subjectPage'.dialog = d
      /\ subjectPage'.loading = subjectPage.loading /\ subjectPage'.rows = subjectPage.rows
      /\ subjectPage'.submitting = subjectPage.submitting
      /\ subjectPage'.creating = subjectPage.creating
  BY <1>1, SubjectsAssumption DEF Subject!SetDialog, Subject!Pages
<1>3. SubjectTyped'
  <2>1. \A k \in Subject!Running' : k \in Subject!Running
    BY <1>1 DEF Subject!Running
  <2>2. \A k \in Subject!Running : SubjectTaskSound(subjectTasks[k])'
    BY <1>1 DEF SubjectInv, SubjectTyped, SubjectTaskSound, FormSound
  <2>3. DialogSound(subjectPage.dialog)'
    BY <1>1, <1>2 DEF DialogSound, FormSound
  <2> QED
    BY <1>1, <1>2, <2>1, <2>2, <2>3 DEF SubjectInv, SubjectTyped, Subject!TypeOK
<1>4. Subject!NeverStuck'
  BY <1>1, <1>2 DEF SubjectInv, Subject!NeverStuck, Subject!Attached, Subject!Running
<1>5. Subject!SentToOwnTeam' /\ TeamsListed' /\ Subject!NoOrphans' /\ Subject!TeamsAreRegistered'
  BY <1>1 DEF SubjectInv, Subject!SentToOwnTeam, TeamsListed, Subject!NoOrphans, Subject!Exists,
              Subject!TeamsAreRegistered, Subject!Registered
<1>6. SubjectLinks'
  BY <1>1, SubjectRowsSame DEF SubjectInv, SubjectLinks, Subject!Exists, Subject!Running
<1>7. SubjectCopies'
  BY <1>1, <1>2, SubjectRowsSame
  DEF SubjectInv, SubjectCopies, Undisturbed, Subject!Mattering, Subject!Running, Subject!Shown
<1> QED
  BY <1>3, <1>4, <1>5, <1>6, <1>7 DEF SubjectInv

LEMMA SubjectDialogs ==
  ASSUME SubjectInv,
         \/ Subject!CloseDialog
         \/ \E s \in Subjects : Subject!SetDeleteSubjectTarget(s)
         \/ \E p \in Projects : Subject!OpenCreateTeamDialog(p)
         \/ \E i \in Subject!Items : Subject!OpenEditor(i)
         \/ \E d \in Subject!Kinds : Subject!OpenCreator(d)
  PROVE  SubjectInv'
<1>1. Subject!Closed \in Subject!Dialogs /\ DialogSound(Subject!Closed)
  BY DEF Subject!Closed, Subject!Dialogs, DialogSound, Subject!Kinds
<1>2. CASE Subject!CloseDialog
  BY <1>1, <1>2, SubjectDialogStep DEF Subject!CloseDialog
<1>3. ASSUME NEW s \in Subjects, Subject!SetDeleteSubjectTarget(s)
      PROVE  SubjectInv'
  <2> DEFINE d == [Subject!Closed EXCEPT !.kind = "delete", !.target = s]
  <2>1. d \in Subject!Dialogs /\ d.kind = "delete" /\ d.target = s
    BY DEF Subject!Closed, Subject!Dialogs, Subject!Items
  <2>2. Subject!SetDialog(d) /\ Subject!Shown /\ subjectRole = "admin"
    BY <1>3 DEF Subject!SetDeleteSubjectTarget, Subject!Opens, Subject!IsAdmin
  <2> HIDE DEF d
  <2>3. DialogSound(d)
    BY <2>1, <2>2 DEF DialogSound, Subject!Kinds
  <2> QED
    BY <2>1, <2>2, <2>3, SubjectDialogStep
<1>4. ASSUME NEW p \in Projects, Subject!OpenCreateTeamDialog(p)
      PROVE  SubjectInv'
  <2> DEFINE d == [Subject!Closed EXCEPT !.kind = "team", !.target = p]
  <2>1. d \in Subject!Dialogs /\ d.kind = "team" /\ d.target = p
    BY DEF Subject!Closed, Subject!Dialogs, Subject!Items
  <2>2. Subject!SetDialog(d) /\ Subject!Shown /\ subjectRole = "student"
    BY <1>4 DEF Subject!OpenCreateTeamDialog, Subject!Opens, Subject!IsStudent
  <2> HIDE DEF d
  <2>3. DialogSound(d)
    BY <2>1, <2>2 DEF DialogSound, Subject!Kinds
  <2> QED
    BY <2>1, <2>2, <2>3, SubjectDialogStep
<1>5. ASSUME NEW i \in Subject!Items, Subject!OpenEditor(i)
      PROVE  SubjectInv'
  <2> DEFINE s == IF i \in Projects THEN subjectPage.rows.of[i] ELSE Null
             d == [Subject!Closed EXCEPT !.kind = Subject!KindOf(i), !.target = i, !.subject = s]
  <2>1. Subject!SetDialog(d) /\ Subject!Shown /\ subjectRole = "admin"
    BY <1>5 DEF Subject!OpenEditor, Subject!Opens, Subject!IsAdmin
  <2>2. s \in Subjects \cup {Null}
    BY <2>1 DEF SubjectInv, SubjectTyped, Subject!TypeOK, Subject!Shown, Subject!Pages, Subject!Rows
  <2> HIDE DEF s
  <2>3. d \in Subject!Dialogs /\ d.kind \in Subject!Kinds /\ d.target = i /\ i # Null
    BY <2>2, SubjectsAssumption
    DEF Subject!Closed, Subject!Dialogs, Subject!Items, Subject!KindOf, Subject!Kinds
  <2> HIDE DEF d
  <2>4. DialogSound(d)
    BY <2>1, <2>3 DEF DialogSound, FormSound, Subject!Kinds
  <2> QED
    BY <2>1, <2>3, <2>4, SubjectDialogStep
<1>6. ASSUME NEW kind \in Subject!Kinds, Subject!OpenCreator(kind)
      PROVE  SubjectInv'
  <2>1. PICK s \in Subjects \cup {Null} :
          /\ Subject!SetDialog([Subject!Closed EXCEPT !.kind = kind, !.subject = s])
          /\ kind = "project" => s \in Subjects
    BY <1>6 DEF Subject!OpenCreator, Subject!Opens
  <2> DEFINE d == [Subject!Closed EXCEPT !.kind = kind, !.subject = s]
  <2>2. d \in Subject!Dialogs /\ d.kind = kind /\ d.subject = s
    BY DEF Subject!Closed, Subject!Dialogs
  <2>3. Subject!SetDialog(d) /\ Subject!Shown /\ subjectRole = "admin"
    BY <1>6, <2>1 DEF Subject!OpenCreator, Subject!IsAdmin
  <2> HIDE DEF d
  <2>4. DialogSound(d)
    BY <2>1, <2>2, <2>3 DEF DialogSound, FormSound, Subject!Kinds
  <2> QED
    BY <2>2, <2>3, <2>4, SubjectDialogStep
<1> QED
  BY <1>2, <1>3, <1>4, <1>5, <1>6

(* No deletion is checked and no row written.                                    *)
LEMMA SubjectLinksStand ==
  ASSUME SubjectLinks, UNCHANGED subjectRows, subjectFlags.linked => subjectFlags'.linked,
         \A k \in Subject!Running' :
           subjectTasks'[k].kind = "delete" /\ subjectTasks'[k].phase = "checked" =>
             k \in Subject!Running /\ subjectTasks'[k] = subjectTasks[k]
  PROVE  SubjectLinks'
<1>1. ASSUME ~subjectFlags'.linked, NEW k \in Subject!Running',
             subjectTasks'[k].kind = "delete", subjectTasks'[k].phase = "checked"
      PROVE  Subject!Allowed(subjectTasks[k])'
  <2>1. Subject!Allowed(subjectTasks[k]) /\ subjectTasks'[k] = subjectTasks[k]
    BY <1>1 DEF SubjectLinks
  <2> QED
    BY <2>1 DEF Subject!Allowed, Subject!Exists
<1> QED
  BY <1>1 DEF SubjectLinks, Subject!Exists

(* A handler that starts.  A student who leaves a subject has, by the page's      *)
(* copy, no team in it.                                                            *)
LEMMA SubjectStart ==
  ASSUME SubjectInv, NEW t \in SubjectTask, SubjectTaskSound(t), t.mounted, Subject!Start(t),
         t.phase = IF t.kind = "load" THEN "reload" ELSE "asked",
         subjectBounds' = [subjectBounds EXCEPT !.clicks = @ + 1],
         UNCHANGED <<subjectRole, subjectRows, sentTo>>,
         subjectPage' \in Subject!Pages,
         IF t.kind = "load" THEN subjectPage'.loading
         ELSE /\ subjectPage # Null /\ subjectPage'.loading = subjectPage.loading
              /\ subjectPage'.rows = subjectPage.rows,
         DialogSound(subjectPage'.dialog),
         subjectPage'.creating =>
           (subjectPage # Null /\ subjectPage.creating) \/ t.kind = "team",
         \A d \in subjectPage'.submitting :
           \/ subjectPage # Null /\ d \in subjectPage.submitting
           \/ t.kind = "save" /\ t.form.kind = d,
         t.kind = "leave" => /\ subjectRole = "student" /\ Subject!Shown
                             /\ t.target \notin Subject!SubjectsWhereStudentHasTeam
  PROVE  SubjectInv'
<1>1. PICK k \in Tasks :
        /\ subjectTasks[k] = Subject!NoTask
        /\ subjectTasks' = [subjectTasks EXCEPT ![k] = t]
  BY SubjectSlot DEF Subject!Start, SubjectInv
<1>2. /\ subjectPage' # Null
      /\ subjectTasks'[k] = t /\ \A j \in Tasks \ {k} : subjectTasks'[j] = subjectTasks[j]
      /\ subjectTasks[k].kind = "none" /\ t.kind # "none"
      /\ k \in Subject!Running' /\ k \notin Subject!Running
      /\ \A j \in Subject!Running' \ {k} :
           j \in Subject!Running /\ subjectTasks'[j] = subjectTasks[j]
      /\ \A j \in Subject!Running : j \in Subject!Running' /\ j # k
  BY <1>1, SubjectsAssumption
  DEF SubjectInv, SubjectTyped, SubjectTask, Subject!NoTask, Subject!Running
<1>3. /\ subjectFlags' \in SubjectFlags /\ subjectBounds' \in SubjectBounds
      /\ subjectFlags'.linked = subjectFlags.linked
      /\ subjectBounds'.faults = subjectBounds.faults
      /\ subjectBounds'.elsewhere = subjectBounds.elsewhere
      /\ ~subjectFlags'.overlap => ~subjectFlags.overlap /\ Subject!Mattering = {}
  <2>1. subjectFlags \in SubjectFlags /\ subjectBounds \in SubjectBounds
    BY DEF SubjectInv, SubjectTyped
  <2>2. PICK over \in BOOLEAN :
          /\ subjectFlags' = [subjectFlags EXCEPT !.overlap = over]
          /\ ~over => ~subjectFlags.overlap /\ Subject!Mattering = {}
    BY DEF Subject!Start
  <2>3. subjectFlags' \in SubjectFlags /\ subjectFlags'.linked = subjectFlags.linked
    BY <2>1, <2>2 DEF SubjectFlags
  <2>4. subjectFlags'.overlap = over
    BY <2>1, <2>2 DEF SubjectFlags
  <2> QED
    BY <2>1, <2>2, <2>3, <2>4 DEF SubjectBounds
<1>4. SubjectTyped'
  <2>1. SubjectTaskSound(t)'
    BY <1>3, SubjectTaskStands
  <2> QED
    <3>1. SubjectTyped
      BY DEF SubjectInv
    <3> QED
      BY <1>1, <1>2, <1>3, <2>1, <3>1, SubjectTypes, SubjectTaskStep
<1>5. Subject!NeverStuck'
  <2>1. \A j \in Tasks : Subject!Attached(j) => Subject!Attached(j)' /\ subjectTasks'[j] = subjectTasks[j]
    BY <1>2 DEF Subject!Attached
  <2>2. subjectTasks'[k].mounted
    BY <1>2
  <2>3. Subject!Attached(k)'
    BY <1>2, <2>2 DEF Subject!Attached
  <2>4. subjectPage'.loading =>
          \E j \in Tasks : Subject!Attached(j)' /\ subjectTasks'[j].phase \in Loading
    <3>1. CASE t.kind = "load"
      <4>1. subjectTasks'[k].phase \in Loading
        BY <1>2, <3>1 DEF Loading
      <4> QED
        BY <2>3, <4>1
    <3>2. CASE t.kind # "load"
      BY <1>1, <2>1, <3>2 DEF SubjectInv, Subject!NeverStuck, Loading
    <3> QED
      BY <3>1, <3>2
  <2>5. subjectPage'.creating =>
          \E j \in Tasks : Subject!Attached(j)' /\ subjectTasks'[j].kind = "team"
    BY <1>1, <1>2, <2>1, <2>3 DEF SubjectInv, Subject!NeverStuck
  <2>6. \A d \in subjectPage'.submitting :
          \E j \in Tasks : /\ Subject!Attached(j)' /\ subjectTasks'[j].kind = "save"
                           /\ subjectTasks'[j].form.kind = d
    BY <1>1, <1>2, <2>1, <2>3 DEF SubjectInv, Subject!NeverStuck
  <2> QED
    BY <2>4, <2>5, <2>6 DEF Subject!NeverStuck, Loading
<1>6. Subject!SentToOwnTeam' /\ TeamsListed' /\ Subject!NoOrphans' /\ Subject!TeamsAreRegistered'
  BY <1>3 DEF SubjectInv, Subject!SentToOwnTeam, TeamsListed, Subject!NoOrphans, Subject!Exists,
              Subject!TeamsAreRegistered, Subject!Registered
<1>7. SubjectLinks'
  <2>1. t.phase # "checked"
    OBVIOUS
  <2> QED
    BY <1>2, <1>3, <2>1, SubjectLinksStand DEF SubjectInv
<1>8. SubjectCopies'
  <2>1. SUFFICES ASSUME Undisturbed'
                 PROVE  SubjectCopies'
    BY DEF SubjectCopies
  <2>2. Undisturbed /\ Subject!Mattering = {}
    BY <1>3, <2>1 DEF Undisturbed
  <2>3. \A j \in Subject!Mattering' : j = k
    BY <1>2, <2>2 DEF Subject!Mattering
  <2>4. Subject!Shown => subjectPage.rows = Subject!Listing
    BY <2>2 DEF SubjectInv, SubjectCopies
  <2>5. ASSUME t.kind = "leave", NEW p \in subjectRows.inTeam
        PROVE  subjectRows.of[p] # t.target
    <3>1. /\ p \in Projects /\ p \in Subject!Listing.inTeam
          /\ Subject!Listing.of[p] = subjectRows.of[p]
      <4>1. /\ p \in Projects /\ Subject!Exists(subjectRows, p)
            /\ subjectRows.of[p] # Null /\ Subject!Exists(subjectRows, subjectRows.of[p])
        BY <2>5, SubjectsAssumption
        DEF SubjectInv, SubjectTyped, Subject!TypeOK, Subject!Rows, SubjectLinks, TeamsListed
      <4> QED
        BY <2>5, <4>1 DEF Subject!Listing
    <3>2. subjectPage.rows = Subject!Listing
      BY <2>4, <2>5
    <3> QED
      BY <2>5, <3>1, <3>2 DEF Subject!SubjectsWhereStudentHasTeam
  <2>6. ASSUME NEW j \in Subject!Running'
        PROVE  /\ subjectTasks'[j].phase \notin {"checked", "loaded"} \/ j # k
               /\ j # k => /\ subjectTasks'[j] = subjectTasks[j] /\ ~subjectTasks[j].mounted
                           /\ subjectTasks[j].phase \in Loading
               /\ j = k => /\ subjectTasks'[j] = t /\ t.phase \in {"asked", "reload"}
                           /\ t.phase = "reload" => t.kind = "load"
    BY <1>2, <2>2 DEF Subject!Mattering, Loading
  <2>7. ASSUME NEW j \in Subject!Running'
        PROVE  /\ subjectTasks'[j].phase # "checked"
               /\ subjectTasks'[j].kind = "leave" /\ subjectTasks'[j].phase = "asked" =>
                    \A p \in subjectRows.inTeam : subjectRows.of[p] # subjectTasks'[j].target
               /\ subjectTasks'[j].mounted /\ subjectTasks'[j].phase \in Loading =>
                    subjectPage'.loading
               /\ subjectTasks'[j].mounted => subjectTasks'[j].phase # "loaded"
    <3>1. CASE j = k
      BY <2>5, <2>6, <3>1 DEF Loading
    <3>2. CASE j # k
      BY <2>6, <3>2 DEF Loading
    <3> QED
      BY <3>1, <3>2
  <2>8. Subject!Shown' => subjectPage'.rows = Subject!Listing'
    BY <1>2, <2>4, SubjectRowsSame DEF Subject!Shown
  <2>9. \A j \in Subject!Mattering' : subjectTasks'[j].mounted
    BY <1>2, <2>3
  <2> QED
    BY <2>3, <2>7, <2>8, <2>9 DEF SubjectCopies
<1> QED
  BY <1>4, <1>5, <1>6, <1>7, <1>8 DEF SubjectInv

LEMMA SubjectClicks ==
  ASSUME SubjectInv,
         \/ Subject!Open \/ Subject!HandleCreateTeam \/ Subject!HandleSave
         \/ Subject!HandleDeleteSubject
         \/ \E s \in Subjects : Subject!HandleRegisterSubject(s) \/ Subject!HandleLeaveSubject(s)
  PROVE  SubjectInv'
<1>1. /\ subjectPage # Null =>
           subjectPage \in Subject!Pages /\ DialogSound(subjectPage.dialog)
      /\ subjectRole \in {"student", "admin"}
  BY DEF SubjectInv, SubjectTyped, Subject!TypeOK
<1>2. CASE Subject!Open
  <2> DEFINE t == Subject!Task("load", "reload", Null, Null)
  <2>1. /\ t \in SubjectTask /\ SubjectTaskSound(t) /\ t.mounted
        /\ t.kind = "load" /\ t.phase = "reload"
    BY DEF Subject!Task, SubjectTask, SubjectTaskSound, Loading
  <2>2. Subject!NoRows \in Subject!Rows
    BY DEF Subject!NoRows, Subject!Rows
  <2>3. Subject!Closed \in Subject!Dialogs /\ DialogSound(Subject!Closed)
    BY DEF Subject!Closed, Subject!Dialogs, DialogSound, Subject!Kinds
  <2>4. /\ subjectPage' \in Subject!Pages /\ subjectPage'.loading /\ ~subjectPage'.creating
        /\ subjectPage'.submitting = {} /\ subjectPage'.dialog = Subject!Closed
    BY <1>2, <2>2, <2>3 DEF Subject!Open, Subject!Pages
  <2>5. /\ Subject!Start(t) /\ UNCHANGED <<subjectRole, subjectRows, sentTo>>
        /\ subjectBounds' = [subjectBounds EXCEPT !.clicks = @ + 1]
    BY <1>2 DEF Subject!Open, Subject!Click
  <2> HIDE DEF t
  <2> QED
    BY <2>1, <2>3, <2>4, <2>5, SubjectStart
<1>3. CASE Subject!HandleCreateTeam
  <2> DEFINE t == Subject!Task("team", "asked", subjectPage.dialog.target, Null)
  <2>1. /\ subjectPage # Null /\ ~subjectPage.loading /\ subjectPage.dialog.kind = "team"
        /\ subjectPage \in Subject!Pages
    BY <1>1, <1>3 DEF Subject!HandleCreateTeam, Subject!In, Subject!Shown
  <2>2. subjectPage.dialog.target \in Projects /\ subjectRole = "student"
    BY <1>1, <2>1 DEF DialogSound
  <2>3. /\ t \in SubjectTask /\ SubjectTaskSound(t) /\ t.mounted /\ t.kind = "team" /\ t.phase = "asked"
    BY <2>2 DEF Subject!Task, SubjectTask, SubjectTaskSound, Subject!Items, Loading
  <2>4. /\ subjectPage' \in Subject!Pages /\ subjectPage'.loading = subjectPage.loading
        /\ subjectPage'.rows = subjectPage.rows /\ subjectPage'.dialog = subjectPage.dialog
        /\ subjectPage'.submitting = subjectPage.submitting
    BY <1>3, <2>1 DEF Subject!HandleCreateTeam, Subject!Pages
  <2>5. /\ Subject!Start(t) /\ UNCHANGED <<subjectRole, subjectRows, sentTo>>
        /\ subjectBounds' = [subjectBounds EXCEPT !.clicks = @ + 1]
    BY <1>3 DEF Subject!HandleCreateTeam, Subject!Click
  <2> HIDE DEF t
  <2> QED
    BY <1>1, <2>1, <2>3, <2>4, <2>5, SubjectStart
<1>4. CASE Subject!HandleSave
  <2>1. /\ subjectPage # Null /\ ~subjectPage.loading /\ subjectPage.dialog.kind \in Subject!Kinds
        /\ subjectPage \in Subject!Pages /\ subjectPage.dialog \in Subject!Dialogs
    BY <1>1, <1>4 DEF Subject!HandleSave, Subject!In, Subject!Shown, Subject!Pages
  <2>2. PICK x \in Texts :
          LET form == [subjectPage.dialog EXCEPT !.text = x]
          IN Subject!Start(Subject!Task("save", "asked", form.target, form))
    BY <1>4 DEF Subject!HandleSave, Subject!Filled
  <2> DEFINE form == [subjectPage.dialog EXCEPT !.text = x]
             t == Subject!Task("save", "asked", form.target, form)
  <2>3. FormSound(subjectPage.dialog) /\ subjectRole = "admin"
    BY <1>1, <2>1 DEF DialogSound, Subject!Kinds
  <2>4. /\ form \in Subject!Dialogs /\ FormSound(form) /\ form.text = x
        /\ form.kind = subjectPage.dialog.kind /\ form.target \in Subject!Items \cup {Null}
    BY <2>1, <2>3 DEF FormSound, Subject!Dialogs
  <2> HIDE DEF form
  <2>5. /\ t \in SubjectTask /\ SubjectTaskSound(t) /\ t.mounted /\ t.kind = "save"
        /\ t.phase = "asked" /\ t.form = form
    BY <2>3, <2>4 DEF Subject!Task, SubjectTask, SubjectTaskSound, Loading
  <2>6. /\ subjectPage' \in Subject!Pages /\ subjectPage'.loading = subjectPage.loading
        /\ subjectPage'.rows = subjectPage.rows /\ subjectPage'.dialog = subjectPage.dialog
        /\ subjectPage'.creating = subjectPage.creating
        /\ subjectPage'.submitting = subjectPage.submitting \cup {subjectPage.dialog.kind}
    BY <1>4, <2>1 DEF Subject!HandleSave, Subject!Pages
  <2>7. /\ Subject!Start(t) /\ UNCHANGED <<subjectRole, subjectRows, sentTo>>
        /\ subjectBounds' = [subjectBounds EXCEPT !.clicks = @ + 1]
    BY <1>4, <2>2 DEF Subject!HandleSave, Subject!Click, form
  <2> HIDE DEF t
  <2> QED
    BY <1>1, <2>1, <2>4, <2>5, <2>6, <2>7, SubjectStart
<1>5. ASSUME NEW t \in SubjectTask, SubjectTaskSound(t), t.mounted, t.phase = "asked",
             t.kind \in {"register", "leave", "delete"}, Subject!Start(t), Subject!Shown,
             UNCHANGED <<subjectRole, subjectRows, subjectPage, sentTo>>,
             subjectBounds' = [subjectBounds EXCEPT !.clicks = @ + 1],
             t.kind = "leave" => /\ subjectRole = "student"
                                 /\ t.target \notin Subject!SubjectsWhereStudentHasTeam
      PROVE  SubjectInv'
  BY <1>1, <1>5, SubjectStart DEF Subject!Shown
<1>6. CASE Subject!HandleDeleteSubject
  <2> DEFINE t == Subject!Task("delete", "asked", subjectPage.dialog.target, Null)
  <2>1. subjectPage # Null /\ subjectPage.dialog.kind = "delete" /\ Subject!Shown
    BY <1>6 DEF Subject!HandleDeleteSubject, Subject!In, Subject!Shown
  <2>2. subjectPage.dialog.target \in Subjects /\ subjectRole = "admin"
    BY <1>1, <2>1 DEF DialogSound
  <2>3. /\ t \in SubjectTask /\ SubjectTaskSound(t) /\ t.mounted /\ t.kind = "delete" /\ t.phase = "asked"
    BY <2>2 DEF Subject!Task, SubjectTask, SubjectTaskSound, Subject!Items, Loading
  <2>4. /\ Subject!Start(t) /\ UNCHANGED <<subjectRole, subjectRows, subjectPage, sentTo>>
        /\ subjectBounds' = [subjectBounds EXCEPT !.clicks = @ + 1]
    BY <1>6 DEF Subject!HandleDeleteSubject, Subject!Click
  <2> HIDE DEF t
  <2> QED
    BY <1>5, <2>1, <2>3, <2>4
<1>7. ASSUME NEW s \in Subjects, Subject!HandleRegisterSubject(s) \/ Subject!HandleLeaveSubject(s)
      PROVE  SubjectInv'
  <2>1. PICK kind \in {"register", "leave"} :
          /\ Subject!Start(Subject!Task(kind, "asked", s, Null))
          /\ kind = "leave" => s \notin Subject!SubjectsWhereStudentHasTeam
    BY <1>7 DEF Subject!HandleRegisterSubject, Subject!HandleLeaveSubject
  <2> DEFINE t == Subject!Task(kind, "asked", s, Null)
  <2>2. /\ Subject!Shown /\ subjectRole = "student"
        /\ UNCHANGED <<subjectRole, subjectRows, subjectPage, sentTo>>
        /\ subjectBounds' = [subjectBounds EXCEPT !.clicks = @ + 1]
    BY <1>7 DEF Subject!HandleRegisterSubject, Subject!HandleLeaveSubject, Subject!IsStudent, Subject!Click
  <2>3. /\ t \in SubjectTask /\ SubjectTaskSound(t) /\ t.mounted /\ t.kind = kind
        /\ t.phase = "asked" /\ t.target = s
    BY <2>2 DEF Subject!Task, SubjectTask, SubjectTaskSound, Subject!Items, Loading
  <2> HIDE DEF t
  <2> QED
    BY <1>5, <2>1, <2>2, <2>3 DEF t
<1> QED
  BY <1>2, <1>3, <1>4, <1>6, <1>7

(* The page goes, and its tasks run on without it.                               *)
LEMMA SubjectUnmounts ==
  ASSUME SubjectInv, subjectPage' = Null, UNCHANGED <<subjectRole, subjectRows>>,
         subjectFlags' \in SubjectFlags, subjectFlags'.overlap = subjectFlags.overlap,
         subjectFlags'.linked = subjectFlags.linked,
         subjectBounds' \in SubjectBounds, subjectBounds'.faults = subjectBounds.faults,
         subjectBounds'.elsewhere = subjectBounds.elsewhere,
         sentTo' = sentTo \/ sentTo' \in subjectRows.inTeam,
         DOMAIN subjectTasks' = Tasks, subjectTasks' = [j \in Tasks |-> subjectTasks'[j]],
         \A j \in Tasks :
           \/ subjectTasks'[j] = Subject!NoTask
           \/ /\ j \in Subject!Running
              /\ subjectTasks'[j] = [subjectTasks[j] EXCEPT !.mounted = FALSE]
  PROVE  SubjectInv'
<1>1. ASSUME NEW j \in Subject!Running'
      PROVE  /\ j \in Tasks /\ j \in Subject!Running
             /\ subjectTasks'[j] \in SubjectTask /\ SubjectTaskSound(subjectTasks[j])'
             /\ ~subjectTasks'[j].mounted
             /\ subjectTasks'[j].kind = subjectTasks[j].kind
             /\ subjectTasks'[j].phase = subjectTasks[j].phase
             /\ subjectTasks'[j].target = subjectTasks[j].target
             /\ subjectTasks'[j].form = subjectTasks[j].form
  <2>1. /\ j \in Tasks /\ j \in Subject!Running
        /\ subjectTasks'[j] = [subjectTasks[j] EXCEPT !.mounted = FALSE]
    BY DEF Subject!Running, Subject!NoTask
  <2>2. subjectTasks[j] \in SubjectTask /\ SubjectTaskSound(subjectTasks[j])
    BY <2>1, SubjectTaskType DEF SubjectInv
  <2>3. /\ subjectTasks'[j] \in SubjectTask
        /\ ~subjectTasks'[j].mounted
        /\ subjectTasks'[j].kind = subjectTasks[j].kind
        /\ subjectTasks'[j].phase = subjectTasks[j].phase
        /\ subjectTasks'[j].target = subjectTasks[j].target
        /\ subjectTasks'[j].form = subjectTasks[j].form
        /\ subjectTasks'[j].rows = subjectTasks[j].rows
    BY <2>1, <2>2 DEF SubjectTask
  <2>4. SubjectTaskSound(subjectTasks[j])'
    BY <2>2, <2>3 DEF SubjectTaskSound, FormSound
  <2> QED
    BY <2>1, <2>3, <2>4
<1>2. SubjectTyped'
  <2>1. ASSUME NEW j \in Tasks, subjectTasks'[j] # Subject!NoTask
        PROVE  subjectTasks'[j] \in SubjectTask
    <3>1. j \in Subject!Running /\ subjectTasks'[j] = [subjectTasks[j] EXCEPT !.mounted = FALSE]
      BY <2>1
    <3>2. subjectTasks[j] \in SubjectTask
      BY <3>1, SubjectTaskType DEF SubjectInv
    <3> QED
      BY <3>1, <3>2 DEF SubjectTask
  <2>2. subjectTasks' \in [Tasks -> SubjectTask \cup {Subject!NoTask}]
    BY <2>1
  <2>3. Subject!TypeOK'
    BY <1>1 DEF Subject!TypeOK, SubjectTask, SubjectInv, SubjectTyped, Subject!Rows
  <2> QED
    BY <1>1, <2>2, <2>3 DEF SubjectInv, SubjectTyped
<1>3. Subject!NeverStuck'
  BY DEF Subject!NeverStuck
<1>4. Subject!SentToOwnTeam' /\ TeamsListed' /\ Subject!NoOrphans' /\ Subject!TeamsAreRegistered'
  BY DEF SubjectInv, Subject!SentToOwnTeam, TeamsListed, Subject!NoOrphans, Subject!Exists,
         Subject!TeamsAreRegistered, Subject!Registered
<1>5. SubjectLinks'
  <2>1. ASSUME ~subjectFlags'.linked, NEW j \in Subject!Running',
               subjectTasks'[j].kind = "delete", subjectTasks'[j].phase = "checked"
        PROVE  Subject!Allowed(subjectTasks[j])'
    <3>1. Subject!Allowed(subjectTasks[j])
      BY <1>1, <2>1 DEF SubjectInv, SubjectLinks
    <3> QED
      BY <1>1, <2>1, <3>1 DEF Subject!Allowed, Subject!Exists
  <2> QED
    BY <2>1 DEF SubjectInv, SubjectLinks, Subject!Exists
<1>6. SubjectCopies'
  <2>1. SUFFICES ASSUME Undisturbed'
                 PROVE  SubjectCopies'
    BY DEF SubjectCopies
  <2>2. Undisturbed
    BY <2>1 DEF Undisturbed
  <2>3. \A j \in Subject!Mattering' : j \in Subject!Mattering
    BY <1>1 DEF Subject!Mattering
  <2>4. \A k1, k2 \in Subject!Mattering' : k1 = k2
    BY <2>2, <2>3 DEF SubjectInv, SubjectCopies
  <2>5. ASSUME NEW j \in Subject!Running'
        PROVE  /\ subjectTasks'[j].kind = "team" /\ subjectTasks'[j].phase = "checked" =>
                    subjectRows'.of[subjectTasks'[j].target] \in subjectRows'.registered
               /\ subjectTasks'[j].kind = "leave" /\ subjectTasks'[j].phase = "asked" =>
                    \A p \in subjectRows'.inTeam : subjectRows'.of[p] # subjectTasks'[j].target
    BY <1>1, <2>2 DEF SubjectInv, SubjectCopies
  <2> QED
    BY <1>1, <2>4, <2>5 DEF SubjectCopies, Subject!Shown
<1> QED
  BY <1>2, <1>3, <1>4, <1>5, <1>6 DEF SubjectInv

LEMMA SubjectLeave ==
  ASSUME SubjectInv, Subject!Leave
  PROVE  SubjectInv'
<1>1. /\ subjectBounds' \in SubjectBounds /\ subjectBounds'.faults = subjectBounds.faults
      /\ subjectBounds'.elsewhere = subjectBounds.elsewhere
  BY DEF Subject!Leave, Subject!Click, SubjectBounds, SubjectInv, SubjectTyped
<1> QED
  BY <1>1, SubjectUnmounts DEF Subject!Leave, SubjectInv, SubjectTyped

(* What is true of the rows stays true while nobody writes.                      *)
LEMMA SubjectRowsStand ==
  ASSUME SubjectInv, UNCHANGED <<subjectRole, subjectRows, sentTo>>,
         subjectFlags'.linked = subjectFlags.linked, Undisturbed' => Undisturbed
  PROVE  /\ Subject!SentToOwnTeam' /\ TeamsListed' /\ Subject!NoOrphans'
         /\ (Undisturbed' => Subject!Registered')
<1>1. Subject!SentToOwnTeam' /\ TeamsListed' /\ Subject!NoOrphans'
  BY DEF SubjectInv, Subject!SentToOwnTeam, TeamsListed, Subject!NoOrphans, Subject!Exists
<1>2. Undisturbed' => Subject!Registered'
  BY DEF SubjectInv, Subject!TeamsAreRegistered, Subject!Registered, Undisturbed
<1> QED
  BY <1>1, <1>2

(* A task that takes a step and writes no rows: a check, a listing, an answer     *)
(* after which the page loads again.                                               *)
LEMMA SubjectGoesOn ==
  ASSUME SubjectInv, NEW k \in Subject!Running, NEW t \in SubjectTask, SubjectTaskSound(t)',
         subjectTasks' = [subjectTasks EXCEPT ![k] = t],
         t.kind = subjectTasks[k].kind, t.form = subjectTasks[k].form,
         t.mounted = subjectTasks[k].mounted,
         subjectTasks[k].phase \in Loading => t.phase \in Loading,
         UNCHANGED <<subjectRole, subjectRows, sentTo>>,
         subjectFlags' \in SubjectFlags, subjectFlags'.linked = subjectFlags.linked,
         subjectBounds' \in SubjectBounds,
         subjectBounds.faults # 0 => subjectBounds'.faults # 0,
         Undisturbed' => Undisturbed,
         \/ subjectPage' = subjectPage
         \/ /\ t.mounted /\ t.phase = "reload"
            /\ subjectPage' \in Subject!Pages /\ subjectPage'.loading
            /\ subjectPage'.submitting = subjectPage.submitting
            /\ subjectPage'.creating = subjectPage.creating
            /\ DialogSound(subjectPage'.dialog),
         t.phase = "checked" => Subject!Allowed(t) /\ t.kind \in {"team", "delete"},
         Undisturbed' =>
           /\ t.phase \notin {"asked", "done"}
           /\ t.mounted /\ t.phase \in Loading => subjectPage'.loading
           /\ t.phase = "loaded" => t.rows = Subject!Listing
           /\ subjectTasks[k].phase = "done" => t.phase = "reload"
  PROVE  SubjectInv'
<1>1. /\ k \in Tasks /\ SubjectTyped /\ SubjectTaskSound(subjectTasks[k])
      /\ subjectTasks[k] \in SubjectTask /\ subjectTasks[k].kind # "none"
      /\ t.mounted => subjectPage \in Subject!Pages /\ subjectPage # Null
  BY SubjectTaskType DEF SubjectInv, Subject!Running
<1>2. /\ subjectTasks'[k] = t /\ k \in Subject!Running'
      /\ \A j \in Subject!Running' \ {k} : j \in Subject!Running /\ subjectTasks'[j] = subjectTasks[j]
      /\ \A j \in Subject!Running \ {k} : j \in Subject!Running' /\ subjectTasks'[j] = subjectTasks[j]
  BY <1>1 DEF SubjectTyped, Subject!Running
<1>3. /\ subjectPage' \in Subject!Pages \cup {Null}
      /\ subjectPage = Null <=> subjectPage' = Null
      /\ subjectPage' # Null => DialogSound(subjectPage'.dialog)
      /\ subjectPage' # Null => /\ subjectPage'.submitting = subjectPage.submitting
                                /\ subjectPage'.creating = subjectPage.creating
      /\ subjectPage' # subjectPage => t.mounted /\ t.phase = "reload" /\ subjectPage'.loading
  BY <1>1, SubjectsAssumption DEF SubjectTyped, Subject!TypeOK
<1>4. SubjectTyped'
  BY <1>1, <1>3, SubjectTypes, SubjectTaskStep
<1>5. Subject!NeverStuck'
  <2>1. \A j \in Tasks : Subject!Attached(j) =>
          /\ Subject!Attached(j)' /\ subjectTasks'[j].kind = subjectTasks[j].kind
          /\ subjectTasks'[j].form = subjectTasks[j].form
          /\ subjectTasks[j].phase \in Loading => subjectTasks'[j].phase \in Loading
    <3>1. Subject!Attached(k) => Subject!Attached(k)'
      BY <1>2 DEF Subject!Attached
    <3>2. \A j \in Subject!Running \ {k} : Subject!Attached(j) => Subject!Attached(j)'
      BY <1>2 DEF Subject!Attached
    <3> QED
      BY <1>2, <3>1, <3>2 DEF Subject!Attached
  <2>2. ASSUME subjectPage' # Null, subjectPage'.loading
        PROVE  \E j \in Tasks : Subject!Attached(j)' /\ subjectTasks'[j].phase \in Loading
    <3>1. CASE subjectPage' = subjectPage
      BY <2>1, <2>2, <3>1 DEF SubjectInv, Subject!NeverStuck, Loading
    <3>2. CASE subjectPage' # subjectPage
      <4>1. t.mounted /\ t.phase \in Loading
        BY <1>3, <3>2 DEF Loading
      <4>2. Subject!Attached(k)' /\ subjectTasks'[k].phase \in Loading
        BY <1>2, <4>1 DEF Subject!Attached
      <4> QED
        BY <1>1, <4>2
    <3> QED
      BY <3>1, <3>2
  <2>3. subjectPage' # Null /\ subjectPage'.creating =>
          \E j \in Tasks : Subject!Attached(j)' /\ subjectTasks'[j].kind = "team"
    <3> SUFFICES ASSUME subjectPage' # Null, subjectPage'.creating
                 PROVE  \E j \in Tasks : Subject!Attached(j)' /\ subjectTasks'[j].kind = "team"
      OBVIOUS
    <3>1. subjectPage # Null /\ subjectPage.creating
      BY <1>3
    <3>2. PICK j \in Tasks : Subject!Attached(j) /\ subjectTasks[j].kind = "team"
      BY <3>1 DEF SubjectInv, Subject!NeverStuck
    <3> QED
      BY <2>1, <3>2
  <2>4. subjectPage' # Null =>
          \A d \in subjectPage'.submitting :
            \E j \in Tasks : /\ Subject!Attached(j)' /\ subjectTasks'[j].kind = "save"
                             /\ subjectTasks'[j].form.kind = d
    <3> SUFFICES ASSUME subjectPage' # Null, NEW d \in subjectPage'.submitting
                 PROVE  \E j \in Tasks : /\ Subject!Attached(j)' /\ subjectTasks'[j].kind = "save"
                                         /\ subjectTasks'[j].form.kind = d
      OBVIOUS
    <3>1. subjectPage # Null /\ d \in subjectPage.submitting
      BY <1>3
    <3>2. PICK j \in Tasks : /\ Subject!Attached(j) /\ subjectTasks[j].kind = "save"
                             /\ subjectTasks[j].form.kind = d
      BY <3>1 DEF SubjectInv, Subject!NeverStuck
    <3> QED
      BY <2>1, <3>2
  <2> QED
    BY <2>2, <2>3, <2>4 DEF Subject!NeverStuck, Loading
<1>6. /\ Subject!SentToOwnTeam' /\ TeamsListed' /\ Subject!NoOrphans'
      /\ (Undisturbed' => Subject!Registered')
  BY SubjectRowsStand
<1>7. SubjectLinks'
  <2>1. ASSUME ~subjectFlags'.linked, NEW j \in Subject!Running',
               subjectTasks'[j].kind = "delete", subjectTasks'[j].phase = "checked"
        PROVE  Subject!Allowed(subjectTasks[j])'
    <3>1. Subject!Allowed(subjectTasks'[j])
      BY <1>2, <2>1 DEF SubjectInv, SubjectLinks
    <3> QED
      BY <3>1 DEF Subject!Allowed, Subject!Exists
  <2> QED
    BY <2>1 DEF SubjectInv, SubjectLinks, Subject!Exists
<1>8. SubjectCopies'
  <2>1. SUFFICES ASSUME Undisturbed'
                 PROVE  SubjectCopies'
    BY DEF SubjectCopies
  <2>2. /\ \A k1, k2 \in Subject!Mattering : k1 = k2
        /\ subjectPage # Null => \A j \in Subject!Mattering : subjectTasks[j].mounted
        /\ Subject!Shown /\ (\A j \in Subject!Mattering : subjectTasks[j].phase # "done") =>
             subjectPage.rows = Subject!Listing
    BY <2>1 DEF SubjectInv, SubjectCopies
  <2>3. \A j \in Subject!Mattering' : j \in Subject!Mattering
    <3>1. k \in Subject!Mattering' => k \in Subject!Mattering
      BY <1>2 DEF Subject!Mattering, Loading
    <3> QED
      BY <1>2, <3>1 DEF Subject!Mattering
  <2>4. \A k1, k2 \in Subject!Mattering' : k1 = k2
    BY <2>2, <2>3
  <2>5. subjectPage' # Null => \A j \in Subject!Mattering' : subjectTasks'[j].mounted
    <3>1. ASSUME subjectPage' # Null, NEW j \in Subject!Mattering'
          PROVE  subjectTasks'[j].mounted
      <4>1. subjectTasks[j].mounted
        BY <1>3, <2>2, <2>3, <3>1
      <4>2. j \in Subject!Running'
        BY DEF Subject!Mattering
      <4> QED
        BY <1>2, <4>1, <4>2
    <3> QED
      BY <3>1
  <2>6. ASSUME NEW j \in Subject!Running'
        PROVE  LET task == subjectTasks'[j]
               IN /\ task.kind = "team" /\ task.phase = "checked" =>
                       subjectRows.of[task.target] \in subjectRows.registered
                  /\ task.kind = "leave" /\ task.phase = "asked" =>
                       \A p \in subjectRows.inTeam : subjectRows.of[p] # task.target
                  /\ task.mounted /\ task.phase \in Loading => subjectPage'.loading
                  /\ task.mounted /\ task.phase = "loaded" => task.rows = Subject!Listing
    <3>1. CASE j = k
      BY <1>2, <2>1, <3>1 DEF Subject!Allowed
    <3>2. CASE j # k
      <4>1. j \in Subject!Running /\ subjectTasks'[j] = subjectTasks[j]
        BY <1>2, <3>2
      <4>2. subjectTasks[j].mounted /\ subjectTasks[j].phase \in Loading => subjectPage'.loading
        BY <1>3, <2>1, <4>1 DEF SubjectInv, SubjectCopies
      <4> QED
        BY <2>1, <4>1, <4>2 DEF SubjectInv, SubjectCopies
    <3> QED
      BY <3>1, <3>2
  <2>7. Subject!Shown' /\ (\A j \in Subject!Mattering' : subjectTasks'[j].phase # "done") =>
          subjectPage'.rows = Subject!Listing
    <3>1. SUFFICES ASSUME Subject!Shown',
                          \A j \in Subject!Mattering' : subjectTasks'[j].phase # "done"
                   PROVE  subjectPage'.rows = Subject!Listing
      OBVIOUS
    <3>2. subjectPage' = subjectPage /\ Subject!Shown
      BY <1>3, <3>1 DEF Subject!Shown
    <3>3. subjectTasks[k].phase # "done"
      <4>1. SUFFICES ASSUME subjectTasks[k].phase = "done"
                     PROVE  FALSE
        OBVIOUS
      <4>2. k \in Subject!Mattering /\ subjectTasks[k].mounted
        BY <2>2, <3>2, <4>1 DEF Subject!Mattering, Subject!Shown
      <4>3. subjectPage'.loading
        BY <2>1, <4>1, <4>2 DEF Loading
      <4> QED
        BY <3>1, <4>3 DEF Subject!Shown
    <3>4. \A j \in Subject!Mattering : subjectTasks[j].phase # "done"
      <4>1. ASSUME NEW j \in Subject!Mattering, subjectTasks[j].phase = "done"
            PROVE  FALSE
        <5>1. j # k /\ j \in Subject!Running /\ subjectTasks'[j] = subjectTasks[j]
          BY <1>2, <3>3, <4>1 DEF Subject!Mattering
        <5>2. j \in Subject!Mattering'
          BY <1>2, <4>1, <5>1 DEF Subject!Mattering
        <5> QED
          BY <3>1, <4>1, <5>1, <5>2
      <4> QED
        BY <4>1
    <3> QED
      BY <2>2, <3>2, <3>4
  <2> QED
    BY <2>4, <2>5, <2>6, <2>7, SubjectRowsSame DEF SubjectCopies
<1>9. Subject!TeamsAreRegistered'
  BY <1>6 DEF Subject!TeamsAreRegistered, Undisturbed
<1> QED
  BY <1>4, <1>5, <1>6, <1>7, <1>8, <1>9 DEF SubjectInv

(* The write of a task is done: the page loads again, if it is still there.      *)
LEMMA SubjectWriteAnswered ==
  ASSUME SubjectInv, NEW k \in Tasks, Subject!WriteAnswered(k)
  PROVE  SubjectInv'
<1>0. PICK t : t = [subjectTasks[k] EXCEPT !.phase = "reload"]
  OBVIOUS
<1>1. /\ k \in Subject!Running /\ subjectTasks[k].phase = "done"
      /\ subjectTasks' = [subjectTasks EXCEPT ![k] = t]
      /\ UNCHANGED <<subjectRole, subjectRows, sentTo, subjectBounds, subjectFlags>>
  BY <1>0 DEF Subject!WriteAnswered
<1>2. /\ subjectTasks[k] \in SubjectTask /\ SubjectTaskSound(subjectTasks[k])
      /\ subjectTasks[k].mounted => subjectPage \in Subject!Pages /\ subjectPage # Null
      /\ SubjectTyped
  BY <1>1, SubjectTaskType DEF SubjectInv
<1>3. /\ t \in SubjectTask /\ t.phase = "reload" /\ t.kind = subjectTasks[k].kind
      /\ t.target = subjectTasks[k].target /\ t.form = subjectTasks[k].form
      /\ t.mounted = subjectTasks[k].mounted /\ t.kind # "none"
  BY <1>0, <1>1, <1>2 DEF SubjectTask
<1>4. SubjectTaskSound(t)'
  BY <1>1, <1>2, <1>3 DEF SubjectTaskSound, FormSound, Loading
<1>5. /\ subjectFlags' \in SubjectFlags /\ subjectBounds' \in SubjectBounds
      /\ Undisturbed' => Undisturbed
      /\ t.phase \in Loading
  BY <1>1, <1>2, <1>3 DEF SubjectTyped, Undisturbed, Loading
<1>6. CASE ~t.mounted
  <2>1. subjectPage' = subjectPage
    BY <1>3, <1>6 DEF Subject!WriteAnswered, Subject!SetPage
  <2> QED
    BY <1>1, <1>3, <1>4, <1>6, <1>5, <2>1, SubjectGoesOn
<1>7. CASE t.mounted
  <2>1. PICK d \in Subject!Dialogs :
          /\ DialogSound(d)
          /\ subjectPage' = [subjectPage EXCEPT !.loading = TRUE, !.dialog = d]
    <3>1. Subject!Closed \in Subject!Dialogs /\ DialogSound(Subject!Closed)
      BY DEF Subject!Closed, Subject!Dialogs, DialogSound, Subject!Kinds
    <3>2. subjectPage.dialog \in Subject!Dialogs /\ DialogSound(subjectPage.dialog)
      BY <1>2, <1>3, <1>7 DEF SubjectTyped, Subject!Pages
    <3> QED
      BY <1>3, <1>7, <3>1, <3>2 DEF Subject!WriteAnswered, Subject!SetPage
  <2>2. /\ subjectPage' \in Subject!Pages /\ subjectPage' # Null /\ subjectPage'.loading
        /\ subjectPage'.submitting = subjectPage.submitting
        /\ subjectPage'.creating = subjectPage.creating /\ subjectPage'.dialog = d
        /\ subjectPage'.rows = subjectPage.rows
    BY <1>2, <1>3, <1>7, <2>1, SubjectsAssumption DEF Subject!Pages
  <2> QED
    BY <1>1, <1>3, <1>4, <1>7, <1>5, <2>1, <2>2, SubjectGoesOn
<1> QED
  BY <1>6, <1>7

(* A part of the listing is a listing all the same.                              *)
LEMMA SubjectServedPartly ==
  ASSUME NEW k, Subject!ServeLoadPartly(k), subjectRows \in Subject!Rows
  PROVE  \E rows \in Subject!Rows :
           subjectTasks' = [subjectTasks EXCEPT ![k].phase = "loaded", ![k].rows = rows]
<1>1. PICK skipped \in SUBSET Subjects :
        \E teamless \in SUBSET subjectRows.inTeam :
          subjectTasks' = [subjectTasks EXCEPT ![k].phase = "loaded",
                             ![k].rows = Subject!PartOfListing(skipped, teamless)]
  BY Zenon DEF Subject!ServeLoadPartly
<1>2. PICK teamless \in SUBSET subjectRows.inTeam :
        subjectTasks' = [subjectTasks EXCEPT ![k].phase = "loaded",
                           ![k].rows = Subject!PartOfListing(skipped, teamless)]
  BY <1>1, Zenon
<1>3. Subject!Listing \in Subject!Rows
  BY DEF Subject!Rows, Subject!Listing
<1>4. Subject!PartOfListing(skipped, teamless) \in Subject!Rows
  BY <1>3 DEF Subject!Rows, Subject!PartOfListing
<1> QED
  BY <1>2, <1>4

(* The calls that write no rows.                                                 *)
LEMMA SubjectServices ==
  ASSUME SubjectInv, NEW k \in Tasks,
         \/ Subject!ServeCheck(k) \/ Subject!ServeLoad(k) \/ Subject!ServeLoadPartly(k)
         \/ Subject!CallFails(k)
  PROVE  SubjectInv'
<1>1. k \in Subject!Running
  BY DEF Subject!ServeCheck, Subject!ServeLoad, Subject!ServeLoadPartly, Subject!CallFails
<1>2. /\ subjectTasks[k] \in SubjectTask /\ SubjectTaskSound(subjectTasks[k])
      /\ SubjectTyped
  BY <1>1, SubjectTaskType DEF SubjectInv
<1>3. subjectFlags \in SubjectFlags /\ subjectBounds \in SubjectBounds
  BY <1>2 DEF SubjectTyped
<1>4. CASE Subject!ServeCheck(k)
  <2>1. /\ UNCHANGED <<subjectRole, subjectRows, subjectPage, sentTo, subjectBounds, subjectFlags>>
        /\ subjectTasks[k].kind \in {"team", "delete"} /\ subjectTasks[k].phase = "asked"
    BY <1>4 DEF Subject!ServeCheck
  <2>2. PICK phase \in {"checked", "failed"} :
          /\ subjectTasks' = [subjectTasks EXCEPT ![k].phase = phase]
          /\ phase = "checked" => Subject!Allowed(subjectTasks[k])
    BY <1>4 DEF Subject!ServeCheck
  <2>6. PICK t : t = [subjectTasks[k] EXCEPT !.phase = phase]
    OBVIOUS
  <2>3. /\ t \in SubjectTask /\ t.phase = phase /\ t.kind = subjectTasks[k].kind
        /\ t.target = subjectTasks[k].target /\ t.form = subjectTasks[k].form
        /\ t.mounted = subjectTasks[k].mounted
        /\ subjectTasks' = [subjectTasks EXCEPT ![k] = t]
    BY <1>2, <2>2, <2>6 DEF SubjectTask
  <2>4. SubjectTaskSound(t)'
    BY <1>2, <2>1, <2>3 DEF SubjectTaskSound, FormSound, Loading
  <2>5. t.phase = "checked" => Subject!Allowed(t) /\ t.kind \in {"team", "delete"}
    BY <2>1, <2>2, <2>3 DEF Subject!Allowed
  <2> QED
    BY <1>1, <1>3, <2>1, <2>3, <2>4, <2>5, SubjectGoesOn DEF Undisturbed, Loading
<1>5. CASE Subject!ServeLoad(k)
  <2>1. /\ UNCHANGED <<subjectRole, subjectRows, subjectPage, sentTo, subjectBounds>>
        /\ subjectTasks[k].phase = "reload"
        /\ subjectTasks' = [subjectTasks EXCEPT ![k].phase = "loaded", ![k].rows = Subject!Listing]
    BY <1>5 DEF Subject!ServeLoad
  <2>2. /\ subjectFlags' \in SubjectFlags /\ subjectFlags'.linked = subjectFlags.linked
        /\ subjectFlags'.overlap = subjectFlags.overlap
    <3>1. PICK stale \in BOOLEAN : subjectFlags' = [subjectFlags EXCEPT !.stale = stale]
      BY <1>3, <1>5 DEF Subject!ServeLoad, SubjectFlags
    <3> QED
      BY <1>3, <3>1 DEF SubjectFlags
  <2>7. PICK t : t = [subjectTasks[k] EXCEPT !.phase = "loaded", !.rows = Subject!Listing]
    OBVIOUS
  <2>3. Subject!Listing \in Subject!Rows
    BY <1>2 DEF SubjectTyped, Subject!TypeOK, Subject!Rows, Subject!Listing
  <2>4. /\ t \in SubjectTask /\ t.phase = "loaded" /\ t.kind = subjectTasks[k].kind
        /\ t.target = subjectTasks[k].target /\ t.form = subjectTasks[k].form
        /\ t.mounted = subjectTasks[k].mounted /\ t.rows = Subject!Listing
        /\ subjectTasks' = [subjectTasks EXCEPT ![k] = t]
    BY <1>2, <2>1, <2>3, <2>7 DEF SubjectTask
  <2>5. SubjectTaskSound(t)'
    BY <1>2, <2>1, <2>3, <2>4 DEF SubjectTaskSound, FormSound, Loading
  <2>6. Undisturbed' => Undisturbed /\ (t.mounted => subjectPage.loading)
    BY <1>1, <2>1, <2>2, <2>4 DEF Undisturbed, SubjectInv, SubjectCopies, Loading
  <2> QED
    BY <1>1, <1>3, <2>1, <2>2, <2>4, <2>5, <2>6, SubjectGoesOn DEF Loading
<1>6. CASE Subject!CallFails(k)
  <2>1. /\ UNCHANGED <<subjectRole, subjectRows, subjectPage, sentTo>>
        /\ subjectBounds' = [subjectBounds EXCEPT !.faults = @ + 1]
    BY <1>6 DEF Subject!CallFails, Subject!Fault
  <2>2. subjectBounds' \in SubjectBounds /\ subjectBounds'.faults # 0
    BY <1>3, <2>1 DEF SubjectBounds
  <2>3. subjectFlags' \in SubjectFlags /\ subjectFlags'.linked = subjectFlags.linked
    <3>1. PICK stale \in BOOLEAN : subjectFlags' = [subjectFlags EXCEPT !.stale = stale]
      BY <1>3, <1>6 DEF Subject!CallFails, SubjectFlags
    <3> QED
      BY <1>3, <3>1 DEF SubjectFlags
  <2>4. PICK phase \in {"failed", "loadFailed"} :
          /\ subjectTasks' = [subjectTasks EXCEPT ![k].phase = phase]
          /\ subjectTasks[k].phase \in Loading <=> phase = "loadFailed"
    BY <1>6 DEF Subject!CallFails, Loading
  <2>8. PICK t : t = [subjectTasks[k] EXCEPT !.phase = phase]
    OBVIOUS
  <2>5. /\ t \in SubjectTask /\ t.phase = phase /\ t.kind = subjectTasks[k].kind
        /\ t.target = subjectTasks[k].target /\ t.form = subjectTasks[k].form
        /\ t.mounted = subjectTasks[k].mounted
        /\ subjectTasks' = [subjectTasks EXCEPT ![k] = t]
    BY <1>2, <2>4, <2>8 DEF SubjectTask
  <2>6. SubjectTaskSound(t)'
    BY <1>2, <2>1, <2>2, <2>4, <2>5 DEF SubjectTaskSound, FormSound, Loading
  <2>7. ~Undisturbed'
    BY <2>2 DEF Undisturbed
  <2> QED
    BY <1>1, <2>1, <2>2, <2>3, <2>4, <2>5, <2>6, <2>7, SubjectGoesOn DEF Loading
<1>7. CASE Subject!ServeLoadPartly(k)
  <2>1. /\ UNCHANGED <<subjectRole, subjectRows, subjectPage, sentTo>>
        /\ subjectBounds' = [subjectBounds EXCEPT !.faults = @ + 1]
        /\ subjectTasks[k].phase = "reload"
    BY <1>7 DEF Subject!ServeLoadPartly, Subject!Fault
  <2>2. subjectBounds' \in SubjectBounds /\ subjectBounds'.faults # 0
    BY <1>3, <2>1 DEF SubjectBounds
  <2>3. subjectFlags' \in SubjectFlags /\ subjectFlags'.linked = subjectFlags.linked
    <3>1. PICK stale \in BOOLEAN : subjectFlags' = [subjectFlags EXCEPT !.stale = stale]
      BY <1>2, <1>3, <1>7 DEF Subject!ServeLoadPartly, SubjectFlags
    <3> QED
      BY <1>3, <3>1 DEF SubjectFlags
  <2>4. PICK rows \in Subject!Rows :
          subjectTasks' = [subjectTasks EXCEPT ![k].phase = "loaded", ![k].rows = rows]
    BY <1>2, <1>7, SubjectServedPartly DEF SubjectTyped, Subject!TypeOK
  <2>5. PICK t : t = [subjectTasks[k] EXCEPT !.phase = "loaded", !.rows = rows]
    OBVIOUS
  <2>6. /\ t \in SubjectTask /\ t.phase = "loaded" /\ t.kind = subjectTasks[k].kind
        /\ t.target = subjectTasks[k].target /\ t.form = subjectTasks[k].form
        /\ t.mounted = subjectTasks[k].mounted /\ t.rows = rows
        /\ subjectTasks' = [subjectTasks EXCEPT ![k] = t]
    BY <1>2, <2>4, <2>5 DEF SubjectTask
  <2>7. SubjectTaskSound(t)'
    BY <1>2, <2>1, <2>2, <2>4, <2>6 DEF SubjectTaskSound, FormSound, Loading
  <2>8. ~Undisturbed'
    BY <2>2 DEF Undisturbed
  <2> QED
    BY <1>1, <2>1, <2>2, <2>3, <2>6, <2>7, <2>8, SubjectGoesOn DEF Loading
<1> QED
  BY <1>4, <1>5, <1>6, <1>7

(* A task that ends, and lets go of the button it held.                          *)
LEMMA SubjectEnds ==
  ASSUME SubjectInv, NEW k \in Subject!Running, subjectTasks[k].phase # "done",
         subjectTasks' = [subjectTasks EXCEPT ![k] = Subject!NoTask],
         UNCHANGED <<subjectRole, subjectRows, sentTo, subjectBounds>>,
         subjectFlags' \in SubjectFlags, subjectFlags'.linked = subjectFlags.linked,
         subjectFlags'.overlap = subjectFlags.overlap,
         IF subjectTasks[k].mounted
         THEN /\ subjectPage' \in Subject!Pages /\ DialogSound(subjectPage'.dialog)
              /\ subjectPage'.creating => subjectPage.creating /\ subjectTasks[k].kind # "team"
              /\ \A d \in subjectPage'.submitting :
                   /\ d \in subjectPage.submitting
                   /\ subjectTasks[k].kind = "save" => subjectTasks[k].form.kind # d
              /\ \/ /\ subjectTasks[k].phase = "failed"
                    /\ subjectPage'.loading = subjectPage.loading
                    /\ subjectPage'.rows = subjectPage.rows
                 \/ /\ ~subjectPage'.loading
                    /\ Undisturbed => subjectPage'.rows = Subject!Listing
         ELSE subjectPage' = subjectPage
  PROVE  SubjectInv'
<1>1. /\ k \in Tasks /\ SubjectTyped
      /\ subjectTasks[k].mounted => subjectPage # Null
      /\ subjectPage \in Subject!Pages \cup {Null} /\ subjectBounds \in SubjectBounds
      /\ subjectPage # Null => DialogSound(subjectPage.dialog)
  BY SubjectTaskType DEF SubjectInv, SubjectTyped, Subject!TypeOK
<1>2. /\ \A j \in Subject!Running' : /\ j # k /\ j \in Subject!Running
                                     /\ subjectTasks'[j] = subjectTasks[j]
      /\ \A j \in Subject!Running \ {k} : /\ j \in Subject!Running'
                                          /\ subjectTasks'[j] = subjectTasks[j]
  BY <1>1 DEF SubjectTyped, Subject!Running, Subject!NoTask
<1>3. /\ subjectPage' \in Subject!Pages \cup {Null}
      /\ subjectPage = Null <=> subjectPage' = Null
      /\ subjectPage' # Null => DialogSound(subjectPage'.dialog)
  BY <1>1, SubjectsAssumption
<1>4. SubjectTyped'
  <2>1. sentTo' \in Projects \cup {Null} /\ subjectRows' \in Subject!Rows
    BY <1>1 DEF SubjectTyped, Subject!TypeOK
  <2> QED
    BY <1>1, <1>3, <2>1, SubjectTaskStep
<1>5. Subject!NeverStuck'
  <2>1. \A j \in Tasks \ {k} : Subject!Attached(j) =>
          Subject!Attached(j)' /\ subjectTasks'[j] = subjectTasks[j]
    BY <1>2 DEF Subject!Attached
  <2>2. Subject!Attached(k) => subjectTasks[k].mounted
    BY DEF Subject!Attached
  <2>3. subjectPage' # Null /\ subjectPage'.loading =>
          \E j \in Tasks : Subject!Attached(j)' /\ subjectTasks'[j].phase \in Loading
    <3>1. SUFFICES ASSUME subjectPage' # Null, subjectPage'.loading
                   PROVE  \E j \in Tasks : Subject!Attached(j)' /\ subjectTasks'[j].phase \in Loading
      OBVIOUS
    <3>2. subjectPage # Null /\ subjectPage.loading
      BY <1>3, <3>1
    <3>3. PICK j \in Tasks : Subject!Attached(j) /\ subjectTasks[j].phase \in Loading
      BY <3>2 DEF SubjectInv, Subject!NeverStuck, Loading
    <3>4. j # k
      BY <2>2, <3>1, <3>3 DEF Loading
    <3> QED
      BY <2>1, <3>3, <3>4
  <2>4. subjectPage' # Null /\ subjectPage'.creating =>
          \E j \in Tasks : Subject!Attached(j)' /\ subjectTasks'[j].kind = "team"
    <3>1. SUFFICES ASSUME subjectPage' # Null, subjectPage'.creating
                   PROVE  \E j \in Tasks : Subject!Attached(j)' /\ subjectTasks'[j].kind = "team"
      OBVIOUS
    <3>2. subjectPage # Null /\ subjectPage.creating
      BY <1>3, <3>1
    <3>3. PICK j \in Tasks : Subject!Attached(j) /\ subjectTasks[j].kind = "team"
      BY <3>2 DEF SubjectInv, Subject!NeverStuck
    <3>4. j # k
      BY <2>2, <3>1, <3>3
    <3> QED
      BY <2>1, <3>3, <3>4
  <2>5. ASSUME subjectPage' # Null, NEW d \in subjectPage'.submitting
        PROVE  \E j \in Tasks : /\ Subject!Attached(j)' /\ subjectTasks'[j].kind = "save"
                                /\ subjectTasks'[j].form.kind = d
    <3>1. subjectPage # Null /\ d \in subjectPage.submitting
      BY <1>3, <2>5
    <3>2. PICK j \in Tasks : /\ Subject!Attached(j) /\ subjectTasks[j].kind = "save"
                             /\ subjectTasks[j].form.kind = d
      BY <3>1 DEF SubjectInv, Subject!NeverStuck
    <3>3. j # k
      BY <2>2, <2>5, <3>2
    <3> QED
      BY <2>1, <3>2, <3>3
  <2> QED
    BY <2>3, <2>4, <2>5 DEF Subject!NeverStuck, Loading
<1>6. /\ Subject!SentToOwnTeam' /\ TeamsListed' /\ Subject!NoOrphans'
      /\ Subject!TeamsAreRegistered'
  <2>1. Undisturbed' <=> Undisturbed
    BY DEF Undisturbed
  <2> QED
    BY <2>1, SubjectRowsStand DEF Subject!TeamsAreRegistered, Undisturbed
<1>7. SubjectLinks'
  BY <1>2, SubjectLinksStand DEF SubjectInv
<1>8. SubjectCopies'
  <2>1. SUFFICES ASSUME Undisturbed
                 PROVE  SubjectCopies'
    BY DEF SubjectCopies, Undisturbed
  <2>2. /\ \A k1, k2 \in Subject!Mattering : k1 = k2
        /\ subjectPage # Null => \A j \in Subject!Mattering : subjectTasks[j].mounted
        /\ Subject!Shown /\ (\A j \in Subject!Mattering : subjectTasks[j].phase # "done") =>
             subjectPage.rows = Subject!Listing
    BY <2>1 DEF SubjectInv, SubjectCopies
  <2>3. /\ \A j \in Subject!Mattering' : j \in Subject!Mattering
        /\ \A j \in Subject!Mattering \ {k} : j \in Subject!Mattering'
    BY <1>2 DEF Subject!Mattering
  <2>4. \A k1, k2 \in Subject!Mattering' : k1 = k2
    BY <2>2, <2>3
  <2>5. subjectPage' # Null => \A j \in Subject!Mattering' : subjectTasks'[j].mounted
    BY <1>2, <1>3, <2>2, <2>3 DEF Subject!Mattering
  <2>6. ASSUME NEW j \in Subject!Running'
        PROVE  LET task == subjectTasks'[j]
               IN /\ task.kind = "team" /\ task.phase = "checked" =>
                       subjectRows.of[task.target] \in subjectRows.registered
                  /\ task.kind = "leave" /\ task.phase = "asked" =>
                       \A p \in subjectRows.inTeam : subjectRows.of[p] # task.target
                  /\ task.mounted /\ task.phase \in Loading => subjectPage'.loading
                  /\ task.mounted /\ task.phase = "loaded" => task.rows = Subject!Listing
    <3>1. j # k /\ j \in Subject!Running /\ subjectTasks'[j] = subjectTasks[j]
      BY <1>2
    <3>2. CASE subjectTasks[k].mounted
      <4>1. k \in Subject!Mattering
        BY <3>2 DEF Subject!Mattering
      <4>2. ~subjectTasks[j].mounted
        <5>1. j \notin Subject!Mattering
          BY <2>2, <3>1, <4>1
        <5> QED
          BY <3>1, <5>1 DEF Subject!Mattering
      <4> QED
        BY <2>1, <3>1, <4>2 DEF SubjectInv, SubjectCopies
    <3>3. CASE ~subjectTasks[k].mounted
      BY <2>1, <3>1, <3>3 DEF SubjectInv, SubjectCopies
    <3> QED
      BY <3>2, <3>3
  <2>7. Subject!Shown' /\ (\A j \in Subject!Mattering' : subjectTasks'[j].phase # "done") =>
          subjectPage'.rows = Subject!Listing
    <3>1. SUFFICES ASSUME Subject!Shown',
                          \A j \in Subject!Mattering' : subjectTasks'[j].phase # "done"
                   PROVE  subjectPage'.rows = Subject!Listing
      OBVIOUS
    <3>2. \A j \in Subject!Mattering : subjectTasks[j].phase # "done"
      <4>1. \A j \in Subject!Mattering \ {k} : subjectTasks[j].phase # "done"
        BY <1>2, <2>3, <3>1 DEF Subject!Mattering
      <4> QED
        BY <4>1
    <3>3. CASE subjectPage'.loading = subjectPage.loading /\ subjectPage'.rows = subjectPage.rows
      BY <1>3, <2>2, <3>1, <3>2, <3>3 DEF Subject!Shown
    <3>4. CASE subjectPage'.rows = Subject!Listing
      BY <3>4
    <3> QED
      BY <2>1, <3>3, <3>4
  <2> QED
    BY <2>4, <2>5, <2>6, <2>7, SubjectRowsSame DEF SubjectCopies
<1> QED
  BY <1>4, <1>5, <1>6, <1>7, <1>8 DEF SubjectInv

(* What a form or a dialog is let go of when its task ends.                      *)
LEMMA SubjectReleased ==
  ASSUME NEW k \in Tasks, NEW p \in Subject!Pages
  PROVE  LET q == Subject!Released(k, p)
         IN /\ q \in Subject!Pages /\ q.dialog = p.dialog /\ q.loading = p.loading /\ q.rows = p.rows
            /\ q.creating => p.creating /\ subjectTasks[k].kind # "team"
            /\ \A d \in q.submitting :
                 d \in p.submitting /\ (subjectTasks[k].kind = "save" => subjectTasks[k].form.kind # d)
<1>1. CASE subjectTasks[k].kind = "save"
  BY <1>1 DEF Subject!Released, Subject!Pages
<1>2. CASE subjectTasks[k].kind = "team"
  BY <1>2 DEF Subject!Released, Subject!Pages
<1>3. CASE subjectTasks[k].kind \notin {"save", "team"}
  BY <1>3 DEF Subject!Released, Subject!Pages
<1> QED
  BY <1>1, <1>2, <1>3

LEMMA SubjectAnswers ==
  ASSUME SubjectInv, NEW k \in Tasks, Subject!WriteFailed(k) \/ Subject!LoadAnswered(k)
  PROVE  SubjectInv'
<1>1. k \in Subject!Running /\ subjectTasks[k].phase \in Loading \cup {"failed"}
  BY DEF Subject!WriteFailed, Subject!LoadAnswered, Loading
<1>2. /\ SubjectTaskSound(subjectTasks[k]) /\ SubjectTyped
      /\ subjectTasks[k].mounted => /\ subjectPage \in Subject!Pages
                                    /\ DialogSound(subjectPage.dialog)
      /\ subjectFlags \in SubjectFlags /\ subjectBounds \in SubjectBounds
  BY <1>1, SubjectTaskType, SubjectsAssumption DEF SubjectInv, SubjectTyped
<1>3. CASE Subject!WriteFailed(k)
  <2>1. /\ subjectTasks[k].phase = "failed"
        /\ subjectTasks' = [subjectTasks EXCEPT ![k] = Subject!NoTask]
        /\ UNCHANGED <<subjectRole, subjectRows, sentTo, subjectBounds, subjectFlags>>
        /\ subjectPage' = IF subjectTasks[k].mounted THEN Subject!Released(k, subjectPage)
                          ELSE subjectPage
    BY <1>3 DEF Subject!WriteFailed, Subject!SetPage, Subject!End
  <2>2. CASE subjectTasks[k].mounted
    BY <1>1, <1>2, <2>1, <2>2, SubjectReleased, SubjectEnds
  <2>3. CASE ~subjectTasks[k].mounted
    BY <1>1, <1>2, <2>1, <2>3, SubjectEnds
  <2> QED
    BY <2>2, <2>3
<1>4. CASE Subject!LoadAnswered(k)
  <2>1. /\ subjectFlags' \in SubjectFlags /\ subjectFlags'.overlap = subjectFlags.overlap
        /\ subjectFlags'.linked = subjectFlags.linked
    <3>1. PICK stale \in BOOLEAN : subjectFlags' = [subjectFlags EXCEPT !.stale = stale]
      BY <1>2, <1>4 DEF Subject!LoadAnswered, SubjectFlags
    <3> QED
      BY <1>2, <3>1 DEF SubjectFlags
  <2>2. /\ UNCHANGED <<subjectRole, subjectRows, subjectBounds>>
        /\ subjectTasks[k].phase \in {"loaded", "loadFailed"}
    BY <1>4 DEF Subject!LoadAnswered
  <2>3. CASE subjectTasks[k].kind = "team"
    <3>1. /\ subjectPage' = Null /\ sentTo' = subjectTasks[k].target
          /\ subjectTasks' = [j \in Tasks |->
               IF j = k \/ j \notin Subject!Running THEN Subject!NoTask
               ELSE [subjectTasks[j] EXCEPT !.mounted = FALSE]]
      BY <1>4, <2>3 DEF Subject!LoadAnswered
    <3>2. sentTo' \in subjectRows.inTeam
      BY <1>2, <2>2, <2>3, <3>1 DEF SubjectTaskSound, Loading
    <3> QED
      BY <1>2, <2>1, <2>2, <3>1, <3>2, SubjectUnmounts
  <2>4. CASE subjectTasks[k].kind # "team"
    <3>1. PICK filled :
            /\ filled = IF subjectTasks[k].phase = "loaded"
                        THEN [subjectPage EXCEPT !.rows = subjectTasks[k].rows] ELSE subjectPage
            /\ subjectTasks' = [subjectTasks EXCEPT ![k] = Subject!NoTask] /\ sentTo' = sentTo
            /\ subjectPage' = IF subjectTasks[k].mounted
                              THEN [Subject!Released(k, filled) EXCEPT !.loading = FALSE]
                              ELSE subjectPage
      BY <1>4, <2>4 DEF Subject!LoadAnswered, Subject!SetPage, Subject!End
    <3>2. CASE subjectTasks[k].mounted
      <4>1. /\ filled \in Subject!Pages /\ filled.dialog = subjectPage.dialog
            /\ filled.creating = subjectPage.creating
            /\ filled.submitting = subjectPage.submitting
            /\ subjectTasks[k].phase = "loaded" => filled.rows = subjectTasks[k].rows
        BY <1>2, <3>1, <3>2 DEF Subject!Pages, SubjectTaskSound
      <4>2. PICK q \in Subject!Pages :
              /\ q = Subject!Released(k, filled)
              /\ q.dialog = filled.dialog /\ q.rows = filled.rows
              /\ q.creating => filled.creating /\ subjectTasks[k].kind # "team"
              /\ \A d \in q.submitting :
                   /\ d \in filled.submitting
                   /\ subjectTasks[k].kind = "save" => subjectTasks[k].form.kind # d
        BY <4>1, SubjectReleased
      <4>3. /\ subjectPage' \in Subject!Pages /\ ~subjectPage'.loading
            /\ subjectPage'.dialog = q.dialog /\ subjectPage'.rows = q.rows
            /\ subjectPage'.creating = q.creating /\ subjectPage'.submitting = q.submitting
        BY <3>1, <3>2, <4>2 DEF Subject!Pages
      <4>4. Undisturbed => subjectPage'.rows = Subject!Listing
        <5>1. SUFFICES ASSUME Undisturbed
                       PROVE  subjectPage'.rows = Subject!Listing
          OBVIOUS
        <5>2. subjectTasks[k].phase = "loaded"
          BY <1>2, <2>2, <5>1 DEF SubjectTaskSound, Undisturbed
        <5>3. subjectTasks[k].rows = Subject!Listing
          BY <1>1, <3>2, <5>1, <5>2 DEF SubjectInv, SubjectCopies
        <5> QED
          BY <4>1, <4>2, <4>3, <5>2, <5>3
      <4>5. DialogSound(subjectPage'.dialog)
        BY <1>2, <3>2, <4>1, <4>2, <4>3
      <4>6. /\ subjectPage'.creating => subjectPage.creating /\ subjectTasks[k].kind # "team"
            /\ \A d \in subjectPage'.submitting :
                 /\ d \in subjectPage.submitting
                 /\ subjectTasks[k].kind = "save" => subjectTasks[k].form.kind # d
        BY <4>1, <4>2, <4>3
      <4> QED
        BY <1>1, <2>1, <2>2, <3>1, <3>2, <4>3, <4>4, <4>5, <4>6, SubjectEnds
    <3>3. CASE ~subjectTasks[k].mounted
      BY <1>1, <2>1, <2>2, <3>1, <3>3, SubjectEnds
    <3> QED
      BY <3>2, <3>3
  <2> QED
    BY <2>3, <2>4
<1> QED
  BY <1>3, <1>4

LEMMA FreshIds ==
  ASSUME NEW ids, NEW j \in Subject!Fresh(ids)
  PROVE  j \in ids /\ ~Subject!Exists(subjectRows, j)
BY DEF Subject!Fresh

(* A write of a student changes what is registered and who is in a team, and the  *)
(* subject of a team stays registered.                                             *)
LEMMA StudentWrites ==
  ASSUME SubjectInv, NEW k \in Subject!Running,
         subjectTasks[k].kind \in {"register", "leave", "team"},
         subjectTasks[k].phase = IF subjectTasks[k].kind = "team" THEN "checked" ELSE "asked",
         subjectRows' \in Subject!Written(subjectTasks[k]),
         UNCHANGED subjectRole, subjectFlags.linked => subjectFlags'.linked,
         ~subjectFlags.linked => ~subjectFlags'.linked
  PROVE  /\ subjectRows' \in Subject!Rows /\ subjectRows.inTeam \subseteq subjectRows'.inTeam
         /\ subjectRows'.text = subjectRows.text /\ subjectRows'.of = subjectRows.of
         /\ TeamsListed' /\ Subject!NoOrphans'
         /\ Undisturbed => Subject!Registered'
<1> DEFINE task == subjectTasks[k]
<1>1. /\ SubjectTaskSound(task) /\ subjectRows \in Subject!Rows
      /\ subjectRole = "student" /\ ~subjectFlags.linked
  BY SubjectTaskType DEF SubjectInv, SubjectTyped, Subject!TypeOK, SubjectTaskSound, TeamsListed
<1>2. /\ subjectRows'.text = subjectRows.text /\ subjectRows'.of = subjectRows.of
      /\ subjectRows' \in Subject!Rows
      /\ \/ /\ task.kind = "register" /\ subjectRows'.inTeam = subjectRows.inTeam
            /\ subjectRows.registered \subseteq subjectRows'.registered
         \/ /\ task.kind = "leave" /\ subjectRows'.inTeam = subjectRows.inTeam
            /\ subjectRows'.registered = subjectRows.registered \ {task.target}
         \/ /\ task.kind = "team" /\ Subject!Exists(subjectRows, task.target)
            /\ task.target \in Projects
            /\ subjectRows'.inTeam = subjectRows.inTeam \cup {task.target}
            /\ subjectRows'.registered = subjectRows.registered
  <2>1. CASE task.kind = "register"
    BY <1>1, <2>1 DEF Subject!Written, Subject!Rows, SubjectTaskSound
  <2>2. CASE task.kind = "leave"
    BY <1>1, <2>2 DEF Subject!Written, Subject!Rows, SubjectTaskSound
  <2>3. CASE task.kind = "team"
    BY <1>1, <2>3 DEF Subject!Written, Subject!Rows, SubjectTaskSound
  <2> QED
    BY <2>1, <2>2, <2>3
<1>3. Subject!NoOrphans'
  BY <1>1, <1>2 DEF SubjectInv, Subject!NoOrphans, Subject!Exists
<1>4. TeamsListed'
  <2>1. \A p \in subjectRows'.inTeam : p \in subjectRows.inTeam \/ p = task.target
    BY <1>2
  <2>2. \A p \in Projects : Subject!Exists(subjectRows, p) =>
          Subject!Exists(subjectRows, subjectRows.of[p])
    BY <1>1 DEF SubjectInv, Subject!NoOrphans
  <2>3. \A p \in subjectRows'.inTeam :
          /\ Subject!Exists(subjectRows, p)
          /\ Subject!Exists(subjectRows, subjectRows.of[p])
    BY <1>2, <2>2 DEF SubjectInv, TeamsListed
  <2> QED
    BY <1>1, <1>2, <2>3 DEF TeamsListed, Subject!Exists
<1>5. Undisturbed => Subject!Registered'
  <2>1. SUFFICES ASSUME Undisturbed, NEW p \in subjectRows'.inTeam
                 PROVE  subjectRows.of[p] \in subjectRows'.registered
    BY <1>2 DEF Subject!Registered
  <2>2. Subject!Registered
    BY <2>1 DEF SubjectInv, Subject!TeamsAreRegistered, Undisturbed
  <2>3. CASE task.kind = "register"
    BY <1>2, <2>1, <2>2, <2>3 DEF Subject!Registered
  <2>4. CASE task.kind = "leave"
    <3>1. subjectRows.of[p] # task.target
      BY <1>2, <2>1, <2>4 DEF SubjectInv, SubjectCopies
    <3> QED
      BY <1>2, <2>1, <2>2, <2>4, <3>1 DEF Subject!Registered
  <2>5. CASE task.kind = "team"
    <3>1. subjectRows.of[task.target] \in subjectRows.registered
      BY <2>1, <2>5 DEF SubjectInv, SubjectCopies
    <3> QED
      BY <1>2, <2>1, <2>2, <2>5, <3>1 DEF Subject!Registered
  <2> QED
    BY <2>3, <2>4, <2>5
<1> QED
  BY <1>2, <1>3, <1>4, <1>5

LEMMA WrittenTexts ==
  ASSUME NEW task, task.kind = "save", task.target # Null,
         NEW rows \in Subject!Written(task)
  PROVE  /\ Subject!Exists(subjectRows, task.target)
         /\ rows = [subjectRows EXCEPT !.text[task.target] = task.form.text]
<1>1. rows \in IF Subject!Exists(subjectRows, task.target)
               THEN {[subjectRows EXCEPT !.text[task.target] = task.form.text]} ELSE {}
  BY DEF Subject!Written
<1> QED
  BY <1>1

(* A write of an admin changes a text, adds a row, or deletes a subject; nobody   *)
(* is in a team then.                                                              *)
LEMMA AdminWrites ==
  ASSUME SubjectInv, NEW k \in Subject!Running, subjectTasks[k].kind \in {"save", "delete"},
         subjectTasks[k].phase = IF subjectTasks[k].kind = "delete" THEN "checked" ELSE "asked",
         subjectRows' \in Subject!Written(subjectTasks[k]), UNCHANGED subjectRole,
         ~subjectFlags'.linked => ~subjectFlags.linked /\ ~Subject!LateLink(subjectTasks[k])
  PROVE  /\ subjectRows' \in Subject!Rows /\ subjectRows'.inTeam = subjectRows.inTeam
         /\ \A p \in Projects : Subject!Exists(subjectRows, p)' => subjectRows'.of[p] \in Subjects
         /\ ~subjectFlags'.linked /\ Subject!Deleting =>
              \A p \in Projects : /\ Subject!Exists(subjectRows, p)' => Subject!Exists(subjectRows, p)
                                  /\ subjectRows'.of[p] = subjectRows.of[p]
         /\ TeamsListed' /\ Subject!NoOrphans' /\ Subject!Registered'
<1> DEFINE task == subjectTasks[k]
<1>1. /\ SubjectTaskSound(task) /\ subjectRows \in Subject!Rows
      /\ subjectRole = "admin" /\ subjectRows.inTeam = {}
  BY SubjectTaskType DEF SubjectInv, SubjectTyped, Subject!TypeOK, SubjectTaskSound, TeamsListed
<1>2. /\ \A p \in Projects : Subject!Exists(subjectRows, p) => subjectRows.of[p] \in Subjects
      /\ ~subjectFlags'.linked => \A p \in Projects :
           Subject!Exists(subjectRows, p) => Subject!Exists(subjectRows, subjectRows.of[p])
  BY DEF SubjectInv, SubjectLinks, Subject!NoOrphans
<1>3. ASSUME subjectRows'.inTeam = {}
      PROVE  TeamsListed' /\ Subject!Registered'
  BY <1>1, <1>3 DEF TeamsListed, Subject!Registered
<1>4. ASSUME NEW i \in Subject!Items, NEW x \in Texts,
             subjectRows' = [subjectRows EXCEPT !.text[i] = x],
             Subject!Exists(subjectRows, i) \/ i \in Subjects
      PROVE  /\ subjectRows' \in Subject!Rows /\ subjectRows'.inTeam = {}
             /\ \A p \in Projects : /\ Subject!Exists(subjectRows, p)' <=> Subject!Exists(subjectRows, p)
                                    /\ subjectRows'.of[p] = subjectRows.of[p]
             /\ \A s \in Subjects : Subject!Exists(subjectRows, s) => Subject!Exists(subjectRows, s)'
  <2>1. /\ subjectRows' \in Subject!Rows /\ subjectRows'.inTeam = {}
        /\ subjectRows'.of = subjectRows.of
        /\ subjectRows'.text[i] = x
        /\ \A j \in Subject!Items \ {i} : subjectRows'.text[j] = subjectRows.text[j]
    BY <1>1, <1>4 DEF Subject!Rows
  <2>2. x # Null /\ \A p \in Projects : p = i => Subject!Exists(subjectRows, i)
    BY <1>4, SubjectsAssumption
  <2> QED
    BY <2>1, <2>2 DEF Subject!Exists, Subject!Items
<1>5. ASSUME NEW i \in Subject!Items, NEW x \in Texts,
             subjectRows' = [subjectRows EXCEPT !.text[i] = x],
             Subject!Exists(subjectRows, i) \/ i \in Subjects
      PROVE  /\ subjectRows' \in Subject!Rows /\ subjectRows'.inTeam = subjectRows.inTeam
             /\ \A p \in Projects : Subject!Exists(subjectRows, p)' => subjectRows'.of[p] \in Subjects
             /\ ~subjectFlags'.linked /\ Subject!Deleting =>
                  \A p \in Projects : /\ Subject!Exists(subjectRows, p)' => Subject!Exists(subjectRows, p)
                                      /\ subjectRows'.of[p] = subjectRows.of[p]
             /\ TeamsListed' /\ Subject!NoOrphans' /\ Subject!Registered'
  <2>1. Subject!NoOrphans'
    BY <1>2, <1>4, <1>5 DEF Subject!NoOrphans, Subject!Exists
  <2> QED
    BY <1>1, <1>2, <1>3, <1>4, <1>5, <2>1
<1>6. CASE task.kind = "save"
  <2>1. /\ FormSound(task.form) /\ task.form.text \in Texts /\ task.target = task.form.target
        /\ task.target \in Subject!Items \cup {Null}
    BY <1>1, <1>6 DEF SubjectTaskSound, FormSound, Subject!Dialogs
  <2>2. CASE task.target # Null
    <3>1. /\ Subject!Exists(subjectRows, task.target)
          /\ subjectRows' = [subjectRows EXCEPT !.text[task.target] = task.form.text]
      BY <1>6, <2>2, WrittenTexts
    <3>2. task.target \in Subject!Items
      BY <2>1, <2>2
    <3> QED
      BY <1>5, <2>1, <3>1, <3>2
  <2>3. CASE task.target = Null /\ task.form.kind = "subject"
    <3>1. PICK j \in Subject!Fresh(Subjects) :
            subjectRows' = [subjectRows EXCEPT !.text[j] = task.form.text]
      BY <1>6, <2>3 DEF Subject!Written
    <3>2. j \in Subjects
      BY FreshIds
    <3> QED
      BY <1>5, <2>1, <3>1, <3>2 DEF Subject!Items
  <2>4. CASE task.target = Null /\ task.form.kind = "project"
    <3>1. PICK j \in Subject!Fresh(Projects) :
            subjectRows' = [[subjectRows EXCEPT !.text[j] = task.form.text]
                            EXCEPT !.of[j] = task.form.subject]
      BY <1>6, <2>4 DEF Subject!Written
    <3>2. j \in Projects /\ task.form.subject \in Subjects
      BY <2>1, <2>4, FreshIds DEF FormSound
    <3>3. /\ subjectRows' \in Subject!Rows /\ subjectRows'.inTeam = {}
          /\ subjectRows'.of[j] = task.form.subject
          /\ \A p \in Projects \ {j} : subjectRows'.of[p] = subjectRows.of[p]
          /\ \A i \in Subject!Items \ {j} : subjectRows'.text[i] = subjectRows.text[i]
      BY <1>1, <2>1, <3>1, <3>2 DEF Subject!Rows, Subject!Items
    <3>4. \A p \in Projects \ {j} : Subject!Exists(subjectRows, p)' <=> Subject!Exists(subjectRows, p)
      BY <3>3 DEF Subject!Exists, Subject!Items
    <3>5. \A s \in Subjects : Subject!Exists(subjectRows, s)' <=> Subject!Exists(subjectRows, s)
      BY <3>2, <3>3, SubjectsAssumption DEF Subject!Exists, Subject!Items
    <3>6. ~subjectFlags'.linked =>
            ~Subject!Deleting /\ Subject!Exists(subjectRows, task.form.subject)
      BY <1>6, <2>4 DEF Subject!LateLink
    <3>7. Subject!NoOrphans'
      <4>1. SUFFICES ASSUME ~subjectFlags'.linked, NEW p \in Projects, Subject!Exists(subjectRows, p)'
                     PROVE  Subject!Exists(subjectRows', subjectRows'.of[p])
        BY DEF Subject!NoOrphans, Subject!Exists
      <4>2. subjectRows'.of[p] \in Subjects /\ Subject!Exists(subjectRows, subjectRows'.of[p])
        BY <1>2, <3>2, <3>3, <3>4, <3>6, <4>1
      <4> QED
        BY <3>5, <4>2 DEF Subject!Exists
    <3>8. \A p \in Projects : Subject!Exists(subjectRows, p)' => subjectRows'.of[p] \in Subjects
      BY <1>2, <3>2, <3>3, <3>4
    <3> QED
      BY <1>1, <1>3, <3>3, <3>6, <3>7, <3>8
  <2> QED
    BY <2>1, <2>2, <2>3, <2>4 DEF FormSound, Subject!Kinds
<1>7. CASE task.kind = "delete"
  <2>1. /\ task.target \in Subjects
        /\ subjectRows' = [subjectRows EXCEPT !.text[task.target] = Null,
                                              !.registered = @ \ {task.target}]
    BY <1>1, <1>7 DEF SubjectTaskSound, Subject!Written
  <2>2. /\ subjectRows' \in Subject!Rows /\ subjectRows'.inTeam = {}
        /\ subjectRows'.of = subjectRows.of
        /\ \A i \in Subject!Items \ {task.target} : subjectRows'.text[i] = subjectRows.text[i]
    BY <1>1, <2>1 DEF Subject!Rows
  <2>3. /\ \A p \in Projects : Subject!Exists(subjectRows, p)' <=> Subject!Exists(subjectRows, p)
        /\ \A s \in Subjects \ {task.target} :
             Subject!Exists(subjectRows, s)' <=> Subject!Exists(subjectRows, s)
    BY <2>1, <2>2, SubjectsAssumption DEF Subject!Exists, Subject!Items
  <2>4. Subject!NoOrphans'
    <3>1. SUFFICES ASSUME ~subjectFlags'.linked, NEW p \in Projects, Subject!Exists(subjectRows, p)'
                   PROVE  Subject!Exists(subjectRows', subjectRows'.of[p])
      BY DEF Subject!NoOrphans, Subject!Exists
    <3>2. Subject!Allowed(task)
      BY <1>7, <3>1 DEF SubjectInv, SubjectLinks
    <3>3. subjectRows.of[p] # task.target
      BY <1>7, <2>3, <3>1, <3>2 DEF Subject!Allowed
    <3>4. subjectRows.of[p] \in Subjects /\ Subject!Exists(subjectRows, subjectRows.of[p])
      BY <1>2, <2>3, <3>1
    <3> QED
      BY <2>2, <2>3, <3>3, <3>4 DEF Subject!Exists
  <2> QED
    BY <1>1, <1>2, <1>3, <2>2, <2>3, <2>4
<1> QED
  BY <1>6, <1>7

(* Who has created a team is in it.                                              *)
LEMMA WrittenTeam ==
  ASSUME SubjectTyped, NEW k \in Subject!Running, subjectTasks[k].kind = "team",
         subjectRows' \in Subject!Written(subjectTasks[k])
  PROVE  subjectTasks[k].target \in subjectRows'.inTeam
BY SubjectTaskType DEF SubjectTyped, Subject!TypeOK, Subject!Rows, Subject!Written

(* The write of a task, which may find that there is nothing to write.           *)
LEMMA SubjectServeWrite ==
  ASSUME SubjectInv, NEW k \in Tasks, Subject!ServeWrite(k)
  PROVE  SubjectInv'
<1>1. /\ k \in Subject!Running
      /\ subjectTasks[k].phase = IF subjectTasks[k].kind \in {"team", "delete"} THEN "checked" ELSE "asked"
      /\ UNCHANGED <<subjectRole, subjectPage, sentTo, subjectBounds>>
  BY DEF Subject!ServeWrite
<1>2. /\ subjectTasks[k] \in SubjectTask /\ SubjectTaskSound(subjectTasks[k]) /\ SubjectTyped
      /\ subjectFlags \in SubjectFlags /\ subjectBounds \in SubjectBounds
      /\ subjectRows \in Subject!Rows
      /\ subjectTasks[k].mounted => subjectPage # Null
      /\ subjectTasks[k].kind # "load"
  BY <1>1, SubjectTaskType
  DEF SubjectInv, SubjectTyped, Subject!TypeOK, SubjectTaskSound, Loading
<1>3. /\ subjectFlags' \in SubjectFlags /\ subjectFlags'.overlap = subjectFlags.overlap
      /\ subjectFlags'.linked <=> (subjectFlags.linked \/ Subject!LateLink(subjectTasks[k]))
  <2>1. PICK linked \in BOOLEAN :
          /\ subjectFlags' = [subjectFlags EXCEPT !.linked = linked]
          /\ linked <=> (subjectFlags.linked \/ Subject!LateLink(subjectTasks[k]))
    BY DEF Subject!ServeWrite
  <2> QED
    BY <1>2, <2>1 DEF SubjectFlags
<1>4. PICK phase \in {"failed", "done"} :
        /\ subjectTasks' = [subjectTasks EXCEPT ![k].phase = phase]
        /\ phase = "failed" => UNCHANGED subjectRows
        /\ phase = "done" => subjectRows' \in Subject!Written(subjectTasks[k])
  BY DEF Subject!ServeWrite
<1>5. PICK t : t = [subjectTasks[k] EXCEPT !.phase = phase]
  OBVIOUS
<1>6. /\ t \in SubjectTask /\ t.phase = phase /\ t.kind = subjectTasks[k].kind
      /\ t.target = subjectTasks[k].target /\ t.form = subjectTasks[k].form
      /\ t.mounted = subjectTasks[k].mounted /\ t.kind # "none"
      /\ subjectTasks' = [subjectTasks EXCEPT ![k] = t]
  BY <1>2, <1>4, <1>5 DEF SubjectTask
<1>7. /\ subjectTasks'[k] = t /\ k \in Subject!Running'
      /\ \A j \in Subject!Running' \ {k} : j \in Subject!Running /\ subjectTasks'[j] = subjectTasks[j]
      /\ \A j \in Subject!Running \ {k} : j \in Subject!Running' /\ subjectTasks'[j] = subjectTasks[j]
  BY <1>2, <1>6 DEF SubjectTyped, Subject!Running
<1>8. /\ subjectRows' \in Subject!Rows /\ subjectRows.inTeam \subseteq subjectRows'.inTeam
      /\ \A p \in Projects : Subject!Exists(subjectRows, p)' => subjectRows'.of[p] \in Subjects
      /\ ~subjectFlags'.linked /\ Subject!Deleting =>
           \A p \in Projects : /\ Subject!Exists(subjectRows, p)' => Subject!Exists(subjectRows, p)
                               /\ subjectRows'.of[p] = subjectRows.of[p]
      /\ TeamsListed' /\ Subject!NoOrphans'
      /\ Undisturbed => Subject!Registered'
  <2>1. subjectRole = "student" => ~Subject!LateLink(subjectTasks[k])
    BY <1>2 DEF SubjectTaskSound, Subject!LateLink
  <2>2. CASE phase = "failed"
    <3>1. UNCHANGED subjectRows
      BY <1>4, <2>2
    <3>2. subjectRole = "student" => ~subjectFlags'.linked
      BY <1>3, <2>1 DEF SubjectInv, TeamsListed
    <3>3. TeamsListed' /\ Subject!NoOrphans'
      BY <1>1, <1>3, <3>1, <3>2 DEF SubjectInv, TeamsListed, Subject!NoOrphans, Subject!Exists
    <3>4. Undisturbed => Subject!Registered'
      BY <3>1 DEF SubjectInv, Subject!TeamsAreRegistered, Subject!Registered, Undisturbed
    <3> QED
      BY <1>2, <3>1, <3>3, <3>4 DEF SubjectInv, SubjectLinks, Subject!Exists
  <2>3. CASE phase = "done" /\ subjectTasks[k].kind \in {"register", "leave", "team"}
    <3>1. ~subjectFlags.linked => ~subjectFlags'.linked
      BY <1>3, <2>3 DEF Subject!LateLink
    <3>2. subjectTasks[k].phase = IF subjectTasks[k].kind = "team" THEN "checked" ELSE "asked"
      BY <1>1, <2>3
    <3>3. /\ subjectRows' \in Subject!Rows /\ subjectRows.inTeam \subseteq subjectRows'.inTeam
          /\ subjectRows'.text = subjectRows.text /\ subjectRows'.of = subjectRows.of
          /\ TeamsListed' /\ Subject!NoOrphans'
          /\ Undisturbed => Subject!Registered'
      BY <1>1, <1>3, <1>4, <2>3, <3>1, <3>2, StudentWrites
    <3> QED
      BY <3>3 DEF SubjectInv, SubjectLinks, Subject!Exists
  <2>4. CASE phase = "done" /\ subjectTasks[k].kind \in {"save", "delete"}
    <3>1. ~subjectFlags'.linked => ~subjectFlags.linked /\ ~Subject!LateLink(subjectTasks[k])
      BY <1>3
    <3>2. subjectTasks[k].phase = IF subjectTasks[k].kind = "delete" THEN "checked" ELSE "asked"
      BY <1>1, <2>4
    <3> QED
      BY <1>1, <1>4, <2>4, <3>1, <3>2, AdminWrites
  <2> QED
    BY <1>2, <2>2, <2>3, <2>4 DEF SubjectTask
<1>9. SubjectTaskSound(t)'
  BY <1>1, <1>2, <1>4, <1>6, <1>8, WrittenTeam DEF SubjectTaskSound, FormSound, Loading
<1>10. SubjectTyped'
  <2>1. /\ sentTo' \in Projects \cup {Null} /\ subjectPage' \in Subject!Pages \cup {Null}
        /\ subjectPage' # Null => DialogSound(subjectPage'.dialog)
    BY <1>1, <1>2 DEF SubjectTyped, Subject!TypeOK
  <2> QED
    BY <1>1, <1>2, <1>3, <1>6, <1>8, <1>9, <2>1, SubjectTaskStep
<1>11. Subject!NeverStuck'
  <2>1. \A j \in Tasks : Subject!Attached(j) =>
          /\ Subject!Attached(j)' /\ subjectTasks'[j].kind = subjectTasks[j].kind
          /\ subjectTasks'[j].form = subjectTasks[j].form
          /\ subjectTasks[j].phase \in Loading => subjectTasks'[j].phase \in Loading
    <3>1. Subject!Attached(k) => Subject!Attached(k)'
      BY <1>6, <1>7 DEF Subject!Attached
    <3>2. \A j \in Subject!Running \ {k} : Subject!Attached(j) => Subject!Attached(j)'
      BY <1>7 DEF Subject!Attached
    <3>3. subjectTasks[k].phase \notin Loading
      BY <1>1 DEF Loading
    <3> QED
      BY <1>6, <1>7, <3>1, <3>2, <3>3 DEF Subject!Attached
  <2> QED
    BY <1>1, <2>1 DEF SubjectInv, Subject!NeverStuck, Loading
<1>12. Subject!SentToOwnTeam'
  BY <1>1, <1>8 DEF SubjectInv, Subject!SentToOwnTeam
<1>13. SubjectLinks'
  <2>1. ASSUME ~subjectFlags'.linked, NEW j \in Subject!Running',
               subjectTasks'[j].kind = "delete", subjectTasks'[j].phase = "checked"
        PROVE  Subject!Allowed(subjectTasks[j])'
    <3>1. j \in Subject!Running /\ subjectTasks'[j] = subjectTasks[j]
      BY <1>4, <1>6, <1>7, <2>1
    <3>2. Subject!Deleting /\ Subject!Allowed(subjectTasks[j])
      BY <1>3, <2>1, <3>1 DEF Subject!Deleting, SubjectInv, SubjectLinks
    <3> QED
      BY <1>8, <2>1, <3>1, <3>2 DEF Subject!Allowed, Subject!Exists
  <2> QED
    BY <1>8, <2>1 DEF SubjectLinks, Subject!Exists
<1>14. SubjectCopies'
  <2>1. SUFFICES ASSUME Undisturbed
                 PROVE  SubjectCopies'
    BY <1>1, <1>3 DEF SubjectCopies, Undisturbed
  <2>2. /\ \A k1, k2 \in Subject!Mattering : k1 = k2
        /\ subjectPage # Null => \A j \in Subject!Mattering : subjectTasks[j].mounted
        /\ Subject!Shown /\ (\A j \in Subject!Mattering : subjectTasks[j].phase # "done") =>
             subjectPage.rows = Subject!Listing
    BY <2>1 DEF SubjectInv, SubjectCopies
  <2>3. k \in Subject!Mattering /\ k \in Subject!Mattering'
    BY <1>1, <1>4, <1>6, <1>7 DEF Subject!Mattering
  <2>4. \A j \in Subject!Mattering' : j = k
    <3>1. ASSUME NEW j \in Subject!Mattering', j # k
          PROVE  FALSE
      <4>1. j \in Subject!Running' /\ subjectTasks'[j] = subjectTasks[j] /\ j \in Subject!Running
        BY <1>7, <3>1 DEF Subject!Mattering
      <4>2. j \in Subject!Mattering
        BY <4>1 DEF Subject!Mattering
      <4> QED
        BY <2>2, <2>3, <3>1, <4>2
    <3> QED
      BY <3>1
  <2>5. subjectPage' # Null => \A j \in Subject!Mattering' : subjectTasks'[j].mounted
    BY <1>1, <1>6, <1>7, <2>2, <2>3, <2>4
  <2>6. ASSUME NEW j \in Subject!Running'
        PROVE  /\ subjectTasks'[j].phase \notin {"asked", "checked"}
               /\ subjectTasks'[j].mounted => subjectTasks'[j].phase \notin Loading
    <3>1. CASE j = k
      BY <1>4, <1>6, <1>7, <3>1 DEF Loading
    <3>2. CASE j # k
      <4>1. j \notin Subject!Mattering' /\ subjectTasks'[j] = subjectTasks[j]
        BY <1>7, <2>4, <3>2
      <4> QED
        BY <4>1 DEF Subject!Mattering
    <3> QED
      BY <3>1, <3>2
  <2>7. Subject!Shown' /\ (\A j \in Subject!Mattering' : subjectTasks'[j].phase # "done") =>
          subjectPage'.rows = Subject!Listing'
    <3>1. SUFFICES ASSUME Subject!Shown',
                          \A j \in Subject!Mattering' : subjectTasks'[j].phase # "done"
                   PROVE  subjectPage'.rows = Subject!Listing'
      OBVIOUS
    <3>2. UNCHANGED subjectRows
      BY <1>4, <1>6, <1>7, <2>3, <3>1
    <3>3. \A j \in Subject!Mattering : subjectTasks[j].phase # "done"
      BY <1>1, <2>2, <2>3
    <3> QED
      BY <1>1, <2>2, <3>1, <3>2, <3>3, SubjectRowsSame DEF Subject!Shown
  <2> QED
    BY <2>4, <2>5, <2>6, <2>7 DEF SubjectCopies, Loading
<1>15. Subject!TeamsAreRegistered'
  BY <1>1, <1>3, <1>8 DEF Subject!TeamsAreRegistered, Undisturbed
<1> QED
  BY <1>8, <1>10, <1>11, <1>12, <1>13, <1>14, <1>15 DEF SubjectInv

(* Another teacher adds a project; an admin registers the student.               *)
LEMMA SubjectElsewhere ==
  ASSUME SubjectInv, Subject!Elsewhere
  PROVE  SubjectInv'
<1>1. /\ subjectFlags \in SubjectFlags /\ subjectBounds \in SubjectBounds /\ SubjectTyped
      /\ subjectRows \in Subject!Rows
      /\ UNCHANGED <<subjectRole, subjectPage, sentTo, subjectTasks>>
  BY DEF SubjectInv, SubjectTyped, Subject!TypeOK, Subject!Elsewhere
<1>2. /\ subjectBounds' \in SubjectBounds /\ subjectBounds'.elsewhere # 0
      /\ subjectBounds'.faults = subjectBounds.faults
  <2>1. subjectBounds' = [subjectBounds EXCEPT !.elsewhere = @ + 1]
    BY DEF Subject!Elsewhere
  <2>2. /\ subjectBounds.clicks \in Nat /\ subjectBounds.faults \in Nat
        /\ subjectBounds.elsewhere \in Nat
        /\ subjectBounds' = [clicks |-> subjectBounds.clicks, faults |-> subjectBounds.faults,
                              elsewhere |-> subjectBounds.elsewhere + 1]
    BY <1>1, <2>1 DEF SubjectBounds
  <2> QED
    BY <2>2 DEF SubjectBounds
<1>3. /\ subjectFlags' \in SubjectFlags
      /\ subjectFlags'.linked <=> (subjectFlags.linked \/ Subject!Deleting)
  <2>1. PICK linked \in BOOLEAN :
          /\ subjectFlags' = [subjectFlags EXCEPT !.stale = TRUE, !.linked = linked]
          /\ linked <=> (subjectFlags.linked \/ Subject!Deleting)
    BY DEF Subject!Elsewhere
  <2> QED
    BY <1>1, <2>1 DEF SubjectFlags
<1>4. PICK s \in Subjects :
        /\ Subject!Exists(subjectRows, s)
        /\ \/ \E p \in Subject!Fresh(Projects), x \in Texts :
                subjectRows' = [subjectRows EXCEPT !.text[p] = x, !.of[p] = s]
           \/ subjectRows' = [subjectRows EXCEPT !.registered = @ \cup {s}]
  BY DEF Subject!Elsewhere
<1>5. /\ subjectRows' \in Subject!Rows /\ subjectRows'.inTeam = subjectRows.inTeam
      /\ \A i \in Subject!Items : Subject!Exists(subjectRows, i) => Subject!Exists(subjectRows, i)'
      /\ \A i \in Subjects : Subject!Exists(subjectRows, i)' => Subject!Exists(subjectRows, i)
      /\ \A p \in Projects : Subject!Exists(subjectRows, p)' =>
           \/ subjectRows'.of[p] = s
           \/ Subject!Exists(subjectRows, p) /\ subjectRows'.of[p] = subjectRows.of[p]
      /\ \A p \in Projects : Subject!Exists(subjectRows, p) => subjectRows'.of[p] = subjectRows.of[p]
  <2>1. CASE subjectRows' = [subjectRows EXCEPT !.registered = @ \cup {s}]
    BY <1>1, <2>1 DEF Subject!Rows, Subject!Exists
  <2>2. CASE \E p \in Subject!Fresh(Projects), x \in Texts :
               subjectRows' = [subjectRows EXCEPT !.text[p] = x, !.of[p] = s]
    <3>0. PICK p \in Subject!Fresh(Projects), x \in Texts :
            subjectRows' = [subjectRows EXCEPT !.text[p] = x, !.of[p] = s]
      BY <2>2
    <3>1. p \in Projects /\ ~Subject!Exists(subjectRows, p) /\ x # Null
      BY FreshIds, SubjectsAssumption
    <3>2. /\ subjectRows' \in Subject!Rows /\ subjectRows'.inTeam = subjectRows.inTeam
          /\ subjectRows'.of[p] = s /\ subjectRows'.text[p] = x
          /\ \A q \in Projects \ {p} : subjectRows'.of[q] = subjectRows.of[q]
          /\ \A i \in Subject!Items \ {p} : subjectRows'.text[i] = subjectRows.text[i]
      BY <1>1, <3>0, <3>1 DEF Subject!Rows, Subject!Items
    <3> QED
      BY <3>1, <3>2, SubjectsAssumption DEF Subject!Exists, Subject!Items
  <2> QED
    BY <1>4, <2>1, <2>2
<1>6. SubjectTyped'
  <2>1. \A j \in Subject!Running' : j \in Subject!Running /\ subjectTasks'[j] = subjectTasks[j]
    BY <1>1 DEF Subject!Running
  <2>2. \A j \in Subject!Running : SubjectTaskSound(subjectTasks[j])'
    <3>1. \A j \in Subject!Running : SubjectTaskSound(subjectTasks[j])
      BY <1>1, SubjectTaskType
    <3> QED
      BY <1>1, <1>2, <1>5, <3>1 DEF SubjectTaskSound, FormSound
  <2>3. subjectPage' # Null => DialogSound(subjectPage.dialog)'
    BY <1>1 DEF SubjectTyped, DialogSound, FormSound
  <2> QED
    BY <1>1, <1>2, <1>3, <1>5, <2>1, <2>2, <2>3 DEF SubjectTyped, Subject!TypeOK
<1>7. Subject!NeverStuck'
  BY <1>1 DEF SubjectInv, Subject!NeverStuck, Subject!Attached, Subject!Running
<1>8. Subject!SentToOwnTeam'
  BY <1>1, <1>5 DEF SubjectInv, Subject!SentToOwnTeam
<1>9. SubjectLinks'
  <2>1. \A p \in Projects : Subject!Exists(subjectRows, p)' => subjectRows'.of[p] \in Subjects
    BY <1>5 DEF SubjectInv, SubjectLinks
  <2>2. ~subjectFlags'.linked =>
          \A j \in Subject!Running' : ~(subjectTasks'[j].kind = "delete" /\ subjectTasks'[j].phase = "checked")
    BY <1>1, <1>3 DEF Subject!Deleting, Subject!Running
  <2> QED
    BY <2>1, <2>2 DEF SubjectLinks, Subject!Exists
<1>10. Subject!NoOrphans'
  <2>1. SUFFICES ASSUME ~subjectFlags'.linked, NEW p \in Projects, Subject!Exists(subjectRows, p)'
                 PROVE  Subject!Exists(subjectRows', subjectRows'.of[p])
    BY DEF Subject!NoOrphans, Subject!Exists
  <2>2. subjectRows'.of[p] \in Subjects /\ Subject!Exists(subjectRows, subjectRows'.of[p])
    BY <1>3, <1>4, <1>5, <2>1 DEF SubjectInv, SubjectLinks, Subject!NoOrphans
  <2> QED
    BY <1>5, <2>2 DEF Subject!Items, Subject!Exists
<1>11. TeamsListed'
  <2>1. subjectRole = "student" => ~Subject!Deleting
    BY <1>1, SubjectTaskType DEF Subject!Deleting, SubjectTaskSound
  <2>2. ASSUME NEW p \in subjectRows'.inTeam
        PROVE  Subject!Exists(subjectRows, p)' /\ Subject!Exists(subjectRows', subjectRows'.of[p])
    <3>1. /\ p \in Projects /\ Subject!Exists(subjectRows, p)
          /\ subjectRows.of[p] \in Subjects /\ Subject!Exists(subjectRows, subjectRows.of[p])
      BY <1>1, <1>5, <2>2 DEF SubjectInv, TeamsListed, SubjectLinks, Subject!Rows
    <3> QED
      BY <1>5, <3>1 DEF Subject!Items, Subject!Exists
  <2> QED
    BY <1>1, <1>3, <1>5, <2>1, <2>2 DEF SubjectInv, TeamsListed, Subject!Exists
<1>12. SubjectCopies' /\ Subject!TeamsAreRegistered'
  BY <1>2 DEF SubjectCopies, Undisturbed, Subject!TeamsAreRegistered
<1> QED
  BY <1>6, <1>7, <1>8, <1>9, <1>10, <1>11, <1>12 DEF SubjectInv

LEMMA SubjectInit == Subject!Init => SubjectInv
<1> SUFFICES ASSUME Subject!Init
             PROVE  SubjectInv
  OBVIOUS
<1>1. PICK s \in Subjects, p \in Projects, x \in Texts, teams \in SUBSET Projects :
        /\ subjectRows = [text |-> [i \in Subject!Items |-> IF i \in Subjects \cup {p} THEN x ELSE Null],
                          of |-> [q \in Projects |-> IF q = p THEN s ELSE Null],
                          registered |-> IF subjectRole = "student" THEN {s} ELSE {},
                          inTeam |-> teams]
        /\ teams \subseteq {p} /\ (subjectRole = "admin" => teams = {})
  <2>1. PICK s, p, x : /\ s = CHOOSE i \in Subjects : TRUE
                       /\ p = CHOOSE i \in Projects : TRUE
                       /\ x = CHOOSE i \in Texts : TRUE
    OBVIOUS
  <2>2. s \in Subjects /\ p \in Projects /\ x \in Texts
    BY <2>1, SubjectsAssumption
  <2>3. subjectRows \in
          {[text |-> [i \in Subject!Items |-> IF i \in Subjects \cup {p} THEN x ELSE Null],
            of |-> [q \in Projects |-> IF q = p THEN s ELSE Null],
            registered |-> IF subjectRole = "student" THEN {s} ELSE {}, inTeam |-> teams] :
            teams \in IF subjectRole = "student" THEN {{}, {p}} ELSE {{}}}
    BY <2>1 DEF Subject!Init, Subject!Seeded
  <2> QED
    BY <2>2, <2>3
<1>2. /\ subjectRole \in {"student", "admin"} /\ subjectPage = Null /\ sentTo = Null
      /\ subjectTasks = [k \in Tasks |-> Subject!NoTask] /\ Subject!Running = {}
      /\ subjectFlags \in SubjectFlags /\ subjectBounds \in SubjectBounds /\ ~subjectFlags.linked
  BY DEF Subject!Init, Subject!Running, Subject!NoTask, SubjectFlags, SubjectBounds, Subject!NoFlags
<1>3. /\ subjectRows \in Subject!Rows
      /\ subjectRows.inTeam \subseteq {p} /\ (subjectRole = "admin" => subjectRows.inTeam = {})
      /\ subjectRole = "student" => s \in subjectRows.registered
      /\ \A q \in Projects : Subject!Exists(subjectRows, q) => q = p
      /\ subjectRows.of[p] = s /\ Subject!Exists(subjectRows, s) /\ Subject!Exists(subjectRows, p)
  BY <1>1, SubjectsAssumption DEF Subject!Rows, Subject!Items, Subject!Exists
<1>4. SubjectTyped /\ Subject!NeverStuck /\ Subject!SentToOwnTeam
  BY <1>2, <1>3 DEF SubjectTyped, Subject!TypeOK, Subject!NeverStuck, Subject!SentToOwnTeam
<1>5. SubjectLinks /\ Subject!NoOrphans /\ TeamsListed
  BY <1>2, <1>3 DEF SubjectLinks, Subject!NoOrphans, TeamsListed
<1>6. SubjectCopies /\ Subject!TeamsAreRegistered
  BY <1>2, <1>3
  DEF SubjectCopies, Subject!Mattering, Subject!Shown, Subject!TeamsAreRegistered, Subject!Registered
<1> QED
  BY <1>4, <1>5, <1>6 DEF SubjectInv

LEMMA SubjectStep == SubjectInv /\ Subject!Next => SubjectInv'
BY SubjectDialogs, SubjectClicks, SubjectLeave, SubjectAnswers, SubjectWriteAnswered,
   SubjectServices, SubjectServeWrite, SubjectElsewhere DEF Subject!Next

-----------------------------------------------------------------------------
(* The profile dialog and the picture in the header. *)

LEMMA ProfileSlot ==
  ASSUME ProfileTyped, Profile!Running # Tasks
  PROVE  Profile!Slot \in Tasks /\ profileTasks[Profile!Slot] = Profile!NoTask
<1>1. \E k \in Tasks : profileTasks[k] = Profile!NoTask
  BY DEF ProfileTyped, ProfileTask, Profile!Running, Profile!NoTask
<1> QED
  BY <1>1 DEF Profile!Slot

LEMMA ProfileTaskType ==
  ASSUME ProfileTyped, NEW k \in Profile!Running
  PROVE  /\ k \in Tasks /\ profileTasks[k] \in ProfileTask
         /\ ProfileTaskSound(profileTasks[k])
         /\ profileTasks[k].mounted => shell \in Profile!Shells /\ shell # Null
BY DEF ProfileTyped, ProfileTask, Profile!Running, Profile!NoTask, Profile!TypeOK

LEMMA ProfileTaskStep ==
  ASSUME ProfileTyped, NEW k \in Tasks, NEW t \in ProfileTask \cup {Profile!NoTask},
         t # Profile!NoTask => ProfileTaskSound(t) /\ (t.mounted => shell' # Null),
         profileTasks' = [profileTasks EXCEPT ![k] = t],
         stored' \in [avatar : Pictures \cup {Null}, password : Passwords],
         shell' \in Profile!Shells \cup {Null}, shell # Null => shell' # Null,
         profileFlags' \in ProfileFlags
  PROVE  /\ ProfileTyped'
         /\ profileTasks'[k] = t
         /\ \A j \in Tasks \ {k} : profileTasks'[j] = profileTasks[j]
         /\ \A j \in Tasks \ {k}, kind \in {"avatar", "password"} :
              SavingKind(j, kind)' <=> SavingKind(j, kind)
         /\ \A kind \in {"avatar", "password"} :
              SavingKind(k, kind)' <=> t # Profile!NoTask /\ t.kind = kind /\ t.mounted
<1>1. /\ profileTasks' \in [Tasks -> ProfileTask \cup {Profile!NoTask}]
      /\ profileTasks'[k] = t
      /\ \A j \in Tasks \ {k} : profileTasks'[j] = profileTasks[j]
  BY DEF ProfileTyped
<1>2. ASSUME NEW j \in Profile!Running'
      PROVE  /\ j \in Tasks /\ profileTasks'[j] \in ProfileTask
             /\ ProfileTaskSound(profileTasks'[j])
             /\ profileTasks'[j].mounted => shell' # Null
  <2>1. j \in Tasks /\ profileTasks'[j] \in ProfileTask /\ profileTasks'[j] # Profile!NoTask
    BY <1>1 DEF ProfileTask, Profile!Running, Profile!NoTask
  <2>2. CASE j = k
    BY <1>1, <2>1, <2>2
  <2>3. CASE j # k
    <3>1. profileTasks'[j] = profileTasks[j] /\ j \in Profile!Running
      BY <1>1, <2>1, <2>3 DEF Profile!Running
    <3> QED
      BY <2>1, <3>1, ProfileTaskType
  <2> QED
    BY <2>2, <2>3
<1>3. ProfileTyped'
  BY <1>1, <1>2 DEF ProfileTyped, Profile!TypeOK, ProfileTask
<1>4. \A j \in Tasks \ {k}, kind \in {"avatar", "password"} :
        SavingKind(j, kind)' <=> SavingKind(j, kind)
  BY <1>1 DEF SavingKind, Profile!Attached, Profile!Running
<1>5. \A kind \in {"avatar", "password"} :
        SavingKind(k, kind)' <=> t # Profile!NoTask /\ t.kind = kind /\ t.mounted
  BY <1>1 DEF SavingKind, Profile!Attached, Profile!Running, Profile!NoTask, ProfileTask
<1> QED
  BY <1>1, <1>3, <1>4, <1>5

LEMMA ProfileTypes ==
  ASSUME ProfileInv
  PROVE  /\ ProfileTyped /\ profileFlags \in ProfileFlags
         /\ shell \in Profile!Shells \cup {Null}
         /\ stored \in [avatar : Pictures \cup {Null}, password : Passwords]
BY DEF ProfileInv, ProfileTyped, Profile!TypeOK

(* What the dialog does without a call, and what the browser fetches.            *)
LEMMA ProfileQuiet ==
  ASSUME ProfileInv, shell # Null, shell' \in Profile!Shells, UNCHANGED <<stored, profileTasks>>,
         shell'.savingAvatar = shell.savingAvatar, shell'.savingPassword = shell.savingPassword,
         \/ shell'.success \in {"none", "selected"}
         \/ shell'.success = shell.success /\ shell'.claimed = shell.claimed,
         profileFlags' \in ProfileFlags, profileFlags'.late = profileFlags.late,
         \/ shell'.avatar = stored.avatar
         \/ /\ shell'.fetching = shell.fetching /\ shell'.avatar = shell.avatar
            /\ profileFlags'.stale = profileFlags.stale
  PROVE  ProfileInv'
<1>1. shell' # Null
  BY ProfileAssumption
<1>2. /\ Profile!Running' = Profile!Running
      /\ \A k : Profile!Attached(k)' <=> Profile!Attached(k)
      /\ \A k, kind : SavingKind(k, kind)' <=> SavingKind(k, kind)
  BY DEF Profile!Running, Profile!Attached, SavingKind
<1>3. ProfileTyped'
  BY <1>1, <1>2 DEF ProfileInv, ProfileTyped, Profile!TypeOK
<1>4. Profile!NeverStuck' /\ ProfileSaves'
  BY <1>1, <1>2 DEF ProfileInv, Profile!NeverStuck, ProfileSaves
<1>5. MessagesKept' /\ Profile!SuccessTrue'
  BY <1>1, <1>2 DEF ProfileInv, MessagesKept, Profile!SuccessTrue
<1>6. PictureKept'
  BY <1>1, <1>2 DEF ProfileInv, PictureKept
<1> QED
  BY <1>3, <1>4, <1>5, <1>6 DEF ProfileInv

LEMMA ProfileDialogs ==
  ASSUME ProfileInv,
         \/ Profile!OpenProfileDialog \/ Profile!CloseProfileDialog \/ Profile!FetchAvatar
         \/ \E image \in Pictures \cup {Null} : Profile!HandleAvatarSelected(image)
  PROVE  ProfileInv'
<1>1. /\ shell # Null => shell \in Profile!Shells
      /\ profileFlags \in ProfileFlags /\ stored.avatar \in Pictures \cup {Null}
  BY DEF ProfileInv, ProfileTyped, Profile!TypeOK
<1>2. CASE Profile!OpenProfileDialog
  BY <1>1, <1>2, ProfileQuiet
  DEF Profile!OpenProfileDialog, Profile!Silent, Profile!Quietly, Profile!Shells
<1>3. CASE Profile!CloseProfileDialog
  BY <1>1, <1>3, ProfileQuiet
  DEF Profile!CloseProfileDialog, Profile!ProfileShown, Profile!Quietly, Profile!Shells
<1>4. CASE Profile!FetchAvatar
  <2>1. /\ shell # Null /\ shell \in Profile!Shells /\ UNCHANGED <<stored, profileTasks>>
        /\ shell' = [shell EXCEPT !.fetching = FALSE, !.avatar = stored.avatar]
        /\ profileFlags' = [profileFlags EXCEPT !.stale = FALSE]
    BY <1>1, <1>4 DEF Profile!FetchAvatar
  <2>2. /\ shell' \in Profile!Shells /\ shell'.avatar = stored.avatar
        /\ shell'.savingAvatar = shell.savingAvatar
        /\ shell'.savingPassword = shell.savingPassword
        /\ shell'.success = shell.success /\ shell'.claimed = shell.claimed
    BY <1>1, <2>1 DEF Profile!Shells
  <2>3. profileFlags' \in ProfileFlags /\ profileFlags'.late = profileFlags.late
    BY <1>1, <2>1 DEF ProfileFlags
  <2> QED
    BY <2>1, <2>2, <2>3, ProfileQuiet
<1>5. ASSUME NEW image \in Pictures \cup {Null}, Profile!HandleAvatarSelected(image)
      PROVE  ProfileInv'
  <2>1. /\ shell # Null /\ shell \in Profile!Shells
        /\ UNCHANGED <<stored, profileTasks, profileFlags>>
        /\ shell' = IF image = Null THEN Profile!Silent
                    ELSE [Profile!Silent EXCEPT !.pending = image, !.success = "selected"]
    BY <1>1, <1>5
    DEF Profile!HandleAvatarSelected, Profile!CanChangeAvatar, Profile!ProfileShown, Profile!Quietly
  <2>2. /\ shell' \in Profile!Shells /\ shell'.success \in {"none", "selected"}
        /\ shell'.savingAvatar = shell.savingAvatar
        /\ shell'.savingPassword = shell.savingPassword
        /\ shell'.fetching = shell.fetching /\ shell'.avatar = shell.avatar
    BY <2>1 DEF Profile!Silent, Profile!Shells
  <2> QED
    BY <1>1, <2>1, <2>2, ProfileQuiet
<1> QED
  BY <1>2, <1>3, <1>4, <1>5

(* A save starts; its button was enabled, so that none of its kind runs.         *)
LEMMA ProfileStart ==
  ASSUME ProfileInv, shell # Null,
         NEW kind \in {"avatar", "password"}, NEW current \in Passwords \cup {Null},
         NEW value \in IF kind = "avatar" THEN Pictures \cup {Null} ELSE Passwords,
         Profile!Start(kind, current, value), UNCHANGED <<stored, profileFlags>>,
         shell' \in Profile!Shells, shell'.success = "none",
         shell'.fetching = shell.fetching, shell'.avatar = shell.avatar,
         IF kind = "avatar"
         THEN ~shell.savingAvatar /\ shell'.savingAvatar
              /\ shell'.savingPassword = shell.savingPassword
         ELSE ~shell.savingPassword /\ shell'.savingPassword
              /\ shell'.savingAvatar = shell.savingAvatar
  PROVE  ProfileInv'
<1>0. PICK t : t = [kind |-> kind, phase |-> "asked", current |-> current, value |-> value,
                    mounted |-> TRUE]
  OBVIOUS
<1>1. PICK k \in Tasks :
        profileTasks[k] = Profile!NoTask /\ profileTasks' = [profileTasks EXCEPT ![k] = t]
  BY <1>0, ProfileSlot DEF ProfileInv, Profile!Start
<1>2. /\ t \in ProfileTask /\ ProfileTaskSound(t) /\ t # Profile!NoTask /\ t.mounted
      /\ t.kind = kind /\ t.phase = "asked" /\ shell' # Null
      /\ \A d \in {"avatar", "password"} : ~SavingKind(k, d)
  BY <1>0, <1>1, ProfileAssumption
  DEF ProfileTask, ProfileTaskSound, Profile!NoTask, SavingKind, Profile!Attached, Profile!Running
<1>3. /\ ProfileTyped' /\ profileTasks'[k] = t
      /\ \A j \in Tasks \ {k} : profileTasks'[j] = profileTasks[j]
      /\ \A j \in Tasks \ {k}, d \in {"avatar", "password"} :
           SavingKind(j, d)' <=> SavingKind(j, d)
      /\ \A d \in {"avatar", "password"} : SavingKind(k, d)' <=> kind = d
  <2>1. /\ ProfileTyped /\ profileFlags' \in ProfileFlags
        /\ shell' \in Profile!Shells \cup {Null}
        /\ stored' \in [avatar : Pictures \cup {Null}, password : Passwords]
    BY ProfileTypes
  <2>2. /\ ProfileTyped' /\ profileTasks'[k] = t
        /\ \A j \in Tasks \ {k} : profileTasks'[j] = profileTasks[j]
        /\ \A j \in Tasks \ {k}, d \in {"avatar", "password"} :
             SavingKind(j, d)' <=> SavingKind(j, d)
        /\ \A d \in {"avatar", "password"} :
             SavingKind(k, d)' <=> t # Profile!NoTask /\ t.kind = d /\ t.mounted
    <3>1. /\ profileTasks' = [profileTasks EXCEPT ![k] = t]
          /\ t \in ProfileTask \cup {Profile!NoTask}
          /\ t # Profile!NoTask => ProfileTaskSound(t) /\ (t.mounted => shell' # Null)
          /\ shell # Null => shell' # Null
      BY <1>1, <1>2
    <3> QED
      BY <2>1, <3>1, ProfileTaskStep
  <2> QED
    BY <1>2, <2>2
<1>4. \A d \in {"avatar", "password"} :
        \A j \in Tasks : SavingKind(j, d)' => SavingKind(j, d) \/ (j = k /\ kind = d)
  BY <1>3
<1>5. Profile!NeverStuck'
  <2>1. \A j \in Tasks, d \in {"avatar", "password"} :
          SavingKind(j, d) => SavingKind(j, d)'
    BY <1>2, <1>3
  <2>2. \A d \in {"avatar", "password"} :
          \A j \in Tasks : SavingKind(j, d)' <=> Profile!Attached(j)' /\ profileTasks'[j].kind = d
    BY DEF SavingKind
  <2>3. shell'.savingAvatar => \E j \in Tasks : SavingKind(j, "avatar")'
    BY <1>3, <2>1 DEF ProfileInv, Profile!NeverStuck, SavingKind
  <2>4. shell'.savingPassword => \E j \in Tasks : SavingKind(j, "password")'
    BY <1>3, <2>1 DEF ProfileInv, Profile!NeverStuck, SavingKind
  <2> QED
    BY <2>2, <2>3, <2>4 DEF Profile!NeverStuck
<1>6. ProfileSaves'
  <2>1. CASE kind = "avatar"
    <3>1. \A j \in Tasks : ~SavingKind(j, "avatar")
      BY <2>1 DEF ProfileInv, ProfileSaves
    <3> QED
      BY <1>2, <1>4, <2>1, <3>1 DEF ProfileInv, ProfileSaves
  <2>2. CASE kind = "password"
    <3>1. \A j \in Tasks : ~SavingKind(j, "password")
      BY <2>2 DEF ProfileInv, ProfileSaves
    <3> QED
      BY <1>2, <1>4, <2>2, <3>1 DEF ProfileInv, ProfileSaves
  <2> QED
    BY <2>1, <2>2
<1>7. MessagesKept' /\ Profile!SuccessTrue'
  BY <1>2, <1>3 DEF ProfileInv, MessagesKept, Profile!SuccessTrue
<1>8. PictureKept'
  BY <1>2, <1>3 DEF ProfileInv, PictureKept
<1> QED
  BY <1>3, <1>5, <1>6, <1>7, <1>8 DEF ProfileInv

LEMMA ProfileClicks ==
  ASSUME ProfileInv,
         Profile!HandleAvatarApply \/ Profile!HandleAvatarReset \/ Profile!HandlePasswordChange
  PROVE  ProfileInv'
<1>1. /\ shell # Null => shell \in Profile!Shells
      /\ profileFlags \in ProfileFlags /\ stored.password \in Passwords
  BY DEF ProfileInv, ProfileTyped, Profile!TypeOK
<1>2. CASE Profile!HandleAvatarApply
  <2>1. /\ shell # Null /\ shell \in Profile!Shells /\ ~shell.savingAvatar
        /\ shell.pending \in Pictures /\ Profile!Start("avatar", Null, shell.pending)
        /\ shell' = [Profile!Silent EXCEPT !.savingAvatar = TRUE]
        /\ UNCHANGED <<stored, profileFlags>>
    BY <1>1, <1>2
    DEF Profile!HandleAvatarApply, Profile!CanChangeAvatar, Profile!ProfileShown, Profile!Shells
  <2>2. /\ shell' \in Profile!Shells /\ shell'.success = "none" /\ shell'.savingAvatar
        /\ shell'.savingPassword = shell.savingPassword
        /\ shell'.fetching = shell.fetching /\ shell'.avatar = shell.avatar
    BY <2>1 DEF Profile!Silent, Profile!Shells
  <2> QED
    BY <2>1, <2>2, ProfileStart
<1>3. CASE Profile!HandleAvatarReset
  <2>1. /\ shell # Null /\ shell \in Profile!Shells /\ ~shell.savingAvatar
        /\ Profile!Start("avatar", Null, Null)
        /\ shell' = [Profile!Silent EXCEPT !.savingAvatar = TRUE, !.pending = Null]
        /\ UNCHANGED <<stored, profileFlags>>
    BY <1>1, <1>3 DEF Profile!HandleAvatarReset, Profile!CanChangeAvatar, Profile!ProfileShown
  <2>2. /\ shell' \in Profile!Shells /\ shell'.success = "none" /\ shell'.savingAvatar
        /\ shell'.savingPassword = shell.savingPassword
        /\ shell'.fetching = shell.fetching /\ shell'.avatar = shell.avatar
    BY <2>1 DEF Profile!Silent, Profile!Shells
  <2> QED
    BY <2>1, <2>2, ProfileStart
<1>4. CASE Profile!HandlePasswordChange
  <2>1. /\ shell # Null /\ shell \in Profile!Shells /\ ~shell.savingPassword
    BY <1>1, <1>4 DEF Profile!HandlePasswordChange, Profile!CanSavePassword, Profile!ProfileShown
  <2>2. CASE shell' = Profile!Silent /\ Profile!Quietly
    BY <1>1, <2>1, <2>2, ProfileQuiet DEF Profile!Silent, Profile!Quietly, Profile!Shells
  <2>3. CASE ~(shell' = Profile!Silent /\ Profile!Quietly)
    <3>1. /\ shell' = [Profile!Silent EXCEPT !.savingPassword = TRUE]
          /\ UNCHANGED <<stored, profileFlags>>
          /\ \E typed \in Profile!Typed : Profile!Start("password", typed[1], typed[2])
      BY <1>4, <2>3 DEF Profile!HandlePasswordChange
    <3>2. PICK current \in Passwords \cup {Null}, value \in Passwords :
            Profile!Start("password", current, value)
      BY <1>1, <3>1 DEF Profile!Typed
    <3>3. /\ shell' \in Profile!Shells /\ shell'.success = "none" /\ shell'.savingPassword
          /\ shell'.savingAvatar = shell.savingAvatar
          /\ shell'.fetching = shell.fetching /\ shell'.avatar = shell.avatar
      BY <2>1, <3>1 DEF Profile!Silent, Profile!Shells
    <3> QED
      BY <2>1, <3>1, <3>2, <3>3, ProfileStart
  <2> QED
    BY <2>2, <2>3
<1> QED
  BY <1>2, <1>3, <1>4

(* A save ends: its button is free again, and what it reports is stored.         *)
LEMMA ProfileEnds ==
  ASSUME ProfileInv, NEW k \in Tasks,
         \/ Profile!AvatarAnswered(k) \/ Profile!PasswordAnswered(k) \/ Profile!SaveFailed(k)
  PROVE  ProfileInv'
<1> DEFINE kind == profileTasks[k].kind
           saved == profileTasks[k].phase = "done"
<1>1. /\ k \in Profile!Running /\ UNCHANGED <<stored, profileFlags>>
      /\ profileTasks' = [profileTasks EXCEPT ![k] = Profile!NoTask]
      /\ ~profileTasks[k].mounted => shell' = shell
  BY DEF Profile!AvatarAnswered, Profile!PasswordAnswered, Profile!SaveFailed, Profile!Answered,
         Profile!Finish
<1>2. /\ profileTasks[k] \in ProfileTask /\ ProfileTaskSound(profileTasks[k])
      /\ profileTasks[k].mounted => shell \in Profile!Shells /\ shell # Null
      /\ ProfileTyped /\ kind \in {"avatar", "password"}
      /\ shell \in Profile!Shells \cup {Null}
  BY <1>1, ProfileTaskType DEF ProfileInv, ProfileTask, ProfileTyped, Profile!TypeOK
<1>3. profileTasks[k].mounted =>
        /\ shell' \in Profile!Shells
        /\ shell'.savingAvatar = IF kind = "avatar" THEN FALSE ELSE shell.savingAvatar
        /\ shell'.savingPassword = IF kind = "password" THEN FALSE ELSE shell.savingPassword
        /\ shell'.avatar = shell.avatar
        /\ IF saved THEN shell'.success = kind /\ shell'.claimed = profileTasks[k].value
           ELSE shell'.success = shell.success /\ shell'.claimed = shell.claimed
        /\ IF saved /\ kind = "avatar" THEN shell'.fetching ELSE shell'.fetching = shell.fetching
  <2>1. CASE Profile!AvatarAnswered(k)
    BY <1>2, <2>1
    DEF Profile!AvatarAnswered, Profile!Answered, Profile!Finish, Profile!Succeeded,
        Profile!Released, Profile!Shells, ProfileTask
  <2>2. CASE Profile!PasswordAnswered(k)
    BY <1>2, <2>2
    DEF Profile!PasswordAnswered, Profile!Answered, Profile!Finish, Profile!Succeeded,
        Profile!Released, Profile!Shells, ProfileTask
  <2>3. CASE Profile!SaveFailed(k)
    <3>1. CASE kind = "avatar"
      BY <1>2, <2>3, <3>1 DEF Profile!SaveFailed, Profile!Finish, Profile!Released, Profile!Shells
    <3>2. CASE kind = "password"
      BY <1>2, <2>3, <3>2 DEF Profile!SaveFailed, Profile!Finish, Profile!Released, Profile!Shells
    <3> QED
      BY <1>2, <3>1, <3>2
  <2> QED
    BY <2>1, <2>2, <2>3
<1>4. /\ shell = Null <=> shell' = Null
      /\ shell' \in Profile!Shells \cup {Null}
  BY <1>1, <1>2, <1>3, ProfileAssumption
<1>5. /\ ProfileTyped'
      /\ \A j \in Tasks \ {k} : profileTasks'[j] = profileTasks[j]
      /\ \A j \in Tasks \ {k}, d \in {"avatar", "password"} :
           SavingKind(j, d)' <=> SavingKind(j, d)
      /\ \A d \in {"avatar", "password"} : ~SavingKind(k, d)'
  <2>1. PICK t : t = Profile!NoTask
    OBVIOUS
  <2>2. /\ profileTasks' = [profileTasks EXCEPT ![k] = t] /\ profileFlags' \in ProfileFlags
        /\ shell # Null => shell' # Null
        /\ stored' \in [avatar : Pictures \cup {Null}, password : Passwords]
    BY <1>1, <1>4, <2>1, ProfileTypes
  <2> QED
    BY <1>2, <1>4, <2>1, <2>2, ProfileTaskStep
<1>6. SavingKind(k, kind) <=> profileTasks[k].mounted
  BY <1>1 DEF SavingKind, Profile!Attached
<1>7. Profile!NeverStuck'
  <2>1. ASSUME shell' # Null, shell'.savingAvatar
        PROVE  \E j \in Tasks : SavingKind(j, "avatar")'
    <3>1. shell.savingAvatar /\ (profileTasks[k].mounted => kind # "avatar")
      BY <1>1, <1>3, <2>1
    <3>2. PICK j \in Tasks : SavingKind(j, "avatar")
      BY <1>4, <2>1, <3>1 DEF ProfileInv, Profile!NeverStuck, SavingKind
    <3>3. j # k
      BY <3>1, <3>2 DEF SavingKind, Profile!Attached
    <3> QED
      BY <1>5, <3>2, <3>3
  <2>2. ASSUME shell' # Null, shell'.savingPassword
        PROVE  \E j \in Tasks : SavingKind(j, "password")'
    <3>1. shell.savingPassword /\ (profileTasks[k].mounted => kind # "password")
      BY <1>1, <1>3, <2>2
    <3>2. PICK j \in Tasks : SavingKind(j, "password")
      BY <1>4, <2>2, <3>1 DEF ProfileInv, Profile!NeverStuck, SavingKind
    <3>3. j # k
      BY <3>1, <3>2 DEF SavingKind, Profile!Attached
    <3> QED
      BY <1>5, <3>2, <3>3
  <2> QED
    BY <2>1, <2>2 DEF Profile!NeverStuck, SavingKind
<1>8. ProfileSaves'
  <2>1. ASSUME NEW d \in {"avatar", "password"}, NEW j \in Tasks, SavingKind(j, d)'
        PROVE  SavingKind(j, d) /\ j # k
    BY <1>5, <2>1
  <2>2. ASSUME shell' # Null, NEW j \in Tasks, SavingKind(j, "avatar")'
        PROVE  shell'.savingAvatar
    <3>1. SavingKind(j, "avatar") /\ j # k /\ shell.savingAvatar
      BY <1>4, <2>1, <2>2 DEF ProfileInv, ProfileSaves
    <3>2. profileTasks[k].mounted => kind # "avatar"
      BY <1>4, <1>6, <2>2, <3>1 DEF ProfileInv, ProfileSaves
    <3> QED
      BY <1>1, <1>3, <3>1, <3>2
  <2>3. ASSUME shell' # Null, NEW j \in Tasks, SavingKind(j, "password")'
        PROVE  shell'.savingPassword
    <3>1. SavingKind(j, "password") /\ j # k /\ shell.savingPassword
      BY <1>4, <2>1, <2>3 DEF ProfileInv, ProfileSaves
    <3>2. profileTasks[k].mounted => kind # "password"
      BY <1>4, <1>6, <2>3, <3>1 DEF ProfileInv, ProfileSaves
    <3> QED
      BY <1>1, <1>3, <3>1, <3>2
  <2>4. shell' # Null => \A d \in {"avatar", "password"} : \A k1, k2 \in Tasks :
          SavingKind(k1, d)' /\ SavingKind(k2, d)' => k1 = k2
    BY <1>4, <2>1 DEF ProfileInv, ProfileSaves
  <2> QED
    BY <2>2, <2>3, <2>4 DEF ProfileSaves
<1>9. ASSUME shell' # Null, ~profileFlags'.late
      PROVE  /\ shell'.savingAvatar => shell'.success # "avatar"
             /\ shell'.savingPassword => shell'.success # "password"
             /\ shell'.success = "password" => stored.password = shell'.claimed
             /\ shell'.success = "avatar" => stored.avatar = shell'.claimed
  <2>1. /\ shell # Null /\ ~profileFlags.late
        /\ shell.savingAvatar => shell.success # "avatar"
        /\ shell.savingPassword => shell.success # "password"
        /\ shell.success = "password" => stored.password = shell.claimed
        /\ shell.success = "avatar" => stored.avatar = shell.claimed
    BY <1>1, <1>4, <1>9 DEF ProfileInv, MessagesKept, Profile!SuccessTrue
  <2>2. CASE ~profileTasks[k].mounted
    BY <1>1, <2>1, <2>2
  <2>3. CASE profileTasks[k].mounted /\ ~saved
    BY <1>2, <1>3, <2>1, <2>3
  <2>4. CASE profileTasks[k].mounted /\ saved
    <3>1. /\ kind = "avatar" => stored.avatar = profileTasks[k].value
          /\ kind = "password" => stored.password = profileTasks[k].value
      BY <1>6, <2>1, <2>4 DEF ProfileInv, MessagesKept
    <3> QED
      BY <1>2, <1>3, <2>4, <3>1
  <2> QED
    BY <2>2, <2>3, <2>4
<1>10. MessagesKept' /\ Profile!SuccessTrue'
  <2>1. ASSUME shell' # Null, ~profileFlags'.late, NEW j \in Tasks
        PROVE  /\ SavingKind(j, "avatar")' /\ profileTasks'[j].phase = "done" =>
                    stored.avatar = profileTasks'[j].value
               /\ SavingKind(j, "password")' /\ profileTasks'[j].phase = "done" =>
                    stored.password = profileTasks'[j].value
    BY <1>1, <1>4, <1>5, <2>1 DEF ProfileInv, MessagesKept
  <2> QED
    BY <1>1, <1>9, <2>1 DEF MessagesKept, Profile!SuccessTrue
<1>11. PictureKept'
  <2>1. SUFFICES ASSUME shell' # Null, ~shell'.fetching, ~profileFlags'.stale,
                        \A j \in Tasks : SavingKind(j, "avatar")' => profileTasks'[j].phase # "done"
                 PROVE  shell'.avatar = stored.avatar
    BY <1>1 DEF PictureKept
  <2>2. shell # Null /\ shell'.avatar = shell.avatar /\ ~shell.fetching
    BY <1>1, <1>3, <1>4, <2>1
  <2>3. SavingKind(k, "avatar") => profileTasks[k].phase # "done"
    BY <1>3, <2>1 DEF SavingKind, Profile!Attached
  <2>4. \A j \in Tasks : SavingKind(j, "avatar") => profileTasks[j].phase # "done"
    BY <1>5, <2>1, <2>3
  <2> QED
    BY <1>1, <2>1, <2>2, <2>4 DEF ProfileInv, PictureKept
<1> QED
  BY <1>5, <1>7, <1>8, <1>10, <1>11 DEF ProfileInv

(* A save takes a step in the service.                                           *)
LEMMA ProfileServices ==
  ASSUME ProfileInv, NEW k \in Tasks,
         \/ Profile!ServeAvatar(k) \/ Profile!CheckPassword(k) \/ Profile!ChangePassword(k)
         \/ Profile!CallFails(k)
  PROVE  ProfileInv'
<1>1. /\ k \in Profile!Running /\ UNCHANGED shell
      /\ profileTasks[k] \in ProfileTask /\ ProfileTaskSound(profileTasks[k]) /\ ProfileTyped
      /\ profileTasks[k].mounted => shell # Null
  BY ProfileTaskType
  DEF ProfileInv, Profile!ServeAvatar, Profile!CheckPassword, Profile!ChangePassword,
      Profile!CallFails
<1>2. PICK phase \in {"checked", "done", "failed"} :
        /\ Profile!Move(k, phase)
        /\ profileTasks[k].kind = "avatar" => phase # "checked"
        /\ phase = "done" => Profile!ServeAvatar(k) \/ Profile!ChangePassword(k)
        /\ phase # "done" => UNCHANGED stored
  BY <1>1
  DEF Profile!ServeAvatar, Profile!CheckPassword, Profile!ChangePassword, Profile!CallFails
<1>3. PICK t : t = [profileTasks[k] EXCEPT !.phase = phase]
  OBVIOUS
<1>4. /\ t \in ProfileTask /\ ProfileTaskSound(t) /\ t # Profile!NoTask /\ t.phase = phase
      /\ t.kind = profileTasks[k].kind /\ t.value = profileTasks[k].value
      /\ t.mounted = profileTasks[k].mounted
      /\ profileTasks' = [profileTasks EXCEPT ![k] = t]
  BY <1>1, <1>2, <1>3 DEF ProfileTask, ProfileTaskSound, Profile!NoTask, Profile!Move
<1>5. /\ phase = "done" /\ t.kind = "avatar" =>
           /\ stored'.avatar = t.value /\ stored'.password = stored.password
      /\ phase = "done" /\ t.kind = "password" =>
           /\ stored'.password = t.value /\ stored'.avatar = stored.avatar
      /\ stored' \in [avatar : Pictures \cup {Null}, password : Passwords]
  <2>1. stored \in [avatar : Pictures \cup {Null}, password : Passwords]
    BY ProfileTypes
  <2>2. CASE phase # "done"
    BY <1>2, <2>1, <2>2
  <2>3. CASE Profile!ServeAvatar(k)
    <3>1. t.kind = "avatar" /\ stored' = [stored EXCEPT !.avatar = t.value]
      BY <1>4, <2>3 DEF Profile!ServeAvatar
    <3>2. t.value \in Pictures \cup {Null}
      BY <1>4, <3>1 DEF ProfileTaskSound
    <3> QED
      BY <2>1, <3>1, <3>2
  <2>4. CASE Profile!ChangePassword(k)
    <3>1. t.kind = "password" /\ stored' = [stored EXCEPT !.password = t.value]
      BY <1>1, <1>4, <2>4 DEF Profile!ChangePassword, ProfileTask, ProfileTaskSound
    <3>2. t.value \in Passwords
      BY <1>4, <3>1 DEF ProfileTaskSound
    <3> QED
      BY <2>1, <3>1, <3>2
  <2> QED
    BY <1>2, <2>2, <2>3, <2>4
<1>6. /\ profileFlags' \in ProfileFlags /\ (profileFlags.late => profileFlags'.late)
      /\ phase = "done" /\ ~t.mounted => profileFlags'.late
      /\ ~profileFlags'.stale => ~profileFlags.stale
      /\ ~profileFlags'.stale /\ t.kind = "avatar" => phase # "failed"
      /\ ~profileFlags'.stale /\ t.kind = "avatar" /\ phase = "done" => t.mounted
  <2>1. /\ profileFlags \in ProfileFlags /\ t.mounted \in BOOLEAN
        /\ profileTasks[k].phase = "asked" => profileTasks[k].kind \in {"avatar", "password"}
    BY <1>1, <1>4, ProfileTypes DEF ProfileTask
  <2>2. PICK stale, late \in BOOLEAN :
          profileFlags.stale = stale /\ profileFlags.late = late
             /\ profileFlags = [stale |-> stale, late |-> late]
    BY <2>1 DEF ProfileFlags
  <2>3. CASE Profile!ServeAvatar(k)
    <3>1. /\ phase = "done"
          /\ profileFlags' = IF t.mounted THEN profileFlags ELSE [stale |-> TRUE, late |-> TRUE]
      BY <1>1, <1>2, <1>4, <2>3 DEF Profile!ServeAvatar, Profile!Move, ProfileTask, ProfileTyped
    <3> QED
      BY <2>1, <2>2, <3>1 DEF ProfileFlags
  <2>4. CASE Profile!CheckPassword(k)
    <3>1. t.kind = "password" /\ profileFlags' = profileFlags /\ phase # "done"
      BY <1>1, <1>2, <1>4, <2>4
      DEF Profile!CheckPassword, Profile!ServeAvatar, Profile!ChangePassword
    <3> QED
      BY <2>1, <2>2, <3>1
  <2>5. CASE Profile!ChangePassword(k)
    <3>1. /\ t.kind = "password"
          /\ profileFlags' = [profileFlags EXCEPT !.late = @ \/ ~t.mounted]
      BY <1>1, <1>4, <2>5 DEF Profile!ChangePassword, ProfileTaskSound, ProfileTask
    <3>2. profileFlags' = [stale |-> stale, late |-> late \/ ~t.mounted]
      BY <2>2, <3>1
    <3> QED
      BY <2>1, <2>2, <3>1, <3>2 DEF ProfileFlags
  <2>6. CASE Profile!CallFails(k)
    <3>1. profileFlags' = [profileFlags EXCEPT !.stale = @ \/ t.kind = "avatar"]
      BY <1>4, <2>6 DEF Profile!CallFails
    <3>2. profileFlags' = [stale |-> stale \/ t.kind = "avatar", late |-> late]
      BY <2>2, <3>1
    <3>3. phase # "done"
      BY <1>1, <1>2, <2>6 DEF Profile!CallFails, Profile!Move, ProfileTyped, ProfileTask
    <3> QED
      BY <2>1, <2>2, <3>2, <3>3 DEF ProfileFlags
  <2> QED
    BY <2>3, <2>4, <2>5, <2>6
<1>7. /\ ProfileTyped' /\ profileTasks'[k] = t
      /\ \A j \in Tasks \ {k} : profileTasks'[j] = profileTasks[j]
      /\ \A j \in Tasks, d \in {"avatar", "password"} : SavingKind(j, d)' <=> SavingKind(j, d)
  <2>1. /\ ProfileTyped' /\ profileTasks'[k] = t
        /\ \A j \in Tasks \ {k} : profileTasks'[j] = profileTasks[j]
        /\ \A j \in Tasks \ {k}, d \in {"avatar", "password"} :
             SavingKind(j, d)' <=> SavingKind(j, d)
        /\ \A d \in {"avatar", "password"} :
             SavingKind(k, d)' <=> t # Profile!NoTask /\ t.kind = d /\ t.mounted
    <3>1. /\ profileTasks' = [profileTasks EXCEPT ![k] = t] /\ ProfileTyped
          /\ t \in ProfileTask \cup {Profile!NoTask}
          /\ t # Profile!NoTask => ProfileTaskSound(t) /\ (t.mounted => shell' # Null)
          /\ profileFlags' \in ProfileFlags
      BY <1>1, <1>4, <1>6, ProfileTypes
    <3>2. /\ shell # Null => shell' # Null
          /\ shell' \in Profile!Shells \cup {Null}
          /\ stored' \in [avatar : Pictures \cup {Null}, password : Passwords]
      BY <1>1, <1>5, ProfileTypes
    <3> QED
      BY <3>1, <3>2, ProfileTaskStep
  <2>2. \A d : SavingKind(k, d) <=> t.kind = d /\ t.mounted
    BY <1>1, <1>4 DEF SavingKind, Profile!Attached
  <2> QED
    BY <1>4, <2>1, <2>2
<1>8. Profile!NeverStuck'
  BY <1>1, <1>7 DEF ProfileInv, Profile!NeverStuck, SavingKind
<1>9. ProfileSaves'
  BY <1>1, <1>7 DEF ProfileInv, ProfileSaves
<1>10. MessagesKept' /\ Profile!SuccessTrue'
  <2>1. SUFFICES ASSUME shell # Null, ~profileFlags'.late
                 PROVE  MessagesKept' /\ Profile!SuccessTrue'
    BY <1>1 DEF MessagesKept, Profile!SuccessTrue
  <2>2. /\ shell.savingAvatar => shell.success # "avatar"
        /\ shell.savingPassword => shell.success # "password"
        /\ shell.success = "password" => stored.password = shell.claimed
        /\ shell.success = "avatar" => stored.avatar = shell.claimed
    BY <1>6, <2>1 DEF ProfileInv, MessagesKept, Profile!SuccessTrue
  <2>3. CASE phase # "done"
    BY <1>1, <1>2, <1>4, <1>6, <1>7, <2>1, <2>3
    DEF ProfileInv, MessagesKept, Profile!SuccessTrue
  <2>4. CASE phase = "done"
    <3>1. t.mounted /\ SavingKind(k, t.kind)
      BY <1>1, <1>4, <1>6, <2>1, <2>4 DEF SavingKind, Profile!Attached
    <3>2. CASE t.kind = "avatar"
      <4>1. shell.success # "avatar" /\ \A j \in Tasks : SavingKind(j, "avatar") => j = k
        BY <2>1, <2>2, <3>1, <3>2 DEF ProfileInv, ProfileSaves
      <4>2. \A j \in Tasks : SavingKind(j, "password") => j # k
        BY <1>4, <3>2 DEF SavingKind
      <4> QED
        BY <1>1, <1>5, <1>6, <1>7, <2>1, <2>2, <2>4, <3>2, <4>1, <4>2
        DEF ProfileInv, MessagesKept, Profile!SuccessTrue
    <3>3. CASE t.kind = "password"
      <4>1. shell.success # "password" /\ \A j \in Tasks : SavingKind(j, "password") => j = k
        BY <2>1, <2>2, <3>1, <3>3 DEF ProfileInv, ProfileSaves
      <4>2. \A j \in Tasks : SavingKind(j, "avatar") => j # k
        BY <1>4, <3>3 DEF SavingKind
      <4> QED
        BY <1>1, <1>5, <1>6, <1>7, <2>1, <2>2, <2>4, <3>3, <4>1, <4>2
        DEF ProfileInv, MessagesKept, Profile!SuccessTrue
    <3> QED
      BY <1>4, <3>2, <3>3 DEF ProfileTask
  <2> QED
    BY <2>3, <2>4
<1>11. PictureKept'
  <2>1. SUFFICES ASSUME shell # Null, ~shell.fetching, ~profileFlags'.stale,
                        \A j \in Tasks : SavingKind(j, "avatar") => profileTasks'[j].phase # "done"
                 PROVE  shell.avatar = stored'.avatar
    BY <1>1, <1>7 DEF PictureKept
  <2>2. CASE t.kind = "avatar"
    <3>1. phase \notin {"failed", "checked"}
      BY <1>2, <1>4, <1>6, <2>1, <2>2
    <3>2. SavingKind(k, "avatar")
      BY <1>1, <1>4, <1>6, <2>1, <2>2, <3>1 DEF SavingKind, Profile!Attached
    <3> QED
      BY <1>4, <1>7, <2>1, <3>1, <3>2
  <2>3. CASE t.kind = "password"
    <3>1. stored'.avatar = stored.avatar
      BY <1>2, <1>5, <2>3
    <3>2. \A j \in Tasks : SavingKind(j, "avatar") => j # k
      BY <1>4, <2>3 DEF SavingKind
    <3> QED
      BY <1>6, <1>7, <2>1, <3>1, <3>2 DEF ProfileInv, PictureKept
  <2> QED
    BY <1>4, <2>2, <2>3 DEF ProfileTask
<1> QED
  BY <1>7, <1>8, <1>9, <1>10, <1>11 DEF ProfileInv

(* The shell comes and goes; a picture is set in another browser.                *)
LEMMA ProfileAround ==
  ASSUME ProfileInv, Profile!Mount \/ Profile!Unmount \/ Profile!Elsewhere
  PROVE  ProfileInv'
<1>1. /\ ProfileTyped /\ profileFlags \in ProfileFlags
      /\ stored \in [avatar : Pictures \cup {Null}, password : Passwords]
      /\ \A k \in Profile!Running : k \in Tasks /\ profileTasks[k] \in ProfileTask
                                    /\ ProfileTaskSound(profileTasks[k])
  BY ProfileTaskType DEF ProfileInv, ProfileTyped, Profile!TypeOK
<1>2. CASE Profile!Mount
  <2>1. /\ shell = Null /\ UNCHANGED <<stored, profileTasks, profileFlags>>
        /\ shell' = [fetching |-> TRUE, avatar |-> Null, open |-> FALSE, pending |-> Null,
                     savingAvatar |-> FALSE, savingPassword |-> FALSE, success |-> "none",
                     claimed |-> Null]
    BY <1>2 DEF Profile!Mount
  <2>2. /\ shell' \in Profile!Shells /\ shell'.success = "none" /\ shell'.fetching
        /\ ~shell'.savingAvatar /\ ~shell'.savingPassword
    BY <2>1 DEF Profile!Shells
  <2>3. \A k \in Tasks, kind \in {"avatar", "password"} : ~SavingKind(k, kind)'
    BY <1>1, <2>1 DEF SavingKind, Profile!Attached, Profile!Running, ProfileTyped, Profile!TypeOK
  <2>4. ProfileTyped'
    <3>1. \A k \in Profile!Running' : k \in Profile!Running /\ ~profileTasks[k].mounted
      BY <1>1, <2>1 DEF Profile!Running, ProfileTyped, Profile!TypeOK
    <3> QED
      BY <1>1, <2>1, <2>2, <3>1 DEF ProfileTyped, Profile!TypeOK
  <2> QED
    BY <2>2, <2>3, <2>4
    DEF ProfileInv, Profile!NeverStuck, ProfileSaves, MessagesKept, PictureKept, Profile!SuccessTrue
<1>3. CASE Profile!Unmount
  <2>1. /\ shell' = Null /\ UNCHANGED <<stored, profileFlags>>
        /\ profileTasks' = [k \in Tasks |->
             IF k \in Profile!Running THEN [profileTasks[k] EXCEPT !.mounted = FALSE]
             ELSE Profile!NoTask]
    BY <1>3 DEF Profile!Unmount
  <2>2. ASSUME NEW k \in Profile!Running
        PROVE  /\ profileTasks'[k] \in ProfileTask /\ ~profileTasks'[k].mounted
               /\ ProfileTaskSound(profileTasks'[k])
    <3>1. PICK t \in ProfileTask : t = [profileTasks[k] EXCEPT !.mounted = FALSE]
      BY <1>1 DEF ProfileTask
    <3>2. profileTasks'[k] = t
      BY <1>1, <2>1, <3>1
    <3> QED
      BY <1>1, <3>1, <3>2 DEF ProfileTask, ProfileTaskSound
  <2>3. profileTasks' \in [Tasks -> ProfileTask \cup {Profile!NoTask}]
    <3>1. \A k \in Tasks : profileTasks'[k] \in ProfileTask \cup {Profile!NoTask}
      BY <2>1, <2>2
    <3> QED
      BY <2>1, <3>1
  <2>4. \A k \in Profile!Running' : k \in Profile!Running
    BY <2>1 DEF Profile!Running, Profile!NoTask
  <2>5. ProfileTyped'
    BY <1>1, <2>1, <2>2, <2>3, <2>4 DEF ProfileTyped, Profile!TypeOK, ProfileTask
  <2> QED
    BY <2>1, <2>5
    DEF ProfileInv, Profile!NeverStuck, ProfileSaves, MessagesKept, PictureKept, Profile!SuccessTrue
<1>4. CASE Profile!Elsewhere
  <2>1. /\ UNCHANGED <<shell, profileTasks>> /\ profileFlags' = [stale |-> TRUE, late |-> TRUE]
        /\ \E image \in Pictures \cup {Null} : stored' = [stored EXCEPT !.avatar = image]
    BY <1>4 DEF Profile!Elsewhere
  <2>2. /\ profileFlags' \in ProfileFlags /\ profileFlags'.late /\ profileFlags'.stale
        /\ stored' \in [avatar : Pictures \cup {Null}, password : Passwords]
    BY <1>1, <2>1 DEF ProfileFlags
  <2>3. /\ Profile!Running' = Profile!Running
        /\ \A k : Profile!Attached(k)' <=> Profile!Attached(k)
        /\ \A k, kind : SavingKind(k, kind)' <=> SavingKind(k, kind)
    BY <2>1 DEF Profile!Running, Profile!Attached, SavingKind
  <2>4. ProfileTyped'
    BY <1>1, <2>1, <2>2, <2>3 DEF ProfileTyped, Profile!TypeOK
  <2>5. Profile!NeverStuck' /\ ProfileSaves'
    BY <2>1, <2>3 DEF ProfileInv, Profile!NeverStuck, ProfileSaves
  <2> QED
    BY <2>2, <2>4, <2>5 DEF ProfileInv, MessagesKept, PictureKept, Profile!SuccessTrue
<1> QED
  BY <1>2, <1>3, <1>4

LEMMA ProfileInit == Profile!Init => ProfileInv
<1> SUFFICES ASSUME Profile!Init
             PROVE  ProfileInv
  OBVIOUS
<1>1. /\ shell = Null /\ Profile!Running = {} /\ profileFlags \in ProfileFlags
      /\ profileTasks \in [Tasks -> ProfileTask \cup {Profile!NoTask}]
      /\ stored \in [avatar : Pictures \cup {Null}, password : Passwords]
  BY ProfileAssumption
  DEF Profile!Init, Profile!Running, Profile!NoTask, ProfileFlags, Profile!NoFlags
<1> QED
  BY <1>1
  DEF ProfileInv, ProfileTyped, Profile!TypeOK, Profile!NeverStuck, ProfileSaves, MessagesKept,
      PictureKept, Profile!SuccessTrue

LEMMA ProfileStep == ProfileInv /\ Profile!Next => ProfileInv'
BY ProfileDialogs, ProfileClicks, ProfileEnds, ProfileServices, ProfileAround DEF Profile!Next

-----------------------------------------------------------------------------
(* The page of a subject.                                                        *)

LEMMA DetailSlot ==
  ASSUME DetailTyped, Detail!Running # Tasks
  PROVE  Detail!Slot \in Tasks /\ detailTasks[Detail!Slot] = Detail!NoTask
<1>1. \E k \in Tasks : detailTasks[k] = Detail!NoTask
  BY DEF DetailTyped, DetailTask, Detail!Running, Detail!NoTask
<1> QED
  BY <1>1 DEF Detail!Slot

LEMMA DetailTaskType ==
  ASSUME DetailTyped, NEW k \in Detail!Running
  PROVE  /\ k \in Tasks /\ detailTasks[k] \in DetailTask
         /\ DetailTaskSound(detailTasks[k])
         /\ detailTasks[k].mounted => detailPage \in Detail!Pages /\ detailPage # Null
BY DEF DetailTyped, DetailTask, Detail!Running, Detail!NoTask, Detail!TypeOK

LEMMA DetailTypes ==
  ASSUME DetailInv
  PROVE  /\ DetailTyped /\ DOMAIN detailTasks = Tasks
         /\ detailRows \in [Subjects -> Detail!Row] /\ detailPage \in Detail!Pages \cup {Null}
         /\ detailBounds \in [clicks : Nat, faults : Nat, elsewhere : Nat]
         /\ detailFlags \in [overlap : BOOLEAN, stale : BOOLEAN]
BY DEF DetailInv, DetailTyped, Detail!TypeOK

LEMMA DetailTypedIntro ==
  ASSUME detailRows' \in [Subjects -> Detail!Row], detailPage' \in Detail!Pages \cup {Null},
         detailTasks' \in [Tasks -> DetailTask \cup {Detail!NoTask}],
         detailBounds' \in [clicks : Nat, faults : Nat, elsewhere : Nat],
         detailFlags' \in [overlap : BOOLEAN, stale : BOOLEAN],
         DetailTyped, UNCHANGED detailRole,
         \A k \in Tasks : detailTasks'[k] # Detail!NoTask =>
           /\ DetailTaskSound(detailTasks'[k])
           /\ detailTasks'[k].mounted => detailPage' # Null
  PROVE  DetailTyped'
<1>1. \A k \in Detail!Running' : /\ k \in Tasks /\ detailTasks'[k] \in DetailTask
                                 /\ detailTasks'[k] # Detail!NoTask
  BY DEF Detail!Running, DetailTask, Detail!NoTask
<1>2. Detail!TypeOK'
  BY <1>1 DEF Detail!TypeOK, DetailTask
<1>3. \A k \in Detail!Running' : DetailTaskSound(detailTasks'[k])
  BY <1>1
<1>4. (\A k \in Detail!Running : DetailTaskSound(detailTasks[k]))'
  BY <1>3 DEF DetailTaskSound
<1> QED
  BY <1>2, <1>4 DEF DetailTyped

(* One task starts, takes another step, or ends.                                 *)
LEMMA DetailTaskStep ==
  ASSUME DetailTyped, NEW k \in Tasks, NEW t \in DetailTask \cup {Detail!NoTask},
         t # Detail!NoTask => DetailTaskSound(t) /\ (t.mounted => detailPage' # Null),
         detailTasks' = [detailTasks EXCEPT ![k] = t], UNCHANGED detailRole,
         detailRows' \in [Subjects -> Detail!Row], detailPage' \in Detail!Pages \cup {Null},
         detailPage # Null => detailPage' # Null,
         detailBounds' \in [clicks : Nat, faults : Nat, elsewhere : Nat],
         detailFlags' \in [overlap : BOOLEAN, stale : BOOLEAN]
  PROVE  DetailTyped'
<1>1. detailTasks' \in [Tasks -> DetailTask \cup {Detail!NoTask}]
  BY DEF DetailTyped
<1>2. ASSUME NEW j \in Tasks, detailTasks'[j] # Detail!NoTask
      PROVE  DetailTaskSound(detailTasks'[j]) /\ (detailTasks'[j].mounted => detailPage' # Null)
  <2>1. CASE j = k
    BY <1>2, <2>1 DEF DetailTyped
  <2>2. CASE j # k
    <3>1. detailTasks'[j] = detailTasks[j] /\ j \in Detail!Running
      BY <1>2, <2>2 DEF DetailTyped, DetailTask, Detail!Running, Detail!NoTask
    <3> QED
      BY <3>1, DetailTaskType
  <2> QED
    BY <2>1, <2>2
<1> QED
  BY <1>1, <1>2, DetailTypedIntro

(* What is taught stays taught, and the new step of a task is about it.          *)
LEMMA OwnStep ==
  ASSUME DetailTyped, OwnSubjects, UNCHANGED detailRole, detailBounds'.elsewhere = 0 => detailBounds.elsewhere = 0,
         NEW k \in Tasks, NEW t, detailTasks' = [detailTasks EXCEPT ![k] = t],
         detailRole = "teacher" /\ detailBounds.elsewhere = 0 =>
           /\ \A s \in Subjects : Teaches(s) => Teaches(s)'
           /\ t.kind # "none" => TaughtTask(t)'
           /\ TaughtPage'
  PROVE  OwnSubjects'
<1> SUFFICES ASSUME detailRole = "teacher", detailBounds.elsewhere = 0,
                    NEW j \in Detail!Running', NEW u, u = detailTasks'[j]
             PROVE  TaughtTask(u)'
  BY DEF OwnSubjects, TaughtTask, Teaches
<1>1. CASE j = k
  <2>1. detailTasks'[j] = t /\ t.kind # "none"
    BY <1>1 DEF DetailTyped, Detail!Running
  <2> QED
    BY <2>1 DEF TaughtTask, Teaches
<1>2. CASE j # k
  <2>1. detailTasks'[j] = detailTasks[j] /\ j \in Detail!Running
    BY <1>2 DEF DetailTyped, Detail!Running
  <2>2. TaughtTask(detailTasks[j]) /\ detailTasks[j] \in DetailTask /\ DetailTaskSound(detailTasks[j])
    BY <2>1, DetailTaskType DEF OwnSubjects
  <2>3. \A s \in Subjects : Teaches(s) => Teaches(s)'
    OBVIOUS
  <2> QED
    BY <2>1, <2>2, <2>3 DEF TaughtTask, Teaches, DetailTask, DetailTaskSound
<1> QED
  BY <1>1, <1>2


(* A page that waits has a task to wait for: the one that takes the step, or the      *)
(* one that it waited for before.                                                       *)
LEMMA DetailNotStuck ==
  ASSUME DetailTyped, Detail!NeverStuck, NEW k \in Tasks, NEW t,
         detailTasks' = [detailTasks EXCEPT ![k] = t],
         detailPage' # Null /\ detailPage'.loading =>
           \/ t.kind # "none" /\ t.mounted /\ t.phase \in Loading
           \/ detailPage # Null /\ detailPage.loading /\ ~Detail!Loading(k),
         detailPage' # Null /\ detailPage'.saving =>
           \/ t.kind \notin {"none", "load"} /\ t.mounted
           \/ /\ detailPage # Null /\ detailPage.saving
              /\ ~(Detail!Attached(k) /\ detailTasks[k].kind # "load")
  PROVE  Detail!NeverStuck'
<1>1. detailTasks'[k] = t /\ \A j \in Tasks \ {k} : detailTasks'[j] = detailTasks[j]
  BY DEF DetailTyped
<1>2. \A j \in Tasks \ {k} : /\ Detail!Attached(j) => Detail!Attached(j)'
                             /\ Detail!Loading(j) => Detail!Loading(j)'
  BY <1>1 DEF Detail!Attached, Detail!Loading, Detail!Running
<1>3. t.kind # "none" /\ t.mounted =>
        Detail!Attached(k)' /\ (t.phase \in Loading => Detail!Loading(k)')
  BY <1>1 DEF Detail!Attached, Detail!Loading, Detail!Running, Loading
<1>4. ASSUME detailPage' # Null, detailPage'.loading
      PROVE  \E j \in Tasks : Detail!Loading(j)'
  BY <1>2, <1>3, <1>4 DEF Detail!NeverStuck
<1>5. ASSUME detailPage' # Null, detailPage'.saving
      PROVE  \E j \in Tasks : Detail!Attached(j)' /\ detailTasks'[j].kind # "load"
  <2>1. CASE t.kind \notin {"none", "load"} /\ t.mounted
    BY <1>1, <1>3, <2>1
  <2>2. CASE /\ detailPage # Null /\ detailPage.saving
             /\ ~(Detail!Attached(k) /\ detailTasks[k].kind # "load")
    <3>1. PICK j \in Tasks : Detail!Attached(j) /\ detailTasks[j].kind # "load"
      BY <2>2 DEF Detail!NeverStuck
    <3>2. j # k
      BY <2>2, <3>1
    <3> QED
      BY <1>1, <1>2, <3>1, <3>2
  <2> QED
    BY <1>5, <2>1, <2>2
<1> QED
  BY <1>4, <1>5 DEF Detail!NeverStuck

(* The selects of the admin.                                                     *)
LEMMA DetailPicks ==
  ASSUME DetailInv,
         \/ \E u \in Students : Detail!PickStudent(u)
         \/ \E u \in Teachers : Detail!PickTeacher(u)
  PROVE  DetailInv'
<1>1. /\ detailPage \in Detail!Pages /\ detailPage # Null
      /\ UNCHANGED <<detailRole, detailRows, detailTasks, detailBounds, detailFlags>>
  BY DEF DetailInv, DetailTyped, Detail!TypeOK, Detail!PickStudent, Detail!PickTeacher, Detail!Shown
<1>2. /\ detailPage' \in Detail!Pages
      /\ detailPage'.shown = detailPage.shown /\ detailPage'.row = detailPage.row
      /\ detailPage'.loading = detailPage.loading /\ detailPage'.saving = detailPage.saving
  BY <1>1 DEF Detail!PickStudent, Detail!PickTeacher, Detail!Pages
<1>3. detailPage' # Null
  BY <1>2, DetailAssumption
<1>4. DetailTyped'
  BY <1>1, <1>2, <1>3, DetailTypedIntro, DetailTaskType DEF DetailInv, DetailTyped, Detail!TypeOK, Detail!Running, Detail!NoTask, DetailTask
<1>5. Detail!NeverStuck' /\ OwnSubjects'
  BY <1>1, <1>2, <1>3
  DEF DetailInv, Detail!NeverStuck, Detail!Loading, Detail!Attached, Detail!Running, OwnSubjects,
      TaughtPage, TaughtTask, Teaches
<1> QED
  BY <1>4, <1>5 DEF DetailInv

(* A handler starts a task.                                                      *)
LEMMA DetailStart ==
  ASSUME DetailInv, NEW t \in DetailTask, DetailTaskSound(t), t.mounted, Detail!Start(t), Detail!Click,
         t.phase \in {"asked", "reload"}, UNCHANGED <<detailRole, detailRows>>,
         detailPage' \in Detail!Pages,
         t.kind = "removeStudent" => detailPage # Null /\ t.target = detailPage.shown
                                     /\ (detailRole = "teacher" => Teacher \in detailPage.row.teachers),
         detailPage'.shown # Null =>
           /\ detailPage # Null /\ detailPage'.shown = detailPage.shown
           /\ detailPage'.row = detailPage.row,
         detailPage'.loading => (detailPage # Null /\ detailPage.loading) \/ t.phase = "reload",
         detailPage'.saving => (detailPage # Null /\ detailPage.saving) \/ t.kind # "load"
  PROVE  DetailInv'
<1>1. PICK k \in Tasks :
        /\ detailTasks[k] = Detail!NoTask /\ detailTasks' = [detailTasks EXCEPT ![k] = t]
  BY DetailSlot DEF Detail!Start, DetailInv
<1>2. /\ detailPage' # Null /\ t.kind # "none" /\ detailTasks[k].kind = "none"
      /\ t # Detail!NoTask
  BY <1>1, DetailAssumption DEF DetailTask, Detail!NoTask
<1>3. /\ detailBounds' \in [clicks : Nat, faults : Nat, elsewhere : Nat]
      /\ detailBounds'.elsewhere = detailBounds.elsewhere
  BY DEF DetailInv, DetailTyped, Detail!Click
<1>4. detailFlags' \in [overlap : BOOLEAN, stale : BOOLEAN]
  <2>1. detailFlags \in [overlap : BOOLEAN, stale : BOOLEAN]
        /\ detailFlags' = [detailFlags EXCEPT !.overlap = @ \/ Detail!Mattering # {}]
    BY DEF DetailInv, DetailTyped, Detail!Start
  <2>2. (detailFlags.overlap \/ Detail!Mattering # {}) \in BOOLEAN
    BY Zenon
  <2> QED
    BY <2>1, <2>2
<1>5. DetailTyped'
  BY <1>1, <1>2, <1>3, <1>4, DetailTypes, DetailTaskStep
<1>6. Detail!NeverStuck'
  BY <1>1, <1>2, DetailNotStuck DEF DetailInv, Detail!Loading, Detail!Attached, Detail!Running, Loading
<1>7. OwnSubjects'
  <2>1. ASSUME detailRole = "teacher", detailBounds.elsewhere = 0
        PROVE  TaughtTask(t)' /\ TaughtPage' /\ \A s \in Subjects : Teaches(s) => Teaches(s)'
    <3>1. t.kind = "removeStudent" => t.target # Null
      BY DetailAssumption DEF DetailTaskSound
    <3> QED
      BY <2>1, <3>1 DEF DetailInv, OwnSubjects, TaughtTask, TaughtPage, Teaches
  <2> QED
    BY <1>1, <1>3, <2>1, OwnStep DEF DetailInv
<1> QED
  BY <1>5, <1>6, <1>7 DEF DetailInv

LEMMA DetailClicks ==
  ASSUME DetailInv,
         \/ \E s \in Subjects : Detail!Open(s) \/ Detail!SwitchSubject(s)
         \/ Detail!HandleAddStudent \/ Detail!HandleAddTeacher
         \/ \E u \in Students : Detail!HandleRemoveStudent(u)
         \/ \E u \in Teachers : Detail!HandleRemoveTeacher(u)
  PROVE  DetailInv'
<1>1. detailPage # Null => detailPage \in Detail!Pages
  BY DEF DetailInv, DetailTyped, Detail!TypeOK
<1>2. ASSUME NEW s \in Subjects, Detail!EffectLoad, Detail!Click, detailPage' \in Detail!Pages,
             detailPage'.url = s, UNCHANGED <<detailRole, detailRows>>,
             detailPage'.shown # Null =>
               /\ detailPage # Null /\ detailPage'.shown = detailPage.shown
               /\ detailPage'.row = detailPage.row,
             detailPage'.saving => detailPage # Null /\ detailPage.saving
      PROVE  DetailInv'
  <2> DEFINE t == Detail!Task("load", "reload", Null, Null)
  <2>1. /\ t \in DetailTask /\ DetailTaskSound(t) /\ t.mounted
        /\ t.kind = "load" /\ t.phase = "reload"
    BY <1>2 DEF Detail!Task, DetailTask, DetailTaskSound, Loading
  <2>2. Detail!Start(t)
    BY <1>2 DEF Detail!EffectLoad
  <2> HIDE DEF t
  <2> QED
    BY <1>2, <2>1, <2>2, DetailStart
<1>3. ASSUME NEW s \in Subjects, Detail!Open(s)
      PROVE  DetailInv'
  <2>1. detailPage' \in Detail!Pages /\ detailPage'.url = s /\ detailPage'.shown = Null /\ ~detailPage'.saving
    BY <1>3 DEF Detail!Open, Detail!Mounted, Detail!Pages, Detail!NoRow, Detail!Row
  <2> QED
    BY <1>2, <1>3, <2>1 DEF Detail!Open
<1>4. ASSUME NEW s \in Subjects, Detail!SwitchSubject(s)
      PROVE  DetailInv'
  <2>1. /\ detailPage' \in Detail!Pages /\ detailPage'.url = s /\ detailPage # Null
        /\ detailPage'.shown = detailPage.shown /\ detailPage'.row = detailPage.row
        /\ detailPage'.saving = detailPage.saving
    BY <1>1, <1>4 DEF Detail!SwitchSubject, Detail!Pages
  <2> QED
    BY <1>2, <1>4, <2>1 DEF Detail!SwitchSubject
<1>5. ASSUME NEW kind \in {"addStudent", "removeStudent", "addTeacher", "removeTeacher"},
             NEW u \in Students \cup Teachers, Detail!RunMembershipUpdate(kind, u), Detail!Shown,
             kind \in {"addStudent", "removeStudent"} => u \in Students,
             kind \in {"addTeacher", "removeTeacher"} => u \in Teachers,
             detailRole = "teacher" => kind = "removeStudent" /\ Teacher \in detailPage.row.teachers
      PROVE  DetailInv'
  <2> DEFINE t == Detail!Task(kind, "asked", detailPage.shown, u)
  <2>1. /\ detailPage \in Detail!Pages /\ detailPage # Null /\ detailPage.shown # Null
        /\ detailPage' = [detailPage EXCEPT !.saving = TRUE]
    BY <1>1, <1>5 DEF Detail!RunMembershipUpdate, Detail!Shown
  <2>2. /\ detailPage' \in Detail!Pages /\ detailPage'.url \in Subjects
        /\ detailPage'.shown = detailPage.shown /\ detailPage'.row = detailPage.row
        /\ detailPage'.loading = detailPage.loading
    BY <2>1 DEF Detail!Pages
  <2>3. detailPage.shown \in Subjects
    BY <2>1 DEF Detail!Pages
  <2>4. /\ t \in DetailTask /\ DetailTaskSound(t) /\ t.mounted
        /\ t.kind = kind /\ t.phase = "asked" /\ t.target = detailPage.shown
    BY <1>5, <2>2, <2>3 DEF Detail!Task, DetailTask, DetailTaskSound, Loading
  <2>5. Detail!Start(t) /\ Detail!Click /\ UNCHANGED <<detailRole, detailRows>>
    BY <1>5 DEF Detail!RunMembershipUpdate
  <2> HIDE DEF t
  <2> QED
    BY <1>5, <2>1, <2>2, <2>4, <2>5, DetailStart
<1>6. CASE Detail!HandleAddStudent
  BY <1>1, <1>5, <1>6 DEF Detail!HandleAddStudent, Detail!Shown, Detail!Pages
<1>7. CASE Detail!HandleAddTeacher
  BY <1>1, <1>5, <1>7 DEF Detail!HandleAddTeacher, Detail!Shown, Detail!Pages
<1>8. ASSUME NEW u \in Students, Detail!HandleRemoveStudent(u)
      PROVE  DetailInv'
  BY <1>5, <1>8 DEF Detail!HandleRemoveStudent, Detail!CanManageStudents
<1>9. ASSUME NEW u \in Teachers, Detail!HandleRemoveTeacher(u)
      PROVE  DetailInv'
  BY <1>5, <1>9 DEF Detail!HandleRemoveTeacher
<1> QED
  BY <1>3, <1>4, <1>6, <1>7, <1>8, <1>9


LEMMA DetailLeave ==
  ASSUME DetailInv, Detail!Leave
  PROVE  DetailInv'
<1>1. ASSUME NEW k \in Tasks
      PROVE  /\ detailTasks'[k] \in DetailTask \cup {Detail!NoTask}
             /\ k \in Detail!Running <=> k \in Detail!Running'
             /\ detailTasks'[k] # Detail!NoTask =>
                  /\ k \in Detail!Running /\ ~detailTasks'[k].mounted
                  /\ DetailTaskSound(detailTasks'[k])
                  /\ detailTasks'[k].phase = detailTasks[k].phase
                  /\ detailTasks'[k].kind = detailTasks[k].kind
                  /\ detailTasks'[k].row = detailTasks[k].row
                  /\ detailTasks'[k].target = detailTasks[k].target
                  /\ detailTasks'[k].subject = detailTasks[k].subject
  <2>1. CASE k \in Detail!Running
    <3>1. /\ detailTasks[k] \in DetailTask /\ DetailTaskSound(detailTasks[k])
          /\ detailTasks'[k] = [detailTasks[k] EXCEPT !.mounted = FALSE]
      BY <2>1, DetailTaskType DEF Detail!Leave, DetailInv
    <3> QED
      BY <2>1, <3>1 DEF DetailTask, DetailTaskSound, Detail!Running, Detail!NoTask
  <2>2. CASE k \notin Detail!Running
    BY <2>2 DEF Detail!Leave, Detail!Running, Detail!NoTask
  <2> QED
    BY <2>1, <2>2
<1>2. /\ detailPage' = Null /\ UNCHANGED <<detailRole, detailRows, detailFlags>>
      /\ detailBounds' \in [clicks : Nat, faults : Nat, elsewhere : Nat]
      /\ detailBounds'.elsewhere = detailBounds.elsewhere
  BY DEF DetailInv, DetailTyped, Detail!Leave, Detail!Click
<1>3. DetailTyped'
  <2>1. detailTasks' \in [Tasks -> DetailTask \cup {Detail!NoTask}]
    BY <1>1 DEF Detail!Leave
  <2> QED
    BY <1>1, <1>2, <2>1, DetailTypedIntro DEF DetailInv, DetailTyped, Detail!TypeOK
<1>4. Detail!NeverStuck'
  BY <1>2 DEF Detail!NeverStuck
<1>5. OwnSubjects'
  <2> SUFFICES ASSUME detailRole = "teacher", detailBounds.elsewhere = 0,
                      NEW k \in Detail!Running', NEW u, u = detailTasks'[k]
               PROVE  TaughtTask(u)'
    BY <1>2 DEF OwnSubjects, TaughtPage, TaughtTask, Teaches
  <2>1. k \in Tasks /\ detailTasks'[k] # Detail!NoTask
    BY DEF Detail!Running, Detail!NoTask
  <2>2. k \in Detail!Running /\ TaughtTask(detailTasks[k])
    BY <1>1, <2>1 DEF DetailInv, OwnSubjects
  <2> QED
    BY <1>1, <1>2, <2>1, <2>2 DEF TaughtTask, Teaches
<1> QED
  BY <1>3, <1>4, <1>5 DEF DetailInv

(* The code behind the awaits.                                                   *)
LEMMA DetailAnswers ==
  ASSUME DetailInv, NEW k \in Tasks,
         Detail!WriteAnswered(k) \/ Detail!WriteFailed(k) \/ Detail!LoadAnswered(k)
  PROVE  DetailInv'
<1> DEFINE task == detailTasks[k]
<1>1. /\ k \in Detail!Running /\ UNCHANGED <<detailRole, detailRows, detailBounds, detailFlags>>
      /\ ~task.mounted => detailPage' = detailPage
  BY DEF Detail!WriteAnswered, Detail!WriteFailed, Detail!LoadAnswered, Detail!SetPage
<1>2. /\ task \in DetailTask /\ DetailTaskSound(task)
      /\ task.mounted => detailPage \in Detail!Pages /\ detailPage # Null
      /\ detailPage \in Detail!Pages \cup {Null}
  BY <1>1, DetailTaskType DEF DetailInv, DetailTyped, Detail!TypeOK
<1>3. task # Detail!NoTask /\ task.kind # "none"
  BY <1>2 DEF DetailTask, Detail!NoTask
<1>4. ASSUME NEW t \in DetailTask \cup {Detail!NoTask}, detailTasks' = [detailTasks EXCEPT ![k] = t],
             t # Detail!NoTask => t = [task EXCEPT !.phase = "reload"] /\ task.phase = "done",
             task.mounted => detailPage' \in Detail!Pages,
             task.mounted /\ t = Detail!NoTask =>
               /\ detailPage'.loading => detailPage.loading /\ task.phase \notin Loading
               /\ detailPage'.saving => detailPage.saving /\ task.kind = "load",
             task.mounted /\ t # Detail!NoTask => detailPage'.saving = detailPage.saving,
             task.mounted /\ detailPage'.shown # Null =>
               \/ detailPage'.shown = detailPage.shown /\ detailPage'.row = detailPage.row
               \/ task.phase = "loaded" /\ detailPage'.shown = task.subject /\ detailPage'.row = task.row
      PROVE  DetailInv'
  <2>1. detailPage # Null => detailPage' # Null
    BY <1>1, <1>2, <1>4, DetailAssumption
  <2>2. t # Detail!NoTask =>
          /\ DetailTaskSound(t) /\ t.mounted = task.mounted /\ t.phase = "reload"
          /\ t.kind = task.kind /\ t.kind \notin {"none", "load"} /\ t.target = task.target
    BY <1>2, <1>3, <1>4 DEF DetailTask, DetailTaskSound, Loading
  <2>3. t = Detail!NoTask => t.kind = "none"
    BY DEF Detail!NoTask
  <2>4. DetailTyped'
    <3>1. detailPage' \in Detail!Pages \cup {Null}
      BY <1>1, <1>2, <1>4
    <3>2. t # Detail!NoTask => (t.mounted => detailPage' # Null)
      BY <1>2, <2>1, <2>2
    <3> QED
      BY <1>1, <1>4, <2>1, <2>2, <3>1, <3>2, DetailTypes, DetailTaskStep
  <2>5. Detail!NeverStuck'
    <3>1. ASSUME detailPage' # Null, detailPage'.loading
          PROVE  \/ t.kind # "none" /\ t.mounted /\ t.phase \in Loading
                 \/ detailPage # Null /\ detailPage.loading /\ ~Detail!Loading(k)
      BY <1>1, <1>2, <1>4, <2>2, <3>1 DEF Detail!Loading, Detail!Attached, Loading
    <3>2. ASSUME detailPage' # Null, detailPage'.saving
          PROVE  \/ t.kind \notin {"none", "load"} /\ t.mounted
                 \/ /\ detailPage # Null /\ detailPage.saving
                    /\ ~(Detail!Attached(k) /\ task.kind # "load")
      BY <1>1, <1>2, <1>4, <2>2, <3>2 DEF Detail!Attached
    <3> QED
      BY <1>4, <3>1, <3>2, DetailNotStuck DEF DetailInv
  <2>6. OwnSubjects'
    <3> SUFFICES ASSUME detailRole = "teacher", detailBounds.elsewhere = 0
                 PROVE  /\ \A s \in Subjects : Teaches(s) => Teaches(s)'
                        /\ t.kind # "none" => TaughtTask(t)'
                        /\ TaughtPage'
      BY <1>1, <1>4, OwnStep DEF DetailInv
    <3>1. TaughtTask(task) /\ TaughtPage
      BY <1>1 DEF DetailInv, OwnSubjects
    <3>2. TaughtPage'
      BY <1>1, <1>2, <1>4, <3>1 DEF TaughtPage, TaughtTask, Teaches
    <3>3. t.kind # "none" => TaughtTask(t)'
      BY <1>1, <2>2, <2>3, <3>1 DEF TaughtTask, Teaches
    <3> QED
      BY <1>1, <3>2, <3>3 DEF Teaches
  <2> QED
    BY <2>4, <2>5, <2>6 DEF DetailInv
<1>5. CASE Detail!WriteAnswered(k)
  <2> DEFINE t == [task EXCEPT !.phase = "reload"]
  <2>1. t \in DetailTask \cup {Detail!NoTask} /\ task.phase = "done" /\ t # Detail!NoTask
    BY <1>2, <1>5 DEF DetailTask, Loading, Detail!WriteAnswered, Detail!NoTask
  <2>2. detailTasks' = [detailTasks EXCEPT ![k] = t]
    BY <1>5 DEF Detail!WriteAnswered
  <2>3. task.mounted => /\ detailPage' \in Detail!Pages
                        /\ detailPage'.saving = detailPage.saving
                        /\ detailPage'.shown = detailPage.shown /\ detailPage'.row = detailPage.row
    BY <1>2, <1>5 DEF Detail!WriteAnswered, Detail!SetPage, Detail!Pages
  <2> QED
    BY <1>4, <2>1, <2>2, <2>3
<1>6. CASE Detail!WriteFailed(k)
  <2>1. detailTasks' = [detailTasks EXCEPT ![k] = Detail!NoTask] /\ task.phase \notin Loading
    BY <1>6 DEF Detail!WriteFailed, Detail!End, Loading
  <2>2. task.mounted => /\ detailPage' \in Detail!Pages
                        /\ detailPage'.saving => detailPage.saving /\ task.kind = "load"
                        /\ detailPage'.loading = detailPage.loading
                        /\ detailPage'.shown = detailPage.shown /\ detailPage'.row = detailPage.row
    BY <1>2, <1>6 DEF Detail!WriteFailed, Detail!SetPage, Detail!Released, Detail!Pages
  <2> QED
    BY <1>4, <2>1, <2>2
<1>7. CASE Detail!LoadAnswered(k)
  <2>1. detailTasks' = [detailTasks EXCEPT ![k] = Detail!NoTask]
    BY <1>7 DEF Detail!LoadAnswered, Detail!End
  <2>2. ASSUME task.mounted
        PROVE  /\ detailPage' \in Detail!Pages
               /\ detailPage'.saving => detailPage.saving /\ task.kind = "load"
               /\ detailPage'.loading = FALSE
               /\ detailPage'.shown # Null =>
                    task.phase = "loaded" /\ detailPage'.shown = task.subject /\ detailPage'.row = task.row
    <3> DEFINE after == IF task.phase = "loaded"
                        THEN [detailPage EXCEPT !.shown = task.subject, !.row = task.row,
                                                !.studentToAdd = Null, !.teacherToAdd = Null]
                        ELSE [detailPage EXCEPT !.shown = Null]
    <3>1. /\ after \in Detail!Pages /\ after.saving = detailPage.saving
          /\ after.shown # Null =>
               task.phase = "loaded" /\ after.shown = task.subject /\ after.row = task.row
      BY <1>2, <2>2 DEF Detail!Pages, DetailTask, DetailTaskSound
    <3>2. detailPage' = [Detail!Released(k, after) EXCEPT !.loading = FALSE]
      BY <1>7, <2>2 DEF Detail!LoadAnswered, Detail!SetPage
    <3> HIDE DEF after
    <3> QED
      BY <3>1, <3>2 DEF Detail!Released, Detail!Pages
  <2> QED
    BY <1>4, <2>1, <2>2
<1> QED
  BY <1>5, <1>6, <1>7


(* The gateway and the service: the page stays as it is.                         *)
LEMMA DetailServed ==
  ASSUME DetailInv, NEW k \in Detail!Running, NEW t \in DetailTask, DetailTaskSound(t),
         detailTasks' = [detailTasks EXCEPT ![k] = t], UNCHANGED <<detailRole, detailPage>>,
         t.mounted = detailTasks[k].mounted, t.kind = detailTasks[k].kind,
         t.target = detailTasks[k].target,
         detailTasks[k].phase \in Loading => t.phase \in Loading,
         detailRows' \in [Subjects -> Detail!Row],
         detailRole = "teacher" => \A s \in Subjects : Teaches(s) => Teaches(s)',
         t.phase = "loaded" /\ Teacher \in t.row.teachers => Teaches(t.subject),
         detailBounds' \in [clicks : Nat, faults : Nat, elsewhere : Nat],
         detailBounds'.elsewhere = detailBounds.elsewhere,
         detailFlags' \in [overlap : BOOLEAN, stale : BOOLEAN]
  PROVE  DetailInv'
<1>1. /\ k \in Tasks /\ detailTasks[k] \in DetailTask /\ DetailTaskSound(detailTasks[k])
      /\ detailTasks[k].mounted => detailPage # Null
  BY DetailTaskType DEF DetailInv
<1>2. DetailTyped'
  BY <1>1, DetailTypes, DetailTaskStep
<1>3. Detail!NeverStuck'
  <2>1. t.kind # "none"
    BY DEF DetailTask
  <2>2. ASSUME detailPage' # Null, detailPage'.loading
        PROVE  \/ t.kind # "none" /\ t.mounted /\ t.phase \in Loading
               \/ detailPage # Null /\ detailPage.loading /\ ~Detail!Loading(k)
    BY <2>1, <2>2 DEF Detail!Loading, Detail!Attached, Loading
  <2>3. ASSUME detailPage' # Null, detailPage'.saving
        PROVE  \/ t.kind \notin {"none", "load"} /\ t.mounted
               \/ /\ detailPage # Null /\ detailPage.saving
                  /\ ~(Detail!Attached(k) /\ detailTasks[k].kind # "load")
    BY <2>1, <2>3 DEF Detail!Attached
  <2> QED
    BY <1>1, <2>2, <2>3, DetailNotStuck DEF DetailInv
<1>4. OwnSubjects'
  <2> SUFFICES ASSUME detailRole = "teacher", detailBounds.elsewhere = 0
               PROVE  /\ \A s \in Subjects : Teaches(s) => Teaches(s)'
                      /\ t.kind # "none" => TaughtTask(t)'
                      /\ TaughtPage'
    BY <1>1, OwnStep DEF DetailInv
  <2>1. TaughtTask(detailTasks[k]) /\ TaughtPage
    BY DEF DetailInv, OwnSubjects
  <2>2. TaughtPage'
    <3>1. detailPage # Null /\ detailPage.shown # Null => detailPage.shown \in Subjects
      BY DEF DetailInv, DetailTyped, Detail!TypeOK, Detail!Pages
    <3>2. \A s \in Subjects : Teaches(s) => Teaches(s)'
      OBVIOUS
    <3> QED
      BY <2>1, <3>1, <3>2 DEF TaughtPage, Teaches
  <2>3. TaughtTask(t)'
    <3>1. t.subject \in Subjects /\ (t.kind = "removeStudent" => t.target \in Subjects)
      BY DEF DetailTask, DetailTaskSound
    <3>2. \A s \in Subjects : Teaches(s) => Teaches(s)'
      OBVIOUS
    <3> QED
      BY <2>1, <3>1, <3>2 DEF TaughtTask, Teaches
  <2> QED
    BY <2>2, <2>3
<1> QED
  BY <1>2, <1>3, <1>4 DEF DetailInv

LEMMA DetailServices ==
  ASSUME DetailInv, NEW k \in Tasks,
         Detail!ServeWrite(k) \/ Detail!ServeLoad(k) \/ Detail!CallFails(k)
  PROVE  DetailInv'
<1> DEFINE task == detailTasks[k]
<1>1. k \in Detail!Running /\ UNCHANGED <<detailRole, detailPage>>
  BY DEF Detail!ServeWrite, Detail!ServeLoad, Detail!CallFails
<1>2. /\ task \in DetailTask /\ DetailTaskSound(task)
      /\ detailRows \in [Subjects -> Detail!Row]
      /\ detailBounds \in [clicks : Nat, faults : Nat, elsewhere : Nat]
      /\ detailFlags \in [overlap : BOOLEAN, stale : BOOLEAN]
  BY <1>1, DetailTaskType DEF DetailInv, DetailTyped, Detail!TypeOK
<1>3. CASE Detail!ServeWrite(k)
  <2>1. /\ task.kind # "load" /\ task.target \in Subjects
        /\ task.kind \in {"addStudent", "removeStudent"} => task.user \in Students
        /\ task.kind \in {"addTeacher", "removeTeacher"} => task.user \in Teachers
    BY <1>2, <1>3 DEF Detail!ServeWrite, DetailTaskSound, Loading
  <2>2. detailRows' \in [Subjects -> Detail!Row]
    <3>1. detailRows[task.target] \in Detail!Row
      BY <1>2, <2>1
    <3>2. detailRows' = detailRows \/ detailRows' = Detail!Written(task)
      BY <1>3 DEF Detail!ServeWrite
    <3>3. CASE task.kind = "addStudent"
      BY <1>2, <2>1, <3>1, <3>2, <3>3 DEF Detail!Written, Detail!Row
    <3>4. CASE task.kind = "removeStudent"
      BY <1>2, <2>1, <3>1, <3>2, <3>4 DEF Detail!Written, Detail!Row
    <3>5. CASE task.kind = "addTeacher"
      BY <1>2, <2>1, <3>1, <3>2, <3>5 DEF Detail!Written, Detail!Row
    <3>6. CASE task.kind = "removeTeacher"
      BY <1>2, <2>1, <3>1, <3>2, <3>6 DEF Detail!Written, Detail!Row
    <3> QED
      BY <1>2, <2>1, <3>3, <3>4, <3>5, <3>6 DEF DetailTask
  <2>3. detailRole = "teacher" => \A s \in Subjects : Teaches(s) => Teaches(s)'
    <3>1. detailRole = "teacher" => task.kind = "removeStudent"
      BY <1>2, <2>1 DEF DetailTaskSound
    <3>2. task.kind = "removeStudent" =>
            \A s \in Subjects : detailRows'[s].teachers = detailRows[s].teachers
      BY <1>2, <1>3, <2>1 DEF Detail!ServeWrite, Detail!Written, Detail!Row
    <3> QED
      BY <3>1, <3>2 DEF Teaches
  <2>4. PICK p \in {"done", "failed"} : detailTasks' = [detailTasks EXCEPT ![k] = [task EXCEPT !.phase = p]]
    BY <1>3 DEF Detail!ServeWrite
  <2> DEFINE t == [task EXCEPT !.phase = p]
  <2>5. /\ t \in DetailTask /\ DetailTaskSound(t) /\ t.mounted = task.mounted /\ t.kind = task.kind
        /\ t.target = task.target /\ t.phase # "loaded" /\ task.phase \notin Loading
    BY <1>2, <1>3, <2>1 DEF DetailTask, DetailTaskSound, Loading, Detail!ServeWrite
  <2>6. UNCHANGED <<detailBounds, detailFlags>>
    BY <1>3 DEF Detail!ServeWrite
  <2> HIDE DEF t
  <2> QED
    BY <1>1, <1>2, <2>2, <2>3, <2>4, <2>5, <2>6, DetailServed DEF t
<1>4. CASE Detail!ServeLoad(k)
  <2> DEFINE t == [task EXCEPT !.phase = "loaded", !.row = detailRows[task.subject]]
  <2>1. /\ t \in DetailTask /\ DetailTaskSound(t) /\ t.mounted = task.mounted /\ t.kind = task.kind
        /\ t.target = task.target /\ t.phase \in Loading
        /\ t.row = detailRows[t.subject]
    BY <1>2 DEF DetailTask, DetailTaskSound, Loading
  <2>2. detailTasks' = [detailTasks EXCEPT ![k] = t] /\ UNCHANGED <<detailRows, detailBounds>>
    BY <1>4 DEF Detail!ServeLoad
  <2>3. detailFlags' \in [overlap : BOOLEAN, stale : BOOLEAN]
    <3>1. detailFlags' = [detailFlags EXCEPT !.stale = @ /\ ~task.mounted]
      BY <1>4 DEF Detail!ServeLoad
    <3> QED
      BY <1>2, <3>1
  <2> HIDE DEF t
  <2> QED
    BY <1>1, <1>2, <2>1, <2>2, <2>3, DetailServed DEF Teaches
<1>5. CASE Detail!CallFails(k)
  <2>1. PICK p \in {"failed", "loadFailed"} :
          /\ detailTasks' = [detailTasks EXCEPT ![k] = [task EXCEPT !.phase = p]]
          /\ p = "failed" <=> task.phase \in {"asked", "done"}
    BY <1>5 DEF Detail!CallFails
  <2> DEFINE t == [task EXCEPT !.phase = p]
  <2>2. /\ t \in DetailTask /\ DetailTaskSound(t) /\ t.mounted = task.mounted /\ t.kind = task.kind
        /\ t.target = task.target /\ t.phase # "loaded"
        /\ task.phase \in Loading => t.phase \in Loading
    BY <1>2, <2>1 DEF DetailTask, DetailTaskSound, Loading
  <2>3. UNCHANGED detailRows /\ detailFlags' \in [overlap : BOOLEAN, stale : BOOLEAN]
    <3>1. UNCHANGED detailRows
          /\ detailFlags' = [detailFlags EXCEPT !.stale = @ \/ task.phase \in {"asked", "done"}]
      BY <1>5 DEF Detail!CallFails
    <3>2. (detailFlags.stale \/ task.phase \in {"asked", "done"}) \in BOOLEAN
      BY Zenon
    <3> QED
      BY <1>2, <3>1, <3>2
  <2>4. /\ detailBounds' \in [clicks : Nat, faults : Nat, elsewhere : Nat]
        /\ detailBounds'.elsewhere = detailBounds.elsewhere
    BY <1>2, <1>5 DEF Detail!CallFails
  <2> HIDE DEF t
  <2> QED
    BY <1>1, <1>2, <2>1, <2>2, <2>3, <2>4, DetailServed DEF Teaches, t
<1> QED
  BY <1>3, <1>4, <1>5

(* An admin or a student changes a row.                                          *)
LEMMA DetailElsewhere ==
  ASSUME DetailInv, NEW s \in Subjects, Detail!Elsewhere(s)
  PROVE  DetailInv'
<1>1. /\ UNCHANGED <<detailRole, detailPage, detailTasks>>
      /\ detailBounds \in [clicks : Nat, faults : Nat, elsewhere : Nat]
      /\ detailBounds' = [detailBounds EXCEPT !.elsewhere = @ + 1]
  BY DEF DetailInv, DetailTyped, Detail!Elsewhere
<1>2. detailBounds' \in [clicks : Nat, faults : Nat, elsewhere : Nat] /\ detailBounds'.elsewhere # 0
  BY <1>1
<1>3. detailRows' \in [Subjects -> Detail!Row]
  <2>1. detailRows \in [Subjects -> Detail!Row] /\ detailRows[s] \in Detail!Row
    BY DEF DetailInv, DetailTyped, Detail!TypeOK
  <2>2. CASE detailRows' = [detailRows EXCEPT ![s].teachers = @ \ {Teacher}]
    BY <2>1, <2>2 DEF Detail!Row
  <2>3. CASE \E u \in detailRows[s].students : detailRows' = [detailRows EXCEPT ![s].students = @ \ {u}]
    BY <2>1, <2>3 DEF Detail!Row
  <2> QED
    BY <2>2, <2>3 DEF Detail!Elsewhere
<1>4. detailFlags' \in [overlap : BOOLEAN, stale : BOOLEAN]
  BY DEF DetailInv, DetailTyped, Detail!Elsewhere
<1>5. DetailTyped'
  <2>1. /\ DetailTyped /\ detailPage' \in Detail!Pages \cup {Null}
        /\ detailTasks' \in [Tasks -> DetailTask \cup {Detail!NoTask}]
    BY <1>1 DEF DetailInv, DetailTyped, Detail!TypeOK
  <2>2. ASSUME NEW k \in Tasks, detailTasks'[k] # Detail!NoTask
        PROVE  DetailTaskSound(detailTasks'[k]) /\ (detailTasks'[k].mounted => detailPage' # Null)
    <3>1. k \in Detail!Running /\ detailTasks'[k] = detailTasks[k]
      BY <1>1, <2>1, <2>2 DEF DetailTask, Detail!Running, Detail!NoTask
    <3> QED
      BY <1>1, <2>1, <3>1, DetailTaskType
  <2> QED
    BY <1>1, <1>2, <1>3, <1>4, <2>1, <2>2, DetailTypedIntro
<1>6. Detail!NeverStuck'
  BY <1>1 DEF DetailInv, Detail!NeverStuck, Detail!Loading, Detail!Attached, Detail!Running
<1>7. OwnSubjects'
  BY <1>2 DEF OwnSubjects
<1> QED
  BY <1>5, <1>6, <1>7 DEF DetailInv

LEMMA DetailInit == Detail!Init => DetailInv
<1> SUFFICES ASSUME Detail!Init
             PROVE  DetailInv
  OBVIOUS
<1>1. /\ detailPage = Null /\ detailTasks = [k \in Tasks |-> Detail!NoTask]
      /\ Detail!Running = {}
  BY DEF Detail!Init, Detail!Running, Detail!NoTask
<1>2. detailRows \in [Subjects -> Detail!Row]
  BY DetailAssumption DEF Detail!Init, Detail!Row
<1>3. DetailTyped
  BY <1>1, <1>2 DEF DetailTyped, Detail!TypeOK, Detail!Init, Detail!NoFlags
<1> QED
  BY <1>1, <1>3 DEF DetailInv, Detail!NeverStuck, OwnSubjects, TaughtPage

(* Whatever the page, its user or the services do next.                          *)
LEMMA DetailStep == DetailInv /\ Detail!Next => DetailInv'
BY DetailPicks, DetailClicks, DetailLeave, DetailAnswers, DetailServices, DetailElsewhere DEF Detail!Next

LEMMA DetailRests == ASSUME DetailInv, UNCHANGED details PROVE DetailInv'
<1>1. UNCHANGED <<detailRole, detailRows, detailPage, detailTasks, detailBounds, detailFlags>>
  BY DEF details
<1>2. Detail!Running' = Detail!Running
  BY <1>1 DEF Detail!Running
<1>3. DetailTyped'
  <2>1. Detail!TypeOK'
    BY <1>1, <1>2 DEF DetailInv, DetailTyped, Detail!TypeOK
  <2> QED
    BY <1>1, <1>2, <2>1 DEF DetailInv, DetailTyped, DetailTaskSound
<1>4. Detail!NeverStuck'
  BY <1>1 DEF DetailInv, Detail!NeverStuck, Detail!Loading, Detail!Attached, Detail!Running
<1>5. OwnSubjects'
  BY <1>1, <1>2 DEF DetailInv, OwnSubjects, TaughtPage, TaughtTask, Teaches
<1> QED
  BY <1>3, <1>4, <1>5 DEF DetailInv

(* A student is removed from a subject that is taught: the task that asks for it is    *)
(* about one, and an admin may do as they like.                                            *)
LEMMA RemovesTaught == DetailInv /\ Detail!Next => Detail!RemovesOwn
<1> SUFFICES ASSUME DetailInv, Detail!Next, NEW s \in Subjects,
                    detailRows'[s].students # detailRows[s].students,
                    detailRole = "teacher", detailBounds'.elsewhere = 0
             PROVE  Teacher \in detailRows[s].teachers
  BY DEF Detail!RemovesOwn
<1>1. detailBounds \in [clicks : Nat, faults : Nat, elsewhere : Nat]
  BY DEF DetailInv, DetailTyped
<1>2. detailRows' # detailRows
  OBVIOUS
<1>3. \A i \in Subjects : ~Detail!Elsewhere(i)
  BY <1>1 DEF Detail!Elsewhere
<1>4. PICK k \in Tasks : Detail!ServeWrite(k)
  BY <1>2, <1>3
  DEF Detail!Next, Detail!Open, Detail!SwitchSubject, Detail!Leave, Detail!HandleAddStudent,
      Detail!HandleAddTeacher, Detail!PickStudent, Detail!HandleRemoveStudent, Detail!PickTeacher,
      Detail!HandleRemoveTeacher, Detail!RunMembershipUpdate, Detail!WriteAnswered,
      Detail!WriteFailed, Detail!LoadAnswered, Detail!ServeLoad, Detail!CallFails
<1>5. /\ k \in Detail!Running /\ DetailTaskSound(detailTasks[k])
      /\ detailTasks[k].phase = "asked" /\ detailBounds.elsewhere = 0
      /\ detailRows \in [Subjects -> Detail!Row]
  BY <1>4, DetailTaskType DEF Detail!ServeWrite, DetailInv, DetailTyped, Detail!TypeOK
<1>6. detailTasks[k].kind = "removeStudent"
  BY <1>5, DetailTaskType DEF DetailTaskSound, Loading
<1>7. detailRows' = [detailRows EXCEPT ![detailTasks[k].target].students = @ \ {detailTasks[k].user}]
  BY <1>2, <1>4, <1>6 DEF Detail!ServeWrite, Detail!Written
<1>8. s = detailTasks[k].target
  BY <1>5, <1>7 DEF Detail!Row
<1> QED
  BY <1>5, <1>6, <1>8 DEF DetailInv, OwnSubjects, TaughtTask, Teaches

-----------------------------------------------------------------------------
(* What the accounts page shows.                                                 *)

(* What the accounts page shows: the one task that belongs to it starts, goes on or ends. *)
LEMMA AccountShowsTask ==
  ASSUME AccountTyped, NEW k \in Tasks, NEW t \in AccountTask \cup {Account!NoTask},
         accountTasks' = [accountTasks EXCEPT ![k] = t],
         \A j \in Tasks \ {k} : ~Account!Attached(j),
         accountPage'.loading => accountPage'.editing = Null,
         t # Account!NoTask /\ t.mounted =>
           /\ t.kind = "load" => accountPage'.loading
           /\ t.kind = "load" /\ t.phase = "failed" => accountFlags'.stale
           /\ t.phase \in {"reload", "loaded"} /\ accountPage'.editing # Null => accountFlags'.early
           /\ t.phase = "loaded" /\ ~accountFlags'.stale => t.rows = accountRows',
         /\ ~accountFlags'.stale /\ ~accountPage'.loading
         /\ t # Account!NoTask /\ t.mounted => t.phase \notin {"done", "reload", "loaded"}
         => /\ accountPage'.users = accountRows'
            /\ accountPage'.editing # Null /\ ~accountFlags'.early =>
                 accountPage'.base = accountRows'[accountPage'.editing]
  PROVE  AccountShows'
<1>1. accountTasks'[k] = t /\ \A j \in Tasks \ {k} : accountTasks'[j] = accountTasks[j]
  BY DEF AccountTyped
<1>2. Account!Attached(k)' <=> t # Account!NoTask /\ t.mounted
  BY <1>1 DEF Account!Attached, Account!Running, AccountTask, Account!NoTask
<1>3. \A j \in Tasks : Account!Attached(j)' => j = k
  BY <1>1 DEF Account!Attached, Account!Running
<1> QED
  BY <1>1, <1>2, <1>3 DEF AccountShows

(* A task of a page that is gone: what the page has stays, or may be old.        *)
LEMMA AccountShowsGone ==
  ASSUME AccountTyped, AccountShows, NEW k \in Tasks, ~Account!Attached(k), NEW t,
         accountTasks' = [accountTasks EXCEPT ![k] = t], ~(t.kind # "none" /\ t.mounted),
         UNCHANGED accountPage, accountFlags'.early = accountFlags.early,
         accountFlags.stale => accountFlags'.stale,
         UNCHANGED accountRows \/ accountFlags'.stale
  PROVE  AccountShows'
<1>1. accountTasks'[k] = t /\ \A j \in Tasks \ {k} : accountTasks'[j] = accountTasks[j]
  BY DEF AccountTyped
<1>2. \A j \in Tasks : /\ Account!Attached(j)' <=> Account!Attached(j)
                       /\ Account!Attached(j) => accountTasks'[j] = accountTasks[j]
  BY <1>1 DEF Account!Attached, Account!Running
<1> QED
  BY <1>2 DEF AccountShows

(* The dialogs.                                                                  *)
LEMMA AccountShowsQuiet ==
  ASSUME AccountInv, AccountShows, accountPage # Null, ~accountPage.loading,
         UNCHANGED <<accountRows, accountTasks>>,
         ~accountPage'.loading, accountPage'.users = accountPage.users,
         accountFlags'.stale = accountFlags.stale,
         \/ accountPage'.editing = Null
         \/ /\ accountPage'.editing = accountPage.editing /\ accountPage'.base = accountPage.base
            /\ accountFlags'.early = accountFlags.early
         \/ /\ accountPage'.base = accountPage.users[accountPage'.editing]
            /\ accountFlags'.early = accountPage.submitting
  PROVE  AccountShows'
<1>1. \A j \in Tasks : /\ Account!Attached(j)' <=> Account!Attached(j)
                       /\ Account!Attached(j) => accountTasks[j].kind = "save"
  <2>1. ASSUME NEW j \in Tasks, Account!Attached(j)
        PROVE  accountTasks[j].kind = "save"
    <3>1. accountTasks[j].kind \in {"load", "save"}
      BY <2>1, AccountTaskType DEF AccountInv, Account!Attached, AccountTask
    <3> QED
      BY <2>1, <3>1 DEF AccountShows
  <2> QED
    BY <2>1 DEF Account!Attached, Account!Running
<1>2. \A j \in Tasks : Account!Attached(j) => accountPage.submitting
  BY <1>1 DEF AccountInv, AccountSaves, Saving
<1>3. CASE accountPage'.editing = Null
  BY <1>1, <1>3 DEF AccountShows
<1>4. CASE /\ accountPage'.editing = accountPage.editing /\ accountPage'.base = accountPage.base
           /\ accountFlags'.early = accountFlags.early
  BY <1>1, <1>4 DEF AccountShows
<1>5. CASE /\ accountPage'.base = accountPage.users[accountPage'.editing]
           /\ accountFlags'.early = accountPage.submitting
  BY <1>1, <1>2, <1>5 DEF AccountShows
<1> QED
  BY <1>3, <1>4, <1>5

(* Opening, filling and closing the form and its confirmation.                    *)
LEMMA AccountShowsDialogs ==
  ASSUME AccountInv, AccountShows,
         \/ Account!OpenCreateDialog \/ Account!CloseDialog \/ Account!CancelConfirm
         \/ \E a \in Accounts : Account!OpenEditDialog(a)
  PROVE  AccountShows'
<1>1. /\ accountPage # Null /\ ~accountPage.loading /\ accountPage \in Account!Pages
      /\ UNCHANGED <<accountRows, accountTasks>> /\ accountFlags \in AccountFlags
  BY DEF AccountInv, AccountTyped, Account!TypeOK, Account!OpenCreateDialog, Account!CloseDialog,
         Account!CancelConfirm, Account!OpenEditDialog, Account!Free, Account!Editing,
         Account!Shown, Account!Quietly
<1>2. CASE Account!OpenCreateDialog
  BY <1>1, <1>2, AccountShowsQuiet DEF Account!OpenCreateDialog, Account!Pages
<1>3. CASE Account!CloseDialog
  BY <1>1, <1>3, AccountShowsQuiet DEF Account!CloseDialog, Account!Closed, Account!Pages
<1>4. CASE Account!CancelConfirm
  BY <1>1, <1>4, AccountShowsQuiet DEF Account!CancelConfirm, Account!Pages
<1>5. ASSUME NEW a \in Accounts, Account!OpenEditDialog(a)
      PROVE  AccountShows'
  <2>1. /\ ~accountPage'.loading /\ accountPage'.users = accountPage.users
        /\ accountPage'.editing = a /\ accountPage'.base = accountPage.users[a]
    BY <1>1, <1>5 DEF Account!OpenEditDialog, Account!Pages
  <2>2. accountFlags'.stale = accountFlags.stale /\ accountFlags'.early = accountPage.submitting
    BY <1>1, <1>5 DEF Account!OpenEditDialog, AccountFlags
  <2> QED
    BY <1>1, <2>1, <2>2, AccountShowsQuiet
<1> QED
  BY <1>2, <1>3, <1>4, <1>5

(* Opening the page, leaving it, and submitting the form.                         *)
LEMMA AccountShowsClicks ==
  ASSUME AccountInv, AccountShows, Account!Open \/ Account!HandleSubmitUser \/ Account!Confirm
  PROVE  AccountShows'
<1>1. /\ accountPage # Null => accountPage \in Account!Pages
      /\ AccountTyped
  BY DEF AccountInv, AccountTyped, Account!TypeOK
<1>2. ASSUME NEW t, Account!Start(t)
      PROVE  \E k \in Tasks : accountTasks' = [accountTasks EXCEPT ![k] = t]
  BY <1>1, <1>2, AccountSlot DEF Account!Start
<1>3. CASE Account!Open
  <2> DEFINE t == Account!Task("load", "reload", Null, Null)
  <2>1. t \in AccountTask /\ t.kind = "load" /\ t.phase = "reload" /\ t # Account!NoTask
    BY DEF Account!Task, AccountTask, Account!NoTask
  <2>2. accountPage'.loading /\ accountPage'.editing = Null /\ Account!Start(t)
    BY <1>3 DEF Account!Open
  <2>3. \A j \in Tasks : ~Account!Attached(j)
    BY <1>1, <1>3, AccountTaskType DEF Account!Open, Account!Attached
  <2> HIDE DEF t
  <2>4. PICK k \in Tasks : accountTasks' = [accountTasks EXCEPT ![k] = t]
    BY <1>2, <2>2
  <2> QED
    BY <1>1, <2>1, <2>2, <2>3, <2>4, AccountShowsTask
<1>4. ASSUME accountPage # Null, ~accountPage.loading, ~accountPage.submitting
      PROVE  /\ \A j \in Tasks : ~Account!Attached(j)
             /\ ~accountFlags.stale =>
                  /\ accountPage.users = accountRows
                  /\ accountPage.editing # Null /\ ~accountFlags.early =>
                       accountPage.base = accountRows[accountPage.editing]
  <2>1. ASSUME NEW j \in Tasks, Account!Attached(j)
        PROVE  FALSE
    <3>1. accountTasks[j].kind \in {"load", "save"}
      BY <1>1, <2>1, AccountTaskType DEF Account!Attached, AccountTask
    <3>2. accountTasks[j].kind # "load"
      BY <1>4, <2>1 DEF AccountShows
    <3> QED
      BY <1>4, <2>1, <3>1, <3>2 DEF AccountInv, AccountSaves, Saving
  <2> QED
    BY <1>4, <2>1 DEF AccountShows
<1>5. ASSUME NEW p \in Account!Pages, Account!SubmitUser(p), accountPage # Null,
             ~accountPage.loading, ~accountPage.submitting, ~p.loading,
             p.users = accountPage.users, p.editing = accountPage.editing, p.base = accountPage.base
      PROVE  AccountShows'
  <2> DEFINE t == Account!Task("save", "asked", p.editing, p.form)
  <2>1. t \in AccountTask /\ t.kind = "save" /\ t.phase = "asked" /\ t # Account!NoTask
    BY <1>5 DEF Account!Task, AccountTask, Account!Pages, Account!NoTask
  <2>2. /\ ~accountPage'.loading /\ accountPage'.users = accountPage.users
        /\ accountPage'.editing = accountPage.editing /\ accountPage'.base = accountPage.base
    BY <1>5 DEF Account!SubmitUser, Account!Pages
  <2>3. Account!Start(t) /\ UNCHANGED <<accountRows, accountFlags>>
    BY <1>5 DEF Account!SubmitUser
  <2> HIDE DEF t
  <2>4. PICK k \in Tasks : accountTasks' = [accountTasks EXCEPT ![k] = t]
    BY <1>2, <2>3
  <2> QED
    BY <1>1, <1>4, <1>5, <2>1, <2>2, <2>3, <2>4, AccountShowsTask
<1>6. CASE Account!HandleSubmitUser
  <2>1. PICK form \in Account!Account :
          LET filled == [accountPage EXCEPT !.form = form]
          IN IF Account!IsSelfRoleChange(form)
             THEN /\ accountPage' = [filled EXCEPT !.confirming = TRUE]
                  /\ Account!Quietly /\ UNCHANGED accountFlags
             ELSE Account!SubmitUser(filled)
    BY <1>6 DEF Account!HandleSubmitUser, Account!Filled
  <2>2. /\ accountPage # Null /\ accountPage \in Account!Pages
        /\ ~accountPage.loading /\ ~accountPage.submitting
    BY <1>1, <1>6 DEF Account!HandleSubmitUser, Account!CanSubmit, Account!Editing, Account!Shown
  <2>3. form \in Account!Form
    BY DEF Account!Account, Account!Form
  <2> DEFINE filled == [accountPage EXCEPT !.form = form]
  <2>4. /\ filled \in Account!Pages /\ ~filled.loading /\ filled.users = accountPage.users
        /\ filled.editing = accountPage.editing /\ filled.base = accountPage.base
    BY <2>2, <2>3 DEF Account!Pages
  <2>5. CASE Account!IsSelfRoleChange(form)
    <3>1. /\ ~accountPage'.loading /\ accountPage'.users = accountPage.users
          /\ accountPage'.editing = accountPage.editing /\ accountPage'.base = accountPage.base
      BY <2>1, <2>2, <2>3, <2>5 DEF Account!Pages
    <3>2. UNCHANGED <<accountRows, accountTasks, accountFlags>>
      BY <2>1, <2>5 DEF Account!Quietly
    <3> QED
      BY <2>2, <3>1, <3>2, AccountShowsQuiet
  <2>6. CASE ~Account!IsSelfRoleChange(form)
    <3>1. Account!SubmitUser(filled)
      BY <2>1, <2>6
    <3> HIDE DEF filled
    <3> QED
      BY <1>5, <2>2, <2>4, <3>1
  <2> QED
    BY <2>5, <2>6
<1>7. CASE Account!Confirm
  <2> DEFINE p == [accountPage EXCEPT !.confirming = FALSE]
  <2>1. /\ accountPage # Null /\ accountPage \in Account!Pages /\ accountPage.confirming
        /\ ~accountPage.loading /\ Account!SubmitUser(p)
    BY <1>1, <1>7 DEF Account!Confirm, Account!Shown
  <2>2. ~accountPage.submitting
    BY <2>1 DEF AccountInv, AccountSaves
  <2>3. /\ p \in Account!Pages /\ ~p.loading /\ p.users = accountPage.users
        /\ p.editing = accountPage.editing /\ p.base = accountPage.base
    BY <2>1 DEF Account!Pages
  <2> HIDE DEF p
  <2> QED
    BY <1>5, <2>1, <2>2, <2>3
<1> QED
  BY <1>3, <1>6, <1>7

(* The answers and the services, for a task of the page and for one of an earlier page.   *)
LEMMA AccountShowsAnswers ==
  ASSUME AccountInv, AccountShows, NEW k \in Tasks,
         Account!SaveAnswered(k) \/ Account!ListAnswered(k) \/ Account!TaskFailed(k)
  PROVE  AccountShows'
<1>1. PICK task : task = accountTasks[k]
  OBVIOUS
<1>2. /\ AccountTyped /\ task \in AccountTask /\ k \in Account!Running
      /\ task.mounted => accountPage \in Account!Pages /\ accountPage # Null
      /\ UNCHANGED <<accountRows, accountFlags>>
  BY <1>1, AccountTaskType
  DEF AccountInv, Account!SaveAnswered, Account!ListAnswered, Account!TaskFailed
<1>3. Account!Attached(k) <=> task.mounted
  BY <1>1, <1>2 DEF Account!Attached
<1>4. CASE ~task.mounted
  <2>1. accountPage' = accountPage
    BY <1>1, <1>4
    DEF Account!SaveAnswered, Account!ListAnswered, Account!TaskFailed, Account!SetPage
  <2>2. PICK t : accountTasks' = [accountTasks EXCEPT ![k] = t] /\ ~(t.kind # "none" /\ t.mounted)
    <3>1. Account!NoTask.kind = "none" /\ ~[task EXCEPT !.phase = "reload"].mounted
      BY <1>2, <1>4 DEF AccountTask, Account!NoTask
    <3> QED
      BY <1>1, <3>1
      DEF Account!SaveAnswered, Account!ListAnswered, Account!TaskFailed, Account!End
  <2> QED
    BY <1>2, <1>3, <1>4, <2>1, <2>2, AccountShowsGone
<1>5. CASE task.mounted
  <2>1. /\ \A j \in Tasks \ {k} : ~Account!Attached(j)
        /\ accountPage.loading => accountPage.editing = Null
        /\ task.kind = "load" => accountPage.loading
        /\ task.kind = "load" /\ task.phase = "failed" => accountFlags.stale
        /\ task.phase \in {"reload", "loaded"} /\ accountPage.editing # Null => accountFlags.early
        /\ task.phase = "loaded" /\ ~accountFlags.stale => task.rows = accountRows
        /\ ~accountFlags.stale /\ ~accountPage.loading /\ task.phase \notin {"done", "reload", "loaded"} =>
             /\ accountPage.users = accountRows
             /\ accountPage.editing # Null /\ ~accountFlags.early =>
                  accountPage.base = accountRows[accountPage.editing]
    BY <1>1, <1>2, <1>3, <1>5 DEF AccountShows
  <2>2. accountPage \in Account!Pages /\ accountPage # Null /\ task.kind \in {"load", "save"}
    BY <1>2, <1>5 DEF AccountTask
  <2>3. CASE Account!SaveAnswered(k)
    <3> DEFINE t == [task EXCEPT !.phase = "reload"]
    <3>1. /\ t \in AccountTask /\ t.phase = "reload" /\ t.kind = task.kind /\ t # Account!NoTask /\ t.mounted
          /\ task.phase = "done"
      BY <1>1, <1>2, <1>5, <2>3 DEF AccountTask, Account!NoTask, Account!SaveAnswered
    <3>2. accountPage' = Account!Closed(accountPage) /\ accountTasks' = [accountTasks EXCEPT ![k] = t]
      BY <1>1, <1>5, <2>3 DEF Account!SaveAnswered, Account!SetPage
    <3>3. accountPage'.loading = accountPage.loading /\ accountPage'.editing = Null
      BY <2>2, <3>2 DEF Account!Closed, Account!Pages
    <3> HIDE DEF t
    <3> QED
      BY <1>2, <2>1, <3>1, <3>2, <3>3, AccountShowsTask
  <2>4. CASE Account!ListAnswered(k) \/ Account!TaskFailed(k)
    <3>1. PICK p : /\ accountPage' = Account!Released(k, p)
                   /\ \/ p = accountPage /\ task.phase = "failed"
                      \/ p = [accountPage EXCEPT !.users = task.rows] /\ task.phase = "loaded"
      BY <1>1, <1>5, <2>4 DEF Account!ListAnswered, Account!TaskFailed, Account!SetPage
    <3>2. /\ accountPage'.loading = (IF task.kind = "load" THEN FALSE ELSE accountPage.loading)
          /\ accountPage'.editing = accountPage.editing /\ accountPage'.base = accountPage.base
          /\ accountPage'.users = IF task.phase = "loaded" THEN task.rows ELSE accountPage.users
      <4>1. /\ accountPage' = IF task.kind = "load" THEN [p EXCEPT !.loading = FALSE]
                              ELSE [p EXCEPT !.submitting = FALSE]
        BY <1>1, <3>1 DEF Account!Released
      <4>2. /\ p.loading = accountPage.loading /\ p.editing = accountPage.editing
            /\ p.base = accountPage.base
            /\ p.users = IF task.phase = "loaded" THEN task.rows ELSE accountPage.users
            /\ \A x : /\ [p EXCEPT !.loading = x].loading = x
                      /\ [p EXCEPT !.loading = x].editing = p.editing
                      /\ [p EXCEPT !.loading = x].base = p.base
                      /\ [p EXCEPT !.loading = x].users = p.users
                      /\ [p EXCEPT !.submitting = x].loading = p.loading
                      /\ [p EXCEPT !.submitting = x].editing = p.editing
                      /\ [p EXCEPT !.submitting = x].base = p.base
                      /\ [p EXCEPT !.submitting = x].users = p.users
        BY <2>2, <3>1 DEF Account!Pages
      <4> QED
        BY <2>2, <4>1, <4>2
    <3>3. accountTasks' = [accountTasks EXCEPT ![k] = Account!NoTask]
          /\ task.phase \in {"failed", "loaded"}
      BY <2>4, <3>1 DEF Account!ListAnswered, Account!TaskFailed, Account!End
    <3> QED
      BY <1>2, <2>1, <2>2, <3>2, <3>3, AccountShowsTask
  <2> QED
    BY <2>3, <2>4
<1> QED
  BY <1>4, <1>5

(* The services: a check, a write, a list, and the failure of a call.             *)
LEMMA AccountShowsServices ==
  ASSUME AccountInv, AccountShows, NEW k \in Tasks,
         \/ Account!ServeCheck(k) \/ Account!ServeList(k) \/ Account!CallFails(k)
         \/ Account!ServeWrite(k)
  PROVE  AccountShows'
<1>1. PICK task : task = accountTasks[k]
  OBVIOUS
<1>2. /\ AccountTyped /\ task \in AccountTask /\ k \in Account!Running
      /\ AccountTaskSound(task)
      /\ task.mounted => accountPage \in Account!Pages /\ accountPage # Null
      /\ UNCHANGED accountPage /\ accountFlags \in AccountFlags
  BY <1>1, AccountTaskType
  DEF AccountInv, AccountTyped, Account!ServeCheck, Account!ServeList, Account!CallFails,
      Account!ServeWrite
<1>3. /\ Account!Attached(k) <=> task.mounted
      /\ task.kind = "load" => task.phase \notin {"asked", "checked"}
  BY <1>1, <1>2 DEF Account!Attached, AccountTaskSound
<1>4. PICK phase, rows :
        /\ accountTasks' = [accountTasks EXCEPT ![k] = [task EXCEPT !.phase = phase, !.rows = rows]]
        /\ accountFlags'.early = accountFlags.early
        /\ rows \in Account!Listing \cup {Null}
        /\ \/ /\ task.phase = "asked" /\ phase \in {"checked", "failed"}
              /\ UNCHANGED <<accountRows, accountFlags>>
           \/ /\ task.phase = "checked" /\ phase \in {"done", "failed"}
              /\ accountFlags'.stale <=> accountFlags.stale \/ ~task.mounted
              /\ phase = "failed" => UNCHANGED accountRows
           \/ /\ task.phase = "reload" /\ phase = "loaded" /\ rows = accountRows
              /\ UNCHANGED accountRows
              /\ accountFlags'.stale <=> accountFlags.stale /\ ~task.mounted
           \/ phase = "failed" /\ UNCHANGED accountRows /\ accountFlags'.stale
  <2>1. ASSUME NEW phase, accountTasks' = [accountTasks EXCEPT ![k].phase = phase]
        PROVE  /\ accountTasks' = [accountTasks EXCEPT ![k] =
                                      [task EXCEPT !.phase = phase, !.rows = task.rows]]
               /\ task.rows \in Account!Listing \cup {Null}
    BY <1>1, <1>2, <2>1 DEF AccountTask
  <2>2. CASE Account!ServeCheck(k)
    <3>1. PICK phase \in {"checked", "failed"} : accountTasks' = [accountTasks EXCEPT ![k].phase = phase]
      BY <2>2 DEF Account!ServeCheck
    <3> QED
      BY <1>1, <2>1, <2>2, <3>1 DEF Account!ServeCheck
  <2>3. CASE Account!ServeWrite(k)
    <3>1. PICK phase \in {"done", "failed"} :
            /\ accountTasks' = [accountTasks EXCEPT ![k].phase = phase]
            /\ phase = "failed" => UNCHANGED accountRows
      BY <2>3 DEF Account!ServeWrite
    <3>2. /\ accountFlags'.stale <=> accountFlags.stale \/ ~task.mounted
          /\ accountFlags'.early = accountFlags.early
      BY <1>1, <1>2, <2>3 DEF Account!ServeWrite, AccountFlags
    <3> QED
      BY <1>1, <2>1, <2>3, <3>1, <3>2 DEF Account!ServeWrite
  <2>4. CASE Account!ServeList(k)
    <3>1. DOMAIN accountTasks = Tasks /\ accountRows \in Account!Listing
      BY <1>2, AccountTypes DEF AccountInv
    <3>2. accountTasks' = [accountTasks EXCEPT ![k] =
                             [task EXCEPT !.phase = "loaded", !.rows = accountRows]]
      BY <1>1, <2>4, <3>1 DEF Account!ServeList
    <3>3. /\ accountFlags'.stale <=> accountFlags.stale /\ ~task.mounted
          /\ accountFlags'.early = accountFlags.early
      BY <1>1, <1>2, <2>4 DEF Account!ServeList, AccountFlags
    <3> QED
      BY <1>1, <2>4, <3>1, <3>2, <3>3 DEF Account!ServeList
  <2>5. CASE Account!CallFails(k)
    <3>1. accountTasks' = [accountTasks EXCEPT ![k].phase = "failed"]
      BY <2>5 DEF Account!CallFails
    <3>2. accountFlags'.stale /\ accountFlags'.early = accountFlags.early
      BY <1>2, <2>5 DEF Account!CallFails, AccountFlags
    <3> QED
      BY <2>1, <2>5, <3>1, <3>2 DEF Account!CallFails
  <2> QED
    BY <2>2, <2>3, <2>4, <2>5
<1> DEFINE t == [task EXCEPT !.phase = phase, !.rows = rows]
<1>5. /\ t.kind = task.kind /\ t.mounted = task.mounted /\ t.phase = phase /\ t.rows = rows
      /\ t \in AccountTask /\ t # Account!NoTask /\ t.kind # "none"
  BY <1>2, <1>4 DEF AccountTask, Account!NoTask
<1>6. accountTasks' = [accountTasks EXCEPT ![k] = t]
  BY <1>4
<1> HIDE DEF t
<1>7. CASE ~task.mounted
  BY <1>2, <1>3, <1>4, <1>5, <1>6, <1>7, AccountShowsGone
<1>8. CASE task.mounted
  <2>1. /\ \A j \in Tasks \ {k} : ~Account!Attached(j)
        /\ accountPage.loading => accountPage.editing = Null
        /\ task.kind = "load" => accountPage.loading
        /\ task.kind = "load" /\ task.phase = "failed" => accountFlags.stale
        /\ task.phase \in {"reload", "loaded"} /\ accountPage.editing # Null => accountFlags.early
        /\ ~accountFlags.stale /\ ~accountPage.loading /\ task.phase \notin {"done", "reload", "loaded"} =>
             /\ accountPage.users = accountRows
             /\ accountPage.editing # Null /\ ~accountFlags.early =>
                  accountPage.base = accountRows[accountPage.editing]
    BY <1>1, <1>2, <1>3, <1>8 DEF AccountShows
  <2>2. /\ \A j \in Tasks \ {k} : ~Account!Attached(j)
        /\ accountPage' = accountPage
        /\ accountPage'.loading => accountPage'.editing = Null
    BY <1>2, <2>1
  <2>3. /\ t.kind = "load" => accountPage'.loading
        /\ t.kind = "load" /\ t.phase = "failed" => accountFlags'.stale
    BY <1>3, <1>4, <1>5, <2>1, <2>2
  <2>4. /\ t.phase \in {"reload", "loaded"} /\ accountPage'.editing # Null => accountFlags'.early
        /\ t.phase = "loaded" /\ ~accountFlags'.stale => t.rows = accountRows'
    BY <1>4, <1>5, <2>1, <2>2
  <2>5. ASSUME ~accountFlags'.stale, ~accountPage'.loading,
               t.phase \notin {"done", "reload", "loaded"}
        PROVE  /\ accountPage'.users = accountRows'
               /\ accountPage'.editing # Null /\ ~accountFlags'.early =>
                    accountPage'.base = accountRows'[accountPage'.editing]
    <3>1. accountRows' = accountRows /\ ~accountFlags.stale /\ accountFlags'.early = accountFlags.early
      BY <1>4, <1>5, <1>8, <2>5
    <3>2. task.phase \notin {"done", "reload", "loaded"}
      BY <1>4, <1>5, <2>5
    <3> QED
      BY <2>1, <2>2, <2>5, <3>1, <3>2
  <2>6. /\ AccountTyped /\ t \in AccountTask \cup {Account!NoTask}
        /\ \A j \in Tasks \ {k} : ~Account!Attached(j)
        /\ accountTasks' = [accountTasks EXCEPT ![k] = t]
        /\ accountPage'.loading => accountPage'.editing = Null
    BY <1>2, <1>5, <1>6, <2>2
  <2>7. t # Account!NoTask /\ t.mounted =>
          /\ t.kind = "load" => accountPage'.loading
          /\ t.kind = "load" /\ t.phase = "failed" => accountFlags'.stale
          /\ t.phase \in {"reload", "loaded"} /\ accountPage'.editing # Null => accountFlags'.early
          /\ t.phase = "loaded" /\ ~accountFlags'.stale => t.rows = accountRows'
    BY <2>3, <2>4
  <2>8. /\ ~accountFlags'.stale /\ ~accountPage'.loading
        /\ t # Account!NoTask /\ t.mounted => t.phase \notin {"done", "reload", "loaded"}
        => /\ accountPage'.users = accountRows'
           /\ accountPage'.editing # Null /\ ~accountFlags'.early =>
                accountPage'.base = accountRows'[accountPage'.editing]
    BY <1>5, <1>8, <2>5
  <2> QED
    BY <2>6, <2>7, <2>8, AccountShowsTask
<1> QED
  BY <1>7, <1>8

(* What other admins write.                                                       *)
LEMMA AccountShowsAround ==
  ASSUME AccountInv, AccountShows,
         Account!Leave \/ \E a \in Accounts : Account!Elsewhere(a)
  PROVE  AccountShows'
<1>1. CASE Account!Leave
  BY <1>1 DEF Account!Leave, AccountShows
<1>2. ASSUME NEW a \in Accounts, Account!Elsewhere(a)
      PROVE  AccountShows'
  <2>1. /\ accountFlags'.stale /\ accountFlags'.early = accountFlags.early
        /\ UNCHANGED <<accountPage, accountTasks>>
    BY <1>2 DEF Account!Elsewhere, AccountInv, AccountTyped, AccountFlags
  <2>2. \A j \in Tasks : Account!Attached(j)' <=> Account!Attached(j)
    BY <2>1 DEF Account!Attached, Account!Running
  <2> QED
    BY <2>1, <2>2 DEF AccountShows
<1> QED
  BY <1>1, <1>2

(* Whatever happens on the page and in the service.                               *)
LEMMA AccountShowsStep == AccountInv /\ AccountShows /\ Account!Next => AccountShows'
BY AccountShowsDialogs, AccountShowsClicks, AccountShowsAnswers, AccountShowsServices,
   AccountShowsAround DEF Account!Next

(* The steps of other pages.                                                      *)
LEMMA AccountShowsRests == ASSUME AccountShows, UNCHANGED accounts PROVE AccountShows'
<1>1. /\ accountRows' = accountRows /\ accountPage' = accountPage
      /\ accountTasks' = accountTasks /\ accountFlags' = accountFlags
  BY DEF accounts
<1>2. \A k : Account!Attached(k)' <=> Account!Attached(k)
  BY <1>1 DEF Account!Attached, Account!Running
<1> QED
  BY <1>1, <1>2 DEF AccountShows

(* No page is there in the beginning.                                             *)
LEMMA AccountShowsInit == Account!Init => AccountShows
BY DEF Account!Init, AccountShows

(* A page that waits for nothing shows what is stored.                            *)
LEMMA AccountShowsStored == AccountInv /\ AccountShows => Account!AccountsAsStored
BY DEF AccountShows, Account!AccountsAsStored, Account!Shown, Account!Attached

-----------------------------------------------------------------------------
(* What the subjects page shows.                                                 *)

(* What the subjects page shows: the one task that matters starts, goes on or ends.       *)
LEMMA SubjectShowsTask ==
  ASSUME SubjectTyped, NEW k \in Tasks, NEW t, t = Subject!NoTask \/ t.kind # "none",
         subjectTasks' = [subjectTasks EXCEPT ![k] = t],
         \A j \in Tasks \ {k} : j \notin Subject!Mattering,
         t # Subject!NoTask /\ subjectPage' # Null => t.mounted \/ t.phase \in Loading,
         t # Subject!NoTask /\ t.mounted =>
           /\ t.phase \in Loading => subjectPage'.loading
           /\ t.phase = "loaded" /\ ~subjectFlags'.stale => t.rows = Subject!Listing',
         Subject!Shown' /\ ~subjectFlags'.stale /\ (t # Subject!NoTask => t.phase # "done") =>
           subjectPage'.rows = Subject!Listing'
  PROVE  SubjectShows'
<1>1. subjectTasks'[k] = t /\ \A j \in Tasks \ {k} : subjectTasks'[j] = subjectTasks[j]
  BY DEF SubjectTyped
<1>2. \A j \in Subject!Running' \ {k} :
        /\ j \in Subject!Running /\ j \notin Subject!Mattering
        /\ ~subjectTasks'[j].mounted /\ subjectTasks'[j].phase \in Loading
  <2>1. ASSUME NEW j \in Subject!Running' \ {k}
        PROVE  j \in Tasks \ {k} /\ j \in Subject!Running /\ subjectTasks'[j] = subjectTasks[j]
    BY <1>1, <2>1 DEF Subject!Running
  <2> QED
    BY <2>1 DEF Subject!Mattering, Loading
<1>3. \A j \in Subject!Mattering' : j = k
  BY <1>2 DEF Subject!Mattering, Loading
<1>4. k \in Subject!Running' <=> t # Subject!NoTask
  BY <1>1 DEF Subject!Running, Subject!NoTask
<1>5. k \in Subject!Mattering' <=> t # Subject!NoTask /\ (t.mounted \/ t.phase \notin Loading)
  BY <1>1, <1>4 DEF Subject!Mattering, Loading
<1>6. subjectPage' # Null => \A j \in Subject!Mattering' : subjectTasks'[j].mounted
  BY <1>1, <1>3, <1>5
<1>7. \A j \in Subject!Running' : subjectTasks'[j].mounted => j = k /\ t # Subject!NoTask
  BY <1>2, <1>4
<1>8. /\ \A j \in Subject!Running' :
           subjectTasks'[j].mounted /\ subjectTasks'[j].phase \in Loading => subjectPage'.loading
      /\ ~subjectFlags'.stale => \A j \in Subject!Running' :
           subjectTasks'[j].mounted /\ subjectTasks'[j].phase = "loaded" =>
             subjectTasks'[j].rows = Subject!Listing'
  BY <1>1, <1>7
<1>9. ASSUME Subject!Shown', ~subjectFlags'.stale,
             \A j \in Subject!Mattering' : subjectTasks'[j].phase # "done"
      PROVE  subjectPage'.rows = Subject!Listing'
  <2>1. t # Subject!NoTask => t.phase # "done"
    BY <1>1, <1>5, <1>9 DEF Loading
  <2> QED
    BY <1>9, <2>1
<1> QED
  BY <1>3, <1>6, <1>8, <1>9 DEF SubjectShows

(* A task that does not matter does not disturb those that do.                  *)
LEMMA SubjectShowsIdle ==
  ASSUME SubjectTyped, SubjectShows, NEW k \in Tasks, k \notin Subject!Mattering, NEW t,
         subjectTasks' = [subjectTasks EXCEPT ![k] = t],
         t.kind = "none" \/ (~t.mounted /\ t.phase \in Loading),
         UNCHANGED <<subjectRows, subjectPage>>,
         subjectFlags'.overlap = subjectFlags.overlap, subjectFlags'.stale = subjectFlags.stale
  PROVE  SubjectShows'
<1>1. subjectTasks'[k] = t /\ \A j \in Tasks \ {k} : subjectTasks'[j] = subjectTasks[j]
  BY DEF SubjectTyped
<1>2. \A j \in Subject!Mattering' : j # k /\ j \in Subject!Mattering /\ subjectTasks'[j] = subjectTasks[j]
  BY <1>1 DEF Subject!Mattering, Subject!Running, Loading
<1>3. \A j \in Subject!Mattering : j \in Subject!Mattering' /\ subjectTasks'[j] = subjectTasks[j]
  BY <1>1 DEF Subject!Mattering, Subject!Running
<1>4. \A j \in Subject!Running' : subjectTasks'[j].mounted => j \in Subject!Mattering'
  BY DEF Subject!Mattering
<1>5. \A j \in Subject!Mattering : j \in Subject!Running
  BY DEF Subject!Mattering
<1>6. Subject!Listing' = Subject!Listing /\ (Subject!Shown' <=> Subject!Shown)
  BY SubjectRowsSame DEF Subject!Shown
<1>7. SUFFICES ASSUME ~subjectFlags'.overlap
               PROVE  SubjectShows'
  BY DEF SubjectShows
<1>8. /\ \A k1, k2 \in Subject!Mattering' : k1 = k2
      /\ subjectPage' # Null => \A j \in Subject!Mattering' : subjectTasks'[j].mounted
  BY <1>2, <1>7 DEF SubjectShows
<1>9. \A j \in Subject!Running' :
        subjectTasks'[j].mounted /\ subjectTasks'[j].phase \in Loading => subjectPage'.loading
  BY <1>2, <1>4, <1>5, <1>7 DEF SubjectShows
<1>10. ASSUME ~subjectFlags'.stale
       PROVE  /\ \A j \in Subject!Running' :
                   subjectTasks'[j].mounted /\ subjectTasks'[j].phase = "loaded" =>
                     subjectTasks'[j].rows = Subject!Listing'
              /\ Subject!Shown' /\ (\A j \in Subject!Mattering' : subjectTasks'[j].phase # "done") =>
                   subjectPage'.rows = Subject!Listing'
  <2>1. \A j \in Subject!Running' :
          subjectTasks'[j].mounted /\ subjectTasks'[j].phase = "loaded" =>
            subjectTasks'[j].rows = Subject!Listing'
    BY <1>2, <1>4, <1>5, <1>6, <1>7, <1>10 DEF SubjectShows
  <2>2. Subject!Shown' /\ (\A j \in Subject!Mattering' : subjectTasks'[j].phase # "done") =>
          subjectPage'.rows = Subject!Listing'
    BY <1>3, <1>6, <1>7, <1>10 DEF SubjectShows
  <2> QED
    BY <2>1, <2>2
<1> QED
  BY <1>8, <1>9, <1>10 DEF SubjectShows

(* The page goes, and its tasks go on without it.                                *)
LEMMA SubjectShowsGone ==
  ASSUME SubjectTyped, SubjectShows, subjectPage' = Null,
         subjectFlags'.overlap = subjectFlags.overlap,
         \A j \in Tasks :
           \/ subjectTasks'[j] = Subject!NoTask
           \/ /\ j \in Subject!Running
              /\ subjectTasks'[j] = [subjectTasks[j] EXCEPT !.mounted = FALSE]
  PROVE  SubjectShows'
<1>1. ASSUME NEW j \in Subject!Running'
      PROVE  /\ j \in Subject!Running /\ ~subjectTasks'[j].mounted
             /\ subjectTasks'[j].phase = subjectTasks[j].phase
  <2>1. /\ j \in Tasks /\ j \in Subject!Running
        /\ subjectTasks'[j] = [subjectTasks[j] EXCEPT !.mounted = FALSE]
    BY <1>1 DEF Subject!Running, Subject!NoTask
  <2>2. subjectTasks[j] \in SubjectTask
    BY <2>1, SubjectTaskType
  <2> QED
    BY <2>1, <2>2 DEF SubjectTask
<1>2. \A j \in Subject!Mattering' : j \in Subject!Mattering
  BY <1>1 DEF Subject!Mattering
<1> QED
  BY <1>1, <1>2 DEF SubjectShows, Subject!Shown

(* The dialogs, what others write, and the steps of other pages.                 *)
LEMMA SubjectShowsQuiet ==
  ASSUME SubjectShows, UNCHANGED subjectTasks, subjectFlags'.overlap = subjectFlags.overlap,
         \/ subjectPage' = subjectPage
         \/ /\ subjectPage # Null
            /\ subjectPage'.loading = subjectPage.loading /\ subjectPage'.rows = subjectPage.rows,
         \/ subjectFlags'.stale
         \/ UNCHANGED subjectRows /\ subjectFlags'.stale = subjectFlags.stale
  PROVE  SubjectShows'
<1>1. Subject!Running' = Subject!Running /\ Subject!Mattering' = Subject!Mattering
  BY DEF Subject!Running, Subject!Mattering
<1>2. Subject!Shown' => Subject!Shown
  BY DEF Subject!Shown
<1>3. CASE subjectFlags'.stale
  BY <1>1, <1>2, <1>3 DEF SubjectShows
<1>4. CASE UNCHANGED subjectRows /\ subjectFlags'.stale = subjectFlags.stale
  <2>1. Subject!Listing' = Subject!Listing
    BY <1>4, SubjectRowsSame
  <2> QED
    BY <1>1, <1>2, <1>4, <2>1 DEF SubjectShows
<1> QED
  BY <1>3, <1>4

(* A task starts: nothing else matters by then, or overlap says so.              *)
LEMMA SubjectShowsStart ==
  ASSUME SubjectInv, SubjectShows, NEW t, t.kind # "none", t.mounted, Subject!Start(t),
         UNCHANGED subjectRows,
         \/ t.phase = "reload" /\ subjectPage'.loading
         \/ /\ t.phase = "asked" /\ subjectPage # Null
            /\ subjectPage'.loading = subjectPage.loading /\ subjectPage'.rows = subjectPage.rows
  PROVE  SubjectShows'
<1>1. PICK k \in Tasks : subjectTasks' = [subjectTasks EXCEPT ![k] = t]
  BY SubjectSlot DEF Subject!Start, SubjectInv
<1>2. PICK over \in BOOLEAN :
        /\ subjectFlags' = [subjectFlags EXCEPT !.overlap = over]
        /\ ~over => ~subjectFlags.overlap /\ Subject!Mattering = {}
  BY DEF Subject!Start
<1>3. /\ ~subjectFlags'.overlap => ~subjectFlags.overlap /\ Subject!Mattering = {}
      /\ subjectFlags'.stale = subjectFlags.stale
  BY <1>2 DEF SubjectInv, SubjectTyped, SubjectFlags
<1>4. SUFFICES ASSUME ~subjectFlags'.overlap
               PROVE  SubjectShows'
  BY DEF SubjectShows
<1>5. ~subjectFlags.overlap /\ Subject!Mattering = {}
  BY <1>3, <1>4
<1>6. ASSUME Subject!Shown', ~subjectFlags'.stale
      PROVE  subjectPage'.rows = Subject!Listing'
  <2>1. /\ ~subjectPage'.loading /\ subjectPage # Null /\ ~subjectPage.loading
        /\ subjectPage'.rows = subjectPage.rows
    BY <1>6 DEF Subject!Shown
  <2>2. subjectPage.rows = Subject!Listing
    BY <1>3, <1>5, <1>6, <2>1 DEF SubjectShows, Subject!Shown
  <2> QED
    BY <2>1, <2>2, SubjectRowsSame
<1>7. /\ t.phase \in Loading => subjectPage'.loading
      /\ t.phase # "loaded"
  BY DEF Loading
<1>8. \A j \in Tasks \ {k} : j \notin Subject!Mattering
  BY <1>5
<1>9. SubjectTyped
  BY DEF SubjectInv
<1> QED
  BY <1>1, <1>6, <1>7, <1>8, <1>9, SubjectShowsTask

(* The clicks that start a task.                                                  *)
LEMMA SubjectShowsClicks ==
  ASSUME SubjectInv, SubjectShows,
         \/ Subject!Open \/ Subject!HandleCreateTeam \/ Subject!HandleSave
         \/ Subject!HandleDeleteSubject
         \/ \E s \in Subjects : Subject!HandleRegisterSubject(s) \/ Subject!HandleLeaveSubject(s)
  PROVE  SubjectShows'
<1>1. subjectPage # Null => subjectPage \in Subject!Pages
  BY DEF SubjectInv, SubjectTyped, Subject!TypeOK
<1>2. CASE Subject!Open
  <2> DEFINE t == Subject!Task("load", "reload", Null, Null)
  <2>1. t.kind # "none" /\ t.mounted /\ t.phase = "reload"
    BY DEF Subject!Task
  <2>2. Subject!Start(t) /\ UNCHANGED subjectRows /\ subjectPage'.loading
    BY <1>2 DEF Subject!Open
  <2> HIDE DEF t
  <2> QED
    BY <2>1, <2>2, SubjectShowsStart
<1>3. ASSUME NEW kind, NEW target, NEW form, kind # "none", UNCHANGED subjectRows,
             Subject!Start(Subject!Task(kind, "asked", target, form)), Subject!Shown,
             subjectPage'.loading = subjectPage.loading, subjectPage'.rows = subjectPage.rows
      PROVE  SubjectShows'
  <2> DEFINE t == Subject!Task(kind, "asked", target, form)
  <2>1. t.kind # "none" /\ t.mounted /\ t.phase = "asked"
    BY <1>3 DEF Subject!Task
  <2>2. Subject!Start(t) /\ UNCHANGED subjectRows /\ subjectPage # Null
    BY <1>3 DEF Subject!Shown
  <2> HIDE DEF t
  <2> QED
    BY <1>3, <2>1, <2>2, SubjectShowsStart
<1>4. CASE Subject!HandleCreateTeam
  <2>1. Subject!Shown /\ subjectPage \in Subject!Pages
    BY <1>1, <1>4 DEF Subject!HandleCreateTeam, Subject!In, Subject!Shown
  <2>2. subjectPage'.loading = subjectPage.loading /\ subjectPage'.rows = subjectPage.rows
    BY <1>4, <2>1 DEF Subject!HandleCreateTeam, Subject!Pages
  <2> QED
    BY <1>3, <1>4, <2>1, <2>2 DEF Subject!HandleCreateTeam
<1>5. CASE Subject!HandleSave
  <2>1. Subject!Shown /\ subjectPage \in Subject!Pages
    BY <1>1, <1>5 DEF Subject!HandleSave, Subject!In, Subject!Shown
  <2>2. subjectPage'.loading = subjectPage.loading /\ subjectPage'.rows = subjectPage.rows
    BY <1>5, <2>1 DEF Subject!HandleSave, Subject!Pages
  <2>3. PICK form : Subject!Start(Subject!Task("save", "asked", form.target, form))
    BY <1>5 DEF Subject!HandleSave
  <2> QED
    BY <1>3, <1>5, <2>1, <2>2, <2>3 DEF Subject!HandleSave
<1>6. CASE Subject!HandleDeleteSubject
  BY <1>3, <1>6 DEF Subject!HandleDeleteSubject, Subject!In
<1>7. ASSUME NEW s \in Subjects, Subject!HandleRegisterSubject(s) \/ Subject!HandleLeaveSubject(s)
      PROVE  SubjectShows'
  BY <1>3, <1>7
  DEF Subject!HandleRegisterSubject, Subject!HandleLeaveSubject, Subject!IsStudent
<1> QED
  BY <1>2, <1>4, <1>5, <1>6, <1>7

(* What is known of a task that matters, and of the page with it.                *)
LEMMA SubjectShowsKnown ==
  ASSUME SubjectInv, SubjectShows, ~subjectFlags.overlap, NEW k \in Subject!Mattering
  PROVE  LET task == subjectTasks[k]
         IN /\ \A j \in Tasks \ {k} : j \notin Subject!Mattering
            /\ subjectPage # Null <=> task.mounted
            /\ task.mounted /\ task.phase \in Loading => subjectPage.loading
            /\ task.mounted /\ task.phase = "loaded" /\ ~subjectFlags.stale =>
                 task.rows = Subject!Listing
            /\ Subject!Shown /\ ~subjectFlags.stale /\ task.phase # "done" =>
                 subjectPage.rows = Subject!Listing
<1>1. k \in Subject!Running
  BY DEF Subject!Mattering
<1>2. subjectTasks[k].mounted => subjectPage # Null
  BY <1>1 DEF SubjectInv, SubjectTyped, Subject!TypeOK
<1>3. \A j \in Subject!Mattering : j = k
  BY DEF SubjectShows
<1> QED
  BY <1>1, <1>2, <1>3 DEF SubjectShows


(* The answers.                                                                  *)
LEMMA SubjectShowsAnswers ==
  ASSUME SubjectInv, SubjectShows, NEW k \in Tasks,
         Subject!WriteAnswered(k) \/ Subject!WriteFailed(k) \/ Subject!LoadAnswered(k)
  PROVE  SubjectShows'
<1>1. PICK task : task = subjectTasks[k]
  OBVIOUS
<1>2. /\ SubjectTyped /\ task \in SubjectTask /\ k \in Subject!Running /\ task.kind # "none"
      /\ task.mounted => subjectPage \in Subject!Pages /\ subjectPage # Null
      /\ UNCHANGED subjectRows /\ Subject!Listing' = Subject!Listing
      /\ subjectFlags \in SubjectFlags
  BY <1>1, SubjectTaskType, SubjectRowsSame
  DEF SubjectInv, SubjectTyped, Subject!WriteAnswered, Subject!WriteFailed, Subject!LoadAnswered,
      Subject!Running
<1>3. k \in Subject!Mattering <=> task.mounted \/ task.phase \notin Loading
  BY <1>1, <1>2 DEF Subject!Mattering, Loading
<1>4. /\ subjectFlags'.overlap = subjectFlags.overlap
      /\ subjectFlags'.stale <=>
           subjectFlags.stale \/ (task.mounted /\ task.phase = "loadFailed")
  <2>1. CASE Subject!WriteAnswered(k) \/ Subject!WriteFailed(k)
    BY <1>1, <2>1 DEF Subject!WriteAnswered, Subject!WriteFailed
  <2>2. CASE Subject!LoadAnswered(k)
    BY <1>1, <1>2, <2>2 DEF Subject!LoadAnswered, SubjectFlags
  <2> QED
    BY <2>1, <2>2
<1>5. CASE Subject!LoadAnswered(k) /\ task.kind = "team"
  <2>1. /\ subjectPage' = Null
        /\ subjectTasks' = [j \in Tasks |->
             IF j = k \/ j \notin Subject!Running THEN Subject!NoTask
             ELSE [subjectTasks[j] EXCEPT !.mounted = FALSE]]
    BY <1>1, <1>5 DEF Subject!LoadAnswered
  <2> QED
    BY <1>2, <1>4, <2>1, SubjectShowsGone
<1>6. CASE Subject!LoadAnswered(k) /\ task.kind # "team" /\ ~task.mounted
  <2>1. /\ subjectTasks' = [subjectTasks EXCEPT ![k] = Subject!NoTask] /\ subjectPage' = subjectPage
        /\ task.phase \in Loading
    BY <1>1, <1>6 DEF Subject!LoadAnswered, Subject!SetPage, Subject!End, Loading
  <2>2. k \notin Subject!Mattering
    BY <1>3, <1>6, <2>1
  <2>3. Subject!NoTask.kind = "none" /\ subjectFlags'.stale = subjectFlags.stale
    BY <1>2, <1>4, <1>6, <2>1 DEF Subject!NoTask, Subject!LoadAnswered, SubjectFlags
  <2> QED
    BY <1>2, <1>4, <2>1, <2>2, <2>3, SubjectShowsIdle
<1>7. CASE \/ Subject!WriteAnswered(k) \/ Subject!WriteFailed(k)
           \/ Subject!LoadAnswered(k) /\ task.kind # "team" /\ task.mounted
  <2>1. SUFFICES ASSUME ~subjectFlags'.overlap
                 PROVE  SubjectShows'
    BY DEF SubjectShows
  <2>2. k \in Subject!Mattering /\ ~subjectFlags.overlap
    BY <1>1, <1>3, <1>4, <1>7, <2>1 DEF Subject!WriteAnswered, Subject!WriteFailed, Loading
  <2>3. /\ \A j \in Tasks \ {k} : j \notin Subject!Mattering
        /\ subjectPage # Null <=> task.mounted
        /\ task.mounted /\ task.phase = "loaded" /\ ~subjectFlags.stale => task.rows = Subject!Listing
        /\ Subject!Shown /\ ~subjectFlags.stale /\ task.phase # "done" =>
             subjectPage.rows = Subject!Listing
    BY <1>1, <2>2, SubjectShowsKnown
  <2>4. CASE Subject!WriteAnswered(k)
    <3> DEFINE t == [task EXCEPT !.phase = "reload"]
    <3>1. /\ t.phase = "reload" /\ t.kind # "none" /\ t.mounted = task.mounted
          /\ subjectTasks' = [subjectTasks EXCEPT ![k] = t]
      BY <1>1, <1>2, <2>4 DEF SubjectTask, Subject!WriteAnswered
    <3>2. IF task.mounted THEN subjectPage'.loading ELSE subjectPage' = Null
      BY <1>1, <1>2, <2>3, <2>4 DEF Subject!WriteAnswered, Subject!SetPage, Subject!Pages
    <3> HIDE DEF t
    <3>3. t.phase \in Loading /\ t.phase # "loaded" /\ ~Subject!Shown'
      BY <3>1, <3>2 DEF Loading, Subject!Shown
    <3> QED
      BY <1>2, <2>3, <3>1, <3>2, <3>3, SubjectShowsTask
  <2>5. CASE Subject!WriteFailed(k)
    <3>1. /\ subjectTasks' = [subjectTasks EXCEPT ![k] = Subject!NoTask] /\ task.phase = "failed"
          /\ subjectPage' = IF task.mounted THEN Subject!Released(k, subjectPage) ELSE subjectPage
      BY <1>1, <2>5 DEF Subject!WriteFailed, Subject!SetPage, Subject!End
    <3>2. task.mounted => subjectPage'.loading = subjectPage.loading /\ subjectPage'.rows = subjectPage.rows
      BY <1>2, <3>1, SubjectReleased
    <3>3. ASSUME Subject!Shown', ~subjectFlags'.stale
          PROVE  subjectPage'.rows = Subject!Listing'
      <4>1. task.mounted
        BY <2>3, <3>1, <3>3 DEF Subject!Shown
      <4>2. Subject!Shown /\ ~subjectFlags.stale
        BY <1>2, <1>4, <3>2, <3>3, <4>1 DEF Subject!Shown
      <4> QED
        BY <1>2, <2>3, <3>1, <3>2, <4>1, <4>2
    <3> QED
      BY <1>2, <2>3, <3>1, <3>3, SubjectShowsTask
  <2>6. CASE Subject!LoadAnswered(k) /\ task.kind # "team" /\ task.mounted
    <3>1. PICK filled :
            /\ filled = IF task.phase = "loaded" THEN [subjectPage EXCEPT !.rows = task.rows]
                        ELSE subjectPage
            /\ subjectTasks' = [subjectTasks EXCEPT ![k] = Subject!NoTask]
            /\ subjectPage' = [Subject!Released(k, filled) EXCEPT !.loading = FALSE]
            /\ task.phase \in {"loaded", "loadFailed"}
      BY <1>1, <2>6 DEF Subject!LoadAnswered, Subject!SetPage, Subject!End
    <3>2. /\ filled \in Subject!Pages
          /\ task.phase = "loaded" => filled.rows = task.rows
      <4>1. SubjectTaskSound(task)
        BY <1>1, <1>2, SubjectTaskType
      <4> QED
        BY <1>2, <2>6, <3>1, <4>1 DEF Subject!Pages, SubjectTaskSound
    <3>3. PICK q \in Subject!Pages : q = Subject!Released(k, filled) /\ q.rows = filled.rows
      BY <3>2, SubjectReleased
    <3>4. subjectPage'.rows = filled.rows
      BY <3>1, <3>3 DEF Subject!Pages
    <3>5. ~subjectFlags'.stale => subjectPage'.rows = Subject!Listing'
      BY <1>2, <1>4, <2>3, <2>6, <3>1, <3>2, <3>4
    <3> QED
      BY <1>2, <2>3, <3>1, <3>5, SubjectShowsTask
  <2> QED
    BY <1>7, <2>4, <2>5, <2>6
<1> QED
  BY <1>5, <1>6, <1>7

(* The services.                                                                 *)
LEMMA SubjectShowsServed ==
  ASSUME SubjectInv, SubjectShows, NEW k \in Subject!Running, NEW phase, NEW rows,
         subjectTasks' = [subjectTasks EXCEPT ![k] =
                            [subjectTasks[k] EXCEPT !.phase = phase, !.rows = rows]],
         UNCHANGED subjectPage, subjectFlags'.overlap = subjectFlags.overlap,
         subjectTasks[k].phase \in Loading <=> phase \in Loading,
         phase \in Loading =>
           /\ UNCHANGED subjectRows
           /\ subjectTasks[k].mounted \/ subjectFlags'.stale = subjectFlags.stale,
         phase = "loaded" => rows = Subject!Listing' \/ (subjectTasks[k].mounted => subjectFlags'.stale),
         \/ phase \in Loading \cup {"done"} \/ subjectFlags'.stale
         \/ /\ UNCHANGED subjectRows /\ subjectFlags'.stale = subjectFlags.stale
            /\ subjectTasks[k].phase # "done"
  PROVE  SubjectShows'
<1>1. PICK task : task = subjectTasks[k]
  OBVIOUS
<1>2. k \in Tasks /\ SubjectTyped /\ task \in SubjectTask /\ task.kind # "none"
  BY <1>1, SubjectTaskType DEF SubjectInv, Subject!Running
<1> DEFINE t == [task EXCEPT !.phase = phase, !.rows = rows]
<1>3. /\ t.phase = phase /\ t.rows = rows /\ t.kind # "none" /\ t.mounted = task.mounted
      /\ subjectTasks' = [subjectTasks EXCEPT ![k] = t]
  BY <1>1, <1>2 DEF SubjectTask
<1> HIDE DEF t
<1>4. CASE ~task.mounted /\ phase \in Loading
  <2>1. k \notin Subject!Mattering
    BY <1>1, <1>4 DEF Subject!Mattering, Loading
  <2>2. subjectFlags'.stale = subjectFlags.stale /\ UNCHANGED <<subjectRows, subjectPage>>
    BY <1>1, <1>4
  <2> QED
    BY <1>2, <1>3, <1>4, <2>1, <2>2, SubjectShowsIdle
<1>5. CASE task.mounted \/ phase \notin Loading
  <2>1. SUFFICES ASSUME ~subjectFlags'.overlap
                 PROVE  SubjectShows'
    BY DEF SubjectShows
  <2>2. k \in Subject!Mattering /\ ~subjectFlags.overlap
    BY <1>1, <1>5, <2>1 DEF Subject!Mattering, Loading
  <2>3. /\ \A j \in Tasks \ {k} : j \notin Subject!Mattering
        /\ subjectPage # Null <=> task.mounted
        /\ task.mounted /\ task.phase \in Loading => subjectPage.loading
        /\ Subject!Shown /\ ~subjectFlags.stale /\ task.phase # "done" =>
             subjectPage.rows = Subject!Listing
    BY <1>1, <2>2, SubjectShowsKnown
  <2>4. /\ t.mounted /\ t.phase \in Loading => subjectPage'.loading
        /\ t.mounted /\ t.phase = "loaded" /\ ~subjectFlags'.stale => t.rows = Subject!Listing'
        /\ subjectPage' # Null => t.mounted
    BY <1>1, <1>3, <2>3
  <2>5. ASSUME Subject!Shown', ~subjectFlags'.stale, t.phase # "done"
        PROVE  subjectPage'.rows = Subject!Listing'
    <3>1. Subject!Shown /\ task.mounted
      BY <2>3, <2>5 DEF Subject!Shown
    <3>2. phase \notin Loading
      BY <1>1, <2>3, <3>1 DEF Subject!Shown
    <3>3. /\ UNCHANGED subjectRows /\ subjectFlags'.stale = subjectFlags.stale
          /\ task.phase # "done"
      BY <1>1, <1>3, <2>5, <3>2
    <3>4. Subject!Listing' = Subject!Listing
      BY <3>3, SubjectRowsSame
    <3> QED
      BY <2>3, <2>5, <3>1, <3>3, <3>4
  <2>6. t # Subject!NoTask
    BY <1>3 DEF Subject!NoTask
  <2> QED
    BY <1>2, <1>3, <2>3, <2>4, <2>5, <2>6, SubjectShowsTask
<1> QED
  BY <1>4, <1>5

(* Each of the services, a failure included.                                      *)
LEMMA SubjectShowsServices ==
  ASSUME SubjectInv, SubjectShows, NEW k \in Tasks,
         \/ Subject!ServeCheck(k) \/ Subject!ServeLoad(k) \/ Subject!ServeLoadPartly(k)
         \/ Subject!CallFails(k) \/ Subject!ServeWrite(k)
  PROVE  SubjectShows'
<1>1. PICK task : task = subjectTasks[k]
  OBVIOUS
<1>2. /\ SubjectTyped /\ task \in SubjectTask /\ k \in Subject!Running
      /\ UNCHANGED subjectPage /\ subjectFlags \in SubjectFlags
      /\ DOMAIN subjectTasks = Tasks
  BY <1>1, SubjectTaskType
  DEF SubjectInv, SubjectTyped, Subject!ServeCheck, Subject!ServeLoad, Subject!ServeLoadPartly,
      Subject!CallFails, Subject!ServeWrite
<1>3. ASSUME NEW phase, subjectTasks' = [subjectTasks EXCEPT ![k].phase = phase]
      PROVE  subjectTasks' = [subjectTasks EXCEPT ![k] =
                                [subjectTasks[k] EXCEPT !.phase = phase, !.rows = task.rows]]
  BY <1>1, <1>2, <1>3 DEF SubjectTask
<1>4. CASE Subject!ServeCheck(k)
  <2>1. /\ UNCHANGED <<subjectRows, subjectFlags>> /\ task.phase = "asked"
        /\ \E phase \in {"checked", "failed"} :
             subjectTasks' = [subjectTasks EXCEPT ![k].phase = phase]
    BY <1>1, <1>4 DEF Subject!ServeCheck
  <2>2. PICK phase \in {"checked", "failed"} :
          subjectTasks' = [subjectTasks EXCEPT ![k].phase = phase]
    BY <2>1
  <2>3. phase \notin Loading /\ phase # "loaded" /\ task.phase \notin Loading
    BY <2>1, <2>2 DEF Loading
  <2> QED
    BY <1>1, <1>2, <1>3, <2>1, <2>2, <2>3, SubjectShowsServed
<1>5. CASE Subject!ServeWrite(k)
  <2>1. PICK phase \in {"done", "failed"} :
          /\ subjectTasks' = [subjectTasks EXCEPT ![k].phase = phase]
          /\ phase = "failed" => UNCHANGED subjectRows
    BY <1>5 DEF Subject!ServeWrite
  <2>2. task.phase \in {"asked", "checked"}
    BY <1>1, <1>5 DEF Subject!ServeWrite
  <2>3. phase \notin Loading /\ phase # "loaded" /\ task.phase \notin Loading /\ task.phase # "done"
    BY <2>1, <2>2 DEF Loading
  <2>4. subjectFlags'.overlap = subjectFlags.overlap /\ subjectFlags'.stale = subjectFlags.stale
    BY <1>2, <1>5 DEF Subject!ServeWrite, SubjectFlags
  <2> QED
    BY <1>1, <1>2, <1>3, <2>1, <2>3, <2>4, SubjectShowsServed
<1>6. CASE Subject!ServeLoad(k)
  <2>1. /\ UNCHANGED subjectRows /\ task.phase = "reload"
        /\ subjectTasks' = [subjectTasks EXCEPT ![k].phase = "loaded", ![k].rows = Subject!Listing]
        /\ Subject!Listing' = Subject!Listing
    BY <1>1, <1>6, SubjectRowsSame DEF Subject!ServeLoad
  <2>2. subjectTasks' = [subjectTasks EXCEPT ![k] =
                           [subjectTasks[k] EXCEPT !.phase = "loaded", !.rows = Subject!Listing]]
    BY <1>2, <2>1
  <2>3. /\ subjectFlags'.overlap = subjectFlags.overlap
        /\ task.mounted \/ subjectFlags'.stale = subjectFlags.stale
    BY <1>1, <1>2, <1>6 DEF Subject!ServeLoad, SubjectFlags
  <2>4. "loaded" \in Loading /\ task.phase \in Loading
    BY <2>1 DEF Loading
  <2> QED
    BY <1>1, <1>2, <2>1, <2>2, <2>3, <2>4, SubjectShowsServed
<1>7. CASE Subject!CallFails(k)
  <2> DEFINE loading == task.phase \in {"reload", "loaded"}
             phase == IF loading THEN "loadFailed" ELSE "failed"
  <2>1. /\ UNCHANGED subjectRows /\ task.phase \in {"asked", "checked", "done", "reload", "loaded"}
        /\ subjectTasks' = [subjectTasks EXCEPT ![k].phase = phase]
    BY <1>1, <1>7 DEF Subject!CallFails
  <2>2. /\ subjectFlags'.overlap = subjectFlags.overlap
        /\ IF loading THEN subjectFlags'.stale = subjectFlags.stale ELSE subjectFlags'.stale
    BY <1>1, <1>2, <1>7 DEF Subject!CallFails, SubjectFlags
  <2>3. /\ task.phase \in Loading <=> phase \in Loading
        /\ phase # "loaded" /\ (phase \in Loading <=> loading)
    BY <2>1 DEF Loading
  <2> HIDE DEF phase
  <2>4. subjectTasks' = [subjectTasks EXCEPT ![k] =
                           [subjectTasks[k] EXCEPT !.phase = phase, !.rows = task.rows]]
    BY <1>3, <2>1
  <2>5. /\ phase \in Loading =>
             /\ UNCHANGED subjectRows
             /\ subjectTasks[k].mounted \/ subjectFlags'.stale = subjectFlags.stale
        /\ phase \in Loading \cup {"done"} \/ subjectFlags'.stale
    BY <2>1, <2>2, <2>3
  <2> HIDE DEF loading
  <2> QED
    BY <1>1, <1>2, <2>2, <2>3, <2>4, <2>5, SubjectShowsServed
<1>8. CASE Subject!ServeLoadPartly(k)
  <2>1. /\ UNCHANGED subjectRows /\ task.phase = "reload"
        /\ subjectFlags' = [subjectFlags EXCEPT !.stale = @ \/ task.mounted]
    BY <1>1, <1>8 DEF Subject!ServeLoadPartly
  <2>2. /\ subjectFlags'.overlap = subjectFlags.overlap
        /\ IF task.mounted THEN subjectFlags'.stale ELSE subjectFlags'.stale = subjectFlags.stale
    BY <1>2, <2>1 DEF SubjectFlags, SubjectTask
  <2>3. PICK rows : subjectTasks' = [subjectTasks EXCEPT ![k].phase = "loaded", ![k].rows = rows]
    BY <1>2, <1>8, SubjectServedPartly DEF SubjectTyped, Subject!TypeOK
  <2>4. subjectTasks' = [subjectTasks EXCEPT ![k] =
                           [subjectTasks[k] EXCEPT !.phase = "loaded", !.rows = rows]]
    BY <1>2, <2>3
  <2>5. "loaded" \in Loading /\ task.phase \in Loading
    BY <2>1 DEF Loading
  <2> QED
    BY <1>1, <1>2, <2>1, <2>2, <2>4, <2>5, SubjectShowsServed
<1> QED
  BY <1>4, <1>5, <1>6, <1>7, <1>8

(* Whatever happens on the page and in the services.                              *)
LEMMA SubjectShowsStep == SubjectInv /\ SubjectShows /\ Subject!Next => SubjectShows'
<1> SUFFICES ASSUME SubjectInv, SubjectShows, Subject!Next
             PROVE  SubjectShows'
  OBVIOUS
<1>1. /\ SubjectTyped
      /\ subjectPage # Null => subjectPage \in Subject!Pages
      /\ subjectFlags \in SubjectFlags
  BY DEF SubjectInv, SubjectTyped, Subject!TypeOK
<1>2. CASE \/ Subject!Open \/ Subject!HandleCreateTeam \/ Subject!HandleSave
           \/ Subject!HandleDeleteSubject
           \/ \E s \in Subjects : Subject!HandleRegisterSubject(s) \/ Subject!HandleLeaveSubject(s)
  BY <1>2, SubjectShowsClicks
<1>3. CASE \E k \in Tasks :
             \/ Subject!WriteAnswered(k) \/ Subject!WriteFailed(k) \/ Subject!LoadAnswered(k)
             \/ Subject!ServeCheck(k) \/ Subject!ServeLoad(k) \/ Subject!ServeLoadPartly(k)
             \/ Subject!CallFails(k) \/ Subject!ServeWrite(k)
  BY <1>3, SubjectShowsAnswers, SubjectShowsServices
<1>4. CASE Subject!Leave
  BY <1>1, <1>4, SubjectShowsGone DEF Subject!Leave
<1>5. CASE Subject!Elsewhere
  <2>1. subjectFlags'.stale /\ subjectFlags'.overlap = subjectFlags.overlap
    BY <1>1, <1>5 DEF Subject!Elsewhere, SubjectFlags
  <2> QED
    BY <1>5, <2>1, SubjectShowsQuiet DEF Subject!Elsewhere
<1>6. ASSUME NEW d, Subject!SetDialog(d), subjectPage # Null
      PROVE  SubjectShows'
  <2>1. /\ subjectPage'.loading = subjectPage.loading /\ subjectPage'.rows = subjectPage.rows
        /\ UNCHANGED <<subjectRows, subjectTasks, subjectFlags>>
    BY <1>1, <1>6 DEF Subject!SetDialog, Subject!Pages
  <2> QED
    BY <1>6, <2>1, SubjectShowsQuiet
<1>7. CASE \/ Subject!CloseDialog
           \/ \E s \in Subjects : Subject!SetDeleteSubjectTarget(s)
           \/ \E p \in Projects : Subject!OpenCreateTeamDialog(p)
           \/ \E i \in Subject!Items : Subject!OpenEditor(i)
           \/ \E d \in Subject!Kinds : Subject!OpenCreator(d)
  <2>1. CASE Subject!CloseDialog
    BY <1>6, <2>1 DEF Subject!CloseDialog, Subject!Shown
  <2>2. CASE \E s \in Subjects : Subject!SetDeleteSubjectTarget(s)
    BY <1>6, <2>2
    DEF Subject!SetDeleteSubjectTarget, Subject!Opens, Subject!IsAdmin, Subject!Shown
  <2>3. CASE \E p \in Projects : Subject!OpenCreateTeamDialog(p)
    BY <1>6, <2>3
    DEF Subject!OpenCreateTeamDialog, Subject!Opens, Subject!IsStudent, Subject!Shown
  <2>4. CASE \E i \in Subject!Items : Subject!OpenEditor(i)
    BY <1>6, <2>4 DEF Subject!OpenEditor, Subject!Opens, Subject!IsAdmin, Subject!Shown
  <2>5. CASE \E d \in Subject!Kinds : Subject!OpenCreator(d)
    BY <1>6, <2>5 DEF Subject!OpenCreator, Subject!Opens, Subject!IsAdmin, Subject!Shown
  <2> QED
    BY <1>7, <2>1, <2>2, <2>3, <2>4, <2>5
<1> QED
  BY <1>2, <1>3, <1>4, <1>5, <1>7 DEF Subject!Next

(* No page is there in the beginning.                                             *)
LEMMA SubjectShowsInit == Subject!Init => SubjectShows
BY DEF Subject!Init, SubjectShows, Subject!Running, Subject!Mattering, Subject!NoTask, Subject!Shown

(* The steps of other pages.                                                      *)
LEMMA SubjectShowsRests == ASSUME SubjectShows, UNCHANGED subjects PROVE SubjectShows'
BY SubjectShowsQuiet DEF subjects

(* A page that waits for nothing shows what is stored.                            *)
LEMMA SubjectShowsStored == SubjectShows => Subject!ShowsOwnWrites
BY DEF SubjectShows, Subject!ShowsOwnWrites, Subject!Mattering

-----------------------------------------------------------------------------
(* What the page of a subject shows, and offers to add.                          *)

(* What the page of a subject shows: the one task that matters starts, goes on or ends.   *)
LEMMA DetailShowsTask ==
  ASSUME DetailTyped, NEW k \in Tasks, NEW t, t = Detail!NoTask \/ t.kind # "none",
         detailTasks' = [detailTasks EXCEPT ![k] = t],
         \A j \in Tasks \ {k} : j \notin Detail!Mattering,
         t # Detail!NoTask /\ detailPage' # Null => t.mounted \/ t.phase \in Loading,
         t # Detail!NoTask /\ t.mounted =>
           /\ t.subject = detailPage'.url
           /\ t.phase \in Loading => detailPage'.loading
           /\ t.phase = "loaded" /\ ~detailFlags'.stale => t.row = detailRows'[t.subject],
         Detail!Shown' /\ ~detailFlags'.stale /\ (t # Detail!NoTask => t.phase # "done") =>
           detailPage'.shown = detailPage'.url /\ detailPage'.row = detailRows'[detailPage'.url]
  PROVE  DetailShows'
<1>1. detailTasks'[k] = t /\ \A j \in Tasks \ {k} : detailTasks'[j] = detailTasks[j]
  BY DEF DetailTyped
<1>2. \A j \in Detail!Running' \ {k} :
        /\ j \in Detail!Running /\ j \notin Detail!Mattering
        /\ ~detailTasks'[j].mounted /\ detailTasks'[j].phase \in Loading
  <2>1. ASSUME NEW j \in Detail!Running' \ {k}
        PROVE  j \in Tasks \ {k} /\ j \in Detail!Running /\ detailTasks'[j] = detailTasks[j]
    BY <1>1, <2>1 DEF Detail!Running
  <2> QED
    BY <2>1 DEF Detail!Mattering, Loading
<1>3. \A j \in Detail!Mattering' : j = k
  BY <1>2 DEF Detail!Mattering, Loading
<1>4. k \in Detail!Running' <=> t # Detail!NoTask
  BY <1>1 DEF Detail!Running, Detail!NoTask
<1>5. k \in Detail!Mattering' <=> t # Detail!NoTask /\ (t.mounted \/ t.phase \notin Loading)
  BY <1>1, <1>4 DEF Detail!Mattering, Loading
<1>6. detailPage' # Null => \A j \in Detail!Mattering' : detailTasks'[j].mounted
  BY <1>1, <1>3, <1>5
<1>7. \A j \in Detail!Running' : detailTasks'[j].mounted => j = k /\ t # Detail!NoTask
  BY <1>2, <1>4
<1>8. \A j \in Detail!Running' : detailTasks'[j].mounted =>
        LET task == detailTasks'[j]
        IN /\ task.subject = detailPage'.url
           /\ task.phase \in Loading => detailPage'.loading
           /\ task.phase = "loaded" /\ ~detailFlags'.stale => task.row = detailRows'[task.subject]
  BY <1>1, <1>7
<1>9. ASSUME Detail!Shown', ~detailFlags'.stale,
             \A j \in Detail!Mattering' : detailTasks'[j].phase # "done"
      PROVE  detailPage'.shown = detailPage'.url /\ detailPage'.row = detailRows'[detailPage'.url]
  <2>1. t # Detail!NoTask => t.phase # "done"
    BY <1>1, <1>5, <1>9 DEF Loading
  <2> QED
    BY <1>9, <2>1
<1> QED
  BY <1>3, <1>6, <1>8, <1>9 DEF DetailShows

(* A task that does not matter does not disturb those that do.                  *)
LEMMA DetailShowsIdle ==
  ASSUME DetailTyped, DetailShows, NEW k \in Tasks, k \notin Detail!Mattering, NEW t,
         detailTasks' = [detailTasks EXCEPT ![k] = t],
         t.kind = "none" \/ (~t.mounted /\ t.phase \in Loading),
         UNCHANGED <<detailRows, detailPage>>,
         detailFlags'.overlap = detailFlags.overlap, detailFlags'.stale = detailFlags.stale
  PROVE  DetailShows'
<1>1. detailTasks'[k] = t /\ \A j \in Tasks \ {k} : detailTasks'[j] = detailTasks[j]
  BY DEF DetailTyped
<1>2. \A j \in Detail!Mattering' : j # k /\ j \in Detail!Mattering /\ detailTasks'[j] = detailTasks[j]
  BY <1>1 DEF Detail!Mattering, Detail!Running, Loading
<1>3. \A j \in Detail!Mattering : j \in Detail!Mattering' /\ detailTasks'[j] = detailTasks[j]
  BY <1>1 DEF Detail!Mattering, Detail!Running
<1>4. \A j \in Detail!Running' : detailTasks'[j].mounted => j \in Detail!Mattering'
  BY DEF Detail!Mattering
<1>5. \A j \in Detail!Mattering : j \in Detail!Running
  BY DEF Detail!Mattering
<1>6. Detail!Shown' <=> Detail!Shown
  BY DEF Detail!Shown
<1>7. SUFFICES ASSUME ~detailFlags'.overlap
               PROVE  DetailShows'
  BY DEF DetailShows
<1>8. /\ \A k1, k2 \in Detail!Mattering' : k1 = k2
      /\ detailPage' # Null => \A j \in Detail!Mattering' : detailTasks'[j].mounted
  BY <1>2, <1>7 DEF DetailShows
<1>9. \A j \in Detail!Running' : detailTasks'[j].mounted =>
        LET task == detailTasks'[j]
        IN /\ task.subject = detailPage'.url
           /\ task.phase \in Loading => detailPage'.loading
           /\ task.phase = "loaded" /\ ~detailFlags'.stale => task.row = detailRows'[task.subject]
  BY <1>2, <1>4, <1>5, <1>7 DEF DetailShows
<1>10. ASSUME ~detailFlags'.stale, Detail!Shown',
              \A j \in Detail!Mattering' : detailTasks'[j].phase # "done"
       PROVE  detailPage'.shown = detailPage'.url /\ detailPage'.row = detailRows'[detailPage'.url]
  BY <1>3, <1>6, <1>7, <1>10 DEF DetailShows
<1> QED
  BY <1>8, <1>9, <1>10 DEF DetailShows

(* The page goes, and its tasks go on without it.                                *)
LEMMA DetailShowsGone ==
  ASSUME DetailTyped, DetailShows, Detail!Leave
  PROVE  DetailShows'
<1>1. ASSUME NEW j \in Detail!Running'
      PROVE  /\ j \in Detail!Running /\ ~detailTasks'[j].mounted
             /\ detailTasks'[j].phase = detailTasks[j].phase
  <2>1. /\ j \in Tasks /\ j \in Detail!Running
        /\ detailTasks'[j] = [detailTasks[j] EXCEPT !.mounted = FALSE]
    BY <1>1 DEF Detail!Leave, Detail!Running, Detail!NoTask
  <2>2. detailTasks[j] \in DetailTask
    BY <2>1, DetailTaskType
  <2> QED
    BY <2>1, <2>2 DEF DetailTask
<1>2. \A j \in Detail!Mattering' : j \in Detail!Mattering
  BY <1>1 DEF Detail!Mattering
<1>3. detailPage' = Null /\ detailFlags'.overlap = detailFlags.overlap
  BY DEF Detail!Leave
<1> QED
  BY <1>1, <1>2, <1>3 DEF DetailShows, Detail!Shown

(* The picks, what others write, and the steps of other pages.                   *)
LEMMA DetailShowsQuiet ==
  ASSUME DetailShows, UNCHANGED detailTasks, detailFlags'.overlap = detailFlags.overlap,
         \/ detailPage' = detailPage
         \/ /\ detailPage # Null /\ detailPage'.url = detailPage.url
            /\ detailPage'.shown = detailPage.shown /\ detailPage'.row = detailPage.row
            /\ detailPage'.loading = detailPage.loading,
         \/ detailFlags'.stale
         \/ UNCHANGED detailRows /\ detailFlags'.stale = detailFlags.stale
  PROVE  DetailShows'
<1>1. Detail!Running' = Detail!Running /\ Detail!Mattering' = Detail!Mattering
  BY DEF Detail!Running, Detail!Mattering
<1>2. Detail!Shown' => Detail!Shown
  BY DEF Detail!Shown
<1>3. \A j \in Detail!Running : detailTasks[j].mounted /\ ~detailFlags.overlap =>
        /\ detailTasks[j].subject = detailPage.url
        /\ detailTasks[j].phase \in Loading => detailPage.loading
  BY DEF DetailShows
<1>4. CASE detailFlags'.stale
  BY <1>1, <1>2, <1>3, <1>4 DEF DetailShows
<1>5. CASE UNCHANGED detailRows /\ detailFlags'.stale = detailFlags.stale
  BY <1>1, <1>2, <1>3, <1>5 DEF DetailShows
<1> QED
  BY <1>4, <1>5

(* A task starts: nothing else matters by then, or overlap says so.              *)
LEMMA DetailShowsStart ==
  ASSUME DetailInv, DetailShows, NEW t, t.kind # "none", t.mounted, Detail!Start(t),
         UNCHANGED detailRows, t.subject = detailPage'.url,
         \/ t.phase = "reload" /\ detailPage'.loading
         \/ /\ t.phase = "asked" /\ detailPage # Null /\ detailPage'.url = detailPage.url
            /\ detailPage'.shown = detailPage.shown /\ detailPage'.row = detailPage.row
            /\ detailPage'.loading = detailPage.loading
  PROVE  DetailShows'
<1>1. PICK k \in Tasks : detailTasks' = [detailTasks EXCEPT ![k] = t]
  BY DetailSlot DEF Detail!Start, DetailInv
<1>2. PICK over \in BOOLEAN :
        /\ detailFlags' = [detailFlags EXCEPT !.overlap = over]
        /\ ~over => ~detailFlags.overlap /\ Detail!Mattering = {}
  BY DEF Detail!Start
<1>3. /\ ~detailFlags'.overlap => ~detailFlags.overlap /\ Detail!Mattering = {}
      /\ detailFlags'.stale = detailFlags.stale
  BY <1>2 DEF DetailInv, DetailTyped
<1>4. SUFFICES ASSUME ~detailFlags'.overlap
               PROVE  DetailShows'
  BY DEF DetailShows
<1>5. ~detailFlags.overlap /\ Detail!Mattering = {}
  BY <1>3, <1>4
<1>6. ASSUME Detail!Shown', ~detailFlags'.stale
      PROVE  detailPage'.shown = detailPage'.url /\ detailPage'.row = detailRows'[detailPage'.url]
  <2>1. /\ ~detailPage'.loading /\ Detail!Shown /\ detailPage'.url = detailPage.url
        /\ detailPage'.shown = detailPage.shown /\ detailPage'.row = detailPage.row
    BY <1>6 DEF Detail!Shown
  <2>2. detailPage.shown = detailPage.url /\ detailPage.row = detailRows[detailPage.url]
    BY <1>3, <1>5, <1>6, <2>1 DEF DetailShows
  <2> QED
    BY <2>1, <2>2
<1>7. /\ t.phase \in Loading => detailPage'.loading
      /\ t.phase # "loaded"
  BY DEF Loading
<1>8. \A j \in Tasks \ {k} : j \notin Detail!Mattering
  BY <1>5
<1>9. DetailTyped
  BY DEF DetailInv
<1> QED
  BY <1>1, <1>6, <1>7, <1>8, <1>9, DetailShowsTask

(* The clicks that start a task, and a new path.                                  *)
LEMMA DetailShowsClicks ==
  ASSUME DetailInv, DetailShows,
         \/ \E s \in Subjects : Detail!Open(s) \/ Detail!SwitchSubject(s)
         \/ Detail!HandleAddStudent \/ Detail!HandleAddTeacher
         \/ \E u \in Students : Detail!HandleRemoveStudent(u)
         \/ \E u \in Teachers : Detail!HandleRemoveTeacher(u)
  PROVE  DetailShows'
<1>1. detailPage # Null => detailPage \in Detail!Pages
  BY DEF DetailInv, DetailTyped, Detail!TypeOK
<1>2. ASSUME Detail!EffectLoad, UNCHANGED detailRows, detailPage'.loading
      PROVE  DetailShows'
  <2> DEFINE t == Detail!Task("load", "reload", Null, Null)
  <2>1. /\ t.kind # "none" /\ t.mounted /\ t.phase = "reload" /\ t.subject = detailPage'.url
    BY DEF Detail!Task
  <2>2. Detail!Start(t)
    BY <1>2 DEF Detail!EffectLoad
  <2> HIDE DEF t
  <2> QED
    BY <1>2, <2>1, <2>2, DetailShowsStart
<1>3. ASSUME NEW s \in Subjects, Detail!Open(s)
      PROVE  DetailShows'
  BY <1>2, <1>3 DEF Detail!Open, Detail!Mounted
<1>4. ASSUME NEW s \in Subjects, Detail!SwitchSubject(s)
      PROVE  DetailShows'
  <2>1. detailPage'.loading
    BY <1>1, <1>4 DEF Detail!SwitchSubject, Detail!Pages
  <2> QED
    BY <1>2, <1>4, <2>1 DEF Detail!SwitchSubject
<1>5. ASSUME NEW kind, kind # "none", NEW u, Detail!RunMembershipUpdate(kind, u), Detail!Shown
      PROVE  DetailShows'
  <2> DEFINE t == Detail!Task(kind, "asked", detailPage.shown, u)
  <2>1. /\ detailPage \in Detail!Pages /\ detailPage # Null
        /\ detailPage' = [detailPage EXCEPT !.saving = TRUE]
    BY <1>1, <1>5 DEF Detail!RunMembershipUpdate, Detail!Shown
  <2>2. /\ detailPage'.url = detailPage.url /\ detailPage'.shown = detailPage.shown
        /\ detailPage'.row = detailPage.row /\ detailPage'.loading = detailPage.loading
    BY <2>1 DEF Detail!Pages
  <2>3. t.kind # "none" /\ t.mounted /\ t.phase = "asked" /\ t.subject = detailPage'.url
    BY <1>5 DEF Detail!Task
  <2>4. Detail!Start(t) /\ UNCHANGED detailRows
    BY <1>5 DEF Detail!RunMembershipUpdate
  <2> HIDE DEF t
  <2> QED
    BY <2>1, <2>2, <2>3, <2>4, DetailShowsStart
<1>6. CASE Detail!HandleAddStudent
  BY <1>5, <1>6 DEF Detail!HandleAddStudent
<1>7. CASE Detail!HandleAddTeacher
  BY <1>5, <1>7 DEF Detail!HandleAddTeacher
<1>8. ASSUME NEW u \in Students, Detail!HandleRemoveStudent(u)
      PROVE  DetailShows'
  BY <1>5, <1>8 DEF Detail!HandleRemoveStudent, Detail!CanManageStudents
<1>9. ASSUME NEW u \in Teachers, Detail!HandleRemoveTeacher(u)
      PROVE  DetailShows'
  BY <1>5, <1>9 DEF Detail!HandleRemoveTeacher
<1> QED
  BY <1>3, <1>4, <1>6, <1>7, <1>8, <1>9

(* What is known of a task that matters, and of the page with it.                *)
LEMMA DetailShowsKnown ==
  ASSUME DetailInv, DetailShows, ~detailFlags.overlap, NEW k \in Detail!Mattering
  PROVE  LET task == detailTasks[k]
         IN /\ \A j \in Tasks \ {k} : j \notin Detail!Mattering
            /\ detailPage # Null <=> task.mounted
            /\ task.mounted => task.subject = detailPage.url
            /\ task.mounted /\ task.phase \in Loading => detailPage.loading
            /\ task.mounted /\ task.phase = "loaded" /\ ~detailFlags.stale =>
                 task.row = detailRows[task.subject]
            /\ Detail!Shown /\ ~detailFlags.stale /\ task.phase # "done" =>
                 detailPage.shown = detailPage.url /\ detailPage.row = detailRows[detailPage.url]
<1>1. k \in Detail!Running
  BY DEF Detail!Mattering
<1>2. detailTasks[k].mounted => detailPage # Null
  BY <1>1 DEF DetailInv, DetailTyped, Detail!TypeOK
<1>3. \A j \in Detail!Mattering : j = k
  BY DEF DetailShows
<1> QED
  BY <1>1, <1>2, <1>3 DEF DetailShows

(* The answers.                                                                  *)
LEMMA DetailReleased ==
  ASSUME NEW k \in Tasks, NEW p \in Detail!Pages
  PROVE  /\ Detail!Released(k, p) \in Detail!Pages
         /\ Detail!Released(k, p).url = p.url /\ Detail!Released(k, p).shown = p.shown
         /\ Detail!Released(k, p).row = p.row /\ Detail!Released(k, p).loading = p.loading
         /\ Detail!Released(k, p).studentToAdd = p.studentToAdd
         /\ Detail!Released(k, p).teacherToAdd = p.teacherToAdd
BY DEF Detail!Released, Detail!Pages

(* The answer to a write, its failure, and the row that was read.                 *)
LEMMA DetailShowsAnswers ==
  ASSUME DetailInv, DetailShows, NEW k \in Tasks,
         Detail!WriteAnswered(k) \/ Detail!WriteFailed(k) \/ Detail!LoadAnswered(k)
  PROVE  DetailShows'
<1>1. PICK task : task = detailTasks[k]
  OBVIOUS
<1>2. /\ DetailTyped /\ task \in DetailTask /\ k \in Detail!Running /\ task.kind # "none"
      /\ task.mounted => detailPage \in Detail!Pages /\ detailPage # Null
      /\ UNCHANGED <<detailRows, detailFlags>> /\ DetailTaskSound(task)
  BY <1>1, DetailTaskType
  DEF DetailInv, Detail!WriteAnswered, Detail!WriteFailed, Detail!LoadAnswered, Detail!Running
<1>3. k \in Detail!Mattering <=> task.mounted \/ task.phase \notin Loading
  BY <1>1, <1>2 DEF Detail!Mattering, Loading
<1>4. CASE Detail!LoadAnswered(k) /\ ~task.mounted
  <2>1. /\ detailTasks' = [detailTasks EXCEPT ![k] = Detail!NoTask] /\ detailPage' = detailPage
        /\ task.phase \in Loading /\ Detail!NoTask.kind = "none"
    BY <1>1, <1>4 DEF Detail!LoadAnswered, Detail!SetPage, Detail!End, Detail!NoTask, Loading
  <2>2. k \notin Detail!Mattering
    BY <1>3, <1>4, <2>1
  <2> QED
    BY <1>2, <2>1, <2>2, DetailShowsIdle
<1>5. CASE \/ Detail!WriteAnswered(k) \/ Detail!WriteFailed(k)
           \/ Detail!LoadAnswered(k) /\ task.mounted
  <2>1. SUFFICES ASSUME ~detailFlags'.overlap
                 PROVE  DetailShows'
    BY DEF DetailShows
  <2>2. k \in Detail!Mattering /\ ~detailFlags.overlap
    BY <1>1, <1>2, <1>3, <1>5, <2>1 DEF Detail!WriteAnswered, Detail!WriteFailed, Loading
  <2>3. /\ \A j \in Tasks \ {k} : j \notin Detail!Mattering
        /\ detailPage # Null <=> task.mounted
        /\ task.mounted => task.subject = detailPage.url
        /\ task.mounted /\ task.phase = "loaded" /\ ~detailFlags.stale =>
             task.row = detailRows[task.subject]
        /\ Detail!Shown /\ ~detailFlags.stale /\ task.phase # "done" =>
             detailPage.shown = detailPage.url /\ detailPage.row = detailRows[detailPage.url]
    BY <1>1, <2>2, DetailShowsKnown
  <2>4. CASE Detail!WriteAnswered(k)
    <3> DEFINE t == [task EXCEPT !.phase = "reload"]
    <3>1. /\ t.phase = "reload" /\ t.kind # "none" /\ t.mounted = task.mounted
          /\ t.subject = task.subject
          /\ detailTasks' = [detailTasks EXCEPT ![k] = t]
      BY <1>1, <1>2, <2>4 DEF DetailTask, Detail!WriteAnswered
    <3>2. IF task.mounted THEN detailPage'.loading /\ detailPage'.url = detailPage.url
          ELSE detailPage' = Null
      BY <1>1, <1>2, <2>3, <2>4 DEF Detail!WriteAnswered, Detail!SetPage, Detail!Pages
    <3> HIDE DEF t
    <3>3. t.phase \in Loading /\ t.phase # "loaded" /\ ~Detail!Shown'
      BY <3>1, <3>2 DEF Loading, Detail!Shown
    <3> QED
      BY <1>2, <2>3, <3>1, <3>2, <3>3, DetailShowsTask
  <2>5. CASE Detail!WriteFailed(k)
    <3>1. /\ detailTasks' = [detailTasks EXCEPT ![k] = Detail!NoTask] /\ task.phase = "failed"
          /\ detailPage' = IF task.mounted THEN Detail!Released(k, detailPage) ELSE detailPage
      BY <1>1, <2>5 DEF Detail!WriteFailed, Detail!SetPage, Detail!End
    <3>2. task.mounted =>
            /\ detailPage'.url = detailPage.url /\ detailPage'.shown = detailPage.shown
            /\ detailPage'.row = detailPage.row /\ detailPage'.loading = detailPage.loading
      BY <1>2, <3>1, DetailReleased
    <3>3. ASSUME Detail!Shown', ~detailFlags'.stale
          PROVE  detailPage'.shown = detailPage'.url /\ detailPage'.row = detailRows'[detailPage'.url]
      <4>1. task.mounted
        BY <2>3, <3>1, <3>3 DEF Detail!Shown
      <4>2. Detail!Shown /\ ~detailFlags.stale
        BY <1>2, <3>2, <3>3, <4>1 DEF Detail!Shown
      <4> QED
        BY <1>2, <2>3, <3>1, <3>2, <4>1, <4>2
    <3> QED
      BY <1>2, <2>3, <3>1, <3>3, DetailShowsTask
  <2>6. CASE Detail!LoadAnswered(k) /\ task.mounted
    <3>1. PICK after :
            /\ after = IF task.phase = "loaded"
                       THEN [detailPage EXCEPT !.shown = task.subject, !.row = task.row,
                                               !.studentToAdd = Null, !.teacherToAdd = Null]
                       ELSE [detailPage EXCEPT !.shown = Null]
            /\ detailTasks' = [detailTasks EXCEPT ![k] = Detail!NoTask]
            /\ detailPage' = [Detail!Released(k, after) EXCEPT !.loading = FALSE]
            /\ task.phase \in {"loaded", "loadFailed"}
      BY <1>1, <2>6 DEF Detail!LoadAnswered, Detail!SetPage, Detail!End
    <3>2. /\ after \in Detail!Pages /\ after.url = detailPage.url
          /\ IF task.phase = "loaded" THEN after.shown = task.subject /\ after.row = task.row
             ELSE after.shown = Null
      BY <1>2, <2>6, <3>1 DEF Detail!Pages, DetailTask, DetailTaskSound
    <3>3. /\ detailPage'.url = after.url /\ detailPage'.shown = after.shown
          /\ detailPage'.row = after.row
      <4>1. PICK released \in Detail!Pages :
              /\ released = Detail!Released(k, after)
              /\ released.url = after.url /\ released.shown = after.shown
              /\ released.row = after.row
        BY <3>2, DetailReleased
      <4>2. detailPage' = [released EXCEPT !.loading = FALSE]
        BY <3>1, <4>1
      <4> QED
        BY <4>1, <4>2 DEF Detail!Pages
    <3>4. Detail!Shown' /\ ~detailFlags'.stale =>
            detailPage'.shown = detailPage'.url /\ detailPage'.row = detailRows'[detailPage'.url]
      BY <1>2, <2>3, <2>6, <3>1, <3>2, <3>3 DEF Detail!Shown
    <3> QED
      BY <1>2, <2>3, <3>1, <3>4, DetailShowsTask
  <2> QED
    BY <1>5, <2>4, <2>5, <2>6
<1> QED
  BY <1>4, <1>5

(* The services.                                                                 *)
LEMMA DetailShowsServed ==
  ASSUME DetailInv, DetailShows, NEW k \in Detail!Running, NEW phase, NEW row,
         detailTasks' = [detailTasks EXCEPT ![k] =
                           [detailTasks[k] EXCEPT !.phase = phase, !.row = row]],
         UNCHANGED detailPage, detailFlags'.overlap = detailFlags.overlap,
         detailTasks[k].phase \in Loading <=> phase \in Loading,
         phase \in Loading =>
           /\ UNCHANGED detailRows
           /\ detailTasks[k].mounted \/ detailFlags'.stale = detailFlags.stale,
         phase = "loaded" => row = detailRows'[detailTasks[k].subject],
         \/ phase \in Loading \cup {"done"} \/ detailFlags'.stale
         \/ /\ UNCHANGED detailRows /\ detailFlags'.stale = detailFlags.stale
            /\ detailTasks[k].phase # "done"
  PROVE  DetailShows'
<1>1. PICK task : task = detailTasks[k]
  OBVIOUS
<1>2. k \in Tasks /\ DetailTyped /\ task \in DetailTask /\ task.kind # "none"
  BY <1>1, DetailTaskType DEF DetailInv, Detail!Running
<1> DEFINE t == [task EXCEPT !.phase = phase, !.row = row]
<1>3. /\ t.phase = phase /\ t.row = row /\ t.kind # "none" /\ t.mounted = task.mounted
      /\ t.subject = task.subject
      /\ detailTasks' = [detailTasks EXCEPT ![k] = t]
  BY <1>1, <1>2 DEF DetailTask
<1> HIDE DEF t
<1>4. CASE ~task.mounted /\ phase \in Loading
  <2>1. k \notin Detail!Mattering
    BY <1>1, <1>4 DEF Detail!Mattering, Loading
  <2>2. detailFlags'.stale = detailFlags.stale /\ UNCHANGED <<detailRows, detailPage>>
    BY <1>1, <1>4
  <2> QED
    BY <1>2, <1>3, <1>4, <2>1, <2>2, DetailShowsIdle
<1>5. CASE task.mounted \/ phase \notin Loading
  <2>1. SUFFICES ASSUME ~detailFlags'.overlap
                 PROVE  DetailShows'
    BY DEF DetailShows
  <2>2. k \in Detail!Mattering /\ ~detailFlags.overlap
    BY <1>1, <1>5, <2>1 DEF Detail!Mattering, Loading
  <2>3. /\ \A j \in Tasks \ {k} : j \notin Detail!Mattering
        /\ detailPage # Null <=> task.mounted
        /\ task.mounted => task.subject = detailPage.url
        /\ task.mounted /\ task.phase \in Loading => detailPage.loading
        /\ Detail!Shown /\ ~detailFlags.stale /\ task.phase # "done" =>
             detailPage.shown = detailPage.url /\ detailPage.row = detailRows[detailPage.url]
    BY <1>1, <2>2, DetailShowsKnown
  <2>4. /\ t.mounted => t.subject = detailPage'.url
        /\ t.mounted /\ t.phase \in Loading => detailPage'.loading
        /\ t.phase = "loaded" => t.row = detailRows'[t.subject]
        /\ detailPage' # Null => t.mounted
    BY <1>1, <1>3, <2>3
  <2>5. ASSUME Detail!Shown', ~detailFlags'.stale, t.phase # "done"
        PROVE  detailPage'.shown = detailPage'.url /\ detailPage'.row = detailRows'[detailPage'.url]
    <3>1. Detail!Shown /\ task.mounted
      BY <2>3, <2>5 DEF Detail!Shown
    <3>2. phase \notin Loading
      BY <1>1, <2>3, <3>1 DEF Detail!Shown
    <3>3. /\ UNCHANGED detailRows /\ detailFlags'.stale = detailFlags.stale
          /\ task.phase # "done"
      BY <1>1, <1>3, <2>5, <3>2
    <3> QED
      BY <2>3, <2>5, <3>1, <3>3
  <2>6. t # Detail!NoTask
    BY <1>3 DEF Detail!NoTask
  <2>7. /\ t.kind # "none"
        /\ t # Detail!NoTask /\ detailPage' # Null => t.mounted \/ t.phase \in Loading
        /\ t # Detail!NoTask /\ t.mounted =>
             /\ t.subject = detailPage'.url
             /\ t.phase \in Loading => detailPage'.loading
             /\ t.phase = "loaded" /\ ~detailFlags'.stale => t.row = detailRows'[t.subject]
    BY <1>3, <2>4
  <2>8. Detail!Shown' /\ ~detailFlags'.stale /\ (t # Detail!NoTask => t.phase # "done") =>
          detailPage'.shown = detailPage'.url /\ detailPage'.row = detailRows'[detailPage'.url]
    BY <2>5, <2>6
  <2>9. /\ k \in Tasks /\ DetailTyped /\ detailTasks' = [detailTasks EXCEPT ![k] = t]
        /\ \A j \in Tasks \ {k} : j \notin Detail!Mattering
    BY <1>2, <1>3, <2>3
  <2> QED
    BY <2>7, <2>8, <2>9, DetailShowsTask
<1> QED
  BY <1>4, <1>5

(* Each of the services, a failure included.                                      *)
LEMMA DetailShowsServices ==
  ASSUME DetailInv, DetailShows, NEW k \in Tasks,
         Detail!ServeLoad(k) \/ Detail!CallFails(k) \/ Detail!ServeWrite(k)
  PROVE  DetailShows'
<1>1. PICK task : task = detailTasks[k]
  OBVIOUS
<1>2. /\ DetailTyped /\ task \in DetailTask /\ k \in Detail!Running
      /\ UNCHANGED detailPage /\ detailFlags \in [overlap : BOOLEAN, stale : BOOLEAN]
      /\ DOMAIN detailTasks = Tasks
  BY <1>1, DetailTaskType
  DEF DetailInv, DetailTyped, Detail!ServeLoad, Detail!CallFails, Detail!ServeWrite
<1>3. ASSUME NEW phase, detailTasks' = [detailTasks EXCEPT ![k].phase = phase]
      PROVE  detailTasks' = [detailTasks EXCEPT ![k] =
                               [detailTasks[k] EXCEPT !.phase = phase, !.row = task.row]]
  BY <1>1, <1>2, <1>3 DEF DetailTask
<1>4. CASE Detail!ServeWrite(k)
  <2>1. PICK phase \in {"done", "failed"} :
          /\ detailTasks' = [detailTasks EXCEPT ![k].phase = phase]
          /\ phase = "failed" => UNCHANGED detailRows
    BY <1>4 DEF Detail!ServeWrite
  <2>2. task.phase = "asked" /\ UNCHANGED detailFlags
    BY <1>1, <1>4 DEF Detail!ServeWrite
  <2>3. phase \notin Loading /\ phase # "loaded" /\ task.phase \notin Loading /\ task.phase # "done"
    BY <2>1, <2>2 DEF Loading
  <2> QED
    BY <1>1, <1>2, <1>3, <2>1, <2>2, <2>3, DetailShowsServed
<1>5. CASE Detail!ServeLoad(k)
  <2>1. /\ UNCHANGED detailRows /\ task.phase = "reload"
        /\ detailTasks' = [detailTasks EXCEPT ![k].phase = "loaded",
                                              ![k].row = detailRows[task.subject]]
    BY <1>1, <1>5 DEF Detail!ServeLoad
  <2>2. detailTasks' = [detailTasks EXCEPT ![k] =
                          [detailTasks[k] EXCEPT !.phase = "loaded", !.row = detailRows[task.subject]]]
    BY <1>2, <2>1
  <2>3. /\ detailFlags'.overlap = detailFlags.overlap
        /\ task.mounted \/ detailFlags'.stale = detailFlags.stale
    BY <1>1, <1>2, <1>5 DEF Detail!ServeLoad
  <2>4. "loaded" \in Loading /\ task.phase \in Loading
    BY <2>1 DEF Loading
  <2> QED
    BY <1>1, <1>2, <2>1, <2>2, <2>3, <2>4, DetailShowsServed
<1>6. CASE Detail!CallFails(k)
  <2> DEFINE writing == task.phase \in {"asked", "done"}
             phase == IF writing THEN "failed" ELSE "loadFailed"
  <2>1. /\ UNCHANGED detailRows /\ task.phase \in {"asked", "done", "reload", "loaded"}
        /\ detailTasks' = [detailTasks EXCEPT ![k].phase = phase]
    BY <1>1, <1>6 DEF Detail!CallFails
  <2>2. /\ detailFlags'.overlap = detailFlags.overlap
        /\ IF writing THEN detailFlags'.stale ELSE detailFlags'.stale = detailFlags.stale
    BY <1>1, <1>2, <1>6 DEF Detail!CallFails
  <2>3. /\ task.phase \in Loading <=> phase \in Loading
        /\ phase # "loaded" /\ (phase \in Loading <=> ~writing)
    BY <2>1 DEF Loading
  <2> HIDE DEF phase
  <2>4. detailTasks' = [detailTasks EXCEPT ![k] =
                          [detailTasks[k] EXCEPT !.phase = phase, !.row = task.row]]
    BY <1>3, <2>1
  <2>5. /\ phase \in Loading =>
             /\ UNCHANGED detailRows
             /\ detailTasks[k].mounted \/ detailFlags'.stale = detailFlags.stale
        /\ phase \in Loading \cup {"done"} \/ detailFlags'.stale
    BY <2>1, <2>2, <2>3
  <2> HIDE DEF writing
  <2> QED
    BY <1>1, <1>2, <2>2, <2>3, <2>4, <2>5, DetailShowsServed
<1> QED
  BY <1>4, <1>5, <1>6

(* Whatever happens on the page and in the services.                              *)
LEMMA DetailShowsStep == DetailInv /\ DetailShows /\ Detail!Next => DetailShows'
<1> SUFFICES ASSUME DetailInv, DetailShows, Detail!Next
             PROVE  DetailShows'
  OBVIOUS
<1>1. /\ DetailTyped
      /\ detailPage # Null => detailPage \in Detail!Pages
      /\ detailFlags \in [overlap : BOOLEAN, stale : BOOLEAN]
  BY DEF DetailInv, DetailTyped, Detail!TypeOK
<1>2. CASE \/ \E s \in Subjects : Detail!Open(s) \/ Detail!SwitchSubject(s)
           \/ Detail!HandleAddStudent \/ Detail!HandleAddTeacher
           \/ \E u \in Students : Detail!HandleRemoveStudent(u)
           \/ \E u \in Teachers : Detail!HandleRemoveTeacher(u)
  BY <1>2, DetailShowsClicks
<1>3. CASE \E k \in Tasks :
             \/ Detail!WriteAnswered(k) \/ Detail!WriteFailed(k) \/ Detail!LoadAnswered(k)
             \/ Detail!ServeLoad(k) \/ Detail!CallFails(k) \/ Detail!ServeWrite(k)
  BY <1>3, DetailShowsAnswers, DetailShowsServices
<1>4. CASE Detail!Leave
  BY <1>1, <1>4, DetailShowsGone
<1>5. CASE \E s \in Subjects : Detail!Elsewhere(s)
  <2>1. detailFlags'.stale /\ detailFlags'.overlap = detailFlags.overlap
    BY <1>1, <1>5 DEF Detail!Elsewhere
  <2> QED
    BY <1>5, <2>1, DetailShowsQuiet DEF Detail!Elsewhere
<1>6. CASE \/ \E u \in Students : Detail!PickStudent(u)
           \/ \E u \in Teachers : Detail!PickTeacher(u)
  <2>1. /\ detailPage # Null /\ detailPage'.url = detailPage.url
        /\ detailPage'.shown = detailPage.shown /\ detailPage'.row = detailPage.row
        /\ detailPage'.loading = detailPage.loading
        /\ UNCHANGED <<detailRows, detailTasks, detailFlags>>
    BY <1>1, <1>6 DEF Detail!PickStudent, Detail!PickTeacher, Detail!Shown, Detail!Pages
  <2> QED
    BY <2>1, DetailShowsQuiet
<1> QED
  BY <1>2, <1>3, <1>4, <1>5, <1>6 DEF Detail!Next

(* No page is there in the beginning.                                             *)
LEMMA DetailShowsInit == Detail!Init => DetailShows
BY DEF Detail!Init, DetailShows, Detail!Running, Detail!Mattering, Detail!NoTask, Detail!Shown

(* The steps of other pages.                                                      *)
LEMMA DetailShowsRests == ASSUME DetailShows, UNCHANGED details PROVE DetailShows'
BY DetailShowsQuiet DEF details

(* What is picked is not listed yet, and a new list undoes the picks.            *)
LEMMA PicksStep == DetailInv /\ PicksSound /\ Detail!Next => PicksSound'
<1> SUFFICES ASSUME DetailInv, PicksSound, Detail!Next, detailPage' # Null
             PROVE  /\ detailPage'.studentToAdd \notin detailPage'.row.students
                    /\ detailPage'.teacherToAdd \notin detailPage'.row.teachers
  BY DEF PicksSound
<1>1. /\ DetailTyped
      /\ detailPage # Null => detailPage \in Detail!Pages
  BY DEF DetailInv, DetailTyped, Detail!TypeOK
<1>2. \A row \in Detail!Row : Null \notin row.students /\ Null \notin row.teachers
  BY DetailAssumption DEF Detail!Row
<1>3. ASSUME detailPage # Null, detailPage'.row = detailPage.row,
             detailPage'.studentToAdd = detailPage.studentToAdd,
             detailPage'.teacherToAdd = detailPage.teacherToAdd
      PROVE  /\ detailPage'.studentToAdd \notin detailPage'.row.students
             /\ detailPage'.teacherToAdd \notin detailPage'.row.teachers
  BY <1>3 DEF PicksSound
<1>4. ASSUME UNCHANGED detailPage
      PROVE  /\ detailPage'.studentToAdd \notin detailPage'.row.students
             /\ detailPage'.teacherToAdd \notin detailPage'.row.teachers
  BY <1>3, <1>4
<1>5. CASE \E s \in Subjects : Detail!Open(s)
  BY <1>5 DEF Detail!Open, Detail!Mounted, Detail!NoRow
<1>6. CASE \E s \in Subjects : Detail!SwitchSubject(s)
  BY <1>1, <1>3, <1>6 DEF Detail!SwitchSubject, Detail!Pages
<1>7. ASSUME NEW kind, NEW u, Detail!RunMembershipUpdate(kind, u), Detail!Shown
      PROVE  /\ detailPage'.studentToAdd \notin detailPage'.row.students
             /\ detailPage'.teacherToAdd \notin detailPage'.row.teachers
  BY <1>1, <1>3, <1>7 DEF Detail!RunMembershipUpdate, Detail!Shown, Detail!Pages
<1>8. CASE \/ Detail!HandleAddStudent \/ Detail!HandleAddTeacher
           \/ \E u \in Students : Detail!HandleRemoveStudent(u)
           \/ \E u \in Teachers : Detail!HandleRemoveTeacher(u)
  BY <1>7, <1>8
  DEF Detail!HandleAddStudent, Detail!HandleAddTeacher, Detail!HandleRemoveStudent,
      Detail!HandleRemoveTeacher, Detail!CanManageStudents
<1>9. ASSUME NEW u \in Students, Detail!PickStudent(u)
      PROVE  /\ detailPage'.studentToAdd \notin detailPage'.row.students
             /\ detailPage'.teacherToAdd \notin detailPage'.row.teachers
  <2>1. detailPage # Null /\ detailPage' = [detailPage EXCEPT !.studentToAdd = u]
        /\ u \notin detailPage.row.students
    BY <1>9 DEF Detail!PickStudent, Detail!Shown, Detail!AvailableStudents
  <2> QED
    BY <1>1, <2>1 DEF PicksSound, Detail!Pages
<1>10. ASSUME NEW u \in Teachers, Detail!PickTeacher(u)
       PROVE  /\ detailPage'.studentToAdd \notin detailPage'.row.students
              /\ detailPage'.teacherToAdd \notin detailPage'.row.teachers
  <2>1. detailPage # Null /\ detailPage' = [detailPage EXCEPT !.teacherToAdd = u]
        /\ u \notin detailPage.row.teachers
    BY <1>10 DEF Detail!PickTeacher, Detail!Shown, Detail!AvailableTeachers
  <2> QED
    BY <1>1, <2>1 DEF PicksSound, Detail!Pages
<1>11. ASSUME NEW k \in Tasks,
              Detail!WriteAnswered(k) \/ Detail!WriteFailed(k) \/ Detail!LoadAnswered(k)
       PROVE  /\ detailPage'.studentToAdd \notin detailPage'.row.students
              /\ detailPage'.teacherToAdd \notin detailPage'.row.teachers
  <2>1. PICK task : task = detailTasks[k]
    OBVIOUS
  <2>2. /\ task \in DetailTask /\ DetailTaskSound(task)
        /\ task.mounted => detailPage \in Detail!Pages /\ detailPage # Null
    BY <1>1, <1>11, <2>1, DetailTaskType
    DEF Detail!WriteAnswered, Detail!WriteFailed, Detail!LoadAnswered
  <2>3. CASE ~task.mounted
    BY <1>4, <1>11, <2>1, <2>3
    DEF Detail!WriteAnswered, Detail!WriteFailed, Detail!LoadAnswered, Detail!SetPage
  <2>4. CASE Detail!WriteAnswered(k) /\ task.mounted
    BY <1>3, <2>1, <2>2, <2>4 DEF Detail!WriteAnswered, Detail!SetPage, Detail!Pages
  <2>5. CASE Detail!WriteFailed(k) /\ task.mounted
    BY <1>3, <2>1, <2>2, <2>5, DetailReleased DEF Detail!WriteFailed, Detail!SetPage
  <2>6. CASE Detail!LoadAnswered(k) /\ task.mounted
    <3>1. PICK after :
            /\ after = IF task.phase = "loaded"
                       THEN [detailPage EXCEPT !.shown = task.subject, !.row = task.row,
                                               !.studentToAdd = Null, !.teacherToAdd = Null]
                       ELSE [detailPage EXCEPT !.shown = Null]
            /\ detailPage' = [Detail!Released(k, after) EXCEPT !.loading = FALSE]
      BY <2>1, <2>6 DEF Detail!LoadAnswered, Detail!SetPage
    <3>2. /\ after \in Detail!Pages
          /\ IF task.phase = "loaded"
             THEN after.row = task.row /\ after.studentToAdd = Null /\ after.teacherToAdd = Null
             ELSE /\ after.row = detailPage.row /\ after.studentToAdd = detailPage.studentToAdd
                  /\ after.teacherToAdd = detailPage.teacherToAdd
      BY <2>2, <2>6, <3>1 DEF Detail!Pages, DetailTask, DetailTaskSound
    <3>3. /\ detailPage'.row = after.row /\ detailPage'.studentToAdd = after.studentToAdd
          /\ detailPage'.teacherToAdd = after.teacherToAdd
      <4>1. PICK released \in Detail!Pages :
              /\ released = Detail!Released(k, after)
              /\ released.row = after.row /\ released.studentToAdd = after.studentToAdd
              /\ released.teacherToAdd = after.teacherToAdd
        BY <3>2, DetailReleased
      <4>2. detailPage' = [released EXCEPT !.loading = FALSE]
        BY <3>1, <4>1
      <4> QED
        BY <4>1, <4>2 DEF Detail!Pages
    <3>4. CASE task.phase = "loaded"
      BY <1>2, <2>2, <3>2, <3>3, <3>4 DEF DetailTaskSound
    <3>5. CASE task.phase # "loaded"
      BY <1>3, <2>2, <2>6, <3>2, <3>3, <3>5
    <3> QED
      BY <3>4, <3>5
  <2> QED
    BY <1>11, <2>3, <2>4, <2>5, <2>6
<1>12. CASE \/ \E k \in Tasks : \/ Detail!ServeLoad(k) \/ Detail!CallFails(k) \/ Detail!ServeWrite(k)
            \/ \E s \in Subjects : Detail!Elsewhere(s)
  BY <1>4, <1>12 DEF Detail!ServeLoad, Detail!CallFails, Detail!ServeWrite, Detail!Elsewhere
<1>13. CASE Detail!Leave
  BY <1>13 DEF Detail!Leave
<1> QED
  BY <1>5, <1>6, <1>8, <1>9, <1>10, <1>11, <1>12, <1>13 DEF Detail!Next

(* Nothing is picked in the beginning.                                            *)
LEMMA PicksInit == Detail!Init => PicksSound
BY DEF Detail!Init, PicksSound

(* The steps of other pages.                                                      *)
LEMMA PicksRests == ASSUME PicksSound, UNCHANGED details PROVE PicksSound'
BY DEF PicksSound, details

(* A page that waits for nothing shows what is stored, and offers to add who is not listed. *)
LEMMA DetailShowsStored == DetailShows /\ PicksSound => Detail!SubjectAsStored
BY DEF DetailShows, PicksSound, Detail!SubjectAsStored, Detail!Mattering, Detail!Shown
=============================================================================
