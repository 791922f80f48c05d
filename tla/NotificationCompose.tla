-------------------------- MODULE NotificationCompose --------------------------
(***************************************************************************)
(* The part of NotificationsPage.jsx a teacher or admin sends notifications with:     *)
(* the compose form and its recipients, the list of scheduled batches, and the calls     *)
(* that create, cancel and reschedule one.  Nothing hides the page while such a call      *)
(* is on its way; only the button of its own dialog is disabled.                            *)
(*                                                                                           *)
(* A task is one run of an async handler with what it read at the click.  What a batch       *)
(* holds besides its trigger time is left out, and the directory of users is taken as          *)
(* loaded.  The list of notifications (NotificationCenter) matters here in two ways only: a     *)
(* Promise.all waits for it too, and one that arrives by the stream ends the spinner.             *)
(***************************************************************************)
EXTENDS Naturals

CONSTANTS
  Users,          \* the user directory
  SourceUsers,    \* the users of the selected subject or project
  Times,          \* trigger times that are still in the future
  Batches,        \* ids of batches that may be created
  Tasks,          \* slots for tasks (bound)
  MaxClicks,      \* bound: tasks started by the user
  MaxFaults,      \* bound: calls that fail
  Null

Now == "now"

VARIABLES
  batch,     \* the batches of the notification service: how far, and when they are due
  page,
  chosen,    \* history: the recipients the user chose in the form that is open
  tasks, bounds,
  flags      \* history, see NoFlags

vars == <<batch, page, chosen, tasks, bounds, flags>>

NoTask == [kind |-> "none"]

(* crossed: the recipients were edited, or the form closed, while a source was read;      *)
(* overlap: a write was begun while another task, or a list call one left behind, was on      *)
(* its way; stale: the list may differ from the service, for a call failed or a batch was      *)
(* delivered.                                                                                     *)
NoFlags == [crossed |-> FALSE, overlap |-> FALSE, stale |-> FALSE]

Running == {k \in Tasks : tasks[k].kind # "none"}
ReadingSource == \E k \in Running : tasks[k].kind = "source"
Stored == [b \in Batches |-> IF batch[b].stage = "pending" THEN batch[b].at ELSE Null]

Clickable == bounds.clicks < MaxClicks
Click == Clickable /\ bounds' = [bounds EXCEPT !.clicks = @ + 1]

(* rest: the notifications that are asked for together with the list (Promise.all) have    *)
(* not been answered yet.                                                                     *)
Task(kind, phase, target, data) ==
  [kind |-> kind, phase |-> phase, target |-> target, data |-> data, list |-> Null,
   rest |-> kind = "load"]

(* The slots are alike: a new task takes the free one that CHOOSE names.        *)
Slot == CHOOSE k \in Tasks : tasks[k] = NoTask

Writes == {"create", "cancel", "reschedule"}

(* "left" is a list call whose task has ended without it.                        *)
Listing == {k \in Running : tasks[k].kind \in Writes \cup {"load", "left"}}

Start(task) ==
  /\ Running # Tasks /\ tasks' = [tasks EXCEPT ![Slot] = task]
  /\ flags' = [flags EXCEPT !.overlap = @ \/ (task.kind \in Writes /\ Listing # {})]

(* loadPageData when the page is mounted; one batch is pending already.        *)
Init ==
  /\ batch = [b \in Batches |->
       IF b = CHOOSE n \in Batches : TRUE
       THEN [stage |-> "pending", at |-> CHOOSE at \in Times : TRUE]
       ELSE [stage |-> "new", at |-> Now]]
  /\ page = [loading |-> TRUE, scheduled |-> [b \in Batches |-> Null],
             dialog |-> "none", to |-> {}, target |-> Null,
             submitting |-> FALSE, rescheduling |-> FALSE,
             options |-> FALSE, sourceLoading |-> FALSE]
  /\ chosen = {}
  /\ tasks = [j \in Tasks |-> IF j = CHOOSE k \in Tasks : TRUE
                               THEN Task("load", "reload", Null, Null) ELSE NoTask]
  /\ bounds = [clicks |-> 0, faults |-> 0] /\ flags = NoFlags

Free == ~page.loading /\ page.dialog = "none"
Composing == ~page.loading /\ page.dialog = "compose"
Rescheduling == ~page.loading /\ page.dialog = "reschedule"

(***************************************************************************)
(* The compose form.                                                        *)
(***************************************************************************)
Quietly == UNCHANGED <<batch, tasks, bounds>>
Crossing == flags' = [flags EXCEPT !.crossed = @ \/ ReadingSource]

(* loadRecipientSources, unless the subjects and projects are there already; one flag     *)
(* stands for this call and for the reading of a source.  Like each dialog here, this one    *)
(* is opened to be saved, so not after the last click.                                        *)
OpenComposeDialog ==
  /\ Free /\ Clickable
  /\ page' = [page EXCEPT !.dialog = "compose", !.to = {},
                          !.sourceLoading = @ \/ ~page.options]
  /\ chosen' = {} /\ UNCHANGED <<batch, bounds>>
  /\ IF page.options THEN UNCHANGED tasks
     ELSE Running # Tasks /\ tasks' = [tasks EXCEPT ![Slot] = Task("options", "asked", Null, Null)]
  /\ flags' = [flags EXCEPT !.crossed = ReadingSource]

(* What these calls read does not change here, so that their answer needs no step of the    *)
(* service.  A failure leaves no options, also when an earlier call had found some.            *)
OptionsAnswered(k) ==
  /\ k \in Running /\ tasks[k].kind = "options"
  /\ page' = [page EXCEPT !.sourceLoading = FALSE, !.options = tasks[k].phase = "asked"]
  /\ tasks' = [tasks EXCEPT ![k] = NoTask]
  /\ UNCHANGED <<batch, chosen, bounds, flags>>

(* Cancel is disabled while the form is saved; Escape is not.                    *)
CloseComposeDialog ==
  /\ Composing /\ page' = [page EXCEPT !.dialog = "none", !.to = {}]
  /\ chosen' = {} /\ Quietly /\ Crossing

Toggled(u) == IF u \in page.to THEN page.to \ {u} ELSE page.to \cup {u}

(* The directory can be searched also while a source is read.                    *)
HandleDirectorySelectionChange(u) ==
  /\ Composing /\ page' = [page EXCEPT !.to = Toggled(u)]
  /\ chosen' = IF u \in page.to THEN chosen \ {u} ELSE chosen \cup {u}
  /\ Quietly /\ Crossing

(* What the trigger field of the form may hold by the click.                     *)
Triggers == Times \cup {Now}

(* The fields of the source and their button.                                    *)
CanReadSource == Composing /\ page.options /\ ~page.sourceLoading

(* The recipients the form had at the click are merged with those of the source.   *)
HandleAddRecipientsFromSource ==
  /\ CanReadSource /\ Click
  /\ page' = [page EXCEPT !.sourceLoading = TRUE]
  /\ chosen' = chosen \cup SourceUsers
  /\ Start(Task("source", "asked", Null, page.to))
  /\ UNCHANGED batch

SourceAnswered_Replaces(k) ==
  /\ k \in Running /\ tasks[k].kind = "source"
  /\ page' = [page EXCEPT !.sourceLoading = FALSE,
                          !.to = IF tasks[k].phase = "asked" THEN SourceUsers ELSE @]
  /\ tasks' = [tasks EXCEPT ![k] = NoTask]
  /\ flags' = [flags EXCEPT !.crossed = @ \/ tasks[k].phase = "failed"]
  /\ UNCHANGED <<batch, chosen, bounds>>

SourceAnswered(k) ==
  /\ k \in Running /\ tasks[k].kind = "source"
  /\ LET read == [page EXCEPT !.sourceLoading = FALSE]
     IN page' = IF tasks[k].phase = "asked"
                THEN [read EXCEPT !.to = tasks[k].data \cup SourceUsers] ELSE read
  /\ tasks' = [tasks EXCEPT ![k] = NoTask]
  /\ flags' = [flags EXCEPT !.crossed = @ \/ tasks[k].phase = "failed"]
  /\ UNCHANGED <<batch, chosen, bounds>>

CanCreate == Composing /\ ~page.submitting

(* A form without recipients goes nowhere.                                       *)
HandleCreate ==
  /\ CanCreate /\ page.to # {} /\ Click
  /\ page' = [page EXCEPT !.submitting = TRUE]
  /\ \E at \in Triggers : Start(Task("create", "asked", Null, at))
  /\ UNCHANGED <<batch, chosen>>

(***************************************************************************)
(* Scheduled batches.                                                       *)
(***************************************************************************)
HandleCancelScheduled(b) ==
  /\ Free /\ page.scheduled[b] # Null /\ Click
  /\ Start(Task("cancel", "asked", b, Null))
  /\ UNCHANGED <<batch, page, chosen>>

OpenRescheduleDialog(b) ==
  /\ Free /\ Clickable /\ page.scheduled[b] # Null
  /\ page' = [page EXCEPT !.dialog = "reschedule", !.target = b]
  /\ Quietly /\ UNCHANGED <<chosen, flags>>

CloseRescheduleDialog ==
  /\ Rescheduling /\ page' = [page EXCEPT !.dialog = "none", !.target = Null]
  /\ Quietly /\ UNCHANGED <<chosen, flags>>

(* What the field of the dialog may hold by the click.                           *)
RescheduleTriggers == Times

HandleRescheduleScheduled ==
  /\ Rescheduling /\ ~page.rescheduling /\ Click
  /\ page' = [page EXCEPT !.rescheduling = TRUE]
  /\ \E at \in RescheduleTriggers : Start(Task("reschedule", "asked", page.target, at))
  /\ UNCHANGED <<batch, chosen>>

(***************************************************************************)
(* The code behind the awaits.                                              *)
(***************************************************************************)
(* finally: the button of the dialog is enabled again.                          *)
Released(k, p) ==
  CASE tasks[k].kind = "create" -> [p EXCEPT !.submitting = FALSE]
    [] tasks[k].kind = "reschedule" -> [p EXCEPT !.rescheduling = FALSE]
    [] tasks[k].kind = "load" -> [p EXCEPT !.loading = FALSE]
    [] OTHER -> p

WriteAnswered_NoReload(k) ==
  /\ k \in Running /\ tasks[k].kind \in Writes /\ tasks[k].phase = "done"
  /\ page' = Released(k, [page EXCEPT !.dialog = "none", !.to = {}])
  /\ tasks' = [tasks EXCEPT ![k] = NoTask]
  /\ chosen' = {}
  /\ flags' = [flags EXCEPT !.crossed = @ \/ ReadingSource]
  /\ UNCHANGED <<batch, bounds>>

(* The dialog of the task's kind closes, whichever it is by now, and a form closed        *)
(* or not is emptied; then the list is asked for again, after a creation together with the   *)
(* notifications.                                                                               *)
WriteAnswered(k) ==
  /\ k \in Running /\ tasks[k].kind \in Writes /\ tasks[k].phase = "done"
  /\ LET closes(d) == IF page.dialog = d THEN "none" ELSE page.dialog
     IN page' = CASE tasks[k].kind = "create" ->
                       [page EXCEPT !.dialog = closes("compose"), !.to = {}]
                  [] tasks[k].kind = "reschedule" ->
                       [page EXCEPT !.dialog = closes("reschedule"), !.target = Null]
                  [] OTHER -> page
  /\ tasks' = [tasks EXCEPT ![k].phase = "reload", ![k].rest = tasks[k].kind = "create"]
  /\ chosen' = IF tasks[k].kind = "create" THEN {} ELSE chosen
  /\ flags' = [flags EXCEPT !.crossed = @ \/ (tasks[k].kind = "create" /\ ReadingSource)]
  /\ UNCHANGED <<batch, bounds>>

(* The list is shown as soon as it is there; the task goes on while the other call of its *)
(* Promise.all is on its way.                                                                 *)
ListAnswered(k) ==
  /\ k \in Running /\ tasks[k].phase = "loaded"
  /\ LET shown == [page EXCEPT !.scheduled = tasks[k].list]
     IN page' = IF tasks[k].rest THEN shown ELSE Released(k, shown)
  /\ IF tasks[k].rest THEN tasks' = [tasks EXCEPT ![k].phase = "listed"]
     ELSE tasks' = [tasks EXCEPT ![k] = NoTask]
  /\ UNCHANGED <<batch, chosen, bounds, flags>>

Together == {k \in Running : tasks[k].rest}

NotificationsAnswered(k) ==
  /\ k \in Together
  /\ IF tasks[k].phase = "listed"
     THEN page' = Released(k, page) /\ tasks' = [tasks EXCEPT ![k] = NoTask]
     ELSE tasks' = [tasks EXCEPT ![k].rest = FALSE] /\ UNCHANGED page
  /\ UNCHANGED <<batch, chosen, bounds, flags>>

(* Promise.all rejects with the first call that fails and its task ends, but the list     *)
(* call goes on and will set its state.                                                       *)
NotificationsFail(k) ==
  /\ bounds.faults < MaxFaults /\ bounds' = [bounds EXCEPT !.faults = @ + 1]
  /\ k \in Together /\ page' = Released(k, page)
  /\ IF tasks[k].phase = "listed" THEN tasks' = [tasks EXCEPT ![k] = NoTask]
     ELSE tasks' = [tasks EXCEPT ![k].kind = "left", ![k].rest = FALSE]
  /\ UNCHANGED <<batch, chosen, flags>>

(* A notification of the stream ends the spinner, whatever is still being loaded.        *)
NotificationStreamed ==
  /\ page.loading /\ page' = [page EXCEPT !.loading = FALSE]
  /\ Quietly /\ UNCHANGED <<chosen, flags>>

(* catch: of the write or of the reload; nobody waits for a call left behind.     *)
TaskFailed(k) ==
  /\ k \in Listing /\ tasks[k].phase = "failed"
  /\ page' = Released(k, page)
  /\ tasks' = [tasks EXCEPT ![k] = NoTask]
  /\ flags' = [flags EXCEPT !.stale = TRUE]
  /\ UNCHANGED <<batch, chosen, bounds>>

(***************************************************************************)
(* The notification service.                                                *)
(***************************************************************************)
Unused == {b \in Batches : batch[b].stage = "new"}

(* A batch without a trigger time is sent at once.  What is no longer pending can    *)
(* neither be cancelled nor rescheduled.                                              *)
Written(task) ==
  LET b == task.target
      pending(ways) == IF batch[b].stage = "pending" THEN ways ELSE {}
  IN CASE task.kind = "create" ->
            IF Unused = {} THEN {}
            ELSE {[batch EXCEPT ![CHOOSE n \in Unused : TRUE] =
                     [stage |-> IF task.data = Now THEN "sent" ELSE "pending",
                      at |-> task.data]]}
       [] task.kind = "cancel" -> pending({[batch EXCEPT ![b].stage = "cancelled"]})
       [] task.kind = "reschedule" -> pending({[batch EXCEPT ![b].at = task.data]})

ServeWrite(k) ==
  /\ k \in Running /\ tasks[k].kind \in Writes /\ tasks[k].phase = "asked"
  /\ LET ways == Written(tasks[k])
     IN /\ IF ways = {} THEN UNCHANGED batch ELSE batch' \in ways
        /\ tasks' = [tasks EXCEPT ![k].phase = IF ways = {} THEN "failed" ELSE "done"]
  /\ UNCHANGED <<page, chosen, bounds, flags>>

ServeList(k) ==
  /\ k \in Running /\ tasks[k].phase = "reload"
  /\ tasks' = [tasks EXCEPT ![k].phase = "loaded", ![k].list = Stored]
  /\ flags' = [flags EXCEPT !.stale = FALSE]
  /\ UNCHANGED <<batch, page, chosen, bounds>>

CallFails(k) ==
  /\ bounds.faults < MaxFaults /\ bounds' = [bounds EXCEPT !.faults = @ + 1]
  /\ k \in Running /\ tasks[k].phase \notin {"failed", "listed"}
  /\ tasks' = [tasks EXCEPT ![k].phase = "failed"]
  /\ UNCHANGED <<batch, page, chosen, flags>>

(* The trigger time of a batch comes.                                             *)
Deliver(b) ==
  /\ batch[b].stage = "pending" /\ batch' = [batch EXCEPT ![b].stage = "sent"]
  /\ flags' = [flags EXCEPT !.stale = TRUE]
  /\ UNCHANGED <<page, chosen, tasks, bounds>>

Next ==
  \/ OpenComposeDialog \/ CloseComposeDialog \/ HandleAddRecipientsFromSource \/ HandleCreate
  \/ CloseRescheduleDialog \/ HandleRescheduleScheduled \/ NotificationStreamed
  \/ \E u \in Users : HandleDirectorySelectionChange(u)
  \/ \E b \in Batches : HandleCancelScheduled(b) \/ OpenRescheduleDialog(b) \/ Deliver(b)
  \/ \E k \in Tasks :
       \/ OptionsAnswered(k) \/ SourceAnswered(k) \/ WriteAnswered(k) \/ ListAnswered(k)
       \/ NotificationsAnswered(k) \/ NotificationsFail(k) \/ TaskFailed(k)
       \/ ServeWrite(k) \/ ServeList(k) \/ CallFails(k)

Spec == Init /\ [][Next]_vars

(***************************************************************************)
(* Properties.                                                              *)
(***************************************************************************)
Lists == [Batches -> Times \cup {Null}]
Stages == [stage : {"new", "pending", "sent", "cancelled"}, at : Triggers]
Pages == [loading : BOOLEAN, scheduled : Lists, dialog : {"none", "compose", "reschedule"},
          to : SUBSET Users, target : Batches \cup {Null},
          submitting : BOOLEAN, rescheduling : BOOLEAN,
          options : BOOLEAN, sourceLoading : BOOLEAN]

(* The variables keep their types (NotificationsPage.jsx:116-145).             *)
TypeOK ==
  /\ batch \in [Batches -> Stages] /\ page \in Pages
  /\ chosen \subseteq Users
  /\ \A k \in Running :
       /\ tasks[k].kind \in Writes \cup {"load", "left", "source", "options"}
       /\ tasks[k].phase \in {"asked", "done", "failed", "reload", "loaded", "listed"}
       /\ tasks[k].list \in Lists \cup {Null} /\ tasks[k].rest \in BOOLEAN

(* A disabled button and the spinner always have a task behind them that will end        *)
(* them, whatever fails (NotificationsPage.jsx:244, :371, :437, :477, :558).                      *)
NeverStuck ==
  LET runs(kind) == \E k \in Running : tasks[k].kind = kind
  IN /\ page.loading => runs("load")
     /\ page.submitting => runs("create")
     /\ page.rescheduling => runs("reschedule")
     /\ page.sourceLoading => runs("source") \/ runs("options")

(* The form holds the recipients that were chosen in it, no more and no fewer, once no     *)
(* source is being read (:545-549, :562-568), unless the form was edited or closed             *)
(* meanwhile: the answer then puts back what the form had at the click.                         *)
RecipientsAsChosen ==
  Composing /\ ~ReadingSource /\ ~flags.crossed => page.to = chosen

(* Once nothing runs, no list call left behind either, the list of scheduled batches is      *)
(* what the service has pending (:226-246, :354-386), unless since the last reading of it a     *)
(* call failed or a batch was delivered, or a write was begun before an earlier task had        *)
(* ended: lists may then come in any order.  A failure of the notifications alone spoils         *)
(* nothing.                                                                                         *)
ListAsStored ==
  Running = {} /\ ~flags.stale /\ ~flags.overlap => page.scheduled = Stored
=============================================================================
