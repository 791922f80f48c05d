# PIS-projectis: TLA+ models, model checking and proofs

PIS-projectis manages student projects. A browser frontend talks over gRPC-Web
to a router, which authorises each call and forwards it to one of five services:
auth, subjects, projects, evaluations and notifications. This directory models
the system in TLA+, checks the models with TLC on small instances, and proves
the properties that matter most with TLAPS for instances of any size.

All paths below are relative to the repository (`src/`).

Contents: [Inventory](#inventory) · [Plan](#plan) · [Modules](#modules) ·
[How the model reads the code](#how-the-model-reads-the-code) · [Runs](#runs) ·
[What the code does that its texts do not say](#what-the-code-does-that-its-texts-do-not-say) ·
[Fairness](#fairness) · [Proofs](#proofs) · [Not modelled](#not-modelled)

## Inventory

| component | state it keeps | operations that change it | what makes it correct |
|---|---|---|---|
| **Project service** (`services/project-service`, Spring, PostgreSQL): projects, teams, members, join requests | tables `project`, `team`, `team_member`, `team_join_request` | `ProjectService`: create, update, delete. `TeamService`: create, leave (with promotion and deletion), change leader, add and remove member. `TeamJoinRequestService`: create, delete, resolve; the `StudentJoinedTeamEvent` listener | one team per student and project; no row outlives the parent it names, copied `project_id` right; dates ordered; capacity; leader is a member; decided requests stay decided; transactions end |
| Project service: submissions | table `project_submission` (a file per team) | submit (delete, flush, insert), delete | one file per team, the old one kept if the new one fails, the size limit in force |
| **Notification service** (`services/notification-service-rust`, fjall key-value store) | notification records, scheduled batches, an index by time and one by creator, a broadcast channel, the delivery loop's timer | create (now or scheduled), mark as read, deliver due, cancel, reschedule | delivered at most once and eventually; never both cancelled and delivered; indexes agree with the batches after a crash |
| **Auth service** (`services/auth-service-rust`, SurrealDB) | accounts, avatars, revoked tokens | register, login, logout, update user, change password, avatars | an admin remains; an e-mail names one account; a revoked token stays invalid |
| **Evaluation service** (`services/evaluation-service-rust`, key-value or in-memory) | one evaluation per team or student and project | create, update, delete | points within the project's maximum; no lost update |
| **Subject service** (`services/subject-service-dotnet`, EF Core) | subjects with their students and teachers | create, update, delete, enrol, leave | no subject deleted while projects refer to it; enrolment sets |
| **Router** (`services/router-rust`) | none of its own; the caller's identity per request | authorise, forward, combine calls to several services | a role policy on every route; a student acts only as itself |
| **Frontend: session** (`frontend/src`, React) | session in `AuthContext` and `localStorage`, the calls a tab waits for | hydrate, sign in, sign out, stream, guard of the routes | token and user belong together; a working session ends only by a sign-out, a dead one does not stay on show |
| Frontend: notifications (`AppShell`, `NotificationsPage`) | counter, toast, list; compose form, recipients, scheduled batches | load, stream, mark; choose recipients, create, cancel, reschedule | counter and list are those of the service; recipients are those chosen |
| Frontend: pages (`ProjectDetailPage`, `SubjectsPage`, `SubjectDetailPage`, `AdminUsersPage`, profile dialog of `AppShell`) | copies of rows, drafts and forms, flags that disable buttons | load, switch path, edit, save, reload | what is shown is what is stored; nothing typed is lost; reports are true; no button stays disabled |
| Frontend: read-only pages, layout | - | load and show | - |
| Interfaces, deployment, observability, CI | - | - | - |

**Interaction.** Router → services: unary gRPC, one stream (notifications).
Project service → auth (does the user exist), subject (who is enrolled),
evaluation, and, after it has answered the caller, notification. Evaluation →
project, subject, notification. Subject → auth, project. The services share no
database. There is no transaction across services; within the project service
every public service method is one `@Transactional` unit, and the listener of
`StudentJoinedTeamEvent` runs synchronously inside its caller's.

**What is hard here.** Check-then-act in every service, with no `@Version`, no
`SELECT FOR UPDATE` and, except for one unique constraint, no help of the
database (project service: team size, membership, leader, decisions; auth: last
admin, e-mail; evaluation: read-modify-write; notification: batch state).
Row locks taken by a bulk update in an event listener (deadlock). Writes to a
key-value store that a crash separates (notification). A timer loop that sleeps
until a time somebody else may move (notification). Calls to several services in
a row, any of which may be out of date when the last one acts (router, subject).
Pages whose handlers await several calls: they go on with what they read at the
click, answers come in any order, the page may be gone or under another path by
then, and only a disabled button or a spinner keeps two tasks apart (frontend).
`PROJECT.json` lists each hazard at its line, with the properties that cover it
or the reason why none does yet.

## Plan

Modelled in this order, the most important behaviour first.

1. **Project service core** - done: `ProjectStore`, `ProjectService`,
   `Membership` (abstract), `ProjectInvariant`, `ProjectLiveness`,
   `ProjectProofs`.
2. **Refinement proof**, and what a caller who is alone may rely on - done:
   `ProjectMembershipProofs`.
3. **Notification service** - done but for the queues of streams:
   `NotificationStore`, `NotificationService`, `BatchLifecycle` (abstract),
   `NotificationInvariant`, `NotificationProofs`, `NotificationIntegrityProofs`,
   `NotificationSerialProofs`.
4. **Frontend session** - done: `FrontendSession`, `FrontendSessionProofs`.
5. **Frontend pages**, each with the part of the gateway and of the services that
   it uses - done: `NotificationCenter`, `NotificationCompose`, `ProjectPage`,
   `SubjectsPage`, `SubjectDetailPage`, `AdminUsersPage`, `ProfileDialog`, checked
   side by side in `FrontendPages`; `FrontendPagesInvariant`, `FrontendFormsProofs`,
   `FrontendPagesProofs`.

Every safety property that a run checks is proved by now; liveness is left to TLC.

The auth, subject and evaluation services and the gateway have no modules of their
own: what they do for a page is part of that page's module, where their
check-then-write is interleaved with the page, with other users and with failures.

## Modules

| module | models | definitions and their code |
|---|---|---|
| `ProjectStore` | the tables and transactions below the project service | `project`, `team`, `member`, `request` are the four tables (`entities/*.java`), `orphan` the member rows whose `team_id` is NULL; `tx[w]` the unit of work that thread `w` has open, `reading[w]` what its method has loaded for checks still to come; `Commit`, `Rollback`, `AutoFlush`, `HandleStudentJoinedTeam` its steps |
| `ProjectService` | the operations | one action per `@Transactional` method, same name: `CreateProject` ... `ResolveToJoinRequest`; for `leaveTeam`, `changeLeader` and `addMember` one per statement that decides: `LeaveTeam`, `FindMember`, `CountMembers`, `PromoteHeir`; `ChangeLeader`, `AppointLeader`; `AddMember`, `InsertMember`; `Next` lets any worker take any step; the safety and action properties |
| `Membership` | what the service promises of membership: a partial map from (student, project) to teams, changed by `Join`, `Leave`, `Disband` | abstract; `ProjectService!Registry` maps the member table to it |
| `ProjectInvariant` | the inductive invariant `IInv`, `SpaceInv` for capacity, `DepartInv` for the refinement, `AloneInv` for a single worker | - |
| `ProjectLiveness` | fairness, row-lock waits, the deadlock detector, calls that throw at a later statement | `PendingRequests` (what the listener's UPDATE locks), PostgreSQL, the exceptions of `TeamService` |
| `ProjectProofs`, `ProjectMembershipProofs` | theorems | - |
| `NotificationStore` | the five keyspaces and the steps of an operation on them | `notifications` ... `scheduledByCreator` are the keyspaces of `store.rs`; `job[w]` the operation that thread `w` executes; one action per access: `UnindexTime` ... `SendRecord` |
| `NotificationService` | the handlers, the delivery loop, the clock and the faults | `CreateNotification`, `DeliverDueNotifications`, `CancelScheduledBatch`, `RescheduleScheduledBatch`, `MarkAsRead` (`service.rs`, `store.rs`); `LoopDelivers`, `LoopSleeps`, `AlarmRings`, `SchedulerNotified` (`main.rs`); the properties |
| `BatchLifecycle` | what the service promises of a batch: pending, then delivered (not early) or cancelled, for ever | abstract; `NotificationService!Lifecycle` maps the rows to it |
| `NotificationInvariant` | the inductive invariants `NInv` and `KeysInv`, and `SerialInv` for operations that do not overlap | - |
| `NotificationProofs`, `NotificationIntegrityProofs`, `NotificationSerialProofs` | theorems | - |
| `FrontendSession` | the session of the browser client in several tabs | `tab[t]` is the React state of a tab and its waiting calls, `storage` is localStorage; `HydrateAnswered`, `LoginAnswered`, `LogoutAnswered`, `StreamFails` run the code behind an await (`AuthContext.jsx`, `AppShell.jsx`, `api.js`), `Serve...` is the gateway (`grpc_auth.rs`) |
| `FrontendSessionProofs` | theorems | - |
| `NotificationCenter` | counter, toast and list of notifications | `badge`, `latest`, `toast` are state of `AppShell`, `page` of `NotificationsPage`; `ReceiveStreamed`, `ShellMarked`, `PageMarked`, `ListAnswered` |
| `NotificationCompose` | the compose and reschedule dialogs | `page` is the state, `tasks` the running handlers: `HandleCreate`, `HandleAddRecipientsFromSource`, `HandleCancelScheduled`, ...; `NotificationsFail` leaves a call of a `Promise.all` behind |
| `ProjectPage` | `ProjectDetailPage.jsx` with the project and evaluation rows behind it | `HandleSaveEvaluation`, `HandleSaveAllEvaluations`, `HandleCreateTeam`, `HandleAddMember`, ...; `Listing` is the router's `list_project_team_details`, `PartOfListing` what it answers when calls of its own fail |
| `SubjectsPage` | `SubjectsPage.jsx` with the subject service | `HandleRegisterSubject` ... `HandleDeleteSubject`; `Allowed` is the check of `SubjectManager.cs` and of `register_team` |
| `SubjectDetailPage` | `SubjectDetailPage.jsx` | `RunMembershipUpdate` and the four handlers that use it; `Permitted` is the route policy |
| `AdminUsersPage` | `AdminUsersPage.jsx` with the accounts of the auth service | `SubmitUser`, `Confirm`, ...; `Allowed` is the check of `update_user` and `create_user` |
| `ProfileDialog` | the profile dialog and the picture of `AppShell.jsx` | `HandleAvatarApply`, `HandlePasswordChange`, ...; `CheckPassword`, `ChangePassword` are two halves of one method of the auth service |
| `FrontendPages` | the pages side by side, one `INSTANCE` each | `focus` is the page a behaviour stays on |
| `FrontendPagesInvariant` | two inductive invariants per page: what its tasks carry (`AccountInv`, `ProjectInv`, ...), and what it shows (`AccountShows`, `ProjectShows`, ...) | - |
| `FrontendFormsProofs`, `FrontendPagesProofs` | lemmas about four of the pages; those about the others, and the theorems about all | - |
| `MCProjectService`, `MCNotificationService`, `MCFrontendPages` | instances and symmetry for TLC | - |

`PROJECT.json` "map" gives the lines behind every definition. Operators named
`Xxx_Yyy` next to `Xxx` are mutants: the same operation with a plausible bug.
No specification uses them; they serve to confirm that the property of a run is
able to fail.

## How the model reads the code

### Project service

**A transaction is two or more steps.** `Begin` runs the method's checks on
committed rows and collects its writes; `Commit` makes them visible at once.
Anything may happen between: that is READ COMMITTED (PostgreSQL's default, which
no annotation changes) with Hibernate's write-behind. A check that fails throws
before any write, so a failing call is simply not enabled, as are read-only
operations.

**Methods that decide by several statements.** `leaveTeam` loads the team and its
members (`TeamService.java:102`), then looks for the member (`:103`), counts (`:109`)
and, for a leader, reads the members again (`:118`); `changeLeader` and `addMember`
read the team and then ask another query. Commits of others come between, and what
was loaded first stays loaded. These are steps of their own: `BeginReading`
loads, `reading[w].next` names the statement to come, and the last one settles
the unit of work (`Decide`). The difference matters: the member that `leaveTeam` finds may
not be in the collection it has loaded, and then `TeamEntity.removeMember` (`:57-58`)
only sets its team to null (`TakesOut`). Such rows are in `orphan`. They name no team,
so that the queries by team do not find them and no cascade deletes them, while
`existsByStudentIdAndProjectId` and the unique key still see their `project_id`.

The reads of the other methods are one step, and nothing is lost by it:

* `deleteProject`, and `deleteTeam` inside `leaveTeam`, load a tree of rows and delete
  it. The commit succeeds only if what was loaded is what is there: a child that was not
  loaded breaks a foreign key, and a loaded row that is gone is a stale one.
* `deleteJoinRequest` looks for the row it deletes, and for nothing else. `removeMember`
  then loads the team's members; if a `leaveTeam` has set the team of the row to null in
  between, it finds nothing to delete and writes the null again, which is as if it had failed.
* `createTeam` and `createJoinRequest` look for a parent row, and the foreign key looks again at the
  commit; whether the student has a team is a matter of one other statement.
* `updateProject` reads one row.
* `addMember` counts and then reads the limit; a limit changed between the two is as one changed
  before both, since members that come and go meanwhile are in other rows.
* `resolveToJoinRequest` reads the request and then the leader of its team; a leader
  replaced between the two is as one replaced before both, whatever became of the request,
  whose status nobody looks at.

**What the database still refuses at the commit.** The unique key on
`(student_id, project_id)` (`TeamMemberEntity.java:18-21`), foreign keys, and an
update or delete of a row that is gone (Hibernate's stale-row exception). A write
is a whole row, as Hibernate writes it, so an older copy overwrites a newer one;
a row equal to the one read is not written (`Update`, dirty checking).

**The listener.** `addMember`, `createTeam` and `resolveToJoinRequest` publish
`StudentJoinedTeamEvent` before they return. The listener's UPDATE makes
Hibernate flush pending changes of the same table first (`AutoFlush`): the request
being resolved is then decided and locked, hence not PENDING, hence not hit. The
UPDATE itself (`HandleStudentJoinedTeam`) waits for locks of others, takes the
PENDING requests that are left and keeps them locked until the commit. Every
`Commit` that writes requests waits for such locks.

**Identities.** Row ids are random UUIDs, never issued twice. The model reuses the
id of a deleted row, which keeps it finite without bounding the number of rows
ever created. `stale` marks the transactions that still rely on a deleted row:
they can only roll back, as in the code, where the old id no longer exists. The id
of a team is not reused while rows in `orphan` stem from it, since they would become
members of the new one.

**Rollback** is always possible: a constraint fails, PostgreSQL picks a deadlock
victim, the connection or the service dies. Committed tables survive, units of
work do not; that is all a crash is here, since the service keeps nothing else.

**Data.** Titles, descriptions, points, names and the teacher and subject of a
project decide nothing here and are left out; so is the submission that goes with
a deleted team. Dates are small numbers and 0 is a date left out of an update. A
limit left out of an update is *not* detected: `max_students_per_team` has no
presence in `UpdateProjectRequest`, so zero is stored (`limits` has 0 among its
`Sizes`). The handlers of `addTeamMember` and `changeTeamLeader` first
ask the auth service whether the student exists; `Students` are those who do.
`deleteTeam` has no handler: it is reached from `leaveTeam` only.

### Notification service

**Accesses and operations.** Reading, inserting or removing one key is atomic.
Nothing larger is: `store.rs` takes no lock and no write batch, and its handle is
cloned into the loop and every handler. So a step is one access. No method of the
store awaits anything between its accesses; an operation therefore keeps its
worker thread of the tokio runtime until it is done, and `Threads` bounds how many
overlap (`#[tokio::main]` has one thread per core; `notify_serial` is a machine
with one). The scan for due keys reads a snapshot and is one step (`DueKeys`).
The first read of a handler and its checks are one step with the call: what it
does next depends on the copy it has then, which is already as stale as it can
be. A refused call changes nothing and is not enabled; likewise calls for
batches of other creators, ids that do not exist, and reads.

**What an operation holds.** `job[w].stage` says which access is next, `row` is the
batch as it will be written, `from` the trigger time whose keys go, `left` the
recipients still to treat. The order of the recipients is that of a list in the
request and plays no part: any order is allowed. Texts and metadata are left out.
The id of a batch is a fresh UUID, used once: the id of a notification is
its batch and its recipient.

**Arrivals.** `arrivals` counts, per notification, the *unread* records sent to the
broadcast channel, the events that make a client show and count a notification.
It saturates at `Many`. Who listens at the time is not modelled.

**The loop.** It delivers, computes when to wake (`NextAlarm`) and sleeps; `permit`
is the one permit that `Notify::notify_one` stores for a loop that is not waiting
yet. A key that is already due lets it poll every 100 ms, less than one tick of
the clock here. `IdleSleep` is beyond the end of the clock on purpose: a batch
that is delivered only because the loop wakes up once a minute would be late,
so waking must be the work of a timer or of a wake-up.

**Faults.** `Fail`: any store access may return an error, and `?` returns from the
operation with what it has written so far; the loop logs it and goes on
(`LoopFails` if the search for the next trigger fails). `Crash`: the process dies and is
started again by the deployment. The five keyspaces belong to one fjall keyspace with one
journal, so what is recovered is a prefix of the writes, and the writes of an
operation that has answered are persisted. When the process dies, that prefix is
everything it had written, and the model is exact. When the host fails, what the journal had
not yet on disk is lost too; for the store this is the same as dying after the last write
recovered, but not for `arrivals`: a record is sent (`store.rs:334`) before the
writes are persisted (`:340`), so a client may have been told of a delivery that the store
has forgotten and will make again. Such a repetition is not covered by
`ArrivesOnce`. `MaxFaults` bounds failing accesses and crashes together.

### Frontend

**Steps.** JavaScript runs one piece of code at a time, so the code between two
awaits is one action. A call is three steps: it is asked (the handler up to the
await), served (`Serve...`, with the gateway and the service behind it), and
answered (the code behind the await, to the next one). Answers come in any order,
and any call may fail, before or after the service did its work (`CallFails`,
`Fault`). Where a service checks and writes later, those are two steps.

**Calls made together.** `Promise.all` waits for several calls. Where their answers are
used together, after the last of them, they are one call here (`loadData` of the subjects and
project pages). The two loaders of `NotificationsPage.jsx` set their own state
instead (`:222`, `:233`): `rest` says that the notifications are still awaited, a list that is
there first is shown while the task goes on (phase "listed"), and if the notifications fail the task ends
and its list call goes on by itself (kind "left", `NotificationsFail`). A notification
of the stream ends the spinner of that page whatever is still loading (`:266`).

**Incomplete answers.** The router combines calls to several services and answers OK
when some of its own fail: without the projects of a subject (`projects.rs:402`),
with the leader alone for a team (`:441`) or no teams for a project (`:467`), without
the evaluations (`:304`) or a team (`:346`). `ServeLoadPartly` leaves any such part
out. The page cannot tell; it may be out of date until the next complete listing (`stale`).

**Tasks.** `tasks[k]` is one run of an async handler: what it captured at the click,
how far it is, and whether the component that started it is still mounted. React
drops what an unmounted component sets, but the handler runs on, with its writes.
`Slot` names a free slot; slots bound how many run at once. What guards a
button is its `disabled`, its dialog and what the page renders: nothing behind
an open dialog can be clicked, but Escape closes a dialog whose Cancel is disabled.

**Forms.** What a form holds is chosen at the click that submits it, from the values
its fields admit (`Filled`, `Typed`, `Triggers`), unless a late answer could touch
it: drafts of evaluations and recipients are state of their own. Texts, names and
messages are model values.

**History.** A property about late answers often holds but for named cases that the
code does not exclude, for instance two tasks that the page lets run at once. A
history variable (`flags`, `raced`, `crossed`, `bornDead`) records that such a case has happened;
it guards nothing. Each property's comment names its cases.

**Session.** A page is loaded with the session of `localStorage`; other tabs read it
only when they are loaded. `Streaming` is the effect that keeps one stream per
session, `Guarded` the redirect to the sign-in page. A token dies when it is
revoked or expires (`Expire`). `Logout` is one call at a time although the two ways
to sign out (`AppShell.jsx:262`, `:674`) are never disabled: a second one carries the same token,
its answer empties a session that is empty already, and an answer that comes after
a later sign-in is the case that the first one's late answer shows (`crossed`).

## Runs

| run | instance | properties | shows |
|---|---|---|---|
| `races` | 2 students, 2 projects, 2 teams, no requests, 2 workers, limit 2 | `TypeOK`, `OneTeamPerProject`, `RowsAgree`, `ImplementsMembership` | two transactions race, statement by statement, while teams and projects vanish: no student is in two teams of a project, no row outlives the parent it names, no `project_id` is wrong; the member table refines `Membership`, rows left without a team included |
| `limits` | 4 students, 1 team, no requests, 2 workers, limits 0 and 2, dates 1 and 2 | `CapacityBound`, `DatesOrdered` | two racing transactions overfill a team by at most one member; overlapping partial updates keep the dates ordered |
| `sequential` | 3 students, 2 teams, 2 requests, limits 1 and 2, 1 worker | `JoinsOnlyWithRoom`, `LeaderKept`, `JoinClearsPending` | what a caller who is alone may rely on |
| `liveness` | 1 student, 1 team, 2 requests, 2 workers | `TransactionsEnd`, `LockedRowsStand`, `RowsAgree`, `DecisionStands` | deadlock of two listeners arises, and is resolved; decisions are final, locked requests do not move, none outlives its team |
| `notify_races` | 1 user, 1 batch, 2 threads, 3 calls, no fault, times 0 and 1 | `TypeOK`, `PendingIsIndexed`, `DeliveredIsListed`, `DecisionIsFinal`, `DueIsDelivered` | two operations and the loop overlap in every way: no batch and no listing is lost, decisions are final; scheduling, waking and sleeping fit together |
| `notify_serial` | 2 users, 2 batches, 1 thread, 3 calls, a fault, times 0 to 2 | `NothingDangles`, `ArrivesOnce`, `ListedOnce`, `CancelledNotDelivered`, `KeysAreCurrent`, `ImplementsLifecycle` | what operations that do not overlap guarantee, whatever fails between any two accesses |
| `session` | 2 tabs, 2 users, 2 tokens, a failing call, a reload | `PairKept`, `OwnSession`, `GoodSessionKept`, `DeadSessionEnds` | sessions stay whole and their users' own, whatever order answers come in; a stream of an earlier session ends none |
| `pages` | each of seven pages, with 2 tasks, 2 or 3 clicks, a failing call or an incomplete listing, and a change by others | `TypeOK`, `NeverStuck`, `BadgeExact`, `ListExact`, `NothingVanishes`, `RecipientsAsChosen`, `ShownAsStored`, `NothingOverwritten`, `AllSaved`, `SuccessTrue`, `TeachersOwnOnly`, `ServicesSound` | what a page shows, enables and reports agrees with what the services hold, but for the cases each property names |
| `canceled`, `new_leader`, `orphan`, `revoked` | small | one property each | counterexamples, see below |

**Bounds.** Two workers are enough for each race here: every property relates at
most two transactions (a unit of work relies only on committed rows, and another
one's commit is what changes them), and the proofs cover any number. `races` needs
two teams for a student to be in one team while joining the
other, a second student for a leader to have an heir and for a leave that does not delete the team, the
one that may lose a row's team, and a second project to tell a copied `project_id` from the
team's. `new_leader` needs a third student who
leads while the second is appointed and leaves; `limits` needs four students to
overfill a team of two by one and, with the off-by-one mutant, by two, no second
team, and two dates, enough for a project that starts after it ends. `liveness` needs two requests of
one student, each decided by a transaction whose listener wants the other. The model of
the project service has no counters: identities are finite sets and are reused, so
no bound cuts behaviour short, and deadlock checking is on.

The notification runs bound the clock (`MaxTime`), the calls of clients
(`MaxCalls`) and the faults (`MaxFaults`). Two times give a trigger in the past
and one in the future, and a reschedule that moves it; the third of
`notify_serial` lets a key be stale and early. Three calls are a create and two more
that meet the loop's delivery: every property speaks of one batch, its
notifications and one or two operations at a time. Two users show a batch that is
half treated, two batches a delivery that goes on to the next. Faults and
overlapping operations together are left to the proofs (`NothingDangles`,
`DecisionIsFinal`, the invariant `NInv`), which admit both. At the end of the
clock, with all calls made, the service rests, so these runs do not check for
deadlock; that nothing hangs before is `DueIsDelivered`.

`session` has two tabs because they share `localStorage`, two users because one may
follow the other in a tab, and two tokens for an old and a new session; more would
add a third session that no call of the first can meet any more. One fault is what
`DeadSessionEnds` allows; with two, the check and the stream of a page may both
fail and nobody notices the dead token. `pages` has two tasks at a time, since every
property relates a late answer to one other task, and three clicks (two where the
state is large) to load a page, act and act again; two projects or subjects to
switch between, and three accounts, two of them admins. When the clicks are used up the user rests, and
opens no dialog that is there to be saved only, so neither run checks for deadlock; that no button stays disabled is `NeverStuck`.

Symmetry permutes identities, which
are only compared; the runs with a temporal property other than an action
property use none, `races` excepted, whose `ImplementsMembership` is a safety
property (`[][...]_v` after the mapping, which no permutation disturbs); the same
goes for `ImplementsLifecycle` in `notify_serial`.

## What the code does that its texts do not say

* `canceled` - `JoinRequestStatus.java:7` says that CANCELED means "the student
  joining another team", but `resolveToJoinRequest` publishes the event for a
  rejection too (`TeamJoinRequestService.java:83`): one rejection cancels all other
  pending requests of the student in the project. (The acceptance does not add the
  student to the team either; that is a call of its own.)
* `new_leader` - `TeamService.java:147`: "New leader must be a member of the team",
  but the new leader may leave between the check and the commit.
* `orphan` - `TeamService.java:63` refuses a student who "is already part of a team in this
  project". In `leaveTeam`, a member added by another call between line 102, which loads the team's
  members, and line 103, which finds the new one, is taken out of a list it is not in and
  loses its team (`TeamEntity.java:57-58`): the row is not deleted but stays with `team_id`
  NULL. Nobody sees it as a member, no cascade reaches it, and its key keeps the student
  from joining or creating any team of the project for good. `RowsAgree` excepts such rows and
  `ImplementsMembership` reads their making as a `Leave`; with one caller there are none
  (`TakenHasTeam`).
* `revoked` - `service.rs:269` of the notification service refuses to cancel a
  batch that "has already been delivered", but a cancel that read the batch before
  the delivery wrote it goes on with its copy: it writes the row back as
  cancelled, without a delivery time, and the caller is told so.

The dialog of `SubjectsPage.jsx:931` says that attached projects, teams and
registrations will be removed with a subject; `SubjectManager.cs:101` refuses to
delete a subject that has projects. `NoOrphans` (in `ServicesSound`) checks what the
service does.

`TeamService.java:176` refuses to add to a team "already at full capacity", but two concurrent
calls each count the members before the other inserts. `JoinsOnlyWithRoom` holds of one caller at a
time; how far several can go is `CapacityBound`, checked and proved.

Behaviours of the project service that no text speaks of: the last two members who leave at
once leave an empty team behind, and a request created between the listener's
UPDATE and the commit of a join stays pending. Of the notification service: an
error between the removal of the keys and the write of the batch leaves a pending
batch that nothing finds again (so `PendingIsIndexed` speaks of the time before
the first fault); two overlapping deliveries announce a batch twice and may list it under
two times; `mark_as_read` writes back the record it has read, over a delivery or a
cancellation made meanwhile.
Of the pages: the answer to the reading of a recipient source undoes what was edited
meanwhile, a late answer closes a form that was opened meanwhile, an account form
opened during a reload undoes the save before it, and a project created between a
subject's check and its deletion loses its subject. A project page that was left while its
team was created sets the path back when the answer comes, and the page of another project
that is loading by then may end up under that path (see [Proofs](#proofs)). A list of batches left
behind by a `Promise.all` may replace one that was read later, and a page that was answered in part
shows it as the whole.

## Fairness

Only `liveness`, `notify_races` and `session` need any. In `liveness`, steps of an open
transaction are strongly fair: a
thread runs on, and a statement that waits for a row lock stands in PostgreSQL's
first-come-first-served queue, so it is not overtaken for ever although others
keep taking and releasing the lock. A call goes on to its next statement (`TeamReads`) or
throws there (`Throws`), a flush that must fail is rolled back (`FlushFails`), and the
deadlock detector (which PostgreSQL runs after `deadlock_timeout`) rolls one member
of a waiting cycle back: weakly fair. `Rollback` in general, and beginning an
operation, are not fair: nothing obliges a client to call or a connection to
fail. Without the detector's fairness `TransactionsEnd` is false: the deadlock is
reachable.

In `notify_races` a running operation runs on (weakly fair: nothing it does
waits for another). The loop's next round is strongly fair: it needs a free
worker thread, which calls keep taking, but tokio's queue serves its tasks in
turn. Timers fire, wake-ups are delivered and time passes (weakly fair). No call
is fair. `DueIsDelivered` allows a batch to stay due while a cancel or a reschedule
works on it, because that operation decides what becomes of it.

In `session` the gateway serves, and the network delivers, the check of a session
and its stream (weakly fair): nothing in the client waits for anything else. Signing in and
out and expiry are not fair. `DeadSessionEnds` needs only these.

## Proofs

`tlapm` checks the eight proof modules to the last leaf. Assumed of the constants are

* `StoreAssumption`: `Students` and `Workers` are finite, sizes and dates are numbers
  (0 is no date), `Null` is not a row, not a project and not a team;
* `NotificationAssumption`: the bounds are natural numbers, `Null` is no row, record,
  time or job;
* `SessionAssumption`: `Null` is neither a user nor a token;
* for the pages, that `Null` is none of the values it stands next to, and:
  `CenterAssumption` (there are finitely many notifications, and a list call to make),
  `ComposeAssumption` (a source lists users of the directory, there is a time and a task),
  `AccountsAssumption` (the first admins are two accounts with an e-mail each),
  `SubjectsAssumption` (a subject is no project, and there is one of each),
  `ProjectAssumption` (two projects, and a student besides the one who uses the page),
  `DetailAssumption` (the teacher is one of the teachers), `ProfileAssumption` (the first
  password is a password).

TLC evaluates each of them in a run. None bounds how many users, rows, tasks, calls,
clicks or faults there are.

| theorem | states |
|---|---|
| `InvariantHolds` | `Spec => []IInv` |
| `TypeCorrect`, `TablesAgree`, `StudentInOneTeam`, `ProjectDatesOrdered`, `LocksHold` | the invariants `TypeOK`, `RowsAgree`, `OneTeamPerProject`, `DatesOrdered`, `LockedRowsStand` |
| `DecisionsAreFinal` | the action property `DecisionStands` |
| `SpaceHolds`, `OverfullByOtherWorkersOnly` | `SpaceInv`, `CapacityBound` |
| `MembershipImplemented` | `ImplementsMembership`: the detailed specification implements `Membership` |
| `NotificationTypeCorrect`, `NotificationInvariantHolds`, `StoreIsWhole` | `TypeOK`, `NInv`, `NothingDangles` of the notification service, under any faults |
| `DecisionsAreFinal` (`NotificationIntegrityProofs`) | the action property `DecisionIsFinal`, under any faults |
| `PendingBatchesAreIndexed`, `DeliveredAreListed` | `PendingIsIndexed` and `DeliveredIsListed`: until a store call fails |
| `SerialInvariantHolds` | `SerialInv`, if there is one thread |
| `EveryNotificationArrivesOnce`, `EveryNotificationIsListedOnce`, `CancelledIsNeverDelivered`, `ScheduleIsCurrent` | `ArrivesOnce`, `ListedOnce`, `CancelledNotDelivered`, `KeysAreCurrent`, if there is one thread, under any faults |
| `BatchesFollowLifecycle` | `ImplementsLifecycle`, if there is one thread: the detailed specification implements `BatchLifecycle` |
| `JoinsFindRoom`, `LeaderStaysMember`, `JoiningClearsRequests`, `TakenHasTeam` | the action properties `JoinsOnlyWithRoom`, `LeaderKept`, `JoinClearsPending` and the invariant `TakenMeansTeam` of the project service, if there is one worker |
| `SessionInvariantHolds` | `SessionInv`, the inductive invariant of the session |
| `SessionTypeCorrect`, `SessionsArePaired`, `SessionsAreOwn` | `TypeOK`, `PairKept`, `OwnSession` of the session, for any number of tabs, users and tokens, any number of failures and reloads |
| `GoodSessionsAreKept` | the action property `GoodSessionKept` |
| `PagesStayTyped`, `NothingStaysStuck` | `TypeOK` and `NeverStuck` of the pages |
| `CounterTellsUnread`, `ListTellsServer`, `ListedStaysListed` | `BadgeExact`, `ListExact` and the action property `NothingVanishes` |
| `PagesShowWhatIsStored` | `ShownAsStored`: once nothing runs, six pages show what the services hold |
| `FormsHoldTheChosen`, `ReportsAreTrue`, `ServicesStaySound` | `RecipientsAsChosen`, `SuccessTrue`, `ServicesSound` |
| `DraftsAreKept`, `SavedMeansStored`, `TeachersActOnOwn` | `NothingOverwritten` and the action properties `AllSaved` and `TeachersOwnOnly` |

**The argument for the project service.** None of the table properties is inductive: whether a commit
keeps them depends on what the unit of work is about to write. `IInv` therefore
adds, to the properties themselves,

* `UniqueKeys`, the key in terms of the copied `project_id`; with `RowsAgree` it
  yields `OneTeamPerProject`, which speaks of the project of the *team*;
* `Sound(u)` for every open unit of work: the dates it writes are ordered, it
  inserts at most one member, it deletes no requests while an event is pending, and
  only the listener writes CANCELED;
* `Current(w, u)` for every unit of work that is not stale: a team it writes is in
  the table under the same project, or is new and its own; a member it inserts goes
  into such a team under that team's project; a member whose team it sets to null is there; a
  request it writes differs from the table's in its status only, or is new;
* `ReadingCurrent(r)` for every call between two statements that is not stale: its team is
  there, and so is the row of the member it has found;
* `PlacesAgree`: a row without a team still names the project of the team it was in, as long as
  that team exists. `RowsAgree` says so of rows with a team only; with the others, the unique key refuses a
  new row in the place of one that has lost its team.

`Current` is what a commit by *another* worker could break. `CommitKeepsCurrent`
shows that it does not: either the other unit of work did not touch the rows this
one relies on, or it deleted one and this one is now stale, and a stale one can
only roll back. The rest is one lemma per operation (`<Operation>KeepsInvariant`:
beginning it, or its last statement, establishes `Sound` and `Current`), one for each other step of a
transaction, and `CommitKeepsInvariant` by the parts of `IInv`. `SpaceInv` counts
members together with workers that have counted and not inserted yet: `addMember` needs room for the
members alone, and at most every other worker may be joining at that moment.

The refinement needs `DepartInv` besides: a unit of work that deletes members
inserts none, and either deletes one and no team, or only members of teams it
deletes, all of one project; one that sets a member's team to null does that to one, and nothing else to
members or teams. Hence a commit is seen by the registry as a `Join`
(one insert, into a project where `UniqueKeys` says the student had no team), a
`Leave` (by either way), a `Disband` of the teams of one project, or nothing; every other step
leaves the member table, and so the registry, alone.

**The argument for the notification service.** What a write does to the store depends on the
copy that its operation took several accesses earlier, so `NInv` says of every
operation what it holds at each stage: `Coherent` (which operations reach which
stage, and that the row or record needed there is there), `Written` (the
notifications of the row at hand exist, but for those its creation has yet to
write) and `Saved` (the row is in the store before anybody but its creation works
with it, and not before). Overlapping operations cannot break `Written` because
no record and no row is ever removed; they could break the last part of `Saved`, and do
not because a batch has one creation, which is the last part of `NInv`.
`DecisionIsFinal` then needs one more observation: the only operation that holds
a pending row without having read one is a creation, and its batch is unknown.
`PendingIsIndexed` is not inductive: the two keys are added one after the other,
so `KeysInv` says for each key by itself who has yet to add it.

**The argument for the session.** What an answer does to a session depends on the
session its call was made for. `SessionInv` therefore says of each waiting call to
which session it belongs: a hydration to the one on show, beside which nothing
else runs because the guard shows a spinner; a stream to the one on show, because
the clean-up of its effect cancels the old one; a refused call to a dead token. A
sign-in may overtake an older call of its tab; `crossed` records that, and what
speaks of owners holds until then. `TabSound` is kept by a step of another tab because such
a step only issues a token or ends one; each action of the tab itself is one lemma.

**What holds when operations do not overlap.** The runs `orphan` and `revoked` show that two of
these properties fail for two workers or threads, and `JoinsOnlyWithRoom` does so too. The theorems
therefore have the hypothesis `OneWorker` or `OneThread` (any two workers, or threads,
are the same), and the code meets it only while calls do not overlap; failures
and, in the notification service, the loop's delivery between two calls are still admitted.

*Project service.* With one worker nothing is committed between the checks of a
method and its own commit, so what a call has loaded is still so at its next
statement (`ReadingHolds`): the collection of `leaveTeam` has the member it finds,
and no row is left without a team. Of the open unit of work `AloneInv` says what the checks
found: a team that gets a member has room (`JoinsWithRoom`), the leader of each team is a
member in what would be committed (`LeaderIsHeld`, `removeMember` excepted, which
does not look), and a join has still to be announced to the listener, or the listener has
already taken every pending request (`JoinIsAnnounced`).

*Notification service.* A failure stops an operation between any two accesses, and
what it leaves is what the next one starts from. `HistoryAgrees` is the part of
`SerialInv` that every prefix of an operation keeps: an entry of a list has the
delivery time of its record, what has arrived is delivered, a pending or cancelled batch
has delivered nothing, and a key of the schedule is that of a pending batch at its
time. `JobSound` relates what the running operation holds to what it has written: a
change removes both keys before it writes the row, so a row that is no longer pending has
no key; a delivery writes the record before it sends it, so a repeated delivery
finds it delivered and sends nothing. The refinement maps the write of a row to
`Schedule`, `Reschedule` or `Decide` of `BatchLifecycle` and the clock to its `Tick`; no other
access changes what it sees.

**The argument for the pages.** Each page has an invariant of its own, and `PagesInv` is
their conjunction: a step of one page leaves the variables of the others alone. Every
one starts from what a task of each kind carries in each phase; on top of it:

* *Spinners and buttons.* `NeverStuck` becomes inductive by that alone: an answer
  ends a task and the flag of its kind in one step, and a second task of that kind is
  not started because the button is disabled (`AccountSaves`, `ProfileSaves`). A flag may also
  be cleared early, by a late answer, which does no harm here.
* *Counter and list.* `Counted` is what the counter should say before everything has
  arrived: unread notifications but for those whose record is still in the stream, and
  those whose mark has succeeded and not been answered yet. Each step changes `Counted` by at most one
  notification and the counter with it (`CounterExact`), because a notification is
  announced once and marked once (`RecordsExact`, `MarksExact`). For the list, an answer
  and the mounted page have right whatever the stream does not still tell
  (`ListsExact`), and the last record of a notification in the stream tells its status
  (`StreamTells`). A list answer that is overtaken, a failed call or a mark at the same time breaks
  this; `raced` and `listRaced` record that.
* *Recipients.* `SourcesAgree`: every running read of a source was started from the same
  recipients as the form has.
* *Services.* `ChecksHold` and `SubjectLinks`: between a check and its write the check
  still holds, unless somebody wrote in between (`crossed`, `linked`). `TeamsListed` and
  `SubjectCopies` carry what the subjects page knows about the student to the write that
  relies on it.
* *Project page.* `TeacherWaits`: a teacher's page waits for one task at a time, behind
  the spinner or with its fields disabled, from which `NothingOverwritten` follows.
  `SavesStored`: what the loop over the drafts has been through is stored, so that all of
  it is when the loop ends. `PageSound`: rows and drafts on show are of one project
  only, hence the drafts that a teacher can save are of the project that is taught,
  and a task carries that with it, whatever replaces the page meanwhile.
* *Page of a subject.* `OwnSubjects`: a copy that says that the teacher teaches the
  subject is right, in a task and on the page, until somebody else changes it.
* *What is shown.* That a page which waits for nothing shows what is stored is the end of
  a story about its tasks, told by `AccountShows`, `SubjectShows`, `DetailShows` and
  `ProjectShows` (`ListKept` and `PictureKept` for the batches and the picture). Each says,
  of pages whose tasks have not overlapped: one task at most matters, that is, belongs to the
  page or has yet to write; it is about the path on show; the spinner is there while it
  loads; a list it has received is still that of the services, unless the page may be
  out of date (`stale`) by now; and when nothing matters, so is what the page has. A step falls
  under one of four lemmas for each page: the one task that matters starts, goes on or ends
  (`...ShowsTask`); another one, left behind by an earlier page, does (`...ShowsIdle`); the page
  goes (`...ShowsGone`); or no task moves (`...ShowsQuiet`). A call that fails after it may
  have stored something, a list that fails and one that is incomplete leave `stale` behind. In `ListKept`
  a list call left behind by its task counts like a task: a write begun beside it is an `overlap`. An account form that
  is open on top of that is a copy of the row it was opened on, or `early` (`AccountShows`),
  and nobody is picked who is listed already (`PicksSound`). `PagesShow` is their
  conjunction, inductive together with `PagesInv`.

Proving showed two definitions of the model to be ill-formed: in `Written` of
`SubjectsPage` and of `NotificationCompose` the arms of a `CASE` overlapped, so that
TLA+ leaves open which one is taken, while TLC takes the first. Their guards are
disjoint now. It also showed `ShowsOwnWrites` of `ProjectPage` to hold within the three clicks
of `pages` only. A user who creates a team, leaves the page, opens another project and has
its page still loading is taken back to the first by `setSearchParams`
(`ProjectDetailPage.jsx:367`); two loads are then on their way, `loadData` does not look
at the path when its answer comes, and the project that answers last stays on show, under the
path of the other. That is a fourth click; TLC finds the behaviour once it is admitted. The
property now exempts a path that changed under a running task (`moved`), and the theorem
has no bound on clicks.

**Only model-checked**: `TransactionsEnd`, `DueIsDelivered` and `DeadSessionEnds`
(liveness under fairness, and ENABLED, are beyond the prover). The
invariants `IInv`, `SpaceInv`, `NInv`, `SerialInv`, `SessionInv` and those of `FrontendPagesInvariant` are
proved; the runs check the properties that follow from them.

## Not modelled

* The service behind an upload (submissions) and the evaluation service behind a mark:
  the project page stores one file and one mark per team in one write each.
* Of the auth service: the search for accounts, the first admin, hashing; of the
  gateway: the routes that forward one call; of the subject service: its look-ups
  of users in the auth service.
* The queue of a notification stream: what is lost before a stream subscribes or when
  it lags. `StreamBreaks` loses what is under way.
* The notifications of the project service, sent after the answer and outside the
  transaction.
* Of the frontend: `DashboardPage`, `ProjectsPage` and `MyEvaluationsPage`, which load once and
  show the answer; `RegisterPage`, to which no route leads; downloads, the preview of a picture,
  the loading of the user directory, searching in lists, error texts and layout.
* Mappers, logging, metrics, deployment and CI hold no state that a decision reads.
