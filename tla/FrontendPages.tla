----------------------------- MODULE FrontendPages -----------------------------
(***************************************************************************)
(* The pages of the browser client side by side.  They share no state but the        *)
(* session and the services, so a behaviour stays on one of them, "focus", from the     *)
(* moment it is opened; the others rest in one initial state.                            *)
(***************************************************************************)
EXTENDS Naturals, FiniteSets

CONSTANTS
  Notes, Delivered, MarkCalls, Loads,                         \* notification centre
  Users, SourceUsers, Times, Batches,                         \* sending notifications
  OwnProject, OtherProject, OwnTeams, OtherTeams,             \* project page
  Students, Me, Seats, Scores, Files,
  Subjects, Projects, Texts,                                  \* subjects page
  Taught, Teachers, Teacher,                                  \* page of one subject
  Accounts, Admin, OtherAdmin, Emails, AdminEmail, OtherEmail, \* accounts page
  Pictures, Passwords, FirstPassword,                         \* profile dialog
  Tasks, FewClicks, MaxClicks, MaxFaults, MaxElsewhere, Null

VARIABLES
  focus,
  inbox, stream, streamUp, badge, load, latest, toast, lastRead, listPage, loads, marks,
  centerClicks, centerFaults, raced, listRaced,
  batch, composePage, chosen, composeTasks, composeBounds, composeFlags,
  projectRole, projectRows, projectPage, projectTasks, projectBounds, projectFlags,
  subjectRole, subjectRows, subjectPage, sentTo, subjectTasks, subjectBounds, subjectFlags,
  detailRole, detailRows, detailPage, detailTasks, detailBounds, detailFlags,
  accountRows, accountPage, accountTasks, accountBounds, accountFlags,
  stored, shell, profileTasks, profileBounds, profileFlags

Center == INSTANCE NotificationCenter WITH
  Marks <- MarkCalls, MaxClicks <- FewClicks, server <- inbox, page <- listPage,
  clicks <- centerClicks, faults <- centerFaults

Compose == INSTANCE NotificationCompose WITH
  MaxClicks <- FewClicks,
  page <- composePage, tasks <- composeTasks, bounds <- composeBounds, flags <- composeFlags

(* The teacher teaches one of the two projects.                                *)
ProjectOf == [t \in OwnTeams \cup OtherTeams |-> IF t \in OwnTeams THEN OwnProject ELSE OtherProject]

Project == INSTANCE ProjectPage WITH
  Projects <- {OwnProject, OtherProject}, Teams <- OwnTeams \cup OtherTeams,
  Taught <- {OwnProject}, Marks <- Scores,
  role <- projectRole, server <- projectRows, page <- projectPage,
  tasks <- projectTasks, bounds <- projectBounds, flags <- projectFlags

Subject == INSTANCE SubjectsPage WITH
  role <- subjectRole, server <- subjectRows, page <- subjectPage,
  tasks <- subjectTasks, bounds <- subjectBounds, flags <- subjectFlags

Detail == INSTANCE SubjectDetailPage WITH
  Me <- Teacher,
  role <- detailRole, server <- detailRows, page <- detailPage,
  tasks <- detailTasks, bounds <- detailBounds, flags <- detailFlags

Account == INSTANCE AdminUsersPage WITH
  Me <- Admin, Admins <- {Admin, OtherAdmin},
  EmailOf <- [a \in {Admin, OtherAdmin} |-> IF a = Admin THEN AdminEmail ELSE OtherEmail],
  server <- accountRows, page <- accountPage,
  tasks <- accountTasks, bounds <- accountBounds, flags <- accountFlags

Profile == INSTANCE ProfileDialog WITH
  Images <- Pictures, None <- Null, server <- stored,
  tasks <- profileTasks, bounds <- profileBounds, flags <- profileFlags

(* A page has a list call to make, and Null is none of the values it stands next to.      *)
ASSUME CenterAssumption ==
  /\ IsFiniteSet(Notes) /\ Loads # {}
  /\ Null \notin Notes \cup Center!Copy \cup Center!Pages \cup Center!Calls

(* A source lists users of the directory; the page is mounted, with a batch that is due   *)
(* at some time.                                                                             *)
ASSUME ComposeAssumption == SourceUsers \subseteq Users /\ Times # {} /\ Tasks # {}

(* Null is none of the values it stands next to, and the admins of the beginning are      *)
(* two accounts with an e-mail each.                                                        *)
ASSUME AccountsAssumption ==
  /\ Null \notin Accounts \cup Account!Form \cup Account!Listing \cup Account!Pages
  /\ {Admin, OtherAdmin} \subseteq Accounts /\ {AdminEmail, OtherEmail} \subseteq Emails
  /\ AdminEmail # OtherEmail

(* Null is none of the values it stands next to; a subject is no project, and there is    *)
(* one of each in the beginning.                                                             *)
ASSUME SubjectsAssumption ==
  /\ Null \notin Subjects \cup Projects \cup Texts \cup Subject!Dialogs \cup Subject!Rows
                  \cup Subject!Pages
  /\ Subjects \cap Projects = {}
  /\ Subjects # {} /\ Projects # {} /\ Texts # {}

(* Null is none of the values it stands next to; somebody else studies besides the        *)
(* student who uses the page.                                                                *)
ASSUME ProjectAssumption ==
  /\ Null \notin Students \cup Scores \cup Files \cup {OwnProject, OtherProject}
                  \cup Project!PageState \cup [OwnTeams \cup OtherTeams -> Project!Row]
  /\ Me \in Students /\ Students \ {Me} # {} /\ OwnProject # OtherProject

(* Null is none of the values it stands next to.                                 *)
ASSUME DetailAssumption ==
  /\ Null \notin Subjects \cup Students \cup Teachers \cup Detail!Row \cup Detail!Pages
  /\ Teacher \in Teachers

(* A shell is there or not, and the first password is one.                       *)
ASSUME ProfileAssumption == Null \notin Profile!Shells /\ FirstPassword \in Passwords

center == <<inbox, stream, streamUp, badge, load, latest, toast, lastRead, listPage, loads, marks,
            centerClicks, centerFaults, raced, listRaced>>
compose == <<batch, composePage, chosen, composeTasks, composeBounds, composeFlags>>
project == <<projectRole, projectRows, projectPage, projectTasks, projectBounds, projectFlags>>
subjects == <<subjectRole, subjectRows, subjectPage, sentTo, subjectTasks, subjectBounds, subjectFlags>>
details == <<detailRole, detailRows, detailPage, detailTasks, detailBounds, detailFlags>>
accounts == <<accountRows, accountPage, accountTasks, accountBounds, accountFlags>>
profile == <<stored, shell, profileTasks, profileBounds, profileFlags>>
vars == <<focus, center, compose, project, subjects, details, accounts, profile>>

Init ==
  /\ focus \in {"center", "compose", "project", "subjects", "details", "accounts", "profile"}
  /\ Center!Init /\ Compose!Init /\ Project!Init /\ Subject!Init /\ Detail!Init /\ Account!Init
  /\ Profile!Init
  /\ focus # "project" => projectRole = "student"
  /\ focus # "subjects" => subjectRole = "admin"
  /\ focus # "details" => detailRole = "admin"

Next ==
  \/ /\ focus = "center" /\ Center!Next
     /\ UNCHANGED <<focus, compose, project, subjects, details, accounts, profile>>
  \/ /\ focus = "compose" /\ Compose!Next
     /\ UNCHANGED <<focus, center, project, subjects, details, accounts, profile>>
  \/ /\ focus = "project" /\ Project!Next
     /\ UNCHANGED <<focus, center, compose, subjects, details, accounts, profile>>
  \/ /\ focus = "subjects" /\ Subject!Next
     /\ UNCHANGED <<focus, center, compose, project, details, accounts, profile>>
  \/ /\ focus = "details" /\ Detail!Next
     /\ UNCHANGED <<focus, center, compose, project, subjects, accounts, profile>>
  \/ /\ focus = "accounts" /\ Account!Next
     /\ UNCHANGED <<focus, center, compose, project, subjects, details, profile>>
  \/ /\ focus = "profile" /\ Profile!Next
     /\ UNCHANGED <<focus, center, compose, project, subjects, details, accounts>>

Spec == Init /\ [][Next]_vars

(***************************************************************************)
(* Properties, explained in the modules that state them.                    *)
(***************************************************************************)
(* Every page keeps the types of its state (the useState calls of its component). *)
TypeOK ==
  /\ Center!TypeOK /\ Compose!TypeOK /\ Project!TypeOK /\ Subject!TypeOK
  /\ Detail!TypeOK /\ Account!TypeOK /\ Profile!TypeOK

(* No spinner and no disabled button is left behind, whatever fails: the finally       *)
(* clauses of the pages.                                                                  *)
NeverStuck ==
  /\ Compose!NeverStuck /\ Project!NeverStuck /\ Subject!NeverStuck
  /\ Detail!NeverStuck /\ Account!NeverStuck /\ Profile!NeverStuck

(* The unread counter of AppShell.jsx is the number of unread notifications.   *)
BadgeExact == Center!BadgeExact

(* The list of NotificationsPage.jsx shows what the service has.               *)
ListExact == Center!ListExact

(* A notification that is listed stays listed (NotificationsPage.jsx).         *)
NothingVanishes == Center!NothingVanishes

(* The recipients of a form are those chosen in it (NotificationsPage.jsx).     *)
RecipientsAsChosen == Compose!RecipientsAsChosen

(* Once no task runs, a page shows what the services hold, own writes included: the       *)
(* scheduled batches, the project of the path, the subjects, the subject of the path, the    *)
(* accounts and an open form, the picture in the header.                                        *)
ShownAsStored ==
  /\ Compose!ListAsStored /\ Project!ShowsOwnWrites /\ Subject!ShowsOwnWrites
  /\ Detail!SubjectAsStored /\ Account!AccountsAsStored /\ Profile!AvatarCurrent

(* No draft of a teacher is overwritten by a late answer (ProjectDetailPage.jsx).  *)
NothingOverwritten == Project!NothingOverwritten

(* "Saved n evaluations" means that n are saved (ProjectDetailPage.jsx).         *)
AllSaved == Project!AllSaved

(* What the client reports is true: a message of success in the profile dialog          *)
(* (AppShell.jsx), and being sent to one's team after creating it (SubjectsPage.jsx).      *)
SuccessTrue == Profile!SuccessTrue /\ Subject!SentToOwnTeam

(* Teachers grade their own projects and remove students from their own subjects only,    *)
(* which the pages decide, by copies that may be about to be replaced                        *)
(* (ProjectDetailPage.jsx, SubjectDetailPage.jsx).                                              *)
TeachersOwnOnly == [][Project!GradesOwn /\ Detail!RemovesOwn]_vars

(* What the pages and the checks of the services keep true of the rows together: who is   *)
(* in a team is registered for its subject, no project loses its subject, an admin             *)
(* remains, and two accounts have two e-mails.                                                    *)
ServicesSound ==
  /\ Subject!TeamsAreRegistered /\ Subject!NoOrphans
  /\ Account!AdminRemains /\ Account!EmailsUnique
=============================================================================
