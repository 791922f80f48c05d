----------------------------- MODULE ProfileDialog -----------------------------
(***************************************************************************)
(* AppShell.jsx: the picture of the signed-in user in the header, and the dialog in   *)
(* which they change it and their password.  Who signs out and in again gets a new      *)
(* shell, while the calls of the old one go on.                                           *)
(*                                                                                         *)
(* A password form is what it holds by the click; a wrong current password is None, which    *)
(* is also the picture of who has set none.  Image requests are always answered.              *)
(***************************************************************************)
EXTENDS Naturals, FiniteSets

CONSTANTS
  Images, Passwords,
  FirstPassword,
  Tasks,          \* slots for calls (bound)
  MaxClicks,      \* bound: shells and saves
  MaxFaults,      \* bound: calls that fail
  MaxElsewhere,   \* bound: pictures set in another browser
  None

VARIABLES
  server,    \* the user's picture and password, as the auth service stores them
  shell,     \* the state of the mounted shell, or None
  tasks, bounds, flags

vars == <<server, shell, tasks, bounds, flags>>

NoTask == [kind |-> "none"]

(* stale: the picture was changed behind the shell's back since it was fetched, or a save of   *)
(* it failed, perhaps after its write; late: something was written behind its back.               *)
NoFlags == [stale |-> FALSE, late |-> FALSE]

Running == {k \in Tasks : tasks[k].kind # "none"}
Attached(k) == k \in Running /\ tasks[k].mounted

Click == bounds.clicks < MaxClicks /\ bounds' = [bounds EXCEPT !.clicks = @ + 1]

(* The slots are alike: a new task takes the free one that CHOOSE names.        *)
Slot == CHOOSE k \in Tasks : tasks[k] = NoTask

Start(kind, current, value) ==
  /\ Running # Tasks
  /\ tasks' = [tasks EXCEPT ![Slot] = [kind |-> kind, phase |-> "asked", current |-> current,
                                       value |-> value, mounted |-> TRUE]]

Init ==
  /\ server = [avatar |-> None, password |-> FirstPassword]
  /\ shell = None /\ tasks = [k \in Tasks |-> NoTask]
  /\ bounds = [clicks |-> 0, faults |-> 0, elsewhere |-> 0]
  /\ flags = NoFlags

(* fetching: the version in the picture's address is new, so the browser asks for it;       *)
(* claimed: the value that the message on show says is saved.                                  *)
Mount ==
  /\ shell = None /\ Click
  /\ shell' = [fetching |-> TRUE, avatar |-> None, open |-> FALSE, pending |-> None,
               savingAvatar |-> FALSE, savingPassword |-> FALSE, success |-> "none",
               claimed |-> None]
  /\ UNCHANGED <<server, tasks, flags>>

Unmount ==
  /\ shell # None /\ shell' = None
  /\ tasks' = [k \in Tasks |-> IF k \in Running THEN [tasks[k] EXCEPT !.mounted = FALSE]
                               ELSE NoTask]
  /\ UNCHANGED <<server, bounds, flags>>

FetchAvatar ==
  /\ shell # None /\ shell.fetching
  /\ shell' = [shell EXCEPT !.fetching = FALSE, !.avatar = server.avatar]
  /\ flags' = [flags EXCEPT !.stale = FALSE]
  /\ UNCHANGED <<server, tasks, bounds>>

(***************************************************************************)
(* The dialog.                                                              *)
(***************************************************************************)
Quietly == UNCHANGED <<server, tasks, bounds, flags>>
Silent == [shell EXCEPT !.success = "none", !.claimed = None]
ProfileShown == shell # None /\ shell.open

(* The dialog is modal: the menu is out of reach while it is open.              *)
OpenProfileDialog ==
  /\ shell # None /\ ~shell.open
  /\ shell' = [Silent EXCEPT !.open = TRUE, !.pending = None] /\ Quietly

CloseProfileDialog == ProfileShown /\ shell' = [shell EXCEPT !.open = FALSE] /\ Quietly

(* The picture, its buttons and the file input.                                 *)
CanChangeAvatar == ProfileShown /\ ~shell.savingAvatar

(* A file of another type, or an empty one, is refused.                         *)
HandleAvatarSelected(image) ==
  /\ CanChangeAvatar
  /\ shell' = IF image = None THEN Silent
              ELSE [Silent EXCEPT !.pending = image, !.success = "selected"]
  /\ Quietly

HandleAvatarApply ==
  /\ CanChangeAvatar /\ shell.pending # None
  /\ Click /\ Start("avatar", None, shell.pending)
  /\ shell' = [Silent EXCEPT !.savingAvatar = TRUE]
  /\ UNCHANGED <<server, flags>>

HandleAvatarReset ==
  /\ CanChangeAvatar
  /\ Click /\ Start("avatar", None, None)
  /\ shell' = [Silent EXCEPT !.savingAvatar = TRUE, !.pending = None]
  /\ UNCHANGED <<server, flags>>

(* What the fields may hold by the click: the current password or another, and a new one.  *)
Typed == {server.password, None} \X Passwords

CanSavePassword_WhileSaving == ProfileShown

CanSavePassword == ProfileShown /\ ~shell.savingPassword

(* A form that is incomplete, or whose two new passwords differ, goes nowhere.  *)
HandlePasswordChange ==
  /\ CanSavePassword
  /\ \/ shell' = Silent /\ Quietly
     \/ /\ Click
        /\ \E typed \in Typed : Start("password", typed[1], typed[2])
        /\ shell' = [Silent EXCEPT !.savingPassword = TRUE]
        /\ UNCHANGED <<server, flags>>

(***************************************************************************)
(* The code behind the awaits.                                              *)
(***************************************************************************)
Finish(k, p) ==
  /\ tasks' = [tasks EXCEPT ![k] = NoTask]
  /\ shell' = IF tasks[k].mounted THEN p ELSE shell
  /\ UNCHANGED <<server, bounds, flags>>

Released(k, p) ==
  IF tasks[k].kind = "avatar" THEN [p EXCEPT !.savingAvatar = FALSE]
  ELSE [p EXCEPT !.savingPassword = FALSE]

Succeeded(k) ==
  Released(k, [shell EXCEPT !.success = tasks[k].kind, !.claimed = tasks[k].value])

Answered(k, kind) == k \in Running /\ tasks[k].kind = kind /\ tasks[k].phase = "done"

AvatarAnswered_SameVersion(k) ==
  /\ Answered(k, "avatar") /\ Finish(k, [Succeeded(k) EXCEPT !.pending = None])

(* The new version makes the browser ask for the picture again, everywhere.     *)
AvatarAnswered(k) ==
  /\ Answered(k, "avatar")
  /\ Finish(k, [Succeeded(k) EXCEPT !.pending = None, !.fetching = TRUE])

PasswordAnswered(k) == Answered(k, "password") /\ Finish(k, Succeeded(k))

SaveFailed(k) == k \in Running /\ tasks[k].phase = "failed" /\ Finish(k, Released(k, shell))

(***************************************************************************)
(* The auth service, which looks before it writes.                          *)
(***************************************************************************)
Move(k, phase) == tasks' = [tasks EXCEPT ![k].phase = phase]

ServeAvatar(k) ==
  /\ k \in Running /\ tasks[k].kind = "avatar" /\ tasks[k].phase = "asked"
  /\ server' = [server EXCEPT !.avatar = tasks[k].value] /\ Move(k, "done")
  /\ flags' = IF tasks[k].mounted THEN flags ELSE [stale |-> TRUE, late |-> TRUE]
  /\ UNCHANGED <<shell, bounds>>

CheckPassword(k) ==
  /\ k \in Running /\ tasks[k].kind = "password" /\ tasks[k].phase = "asked"
  /\ Move(k, IF tasks[k].current = server.password /\ tasks[k].value # tasks[k].current
             THEN "checked" ELSE "failed")
  /\ UNCHANGED <<server, shell, bounds, flags>>

ChangePassword(k) ==
  /\ k \in Running /\ tasks[k].phase = "checked"
  /\ server' = [server EXCEPT !.password = tasks[k].value] /\ Move(k, "done")
  /\ flags' = [flags EXCEPT !.late = @ \/ ~tasks[k].mounted]
  /\ UNCHANGED <<shell, bounds>>

CallFails(k) ==
  /\ bounds.faults < MaxFaults /\ bounds' = [bounds EXCEPT !.faults = @ + 1]
  /\ k \in Running /\ tasks[k].phase # "failed" /\ Move(k, "failed")
  /\ flags' = [flags EXCEPT !.stale = @ \/ tasks[k].kind = "avatar"]
  /\ UNCHANGED <<server, shell>>

Elsewhere ==
  /\ bounds.elsewhere < MaxElsewhere
  /\ bounds' = [bounds EXCEPT !.elsewhere = @ + 1]
  /\ \E image \in (Images \cup {None}) \ {server.avatar} :
       server' = [server EXCEPT !.avatar = image]
  /\ flags' = [stale |-> TRUE, late |-> TRUE]
  /\ UNCHANGED <<shell, tasks>>

Next ==
  \/ Mount \/ Unmount \/ FetchAvatar \/ OpenProfileDialog \/ CloseProfileDialog
  \/ \E image \in Images \cup {None} : HandleAvatarSelected(image)
  \/ HandleAvatarApply \/ HandleAvatarReset \/ HandlePasswordChange \/ Elsewhere
  \/ \E k \in Tasks : \/ AvatarAnswered(k) \/ PasswordAnswered(k) \/ SaveFailed(k)
                      \/ ServeAvatar(k) \/ CheckPassword(k) \/ ChangePassword(k) \/ CallFails(k)

Spec == Init /\ [][Next]_vars

(***************************************************************************)
(* Properties.                                                              *)
(***************************************************************************)
Shells == [fetching : BOOLEAN, avatar : Images \cup {None}, open : BOOLEAN,
           pending : Images \cup {None}, savingAvatar : BOOLEAN, savingPassword : BOOLEAN,
           success : {"none", "selected", "password", "avatar"},
           claimed : Images \cup Passwords \cup {None}]

(* The variables keep their types (AppShell.jsx:153-174).                      *)
TypeOK ==
  /\ server \in [avatar : Images \cup {None}, password : Passwords]
  /\ shell \in Shells \cup {None}
  /\ \A k \in Running :
       /\ tasks[k].kind \in {"avatar", "password"}
       /\ tasks[k].phase \in {"asked", "checked", "done", "failed"}
       /\ tasks[k].mounted => shell # None

(* Disabled buttons have a call behind them that will enable them, whatever fails: the     *)
(* finally clauses of AppShell.jsx:335, :389 and :416.                                       *)
NeverStuck ==
  shell # None =>
    /\ shell.savingAvatar => \E k \in Tasks : Attached(k) /\ tasks[k].kind = "avatar"
    /\ shell.savingPassword => \E k \in Tasks : Attached(k) /\ tasks[k].kind = "password"

(* Once no save of it runs and its address has been asked for, the picture in the header      *)
(* is the stored one, although the browser keeps what it has fetched (:385, :412); unless a       *)
(* save failed or the picture was changed by a call of an earlier shell or in another browser.      *)
AvatarCurrent ==
  shell # None /\ ~shell.fetching /\ ~flags.stale
    /\ ~(\E k \in Tasks : Attached(k) /\ tasks[k].kind = "avatar") => shell.avatar = server.avatar

(* A message that something was saved is true while it is on show, although the two halves of    *)
(* the dialog share it and the service checks the old password before it writes (:311-419;          *)
(* service.rs:423-436): nothing but the disabled buttons keeps two saves of one kind apart.            *)
(* Exempt are writes of an earlier shell's calls and of another browser.                                 *)
SuccessTrue ==
  shell # None /\ ~flags.late =>
    /\ shell.success = "password" => server.password = shell.claimed
    /\ shell.success = "avatar" => server.avatar = shell.claimed
=============================================================================
