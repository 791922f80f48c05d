-------------------------- MODULE NotificationCenter --------------------------
(***************************************************************************)
(* What a signed-in user sees of the notifications: the counter and the toast   *)
(* of AppShell.jsx and the list of NotificationsPage.jsx, which is mounted while   *)
(* the path is /notifications.  Each keeps copies of its own, filled by list calls,  *)
(* by the stream and by the answers to "mark as read".  React drops what an            *)
(* unmounted page sets; the shell stays mounted.                                        *)
(***************************************************************************)
EXTENDS Naturals, Sequences, FiniteSets

CONSTANTS
  Notes,      \* notifications of the user
  Delivered,  \* those that are in the list before the user signs in
  Marks,      \* slots for mark-as-read calls on their way (bound)
  Loads,      \* slots for list calls of the page on their way (bound)
  MaxClicks,  \* bound: page visits, marks and reloads
  MaxFaults,  \* bound: failed calls and a broken stream
  Null

VARIABLES
  server,     \* "absent" (not delivered), "unread" or "read", per notification
  stream,     \* records sent to this client and not yet received, in order
  streamUp,
  badge, load,               \* the counter and the list call behind it
  latest, toast, lastRead,   \* the last record of the stream, its toast, the last one read
  page,       \* the mounted notifications page, or Null
  loads,      \* the page's list calls
  marks,      \* mark-as-read calls of the shell and of the page
  clicks, faults,
  raced, listRaced  \* history: something overlapped that may upset the counter, the list

shell == <<badge, load, latest, toast, lastRead>>
pageVars == <<page, loads>>
channel == <<stream, streamUp>>
bounds == <<clicks, faults>>
history == <<raced, listRaced>>
vars == <<server, channel, shell, pageVars, marks, bounds, history>>

Status == {"absent", "unread", "read"}
Copy == [id : Notes, status : {"unread", "read"}]
Pages == [list : [Notes -> Status], loading : BOOLEAN]
Calls == [by : {"shell", "page"}, id : Notes, mounted : BOOLEAN, stage : {"asked", "ok", "failed"}]
Unread == Cardinality({n \in Notes : server[n] = "unread"})

Busy == \E m \in Marks : marks[m] # Null
Marking(n) == \E m \in Marks : marks[m] # Null /\ marks[m].id = n
ListPending == \E l \in Loads : loads[l].stage # "none"
ListRead == \E l \in Loads : loads[l].stage = "ok"

NoLoad == [stage |-> "none"]
Asked == [stage |-> "asked"]
(* Slots are alike: a new call takes the free one that CHOOSE names.             *)
FreeLoad == CHOOSE l \in Loads : loads[l] = NoLoad
FreeMark == CHOOSE m \in Marks : marks[m] = Null

Click == clicks < MaxClicks /\ clicks' = clicks + 1 /\ UNCHANGED faults

MergeStreamed_KeepsOld(p, copy) ==
  IF p = Null \/ copy = Null THEN p
  ELSE [p EXCEPT !.list[copy.id] = IF @ = "absent" THEN copy.status ELSE @, !.loading = FALSE]

MergeStreamed_Replaces(p, copy) ==
  IF p = Null \/ copy = Null THEN p
  ELSE [p EXCEPT !.list = [n \in Notes |-> IF n = copy.id THEN copy.status ELSE "absent"],
                 !.loading = FALSE]

(* The effect on latestStreamedNotification: the copy is put into the list, over  *)
(* what the list has, and the page is no longer loading.                          *)
MergeStreamed(p, copy) ==
  IF p = Null \/ copy = Null THEN p
  ELSE [p EXCEPT !.list[copy.id] = copy.status, !.loading = FALSE]

(* The effect on lastReadNotificationId, and the same map after a mark.            *)
MergeRead(p, n) ==
  IF p = Null \/ n = Null THEN p
  ELSE [p EXCEPT !.list[n] = IF @ = "absent" THEN @ ELSE "read"]

Init ==
  /\ server = [n \in Notes |-> IF n \in Delivered THEN "unread" ELSE "absent"]
  /\ stream = <<>> /\ streamUp = TRUE
  /\ badge = 0 /\ load = Asked
  /\ latest = Null /\ toast = FALSE /\ lastRead = Null
  /\ page = Null /\ loads = [l \in Loads |-> NoLoad]
  /\ marks = [m \in Marks |-> Null]
  /\ clicks = 0 /\ faults = 0
  /\ raced = FALSE /\ listRaced = FALSE

(***************************************************************************)
(* The shell.                                                               *)
(***************************************************************************)
(* The counter is loaded whenever the path changes; the clean-up of the effect   *)
(* drops the answer to the call before.                                           *)
Navigate ==
  /\ load' = Asked
  /\ raced' = (stream # <<>> \/ Busy)
  /\ UNCHANGED <<server, channel, badge, latest, toast, lastRead>>

(* A page that mounts asks for the list, and its effects run on the copies that     *)
(* the shell has.                                                                   *)
OpenPage ==
  /\ page = Null /\ Navigate /\ Click
  /\ page' = MergeRead(MergeStreamed([list |-> [n \in Notes |-> "absent"], loading |-> TRUE],
                                     latest), lastRead)
  /\ loads' = [loads EXCEPT ![FreeLoad] = Asked]
  /\ listRaced' = ~streamUp
  /\ UNCHANGED marks

LeavePage ==
  /\ page # Null /\ Navigate /\ UNCHANGED bounds
  /\ page' = Null /\ loads' = [l \in Loads |-> NoLoad]
  /\ marks' = [m \in Marks |->
                 IF marks[m] = Null THEN Null ELSE [marks[m] EXCEPT !.mounted = FALSE]]
  /\ UNCHANGED listRaced

BadgeAnswered ==
  /\ load.stage \in {"ok", "failed"}
  /\ badge' = IF load.stage = "ok" THEN load.unread ELSE 0
  /\ load' = NoLoad
  /\ UNCHANGED <<server, channel, latest, toast, lastRead, pageVars, marks, bounds, history>>

ReceiveStreamed_CountsAll ==
  /\ stream # <<>>
  /\ latest' = Head(stream) /\ toast' = TRUE
  /\ badge' = badge + 1
  /\ page' = MergeStreamed(page, Head(stream))
  /\ raced' = (raced \/ load.stage = "ok")
  /\ stream' = Tail(stream)
  /\ listRaced' = (listRaced \/ ListRead)
  /\ UNCHANGED <<server, streamUp, load, lastRead, loads, marks, bounds>>

(* onMessage of the subscription.  A record is sent when it is delivered and         *)
(* again when it has been read; only the first counts.                                *)
ReceiveStreamed ==
  /\ stream # <<>>
  /\ LET copy == Head(stream)
     IN /\ latest' = copy /\ toast' = TRUE
        /\ badge' = IF copy.status = "unread" THEN badge + 1 ELSE badge
        /\ page' = MergeStreamed(page, copy)
        /\ raced' = (raced \/ load.stage = "ok")
  /\ stream' = Tail(stream)
  /\ listRaced' = (listRaced \/ ListRead)
  /\ UNCHANGED <<server, streamUp, load, lastRead, loads, marks, bounds>>

HideToast ==
  /\ toast /\ toast' = FALSE
  /\ UNCHANGED <<server, channel, badge, load, latest, lastRead, pageVars, marks, bounds, history>>

(* A second mark, from a copy that is out of date or while the first is on its way,   *)
(* decrements the counter again.                                                     *)
AskMark(by, n) ==
  /\ Click
  /\ \E m \in Marks : marks[m] = Null
  /\ marks' = [marks EXCEPT ![FreeMark] =
       [by |-> by, id |-> n, stage |-> "asked", mounted |-> by = "page"]]
  /\ raced' = (raced \/ server[n] = "read" \/ Marking(n)
                     \/ \E i \in 1..Len(stream) : stream[i].id = n)
  /\ UNCHANGED listRaced

(* A click on the toast reads it; so does one on its close button, for the click     *)
(* bubbles from the button to the alert.                                              *)
OpenToast ==
  /\ toast /\ toast' = FALSE
  /\ IF latest.status = "unread" THEN AskMark("shell", latest.id)
     ELSE UNCHANGED <<marks, bounds, history>>
  /\ UNCHANGED <<server, channel, badge, load, latest, lastRead, pageVars>>

HandleNotificationRead_BelowZero == badge' = badge - 1

HandleNotificationRead == badge' = IF badge = 0 THEN 0 ELSE badge - 1

Answered(m, by) ==
  /\ marks[m] # Null /\ marks[m].by = by /\ marks[m].stage = "ok"
  /\ marks' = [marks EXCEPT ![m] = Null]
  /\ HandleNotificationRead
  /\ raced' = (raced \/ load.stage = "ok")
  /\ listRaced' = (listRaced \/ ListRead)

ShellMarked(m) ==
  LET n == marks[m].id
      own == latest # Null /\ latest.id = n
  IN /\ Answered(m, "shell")
     /\ lastRead' = n
     /\ latest' = IF own THEN [latest EXCEPT !.status = "read"] ELSE latest
     /\ page' = MergeRead(IF own THEN MergeStreamed(page, latest') ELSE page,
                          IF lastRead = n THEN Null ELSE n)
     /\ UNCHANGED <<server, channel, load, toast, loads, bounds>>

(***************************************************************************)
(* The page.                                                                *)
(***************************************************************************)
(* The page is shown once it is not loading; an unread entry can be marked.  *)
MarkReadOnPage ==
  /\ page # Null /\ ~page.loading
  /\ \E n \in Notes : page.list[n] = "unread" /\ AskMark("page", n)
  /\ UNCHANGED <<server, channel, shell, pageVars>>

(* The answer of a call whose page is gone still decrements the counter.      *)
PageMarked(m) ==
  /\ Answered(m, "page")
  /\ page' = IF marks[m].mounted THEN MergeRead(page, marks[m].id) ELSE page
  /\ UNCHANGED <<server, channel, load, latest, toast, lastRead, loads, bounds>>

MarkFailed(m) ==
  /\ marks[m] # Null /\ marks[m].stage = "failed"
  /\ marks' = [marks EXCEPT ![m] = Null]
  /\ UNCHANGED <<server, channel, shell, pageVars, bounds, history>>

(* After a notification is created the page asks for the list again, while an      *)
(* earlier list call may still be on its way.                                       *)
ReloadList ==
  /\ page # Null /\ ~page.loading /\ Click
  /\ \E l \in Loads : loads[l] = NoLoad
  /\ loads' = [loads EXCEPT ![FreeLoad] = Asked]
  /\ UNCHANGED <<server, channel, shell, page, marks, history>>

(* The answer replaces the list, whichever call it belongs to.                  *)
ListAnswered(l) ==
  /\ loads[l].stage \in {"ok", "failed"}
  /\ page' = [page EXCEPT !.loading = FALSE,
                          !.list = IF loads[l].stage = "ok" THEN loads[l].list ELSE @]
  /\ loads' = [loads EXCEPT ![l] = NoLoad]
  /\ listRaced' = (listRaced \/ \E k \in Loads \ {l} : loads[k].stage = "ok")
  /\ UNCHANGED <<server, channel, shell, marks, bounds, raced>>

(***************************************************************************)
(* The notification service and another device of the user.                 *)
(***************************************************************************)
Send(n, status) ==
  stream' = IF streamUp THEN Append(stream, [id |-> n, status |-> status]) ELSE stream

Deliver(n) ==
  /\ server[n] = "absent" /\ server' = [server EXCEPT ![n] = "unread"]
  /\ Send(n, "unread")
  /\ raced' = (raced \/ ~streamUp)
  /\ UNCHANGED <<streamUp, shell, pageVars, marks, bounds, listRaced>>

ReadElsewhere(n) ==
  /\ server[n] = "unread" /\ server' = [server EXCEPT ![n] = "read"]
  /\ Send(n, "read")
  /\ raced' = TRUE
  /\ UNCHANGED <<streamUp, shell, pageVars, marks, bounds, listRaced>>

ServeBadge ==
  /\ load.stage = "asked" /\ load' = [stage |-> "ok", unread |-> Unread]
  /\ raced' = (raced \/ stream # <<>> \/ \E m \in Marks : marks[m] # Null /\ marks[m].stage = "ok")
  /\ UNCHANGED <<server, channel, badge, latest, toast, lastRead, pageVars, marks, bounds, listRaced>>

ServeList(l) ==
  /\ loads[l].stage = "asked"
  /\ loads' = [loads EXCEPT ![l] = [stage |-> "ok", list |-> server]]
  /\ UNCHANGED <<server, channel, shell, page, marks, bounds, history>>

ServeMark(m) ==
  /\ marks[m] # Null /\ marks[m].stage = "asked"
  /\ marks' = [marks EXCEPT ![m].stage = "ok"]
  /\ server' = [server EXCEPT ![marks[m].id] = "read"]
  /\ Send(marks[m].id, "read")
  /\ UNCHANGED <<streamUp, shell, pageVars, bounds, history>>

(* A call fails, before or after the service has done its work; or the stream       *)
(* ends, and nobody opens it again.                                                 *)
Fault == faults < MaxFaults /\ faults' = faults + 1 /\ UNCHANGED clicks

BadgeFails ==
  /\ Fault /\ load.stage = "asked" /\ load' = [stage |-> "failed"] /\ raced' = TRUE
  /\ UNCHANGED <<server, channel, badge, latest, toast, lastRead, pageVars, marks, listRaced>>

ListFails(l) ==
  /\ Fault /\ loads[l].stage = "asked" /\ loads' = [loads EXCEPT ![l] = [stage |-> "failed"]]
  /\ listRaced' = TRUE
  /\ UNCHANGED <<server, channel, shell, page, marks, raced>>

MarkFails(m) ==
  /\ Fault /\ marks[m] # Null /\ marks[m].stage \in {"asked", "ok"}
  /\ marks' = [marks EXCEPT ![m].stage = "failed"]
  /\ raced' = TRUE
  /\ UNCHANGED <<server, channel, shell, pageVars, listRaced>>

StreamBreaks ==
  /\ Fault /\ streamUp /\ streamUp' = FALSE /\ stream' = <<>>
  /\ raced' = (raced \/ stream # <<>>) /\ listRaced' = TRUE
  /\ UNCHANGED <<server, shell, pageVars, marks>>

Next ==
  \/ OpenPage \/ LeavePage \/ BadgeAnswered \/ ReceiveStreamed \/ HideToast \/ OpenToast
  \/ MarkReadOnPage \/ ReloadList
  \/ \E m \in Marks : ShellMarked(m) \/ PageMarked(m) \/ MarkFailed(m) \/ ServeMark(m) \/ MarkFails(m)
  \/ \E l \in Loads : ListAnswered(l) \/ ServeList(l) \/ ListFails(l)
  \/ \E n \in Notes : Deliver(n) \/ ReadElsewhere(n)
  \/ ServeBadge \/ BadgeFails \/ StreamBreaks

Spec == Init /\ [][Next]_vars

(***************************************************************************)
(* Properties.                                                              *)
(***************************************************************************)
(* The variables keep their types: the counter is never negative (AppShell.jsx:268-270),  *)
(* and a list call is only waited for by a page that is mounted.                            *)
TypeOK ==
  /\ server \in [Notes -> Status]
  /\ stream \in Seq(Copy) /\ streamUp \in BOOLEAN
  /\ badge \in Nat
  /\ load \in [stage : {"none", "asked", "failed"}] \cup [stage : {"ok"}, unread : Nat]
  /\ latest \in Copy \cup {Null} /\ lastRead \in Notes \cup {Null}
  /\ toast \in BOOLEAN /\ (toast => latest # Null)
  /\ page \in Pages \cup {Null}
  /\ loads \in [Loads -> [stage : {"none", "asked", "failed"}]
                          \cup [stage : {"ok"}, list : [Notes -> Status]]]
  /\ (ListPending => page # Null)
  /\ marks \in [Marks -> Calls \cup {Null}]
  /\ clicks \in Nat /\ faults \in Nat /\ raced \in BOOLEAN /\ listRaced \in BOOLEAN

(* Once every answer and every record has arrived, the counter is the number of unread     *)
(* notifications: records that announce, records that repeat, list answers and marks of       *)
(* two components add up (AppShell.jsx:176-221, :268-270).  The exceptions are those of          *)
(* "raced": a copy overtaken between the service and the browser, a second mark of one           *)
(* notification, another device, a failure.                                                       *)
BadgeExact == ~raced /\ load.stage = "none" /\ ~Busy /\ stream = <<>> => badge = Unread

(* The list of the mounted page is that of the service once everything has arrived, however    *)
(* list answers, streamed records and marks were interleaved (NotificationsPage.jsx:221-301),     *)
(* unless a list answer was overtaken between the service and the browser, or a call failed.       *)
ListExact ==
  page # Null /\ ~listRaced /\ ~ListPending /\ ~Busy /\ stream = <<>> => page.list = server

(* A notification does not disappear from the list of a mounted page, though every list answer    *)
(* replaces the whole list (NotificationsPage.jsx:221-224).                                            *)
NothingVanishes ==
  [][page # Null /\ page' # Null /\ ~listRaced' =>
       \A n \in Notes : page.list[n] # "absent" => page'.list[n] # "absent"]_vars
=============================================================================
