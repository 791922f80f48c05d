-------------------------- MODULE NotificationService --------------------------
(***************************************************************************)
(* The handlers of the notification service, its delivery loop, and what    *)
(* may go wrong under them.  Their work on the store is in NotificationStore. *)
(***************************************************************************)
EXTENDS NotificationStore

(***************************************************************************)
(* The handlers begin.                                                      *)
(***************************************************************************)
Call(w) == Free(w) /\ calls < MaxCalls /\ calls' = calls + 1

(* Ids are random UUIDs: an id is new if no key and no handler has it. *)
Fresh(b) ==
  /\ scheduledBatches[b] = Null
  /\ \A u \in Users : notifications[<<b, u>>] = Null
  /\ \A w \in Threads : ~Free(w) => job[w].batch # b

(* Mutant: the batch and its keys are saved before the notifications. *)
CreateNotification_BatchFirst(w, b, users, c, t) ==
  /\ Call(w) /\ Fresh(b) /\ users # {}
  /\ LET delivered == IF t <= now THEN now ELSE Null
         row == [creator |-> c, users |-> users, trigger |-> t, delivered |-> Null,
                 cancelled |-> FALSE]
     IN Begin(w, [Blank("create") EXCEPT
                    !.stage = IF t <= now THEN "records" ELSE "row",
                    !.batch = b, !.row = row, !.left = users,
                    !.rec = [trigger |-> t, delivered |-> delivered, cancelled |-> FALSE,
                             read |-> FALSE]])
  /\ UNCHANGED <<store, arrivals, timer, now, faults>>

(* A trigger time that is not in the future means immediate delivery: the    *)
(* row then only names the recipients, it is never written.                  *)
CreateNotification(w, b, users, c, t) ==
  /\ Call(w) /\ Fresh(b) /\ users # {}
  /\ LET delivered == IF t <= now THEN now ELSE Null
         row == [creator |-> c, users |-> users, trigger |-> t, delivered |-> Null,
                 cancelled |-> FALSE]
     IN Begin(w, [Blank("create") EXCEPT
                    !.batch = b, !.row = row, !.left = users,
                    !.rec = [trigger |-> t, delivered |-> delivered, cancelled |-> FALSE,
                             read |-> FALSE]])
  /\ UNCHANGED <<store, arrivals, timer, now, faults>>

(* Mutant: the scan returns the ids, as the value of the key does, without the times. *)
DueKeys_Ids == {k[2] : k \in {key \in scheduledByTime : key[1] <= now}}
(* Mutant: the boundary of the scan is off by one. *)
DueKeys_Early == {k \in scheduledByTime : k[1] <= now + 1}

(* The keys of scheduled_by_time that are due, found by a scan of a snapshot. *)
DueKeys == {k \in scheduledByTime : k[1] <= now}

Delivery(byLoop) ==
  [Blank("deliver") EXCEPT !.stage = "due", !.due = DueKeys, !.at = now, !.loop = byLoop]

(* ListNotifications, ListScheduledNotifications and StreamNotifications      *)
(* deliver what is due before they read.                                      *)
DeliverDueNotifications(w) ==
  /\ Call(w)
  /\ Begin(w, Delivery(FALSE))
  /\ UNCHANGED <<store, arrivals, timer, now, faults>>

(* A change of a batch reads it, refuses if it is not the caller's or not     *)
(* pending, and then works with the copy it has read.                         *)
Change(op, b, row) ==
  [Blank(op) EXCEPT !.stage = "untime", !.batch = b, !.row = row,
                    !.from = scheduledBatches[b].trigger, !.left = row.users]

(* Mutant: a delivered batch is not refused. *)
CancelScheduledBatch_AnyTime(w, b, c) ==
  /\ Call(w) /\ scheduledBatches[b] # Null /\ ~scheduledBatches[b].cancelled
  /\ scheduledBatches[b].creator = c
  /\ Begin(w, Change("cancel", b, [scheduledBatches[b] EXCEPT !.cancelled = TRUE]))
  /\ UNCHANGED <<store, arrivals, timer, now, faults>>

CancelScheduledBatch(w, b, c) ==
  /\ Call(w) /\ Pending(b) /\ scheduledBatches[b].creator = c
  /\ Begin(w, Change("cancel", b, [scheduledBatches[b] EXCEPT !.cancelled = TRUE]))
  /\ UNCHANGED <<store, arrivals, timer, now, faults>>

(* Mutant: a batch that is no longer pending is not refused. *)
RescheduleScheduledBatch_Reopens(w, b, c, t) ==
  /\ Call(w) /\ scheduledBatches[b] # Null /\ scheduledBatches[b].creator = c
  /\ Begin(w, Change("reschedule", b, [scheduledBatches[b] EXCEPT !.trigger = t,
                                                                 !.cancelled = FALSE]))
  /\ UNCHANGED <<store, arrivals, timer, now, faults>>

RescheduleScheduledBatch(w, b, c, t) ==
  /\ Call(w) /\ Pending(b) /\ scheduledBatches[b].creator = c
  /\ Begin(w, Change("reschedule", b, [scheduledBatches[b] EXCEPT !.trigger = t]))
  /\ UNCHANGED <<store, arrivals, timer, now, faults>>

(* Mutant: the record is sent as it was read from the store. *)
MarkAsRead_SendsUnread(w, b, u) ==
  /\ Call(w) /\ notifications[<<b, u>>] # Null
  /\ Begin(w, [Blank("read") EXCEPT !.stage = "record", !.batch = b, !.left = {u}, !.user = u,
                                    !.rec = notifications[<<b, u>>]])
  /\ UNCHANGED <<store, arrivals, timer, now, faults>>

MarkAsRead(w, b, u) ==
  /\ Call(w) /\ notifications[<<b, u>>] # Null
  /\ Begin(w, [Blank("read") EXCEPT !.stage = "record", !.batch = b, !.left = {u}, !.user = u,
                                    !.rec = [notifications[<<b, u>>] EXCEPT !.read = TRUE]])
  /\ UNCHANGED <<store, arrivals, timer, now, faults>>

(***************************************************************************)
(* The delivery loop, the clock, and faults.                                *)
(***************************************************************************)
LoopDelivers(w) ==
  /\ loop = "ready" /\ Free(w)
  /\ Begin(w, Delivery(TRUE))
  /\ loop' = "busy"
  /\ UNCHANGED <<store, arrivals, alarm, permit, now, counters>>

(* next_scheduled_trigger_at and the sleep.  A key that is already due makes   *)
(* the loop poll (every 100 ms, less than a unit of time here).                *)
NextAlarm ==
  IF scheduledByTime = {} THEN now + IdleSleep
  ELSE LET first == CHOOSE k \in scheduledByTime : \A other \in scheduledByTime : k[1] <= other[1]
       IN IF first[1] <= now THEN now ELSE first[1]

LoopSleeps(w) ==
  /\ At(w, "due") /\ job[w].due = {} /\ job[w].loop
  /\ End(w)
  /\ loop' = "asleep" /\ alarm' = NextAlarm
  /\ UNCHANGED <<store, arrivals, permit, now, counters>>

AlarmRings ==
  /\ loop = "asleep" /\ alarm <= now
  /\ loop' = "ready" /\ alarm' = 0
  /\ UNCHANGED <<store, arrivals, job, permit, now, counters>>

SchedulerNotified ==
  /\ loop = "asleep" /\ permit
  /\ loop' = "ready" /\ alarm' = 0 /\ permit' = FALSE
  /\ UNCHANGED <<store, arrivals, job, now, counters>>

Tick ==
  /\ now < MaxTime
  /\ now' = now + 1
  /\ UNCHANGED <<store, arrivals, job, timer, counters>>

Fault == faults < MaxFaults /\ faults' = faults + 1

(* A store call returns an error, and with ? so does the operation: what it    *)
(* has written stays.  The loop logs the error and goes on to its sleep, which *)
(* is short (one second) if it is the search for the next trigger that failed.  *)
Fail(w) ==
  /\ Fault /\ ~Free(w) /\ job[w].stage \notin {"send", "publish"}
  /\ IF job[w].loop
     THEN Begin(w, [Delivery(TRUE) EXCEPT !.due = {}, !.at = job[w].at])
     ELSE End(w)
  /\ UNCHANGED <<store, arrivals, timer, now, calls>>

LoopFails(w) ==
  /\ Fault /\ At(w, "due") /\ job[w].due = {} /\ job[w].loop
  /\ End(w)
  /\ loop' = "asleep" /\ alarm' = now
  /\ UNCHANGED <<store, arrivals, permit, now, calls>>

(* The process dies and is started again.  The keyspaces share a journal, so   *)
(* what is recovered is the store as it was after some write that no caller    *)
(* has had an answer to; dying after that write is the same.                   *)
Crash ==
  /\ Fault
  /\ job' = [w \in Threads |-> Null]
  /\ loop' = "ready" /\ alarm' = 0 /\ permit' = FALSE
  /\ UNCHANGED <<store, arrivals, now, calls>>

Handler(w) ==
  \/ \E b \in Batches, users \in SUBSET Users, c \in Creators, t \in Time :
       CreateNotification(w, b, users, c, t)
  \/ DeliverDueNotifications(w)
  \/ \E b \in Batches, c \in Creators : CancelScheduledBatch(w, b, c)
  \/ \E b \in Batches, c \in Creators, t \in Time : RescheduleScheduledBatch(w, b, c, t)
  \/ \E b \in Batches, u \in Users : MarkAsRead(w, b, u)

Step(w) ==
  BatchStep(w) \/ RecordStep(w) \/ WakeScheduler(w) \/ EndDelivery(w) \/ LoopSleeps(w)

Next ==
  \/ \E w \in Threads : Handler(w) \/ LoopDelivers(w) \/ Step(w) \/ Fail(w) \/ LoopFails(w)
  \/ AlarmRings \/ SchedulerNotified \/ Tick \/ Crash

Spec == Init /\ [][Next]_vars

(* A running operation runs on; a loop that is ready waits in the queue of the *)
(* runtime, which serves its tasks in turn; timers fire and time passes.       *)
Fairness ==
  /\ \A w \in Threads : WF_vars(Step(w))
  /\ SF_vars(\E w \in Threads : LoopDelivers(w))
  /\ WF_vars(AlarmRings \/ SchedulerNotified)
  /\ WF_vars(Tick)

FairSpec == Spec /\ Fairness

(***************************************************************************)
(* Properties.                                                              *)
(***************************************************************************)
(* The variables keep their types: in particular every copy an operation works *)
(* with is a whole row or a whole record (store.rs:11-34).                      *)
TypeOK ==
  /\ notifications \in [Notifications -> Record \cup {Null}]
  /\ userIndex \subseteq Notifications \X Time
  /\ scheduledBatches \in [Batches -> Batch \cup {Null}]
  /\ scheduledByTime \subseteq Time \X Batches
  /\ scheduledByCreator \subseteq Creators \X Time \X Batches
  /\ arrivals \in [Notifications -> 0 .. Many]
  /\ job \in [Threads -> Job \cup {Null}]
  /\ loop \in {"ready", "busy", "asleep"} /\ alarm \in Nat /\ permit \in BOOLEAN
  /\ now \in Time /\ calls \in 0 .. MaxCalls /\ faults \in 0 .. MaxFaults

(* save_notification_batch writes the records, then the batch, then its keys,  *)
(* so that no fault and no other operation ever meets a key without a batch, a *)
(* batch without all its notifications, or a listing without a record.         *)
NothingDangles ==
  /\ \A b \in Batches : scheduledBatches[b] # Null =>
       \A u \in scheduledBatches[b].users : notifications[<<b, u>>] # Null
  /\ \A k \in scheduledByTime : scheduledBatches[k[2]] # Null
  /\ \A k \in scheduledByCreator : scheduledBatches[k[3]] # Null
  /\ \A k \in userIndex : notifications[k[1]] # Null

(* A thread works with a copy of the batch, and is about to write it back pending. *)
Holds(w, b) == ~Free(w) /\ job[w].batch = b
HoldsPending(w, b) ==
  Holds(w, b) /\ job[w].stage \in {"untime", "uncreator", "row"} /\ IsPending(job[w].row)

(* However the operations interleave, as long as no store call has failed, a   *)
(* batch that is pending is found by the delivery loop and by its creator: both *)
(* keys are there, or an operation that has taken them away is about to write   *)
(* the batch or to put them back.                                               *)
Unindexes(w, b) == Holds(w, b) /\ job[w].stage \in {"uncreator", "row"}
Indexes(w, b) ==
  /\ Holds(w, b) /\ job[w].stage \in {"time", "creator"}
  /\ job[w].row.trigger = scheduledBatches[b].trigger
  /\ job[w].row.creator = scheduledBatches[b].creator

PendingIsIndexed ==
  faults = 0 =>
    \A b \in Batches : Pending(b) =>
      LET row == scheduledBatches[b]
      IN \/ /\ <<row.trigger, b>> \in scheduledByTime
            /\ <<row.creator, row.trigger, b>> \in scheduledByCreator
         \/ \E w \in Threads : Unindexes(w, b) \/ Indexes(w, b)

(* A delivered notification is in its user's list at the time it was delivered, *)
(* unless the operation that has just written it is about to add the key       *)
(* (write_notification).  An operation that failed in between leaves a gap.     *)
DeliveredIsListed ==
  faults = 0 =>
    \A n \in Notifications : notifications[n] # Null /\ notifications[n].delivered # Null =>
      \/ <<n, notifications[n].delivered>> \in userIndex
      \/ \E w \in Threads :
           /\ At(w, "list") /\ <<job[w].batch, job[w].user>> = n
           /\ job[w].rec.delivered = notifications[n].delivered

(* A batch that was delivered or cancelled is never taken up again: it can only *)
(* become pending by a reschedule that had read it before (store.rs:401-411).   *)
(* Once there is none, the decision is final, whatever overlaps or fails.       *)
Settled(b) ==
  /\ scheduledBatches[b] # Null /\ ~Pending(b)
  /\ \A w \in Threads : ~HoldsPending(w, b)
DecisionIsFinal == [][\A b \in Batches : Settled(b) => Settled(b)']_vars

(* What operations that do not overlap guarantee, whatever fails between their *)
(* steps: a user is told of a notification once and finds it once in the list,  *)
(* and a batch that was cancelled has delivered nothing.                        *)
ArrivesOnce == \A n \in Notifications : arrivals[n] # Many

ListedOnce == \A k1, k2 \in userIndex : k1[1] = k2[1] => k1 = k2

CancelledNotDelivered ==
  \A b \in Batches : scheduledBatches[b] # Null /\ scheduledBatches[b].cancelled =>
    \A u \in Users :
      notifications[<<b, u>>] # Null => notifications[<<b, u>>].delivered = Null

(* Under the keys of a pending batch, no other trigger time (a stale key makes *)
(* the loop deliver early, or poll for ever).                                  *)
KeysAreCurrent ==
  \A k \in scheduledByTime : Pending(k[2]) /\ scheduledBatches[k[2]].trigger = k[1]

(* The batches follow the abstract life cycle. *)
Lifecycle == INSTANCE BatchLifecycle WITH
  status <- [b \in Batches |->
               IF scheduledBatches[b] = Null THEN "unknown"
               ELSE IF scheduledBatches[b].cancelled THEN "cancelled"
               ELSE IF scheduledBatches[b].delivered # Null THEN "delivered"
               ELSE "pending"],
  trigger <- [b \in Batches |->
                IF Pending(b) THEN scheduledBatches[b].trigger ELSE 0],
  clock <- now

ImplementsLifecycle == Lifecycle!Spec

(* Scheduling, waking and sleeping fit together: no batch stays due for ever    *)
(* while no cancel and no reschedule works on it.                               *)
Due(b) == Pending(b) /\ scheduledBatches[b].trigger <= now
Untouched(b) == \A w \in Threads : Holds(w, b) => job[w].op = "deliver"
DueIsDelivered == \A b \in Batches : []<>~(Due(b) /\ Untouched(b))
=============================================================================
