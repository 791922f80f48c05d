--------------------------- MODULE NotificationStore ---------------------------
(***************************************************************************)
(* The notification service: a store of notifications and of scheduled      *)
(* batches kept in five keyspaces of an embedded key-value database, the    *)
(* handlers that change it, and the loop that delivers what is due.         *)
(*                                                                         *)
(* Each read, insert or remove of a key is atomic; nothing larger is: there *)
(* is no lock and no write batch.  A handler has no await between its store *)
(* calls, so it keeps a thread of the runtime until it is done, and at most *)
(* Threads operations are under way.  One step below is one access to the   *)
(* database, to the broadcast channel or to the Notify of the loop.         *)
(***************************************************************************)
EXTENDS Integers, FiniteSets

CONSTANTS
  Users, Creators,
  Batches,       (* ids of batches, one per CreateNotification *)
  Threads,       (* worker threads of the tokio runtime *)
  MaxTime,       (* the clock stops here: a bound of the model *)
  IdleSleep,     (* how long the loop sleeps when nothing is scheduled *)
  MaxCalls,      (* how many calls clients make: a bound of the model *)
  MaxFaults,     (* how often a store call fails or the process dies: likewise *)
  Null

Time == 0 .. MaxTime

VARIABLES
  notifications,              (* notification -> NotificationRecord or Null *)
  userIndex,                  (* keys: notification and when it was delivered *)
  scheduledBatches,           (* batch -> ScheduledNotificationBatchRecord or Null *)
  scheduledByTime,            (* keys: trigger time and batch *)
  scheduledByCreator,         (* keys: creator, trigger time and batch *)
  arrivals,                   (* unread records sent, by notification: none, one or many *)
  job,                        (* thread -> the operation it executes, or Null *)
  loop, alarm,                (* the delivery loop, and until when it sleeps *)
  permit,                     (* the permit that Notify keeps for the loop *)
  now,
  calls, faults               (* how many there have been *)

store == <<notifications, userIndex, scheduledBatches, scheduledByTime, scheduledByCreator>>
timer == <<loop, alarm, permit>>
counters == <<calls, faults>>
vars == <<notifications, userIndex, scheduledBatches, scheduledByTime, scheduledByCreator,
          arrivals, job, loop, alarm, permit, now, calls, faults>>

(* One notification per recipient of a batch. *)
Notifications == Batches \X Users
Many == 2

Record ==
  [trigger : Time, delivered : Time \cup {Null}, cancelled : BOOLEAN, read : BOOLEAN]
Batch ==
  [creator : Creators, users : SUBSET Users, trigger : Time,
   delivered : Time \cup {Null}, cancelled : BOOLEAN]

IsPending(row) == row.delivered = Null /\ ~row.cancelled
Pending(b) == scheduledBatches[b] # Null /\ IsPending(scheduledBatches[b])

(* What a thread holds of its operation: the batch and its row as it will be   *)
(* written, the trigger time whose index keys go, the recipients still to be   *)
(* treated, the one in hand and its record, and of a delivery the keys found   *)
(* due and the time at which it began.                                         *)
Operations == {"create", "deliver", "cancel", "reschedule", "read"}
Stages == {"due", "untime", "uncreator", "row", "time", "creator", "records",
           "record", "list", "send", "publish", "wake"}
Job ==
  [op : Operations, stage : Stages, batch : Batches \cup {Null}, row : Batch \cup {Null},
   from : Time, left : SUBSET Users, user : Users \cup {Null}, rec : Record \cup {Null},
   due : SUBSET (Time \X Batches), at : Time, loop : BOOLEAN]

ASSUME NotificationAssumption ==
  /\ MaxTime \in Nat /\ IdleSleep \in Nat /\ MaxCalls \in Nat /\ MaxFaults \in Nat
  /\ Null \notin Time \cup Record \cup Batch \cup Job

Init ==
  /\ notifications = [n \in Notifications |-> Null]
  /\ userIndex = {} /\ scheduledByTime = {} /\ scheduledByCreator = {}
  /\ scheduledBatches = [b \in Batches |-> Null]
  /\ arrivals = [n \in Notifications |-> 0]
  /\ job = [w \in Threads |-> Null]
  /\ loop = "ready" /\ alarm = 0 /\ permit = FALSE
  /\ now = 0 /\ calls = 0 /\ faults = 0

Free(w) == job[w] = Null
At(w, stage) == job[w] # Null /\ job[w].stage = stage
Begin(w, j) == job' = [job EXCEPT ![w] = j]
Goto(w, stage) == job' = [job EXCEPT ![w].stage = stage]
End(w) == job' = [job EXCEPT ![w] = Null]

(* What an operation holds before it has read anything. *)
Blank(op) ==
  [op |-> op, stage |-> "records", batch |-> Null, row |-> Null, from |-> 0, left |-> {},
   user |-> Null, rec |-> Null, due |-> {}, at |-> 0, loop |-> FALSE]

(***************************************************************************)
(* The steps of an operation.                                               *)
(***************************************************************************)
(* A delivery takes the keys it has found in their order.  A batch is read    *)
(* again, and passed over if it is no longer pending.                         *)
NextDue(w, k) ==
  /\ At(w, "due") /\ k \in job[w].due
  /\ \A other \in job[w].due : k[1] <= other[1]

TakeBatch(w, k) ==
  /\ NextDue(w, k) /\ Pending(k[2])
  /\ LET row == scheduledBatches[k[2]]
     IN Begin(w, [job[w] EXCEPT !.stage = "untime", !.batch = k[2], !.from = row.trigger,
                    !.row = [row EXCEPT !.delivered = job[w].at], !.left = row.users,
                    !.due = @ \ {k}])
  /\ UNCHANGED <<store, arrivals, timer, now, counters>>

PassBatch(w, k) ==
  /\ NextDue(w, k) /\ ~Pending(k[2])
  /\ Begin(w, [job[w] EXCEPT !.due = @ \ {k}])
  /\ UNCHANGED <<store, arrivals, timer, now, counters>>

(* Mutant: the new trigger time is set before the keys are removed. *)
UnindexTime_NewTime(w) ==
  /\ At(w, "untime")
  /\ scheduledByTime' = scheduledByTime \ {<<job[w].row.trigger, job[w].batch>>}
  /\ Goto(w, "uncreator")
  /\ UNCHANGED <<notifications, userIndex, scheduledBatches, scheduledByCreator,
                 arrivals, timer, now, counters>>

(* remove_pending_batch_indexes, by the trigger time of the copy. *)
UnindexTime(w) ==
  /\ At(w, "untime")
  /\ scheduledByTime' = scheduledByTime \ {<<job[w].from, job[w].batch>>}
  /\ Goto(w, "uncreator")
  /\ UNCHANGED <<notifications, userIndex, scheduledBatches, scheduledByCreator,
                 arrivals, timer, now, counters>>

UnindexCreator(w) ==
  /\ At(w, "uncreator")
  /\ scheduledByCreator' =
       scheduledByCreator \ {<<job[w].row.creator, job[w].from, job[w].batch>>}
  /\ Goto(w, "row")
  /\ UNCHANGED <<notifications, userIndex, scheduledBatches, scheduledByTime,
                 arrivals, timer, now, counters>>

(* Mutant: a reschedule does not put the keys back. *)
WriteBatch_NoKeys(w) ==
  /\ At(w, "row")
  /\ scheduledBatches' = [scheduledBatches EXCEPT ![job[w].batch] = job[w].row]
  /\ Goto(w, IF job[w].op = "create" THEN "time" ELSE "records")
  /\ UNCHANGED <<notifications, userIndex, scheduledByTime, scheduledByCreator,
                 arrivals, timer, now, counters>>

(* write_batch; add_pending_batch_indexes follows if the row is pending. *)
WriteBatch(w) ==
  /\ At(w, "row")
  /\ scheduledBatches' = [scheduledBatches EXCEPT ![job[w].batch] = job[w].row]
  /\ Goto(w, IF IsPending(job[w].row) THEN "time" ELSE "records")
  /\ UNCHANGED <<notifications, userIndex, scheduledByTime, scheduledByCreator,
                 arrivals, timer, now, counters>>

IndexTime(w) ==
  /\ At(w, "time")
  /\ scheduledByTime' = scheduledByTime \cup {<<job[w].row.trigger, job[w].batch>>}
  /\ Goto(w, "creator")
  /\ UNCHANGED <<notifications, userIndex, scheduledBatches, scheduledByCreator,
                 arrivals, timer, now, counters>>

IndexCreator(w) ==
  /\ At(w, "creator")
  /\ scheduledByCreator' =
       scheduledByCreator \cup {<<job[w].row.creator, job[w].row.trigger, job[w].batch>>}
  /\ Goto(w, IF job[w].op = "create" THEN "wake" ELSE "records")
  /\ UNCHANGED <<notifications, userIndex, scheduledBatches, scheduledByTime,
                 arrivals, timer, now, counters>>

(* One recipient after the other.  A new record needs no read; another        *)
(* operation reads the record, passes it over if it is already decided, and    *)
(* writes its copy back.                                                       *)
Concerns(op, rec) == ~rec.cancelled /\ (op # "cancel" => rec.delivered = Null)

Changed(j, rec) ==
  CASE j.op = "deliver" -> [rec EXCEPT !.delivered = j.at]
    [] j.op = "cancel" -> [rec EXCEPT !.cancelled = TRUE]
    [] j.op = "reschedule" -> [rec EXCEPT !.trigger = j.row.trigger]
    [] OTHER -> j.rec

ReadRecord(w, u) ==
  /\ At(w, "records") /\ u \in job[w].left
  /\ LET j == job[w]
         rec == notifications[<<j.batch, u>>]
     IN IF j.op = "create" \/ (rec # Null /\ Concerns(j.op, rec))
        THEN Begin(w, [j EXCEPT !.stage = "record", !.user = u, !.rec = Changed(j, rec)])
        ELSE Begin(w, [j EXCEPT !.left = @ \ {u}])
  /\ UNCHANGED <<store, arrivals, timer, now, counters>>

RecordDone(j) ==
  [j EXCEPT !.stage = "records", !.left = @ \ {j.user}, !.user = Null,
            !.rec = IF j.op = "create" THEN @ ELSE Null]
Announces(op) == op \in {"deliver", "read"}

(* write_notification: the record, and a key of the user index if it is       *)
(* delivered.  A delivery and a read then send the record to the streams.      *)
AfterRecord(w) ==
  IF Announces(job[w].op) THEN Goto(w, "send") ELSE Begin(w, RecordDone(job[w]))

(* Mutant: only new records get a key in the user index. *)
WriteRecord_Unlisted(w) ==
  /\ At(w, "record")
  /\ notifications' = [notifications EXCEPT ![<<job[w].batch, job[w].user>>] = job[w].rec]
  /\ IF job[w].op = "create" THEN Goto(w, "list") ELSE AfterRecord(w)
  /\ UNCHANGED <<userIndex, scheduledBatches, scheduledByTime, scheduledByCreator,
                 arrivals, timer, now, counters>>

WriteRecord(w) ==
  /\ At(w, "record")
  /\ notifications' = [notifications EXCEPT ![<<job[w].batch, job[w].user>>] = job[w].rec]
  /\ IF job[w].rec.delivered # Null THEN Goto(w, "list") ELSE AfterRecord(w)
  /\ UNCHANGED <<userIndex, scheduledBatches, scheduledByTime, scheduledByCreator,
                 arrivals, timer, now, counters>>

(* Mutant: the key is made of the current time, not of the record's. *)
IndexRecord_ByClock(w) ==
  /\ At(w, "list")
  /\ userIndex' = userIndex \cup {<<<<job[w].batch, job[w].user>>, now>>}
  /\ AfterRecord(w)
  /\ UNCHANGED <<notifications, scheduledBatches, scheduledByTime, scheduledByCreator,
                 arrivals, timer, now, counters>>

IndexRecord(w) ==
  /\ At(w, "list")
  /\ userIndex' =
       userIndex \cup {<<<<job[w].batch, job[w].user>>, job[w].rec.delivered>>}
  /\ AfterRecord(w)
  /\ UNCHANGED <<notifications, scheduledBatches, scheduledByTime, scheduledByCreator,
                 arrivals, timer, now, counters>>

(* A client counts an arrival when it receives an unread record. *)
Arrive(n, rec) ==
  arrivals' = IF rec.read \/ arrivals[n] = Many THEN arrivals
              ELSE [arrivals EXCEPT ![n] = @ + 1]

SendRecord(w) ==
  /\ At(w, "send")
  /\ Arrive(<<job[w].batch, job[w].user>>, job[w].rec)
  /\ Begin(w, RecordDone(job[w]))
  /\ UNCHANGED <<store, timer, now, counters>>

(* All recipients treated: what remains is the batch of a new schedule, the    *)
(* streams of a new immediate notification, the next due batch, the wake-up of *)
(* the loop, or nothing.  The store is persisted before the last three.        *)
FinishRecords(w) ==
  /\ At(w, "records") /\ job[w].left = {}
  /\ LET j == job[w]
     IN CASE j.op = "create" /\ j.rec.delivered = Null -> Goto(w, "row")
          [] j.op = "create" /\ j.rec.delivered # Null ->
               Begin(w, [j EXCEPT !.stage = "publish", !.left = j.row.users])
          [] j.op = "deliver" ->
               Begin(w, [j EXCEPT !.stage = "due", !.batch = Null, !.row = Null, !.from = 0])
          [] j.op \in {"cancel", "reschedule"} -> Goto(w, "wake")
          [] j.op = "read" -> End(w)
  /\ UNCHANGED <<store, arrivals, timer, now, counters>>

Publish(w, u) ==
  /\ At(w, "publish") /\ u \in job[w].left
  /\ Arrive(<<job[w].batch, u>>, job[w].rec)
  /\ IF job[w].left = {u} THEN End(w) ELSE Begin(w, [job[w] EXCEPT !.left = @ \ {u}])
  /\ UNCHANGED <<store, timer, now, counters>>

(* Mutant: notify_one is missing. *)
WakeScheduler_Forgotten(w) ==
  /\ At(w, "wake")
  /\ End(w)
  /\ UNCHANGED <<store, arrivals, timer, now, counters>>

(* notify_one keeps one permit until the loop takes it. *)
WakeScheduler(w) ==
  /\ At(w, "wake")
  /\ permit' = TRUE
  /\ End(w)
  /\ UNCHANGED <<store, arrivals, loop, alarm, now, counters>>

EndDelivery(w) ==
  /\ At(w, "due") /\ job[w].due = {} /\ ~job[w].loop
  /\ End(w)
  /\ UNCHANGED <<store, arrivals, timer, now, counters>>

BatchStep(w) ==
  \/ \E k \in Time \X Batches : TakeBatch(w, k) \/ PassBatch(w, k)
  \/ UnindexTime(w) \/ UnindexCreator(w) \/ WriteBatch(w)
  \/ IndexTime(w) \/ IndexCreator(w)

RecordStep(w) ==
  \/ \E u \in Users : ReadRecord(w, u) \/ Publish(w, u)
  \/ WriteRecord(w) \/ IndexRecord(w) \/ SendRecord(w) \/ FinishRecords(w)
=============================================================================
