-------------------------- MODULE NotificationProofs --------------------------
(***************************************************************************)
(* Theorems about the notification service, for every number of users,      *)
(* batches and threads, and for every sequence of calls and faults.         *)
(***************************************************************************)
EXTENDS NotificationInvariant, WellFoundedInduction, TLAPS

-----------------------------------------------------------------------------
(* What the threads hold keeps its type and fits its stage. *)
JobsOK ==
  /\ job \in [Threads -> Job \cup {Null}]
  /\ \A w \in Threads : ~Free(w) => Coherent(job[w])

LEMMA NullIsNothing ==
  /\ Null \notin Job /\ Null \notin Record /\ Null \notin Batch /\ Null \notin Time
  /\ MaxTime \in Nat /\ 0 \in Time
  BY NotificationAssumption DEF Time

LEMMA JobShape ==
  ASSUME JobsOK, NEW w \in Threads, ~Free(w)
  PROVE  job[w] \in Job /\ Coherent(job[w])
  BY DEF JobsOK, Free

LEMMA BeginKeepsJobs ==
  ASSUME JobsOK, NEW w \in Threads, NEW j \in Job, Coherent(j), Begin(w, j)
  PROVE  JobsOK' /\ job'[w] = j /\ \A v \in Threads \ {w} : job'[v] = job[v]
  BY DEF JobsOK, Free, Begin

LEMMA EndKeepsJobs ==
  ASSUME JobsOK, NEW w \in Threads, End(w)
  PROVE  JobsOK' /\ job'[w] = Null /\ \A v \in Threads \ {w} : job'[v] = job[v]
  BY NullIsNothing DEF JobsOK, Free, End

LEMMA GotoIsBegin ==
  ASSUME JobsOK, NEW w \in Threads, NEW stage \in Stages, ~Free(w), Goto(w, stage)
  PROVE  /\ Begin(w, [job[w] EXCEPT !.stage = stage])
         /\ [job[w] EXCEPT !.stage = stage] \in Job
<1>1. job[w] \in Job
  BY JobShape
<1>2. [job[w] EXCEPT !.stage = stage] \in Job
  BY <1>1 DEF Job
<1> QED
  BY <1>2 DEF Goto, Begin, JobsOK

LEMMA BlankJob ==
  ASSUME NEW op \in Operations
  PROVE  Blank(op) \in Job
  BY NullIsNothing DEF Blank, Job, Stages

(* The jobs that the handlers begin. *)
LEMMA CreateJob ==
  ASSUME TypeOK, JobsOK, NEW w \in Threads, NEW b \in Batches, NEW users \in SUBSET Users,
         NEW c \in Creators, NEW t \in Time, CreateNotification(w, b, users, c, t)
  PROVE  \E row \in Batch, rec \in Record :
           /\ row.users = users /\ IsPending(row)
           /\ Begin(w, [Blank("create") EXCEPT !.batch = b, !.row = row, !.left = users, !.rec = rec])
<1> DEFINE delivered == IF t <= now THEN now ELSE Null
           row == [creator |-> c, users |-> users, trigger |-> t, delivered |-> Null,
                   cancelled |-> FALSE]
           rec == [trigger |-> t, delivered |-> delivered, cancelled |-> FALSE, read |-> FALSE]
<1>1. row \in Batch /\ row.users = users /\ IsPending(row)
  BY DEF Batch, IsPending
<1>2. rec \in Record
  BY DEF Record, TypeOK
<1> QED
  BY <1>1, <1>2 DEF CreateNotification

LEMMA CreateKeepsJobs ==
  ASSUME TypeOK, JobsOK, NEW w \in Threads, NEW b \in Batches, NEW users \in SUBSET Users,
         NEW c \in Creators, NEW t \in Time, CreateNotification(w, b, users, c, t)
  PROVE  JobsOK'
<1>1. PICK row \in Batch, rec \in Record :
        /\ IsPending(row)
        /\ Begin(w, [Blank("create") EXCEPT !.batch = b, !.row = row, !.left = users, !.rec = rec])
  BY CreateJob
<1> DEFINE j == [Blank("create") EXCEPT !.batch = b, !.row = row, !.left = users, !.rec = rec]
<1>2. Blank("create") \in Job
  BY BlankJob DEF Operations
<1>3. j \in Job
  BY <1>2 DEF Job
<1>4. Coherent(j)
  BY <1>1, <1>3, NullIsNothing DEF Coherent, Blank, Changing
<1> QED
  BY <1>1, <1>3, <1>4, BeginKeepsJobs

LEMMA DeliveryJob ==
  ASSUME TypeOK, NEW byLoop \in BOOLEAN
  PROVE  Delivery(byLoop) \in Job /\ Coherent(Delivery(byLoop))
<1>1. Blank("deliver") \in Job
  BY BlankJob DEF Operations
<1>2. DueKeys \subseteq Time \X Batches /\ now \in Time
  BY DEF DueKeys, TypeOK
<1>3. Delivery(byLoop) \in Job
  BY <1>1, <1>2 DEF Delivery, Job, Stages
<1> QED
  BY <1>3 DEF Delivery, Coherent, Blank, Changing

LEMMA ChangeJob ==
  ASSUME TypeOK, NEW op \in {"cancel", "reschedule"}, NEW b \in Batches, NEW row \in Batch, Pending(b)
  PROVE  Change(op, b, row) \in Job /\ Coherent(Change(op, b, row))
<1>1. Blank(op) \in Job
  BY BlankJob DEF Operations
<1>2. scheduledBatches[b] \in Batch
  BY DEF TypeOK, Pending
<1>3. scheduledBatches[b].trigger \in Time /\ row.users \in SUBSET Users
  BY <1>2 DEF Batch
<1>4. Change(op, b, row) \in Job
  BY <1>1, <1>3 DEF Change, Job, Stages
<1> QED
  BY <1>4 DEF Change, Coherent, Blank, Changing

LEMMA CancelKeepsJobs ==
  ASSUME TypeOK, JobsOK, NEW w \in Threads, NEW b \in Batches, NEW c \in Creators,
         CancelScheduledBatch(w, b, c)
  PROVE  JobsOK'
<1> DEFINE row == [scheduledBatches[b] EXCEPT !.cancelled = TRUE]
<1>1. Pending(b) /\ Begin(w, Change("cancel", b, row))
  BY DEF CancelScheduledBatch
<1>2. row \in Batch
  BY <1>1 DEF TypeOK, Pending, Batch
<1>3. Change("cancel", b, row) \in Job /\ Coherent(Change("cancel", b, row))
  BY <1>1, <1>2, ChangeJob
<1> QED
  BY <1>1, <1>3, BeginKeepsJobs

LEMMA RescheduleKeepsJobs ==
  ASSUME TypeOK, JobsOK, NEW w \in Threads, NEW b \in Batches, NEW c \in Creators, NEW t \in Time,
         RescheduleScheduledBatch(w, b, c, t)
  PROVE  JobsOK'
<1> DEFINE row == [scheduledBatches[b] EXCEPT !.trigger = t]
<1>1. Pending(b) /\ Begin(w, Change("reschedule", b, row))
  BY DEF RescheduleScheduledBatch
<1>2. row \in Batch
  BY <1>1 DEF TypeOK, Pending, Batch
<1>3. Change("reschedule", b, row) \in Job /\ Coherent(Change("reschedule", b, row))
  BY <1>1, <1>2, ChangeJob
<1> QED
  BY <1>1, <1>3, BeginKeepsJobs

LEMMA ReadKeepsJobs ==
  ASSUME TypeOK, JobsOK, NEW w \in Threads, NEW b \in Batches, NEW u \in Users, MarkAsRead(w, b, u)
  PROVE  JobsOK'
<1> DEFINE rec == [notifications[<<b, u>>] EXCEPT !.read = TRUE]
           j == [Blank("read") EXCEPT !.stage = "record", !.batch = b, !.left = {u}, !.user = u,
                                      !.rec = rec]
<1>1. notifications[<<b, u>>] \in Record
  BY DEF TypeOK, MarkAsRead, Notifications
<1>2. rec \in Record
  BY <1>1 DEF Record
<1>3. Blank("read") \in Job
  BY BlankJob DEF Operations
<1>4. j \in Job
  BY <1>2, <1>3 DEF Job, Stages
<1>5. Coherent(j)
  BY <1>2, <1>4 DEF Coherent, Blank, Changing
<1> QED
  BY <1>4, <1>5, BeginKeepsJobs DEF MarkAsRead

(* The jobs after a step. *)
LEMMA TakeKeepsJobs ==
  ASSUME TypeOK, JobsOK, NEW w \in Threads, NEW k \in Time \X Batches, TakeBatch(w, k)
  PROVE  JobsOK'
<1> DEFINE row == scheduledBatches[k[2]]
           taken == [row EXCEPT !.delivered = job[w].at]
           j == [job[w] EXCEPT !.stage = "untime", !.batch = k[2], !.from = row.trigger,
                               !.row = taken, !.left = row.users, !.due = @ \ {k}]
<1>1. job[w] \in Job /\ Coherent(job[w]) /\ job[w].stage = "due" /\ Pending(k[2])
  BY JobShape DEF TakeBatch, NextDue, At, Free
<1>2. k[2] \in Batches /\ row \in Batch
  BY <1>1 DEF TypeOK, Pending
<1>3. taken \in Batch /\ row.trigger \in Time /\ row.users \in SUBSET Users
  BY <1>1, <1>2 DEF Batch, Job
<1>4. j \in Job
  BY <1>1, <1>2, <1>3 DEF Job, Stages
<1>5. job[w].op \in Changing
  BY <1>1 DEF Coherent, Job, Operations, Changing
<1>6. Coherent(j)
  BY <1>1, <1>2, <1>3, <1>4, <1>5 DEF Coherent, Job, Changing
<1> QED
  BY <1>4, <1>6, BeginKeepsJobs DEF TakeBatch

LEMMA PassKeepsJobs ==
  ASSUME JobsOK, NEW w \in Threads, NEW k, PassBatch(w, k)
  PROVE  JobsOK'
<1> DEFINE j == [job[w] EXCEPT !.due = @ \ {k}]
<1>1. job[w] \in Job /\ Coherent(job[w])
  BY JobShape DEF PassBatch, NextDue, At, Free
<1>2. j \in Job
  BY <1>1 DEF Job
<1>3. Coherent(j)
  BY <1>1, <1>2 DEF Coherent, Job
<1> QED
  BY <1>2, <1>3, BeginKeepsJobs DEF PassBatch

(* Steps that only move to another stage. *)
LEMMA GotoKeepsJobs ==
  ASSUME JobsOK, NEW w \in Threads, NEW stage \in Stages, ~Free(w), Goto(w, stage),
         Coherent([job[w] EXCEPT !.stage = stage])
  PROVE  JobsOK'
  BY GotoIsBegin, BeginKeepsJobs

LEMMA BatchStepKeepsJobs ==
  ASSUME TypeOK, JobsOK, NEW w \in Threads, BatchStep(w)
  PROVE  JobsOK'
<1>1. ASSUME NEW k \in Time \X Batches, TakeBatch(w, k) PROVE JobsOK'
  BY <1>1, TakeKeepsJobs
<1>2. ASSUME NEW k \in Time \X Batches, PassBatch(w, k) PROVE JobsOK'
  BY <1>2, PassKeepsJobs
<1>3. CASE UnindexTime(w)
  <2>1. job[w] \in Job /\ Coherent(job[w]) /\ job[w].stage = "untime" /\ ~Free(w)
    BY <1>3, JobShape DEF UnindexTime, At, Free
  <2>2. Coherent([job[w] EXCEPT !.stage = "uncreator"])
    BY <2>1 DEF Coherent, Job
  <2> QED
    BY <1>3, <2>1, <2>2, GotoKeepsJobs DEF UnindexTime, Stages
<1>4. CASE UnindexCreator(w)
  <2>1. job[w] \in Job /\ Coherent(job[w]) /\ job[w].stage = "uncreator" /\ ~Free(w)
    BY <1>4, JobShape DEF UnindexCreator, At, Free
  <2>2. Coherent([job[w] EXCEPT !.stage = "row"])
    BY <2>1 DEF Coherent, Job
  <2> QED
    BY <1>4, <2>1, <2>2, GotoKeepsJobs DEF UnindexCreator, Stages
<1>5. CASE WriteBatch(w)
  <2>1. job[w] \in Job /\ Coherent(job[w]) /\ job[w].stage = "row" /\ ~Free(w)
    BY <1>5, JobShape DEF WriteBatch, At, Free
  <2>2. Coherent([job[w] EXCEPT !.stage = "time"]) /\ Coherent([job[w] EXCEPT !.stage = "records"])
    BY <2>1 DEF Coherent, Job, Changing
  <2>3. "time" \in Stages /\ "records" \in Stages
    BY DEF Stages
  <2>4. Goto(w, "time") \/ Goto(w, "records")
    BY <1>5 DEF WriteBatch
  <2> QED
    BY <2>1, <2>2, <2>3, <2>4, GotoKeepsJobs
<1>6. CASE IndexTime(w)
  <2>1. job[w] \in Job /\ Coherent(job[w]) /\ job[w].stage = "time" /\ ~Free(w)
    BY <1>6, JobShape DEF IndexTime, At, Free
  <2>2. Coherent([job[w] EXCEPT !.stage = "creator"])
    BY <2>1 DEF Coherent, Job
  <2> QED
    BY <1>6, <2>1, <2>2, GotoKeepsJobs DEF IndexTime, Stages
<1>7. CASE IndexCreator(w)
  <2>1. job[w] \in Job /\ Coherent(job[w]) /\ job[w].stage = "creator" /\ ~Free(w)
    BY <1>7, JobShape DEF IndexCreator, At, Free
  <2>2. Coherent([job[w] EXCEPT !.stage = "wake"]) /\ Coherent([job[w] EXCEPT !.stage = "records"])
    BY <2>1 DEF Coherent, Job, Changing
  <2>3. "wake" \in Stages /\ "records" \in Stages
    BY DEF Stages
  <2>4. Goto(w, "wake") \/ Goto(w, "records")
    BY <1>7 DEF IndexCreator
  <2> QED
    BY <2>1, <2>2, <2>3, <2>4, GotoKeepsJobs
<1> QED
  BY <1>1, <1>2, <1>3, <1>4, <1>5, <1>6, <1>7 DEF BatchStep

(* Records: the copy that is read, changed and written is a whole record. *)
LEMMA ChangedRecord ==
  ASSUME NEW j \in Job, Coherent(j), NEW rec \in Record, j.op \in Changing
  PROVE  Changed(j, rec) \in Record
<1>1. j.at \in Time /\ (j.op = "reschedule" => j.row.trigger \in Time)
  BY DEF Job, Coherent, Batch
<1>2. CASE j.op = "deliver"
  BY <1>1, <1>2 DEF Changed, Record
<1>3. CASE j.op = "cancel"
  BY <1>3 DEF Changed, Record
<1>4. CASE j.op = "reschedule"
  BY <1>1, <1>4 DEF Changed, Record
<1> QED
  BY <1>2, <1>3, <1>4 DEF Changing

LEMMA ReadRecordKeepsJobs ==
  ASSUME TypeOK, JobsOK, NEW w \in Threads, NEW u \in Users, ReadRecord(w, u)
  PROVE  JobsOK'
<1> DEFINE j == job[w]
           rec == notifications[<<j.batch, u>>]
           go == [j EXCEPT !.stage = "record", !.user = u, !.rec = Changed(j, rec)]
           skip == [j EXCEPT !.left = @ \ {u}]
<1>1. /\ j \in Job /\ Coherent(j) /\ j.stage = "records" /\ j.batch \in Batches
      /\ u \in j.left /\ j.op # "read"
  BY JobShape DEF ReadRecord, At, Free, Coherent
<1>2. rec \in Record \cup {Null}
  BY <1>1 DEF TypeOK, Notifications
<1>3. CASE j.op = "create" \/ (rec # Null /\ Concerns(j.op, rec))
  <2>1. Changed(j, rec) \in Record
    <3>1. CASE j.op = "create"
      BY <1>1, <3>1 DEF Changed, Coherent
    <3>2. CASE j.op # "create"
      <4>1. j.op \in Changing /\ rec \in Record
        BY <1>1, <1>2, <1>3, <3>2 DEF Job, Operations, Changing
      <4> QED
        BY <1>1, <4>1, ChangedRecord
    <3> QED
      BY <3>1, <3>2
  <2> HIDE DEF rec
  <2>2. go \in Job
    BY <1>1, <2>1 DEF Job, Stages
  <2>3. Coherent(go)
    BY <1>1, <2>1, <2>2 DEF Coherent, Job
  <2>4. Begin(w, go)
    BY <1>3 DEF ReadRecord, rec
  <2> QED
    BY <2>2, <2>3, <2>4, BeginKeepsJobs
<1>4. CASE ~(j.op = "create" \/ (rec # Null /\ Concerns(j.op, rec)))
  <2>1. skip \in Job
    BY <1>1 DEF Job
  <2>2. Coherent(skip)
    BY <1>1, <2>1 DEF Coherent, Job
  <2>3. Begin(w, skip)
    BY <1>4 DEF ReadRecord
  <2> QED
    BY <2>1, <2>2, <2>3, BeginKeepsJobs
<1> QED
  BY <1>3, <1>4

LEMMA DoneJob ==
  ASSUME NEW j \in Job, Coherent(j), j.stage \in {"record", "list", "send"}
  PROVE  RecordDone(j) \in Job /\ Coherent(RecordDone(j))
<1>1. RecordDone(j) \in Job
  BY DEF RecordDone, Job, Stages
<1>2. Coherent(RecordDone(j))
  BY <1>1 DEF Coherent, RecordDone, Job
<1> QED
  BY <1>1, <1>2

LEMMA AfterRecordKeepsJobs ==
  ASSUME JobsOK, NEW w \in Threads, ~Free(w), job[w].stage \in {"record", "list"}, AfterRecord(w)
  PROVE  JobsOK'
<1>1. job[w] \in Job /\ Coherent(job[w])
  BY JobShape
<1>2. CASE Announces(job[w].op)
  <2>1. Coherent([job[w] EXCEPT !.stage = "send"])
    BY <1>1, <1>2 DEF Coherent, Job
  <2> QED
    BY <1>2, <2>1, GotoKeepsJobs DEF AfterRecord, Stages
<1>3. CASE ~Announces(job[w].op)
  <2>1. RecordDone(job[w]) \in Job /\ Coherent(RecordDone(job[w]))
    BY <1>1, DoneJob
  <2> QED
    BY <1>3, <2>1, BeginKeepsJobs DEF AfterRecord
<1> QED
  BY <1>2, <1>3

LEMMA FinishKeepsJobs ==
  ASSUME JobsOK, NEW w \in Threads, FinishRecords(w)
  PROVE  JobsOK'
<1> DEFINE j == job[w]
           publish == [j EXCEPT !.stage = "publish", !.left = j.row.users]
           next == [j EXCEPT !.stage = "due", !.batch = Null, !.row = Null, !.from = 0]
<1>1. /\ j \in Job /\ Coherent(j) /\ j.stage = "records" /\ ~Free(w)
      /\ j.op \in Operations
  BY JobShape DEF FinishRecords, At, Free, Job
<1>2. CASE j.op = "create" /\ j.rec.delivered = Null
  <2>1. Coherent([j EXCEPT !.stage = "row"]) /\ Goto(w, "row")
    BY <1>1, <1>2 DEF Coherent, Job, FinishRecords
  <2> QED
    BY <1>1, <2>1, GotoKeepsJobs DEF Stages
<1>3. CASE j.op = "create" /\ j.rec.delivered # Null
  <2>1. publish \in Job
    BY <1>1, <1>3 DEF Job, Coherent, Batch, Stages
  <2>2. Coherent(publish)
    BY <1>1, <1>3, <2>1 DEF Coherent, Job
  <2>3. Begin(w, publish)
    BY <1>3 DEF FinishRecords
  <2> QED
    BY <2>1, <2>2, <2>3, BeginKeepsJobs
<1>4. CASE j.op = "deliver"
  <2>1. next \in Job
    BY <1>1, NullIsNothing DEF Job, Stages
  <2>2. Coherent(next)
    BY <1>1, <1>4, <2>1 DEF Coherent, Job
  <2>3. Begin(w, next)
    BY <1>4 DEF FinishRecords
  <2> QED
    BY <2>1, <2>2, <2>3, BeginKeepsJobs
<1>5. CASE j.op \in {"cancel", "reschedule"}
  <2>1. Coherent([j EXCEPT !.stage = "wake"]) /\ Goto(w, "wake")
    BY <1>1, <1>5 DEF Coherent, Job, FinishRecords
  <2> QED
    BY <1>1, <2>1, GotoKeepsJobs DEF Stages
<1>6. CASE j.op = "read"
  BY <1>6, EndKeepsJobs DEF FinishRecords
<1> QED
  BY <1>1, <1>2, <1>3, <1>4, <1>5, <1>6 DEF Operations

LEMMA RecordStepKeepsJobs ==
  ASSUME TypeOK, JobsOK, NEW w \in Threads, RecordStep(w)
  PROVE  JobsOK'
<1>1. ASSUME NEW u \in Users, ReadRecord(w, u) PROVE JobsOK'
  BY <1>1, ReadRecordKeepsJobs
<1>2. ASSUME NEW u \in Users, Publish(w, u) PROVE JobsOK'
  <2> DEFINE j == [job[w] EXCEPT !.left = @ \ {u}]
  <2>1. job[w] \in Job /\ Coherent(job[w]) /\ job[w].stage = "publish"
    BY <1>2, JobShape DEF Publish, At, Free
  <2>2. j \in Job /\ Coherent(j)
    BY <2>1 DEF Job, Coherent
  <2> QED
    BY <1>2, <2>2, BeginKeepsJobs, EndKeepsJobs DEF Publish
<1>3. CASE WriteRecord(w)
  <2>1. job[w] \in Job /\ Coherent(job[w]) /\ job[w].stage = "record" /\ ~Free(w)
    BY <1>3, JobShape DEF WriteRecord, At, Free
  <2>2. CASE job[w].rec.delivered # Null
    <3>1. Coherent([job[w] EXCEPT !.stage = "list"])
      BY <2>1, <2>2 DEF Coherent, Job
    <3> QED
      BY <1>3, <2>1, <2>2, <3>1, GotoKeepsJobs DEF WriteRecord, Stages
  <2>3. CASE job[w].rec.delivered = Null
    BY <1>3, <2>1, <2>3, AfterRecordKeepsJobs DEF WriteRecord
  <2> QED
    BY <2>2, <2>3
<1>4. CASE IndexRecord(w)
  BY <1>4, AfterRecordKeepsJobs DEF IndexRecord, At, Free
<1>5. CASE SendRecord(w)
  <2>1. job[w] \in Job /\ Coherent(job[w]) /\ job[w].stage = "send"
    BY <1>5, JobShape DEF SendRecord, At, Free
  <2>2. RecordDone(job[w]) \in Job /\ Coherent(RecordDone(job[w]))
    BY <2>1, DoneJob
  <2> QED
    BY <1>5, <2>2, BeginKeepsJobs DEF SendRecord
<1>6. CASE FinishRecords(w)
  BY <1>6, FinishKeepsJobs
<1> QED
  BY <1>1, <1>2, <1>3, <1>4, <1>5, <1>6 DEF RecordStep

(* A delivery of the loop that failed has nothing due. *)
LEMMA FailKeepsJobs ==
  ASSUME TypeOK, JobsOK, NEW w \in Threads, Fail(w)
  PROVE  JobsOK'
<1> DEFINE j == [Delivery(TRUE) EXCEPT !.due = {}, !.at = job[w].at]
<1>1. job[w] \in Job
  BY JobShape DEF Fail
<1>2. Delivery(TRUE) \in Job /\ Coherent(Delivery(TRUE)) /\ job[w].at \in Time
  BY <1>1, DeliveryJob DEF Job
<1>3. j \in Job /\ Coherent(j)
  <2> HIDE DEF Delivery
  <2>1. j \in Job
    BY <1>2 DEF Job
  <2>2. Coherent(j)
    BY <1>2, <2>1 DEF Coherent, Job
  <2> QED
    BY <2>1, <2>2
<1> QED
  BY <1>3, BeginKeepsJobs, EndKeepsJobs DEF Fail

(* Every step of the service keeps the jobs coherent. *)
LEMMA NextKeepsJobs ==
  ASSUME TypeOK, JobsOK, [Next]_vars
  PROVE  JobsOK'
<1>1. ASSUME NEW w \in Threads, Handler(w) PROVE JobsOK'
  <2>1. CASE DeliverDueNotifications(w)
    BY <2>1, DeliveryJob, BeginKeepsJobs DEF DeliverDueNotifications
  <2> QED
    BY <1>1, <2>1, CreateKeepsJobs, CancelKeepsJobs, RescheduleKeepsJobs, ReadKeepsJobs
       DEF Handler
<1>2. ASSUME NEW w \in Threads, LoopDelivers(w) PROVE JobsOK'
  BY <1>2, DeliveryJob, BeginKeepsJobs DEF LoopDelivers
<1>3. ASSUME NEW w \in Threads, Step(w) PROVE JobsOK'
  <2>1. CASE WakeScheduler(w) \/ EndDelivery(w) \/ LoopSleeps(w)
    BY <2>1, EndKeepsJobs DEF WakeScheduler, EndDelivery, LoopSleeps
  <2> QED
    BY <1>3, <2>1, BatchStepKeepsJobs, RecordStepKeepsJobs DEF Step
<1>4. ASSUME NEW w \in Threads, Fail(w) PROVE JobsOK'
  BY <1>4, FailKeepsJobs
<1>5. ASSUME NEW w \in Threads, LoopFails(w) PROVE JobsOK'
  BY <1>5, EndKeepsJobs DEF LoopFails
<1>6. CASE AlarmRings \/ SchedulerNotified \/ Tick \/ UNCHANGED vars
  BY <1>6 DEF AlarmRings, SchedulerNotified, Tick, vars, JobsOK, Free
<1>7. CASE Crash
  BY <1>7 DEF Crash, JobsOK, Free
<1> QED
  BY <1>1, <1>2, <1>3, <1>4, <1>5, <1>6, <1>7 DEF Next

-----------------------------------------------------------------------------
(* The rest of the type invariant. *)
Tables ==
  /\ notifications \in [Notifications -> Record \cup {Null}]
  /\ userIndex \subseteq Notifications \X Time
  /\ scheduledBatches \in [Batches -> Batch \cup {Null}]
  /\ scheduledByTime \subseteq Time \X Batches
  /\ scheduledByCreator \subseteq Creators \X Time \X Batches
  /\ arrivals \in [Notifications -> 0 .. Many]

Control ==
  /\ loop \in {"ready", "busy", "asleep"} /\ alarm \in Nat /\ permit \in BOOLEAN
  /\ now \in Time /\ calls \in 0 .. MaxCalls /\ faults \in 0 .. MaxFaults

LEMMA TypeParts == TypeOK <=> Tables /\ Control /\ job \in [Threads -> Job \cup {Null}]
  BY DEF TypeOK, Tables, Control

LEMMA ArriveKeepsType ==
  ASSUME Tables, NEW n \in Notifications, NEW rec, Arrive(n, rec)
  PROVE  arrivals' \in [Notifications -> 0 .. Many]
<1>1. arrivals[n] \in 0 .. Many /\ Many = 2
  BY DEF Tables, Many
<1>2. arrivals[n] # Many => arrivals[n] + 1 \in 0 .. Many
  BY <1>1
<1> QED
  BY <1>1, <1>2 DEF Arrive, Tables

LEMMA BatchStepKeepsTables ==
  ASSUME TypeOK, JobsOK, NEW w \in Threads, BatchStep(w)
  PROVE  Tables'
<1> USE DEF Tables
<1>1. Tables
  BY TypeParts
<1>2. ASSUME NEW k \in Time \X Batches, TakeBatch(w, k) \/ PassBatch(w, k) PROVE Tables'
  BY <1>1, <1>2 DEF TakeBatch, PassBatch, store
<1>3. CASE UnindexTime(w) \/ UnindexCreator(w)
  BY <1>1, <1>3 DEF UnindexTime, UnindexCreator
<1>4. CASE WriteBatch(w)
  <2>1. job[w].batch \in Batches /\ job[w].row \in Batch
    BY <1>4, JobShape DEF WriteBatch, At, Free, Coherent
  <2> QED
    BY <1>1, <1>4, <2>1 DEF WriteBatch
<1>5. CASE IndexTime(w)
  <2>1. job[w].batch \in Batches /\ job[w].row.trigger \in Time
    BY <1>5, JobShape DEF IndexTime, At, Free, Coherent, Batch
  <2> QED
    BY <1>1, <1>5, <2>1 DEF IndexTime
<1>6. CASE IndexCreator(w)
  <2>1. job[w].batch \in Batches /\ job[w].row.trigger \in Time /\ job[w].row.creator \in Creators
    BY <1>6, JobShape DEF IndexCreator, At, Free, Coherent, Batch
  <2> QED
    BY <1>1, <1>6, <2>1 DEF IndexCreator
<1> QED
  BY <1>2, <1>3, <1>4, <1>5, <1>6 DEF BatchStep

LEMMA RecordStepKeepsTables ==
  ASSUME TypeOK, JobsOK, NEW w \in Threads, RecordStep(w)
  PROVE  Tables'
<1> USE DEF Tables
<1>1. Tables
  BY TypeParts
<1>2. ASSUME NEW u \in Users, ReadRecord(w, u) PROVE Tables'
  BY <1>1, <1>2 DEF ReadRecord, store
<1>3. ASSUME NEW u \in Users, Publish(w, u) PROVE Tables'
  <2>1. <<job[w].batch, u>> \in Notifications
    BY <1>3, JobShape DEF Publish, At, Free, Coherent, Notifications
  <2>2. arrivals' \in [Notifications -> 0 .. Many]
    BY <1>1, <1>3, <2>1, ArriveKeepsType DEF Publish
  <2> QED
    BY <1>1, <1>3, <2>2 DEF Publish, store
<1>4. CASE WriteRecord(w)
  <2>1. <<job[w].batch, job[w].user>> \in Notifications /\ job[w].rec \in Record
    BY <1>4, JobShape DEF WriteRecord, At, Free, Coherent, Notifications
  <2> QED
    BY <1>1, <1>4, <2>1 DEF WriteRecord
<1>5. CASE IndexRecord(w)
  <2>1. <<job[w].batch, job[w].user>> \in Notifications /\ job[w].rec.delivered \in Time
    BY <1>5, JobShape DEF IndexRecord, At, Free, Coherent, Notifications, Record
  <2> QED
    BY <1>1, <1>5, <2>1 DEF IndexRecord
<1>6. CASE SendRecord(w)
  <2>1. <<job[w].batch, job[w].user>> \in Notifications
    BY <1>6, JobShape DEF SendRecord, At, Free, Coherent, Notifications
  <2>2. arrivals' \in [Notifications -> 0 .. Many]
    BY <1>1, <1>6, <2>1, ArriveKeepsType DEF SendRecord
  <2> QED
    BY <1>1, <1>6, <2>2 DEF SendRecord, store
<1>7. CASE FinishRecords(w)
  BY <1>1, <1>7 DEF FinishRecords, store
<1> QED
  BY <1>2, <1>3, <1>4, <1>5, <1>6, <1>7 DEF RecordStep

LEMMA NextKeepsTables ==
  ASSUME TypeOK, JobsOK, [Next]_vars
  PROVE  Tables'
<1>1. Tables
  BY TypeParts
<1>2. ASSUME NEW w \in Threads, Handler(w) PROVE Tables'
  <2>1. UNCHANGED <<store, arrivals>>
    BY <1>2 DEF Handler, CreateNotification, DeliverDueNotifications, CancelScheduledBatch,
                RescheduleScheduledBatch, MarkAsRead
  <2> QED
    BY <1>1, <2>1 DEF Tables, store
<1>3. ASSUME NEW w \in Threads, Step(w) PROVE Tables'
  <2>1. CASE WakeScheduler(w) \/ EndDelivery(w) \/ LoopSleeps(w)
    BY <1>1, <2>1 DEF WakeScheduler, EndDelivery, LoopSleeps, Tables, store
  <2> QED
    BY <1>3, <2>1, BatchStepKeepsTables, RecordStepKeepsTables DEF Step
<1>4. ASSUME NEW w \in Threads, LoopDelivers(w) \/ Fail(w) \/ LoopFails(w) PROVE Tables'
  BY <1>1, <1>4 DEF LoopDelivers, Fail, LoopFails, Tables, store
<1>5. CASE AlarmRings \/ SchedulerNotified \/ Tick \/ Crash \/ UNCHANGED vars
  BY <1>1, <1>5 DEF AlarmRings, SchedulerNotified, Tick, Crash, vars, store, Tables
<1> QED
  BY <1>2, <1>3, <1>4, <1>5 DEF Next

(* A set of times has a least one. *)
LEMMA LeastNumber ==
  ASSUME NEW S \in SUBSET Nat, S # {}
  PROVE  \E x \in S : \A y \in S : x <= y
<1> DEFINE R == {p \in Nat \X Nat : p[1] < p[2]}
<1>1. IsWellFoundedOn(R, Nat)
  BY NatLessThanWellFounded DEF OpToRel
<1>2. PICK x \in S : \A y \in S : <<y, x>> \notin R
  <2> HIDE DEF R
  <2> QED
    BY <1>1, WFMin
<1>3. \A y \in S : ~(y < x) /\ x \in Nat /\ y \in Nat
  BY <1>2
<1> QED
  BY <1>2, <1>3

LEMMA NextAlarmIsTime ==
  ASSUME TypeOK
  PROVE  NextAlarm \in Nat
<1> DEFINE times == {k[1] : k \in scheduledByTime}
           IsFirst(k) == \A other \in scheduledByTime : k[1] <= other[1]
<1>1. now \in Nat /\ IdleSleep \in Nat /\ Time \subseteq Nat
  BY NotificationAssumption DEF TypeOK, Time
<1>2. CASE scheduledByTime = {}
  BY <1>1, <1>2 DEF NextAlarm
<1>3. CASE scheduledByTime # {}
  <2>1. \A k \in scheduledByTime : k[1] \in Nat
    BY <1>1 DEF TypeOK
  <2>2. \E k \in scheduledByTime : IsFirst(k)
    <3>1. times \in SUBSET Nat /\ times # {}
      BY <1>3, <2>1
    <3>2. PICK t \in times : \A other \in times : t <= other
      <4> HIDE DEF times
      <4> QED
        BY <3>1, LeastNumber
    <3> QED
      BY <3>2
  <2> DEFINE first == CHOOSE k \in scheduledByTime : IsFirst(k)
  <2>3. first \in scheduledByTime
    <3> HIDE DEF IsFirst
    <3> QED
      BY <2>2, Zenon
  <2>4. first[1] \in Nat
    BY <2>1, <2>3
  <2> QED
    BY <1>1, <1>3, <2>4 DEF NextAlarm
<1> QED
  BY <1>2, <1>3

LEMMA NextKeepsControl ==
  ASSUME TypeOK, [Next]_vars
  PROVE  Control'
<1>1. Control /\ MaxTime \in Nat /\ MaxCalls \in Nat /\ MaxFaults \in Nat
  BY TypeParts, NotificationAssumption
<1>2. ASSUME NEW w \in Threads, Handler(w) PROVE Control'
  <2>1. calls' = calls + 1 /\ calls < MaxCalls /\ UNCHANGED <<timer, now, faults>>
    BY <1>2 DEF Handler, CreateNotification, DeliverDueNotifications, CancelScheduledBatch,
                RescheduleScheduledBatch, MarkAsRead, Call
  <2> QED
    BY <1>1, <2>1 DEF Control, timer
<1>3. ASSUME NEW w \in Threads, Step(w) PROVE Control'
  <2>1. CASE BatchStep(w) \/ RecordStep(w) \/ EndDelivery(w)
    <3>1. UNCHANGED <<timer, now, counters>>
      BY <2>1 DEF BatchStep, TakeBatch, PassBatch, UnindexTime, UnindexCreator, WriteBatch,
                  IndexTime, IndexCreator, RecordStep, ReadRecord, Publish, WriteRecord,
                  IndexRecord, SendRecord, FinishRecords, EndDelivery
    <3> QED
      BY <1>1, <3>1 DEF Control, timer, counters
  <2>2. CASE WakeScheduler(w)
    BY <1>1, <2>2 DEF WakeScheduler, Control, counters
  <2>3. CASE LoopSleeps(w)
    BY <1>1, <2>3, NextAlarmIsTime DEF LoopSleeps, Control, counters
  <2> QED
    BY <1>3, <2>1, <2>2, <2>3 DEF Step
<1>4. ASSUME NEW w \in Threads, LoopDelivers(w) PROVE Control'
  BY <1>1, <1>4 DEF LoopDelivers, Control, counters
<1>5. ASSUME NEW w \in Threads, Fail(w) \/ LoopFails(w) PROVE Control'
  <2>1. faults' \in 0 .. MaxFaults /\ now \in Nat
    BY <1>1, <1>5 DEF Fail, LoopFails, Fault, Control, Time
  <2> QED
    BY <1>1, <1>5, <2>1 DEF Fail, LoopFails, Control, timer
<1>6. CASE AlarmRings \/ SchedulerNotified
  <2>1. permit' \in BOOLEAN
    BY <1>1, <1>6, Zenon DEF AlarmRings, SchedulerNotified, Control
  <2>2. /\ loop' = "ready" /\ alarm' = 0
        /\ UNCHANGED <<now, calls, faults>>
    BY <1>6 DEF AlarmRings, SchedulerNotified, counters
  <2> QED
    BY <1>1, <2>1, <2>2 DEF Control
<1>7. CASE Tick
  BY <1>1, <1>7 DEF Tick, Control, Time, timer, counters
<1>8. CASE Crash
  <2>1. permit' \in BOOLEAN
    BY <1>8, Zenon DEF Crash
  <2>2. /\ loop' = "ready" /\ alarm' = 0 /\ faults < MaxFaults /\ faults' = faults + 1
        /\ UNCHANGED <<now, calls>>
    BY <1>8 DEF Crash, Fault
  <2> QED
    BY <1>1, <2>1, <2>2 DEF Control
<1>9. CASE UNCHANGED vars
  BY <1>1, <1>9 DEF vars, Control
<1> QED
  BY <1>2, <1>3, <1>4, <1>5, <1>6, <1>7, <1>8, <1>9 DEF Next

LEMMA InitIsTyped == Init => TypeOK /\ JobsOK
<1> SUFFICES ASSUME Init PROVE TypeOK /\ JobsOK
  OBVIOUS
<1>1. MaxTime \in Nat /\ MaxCalls \in Nat /\ MaxFaults \in Nat /\ 0 \in Time
  BY NotificationAssumption DEF Time
<1>2. Tables
  BY <1>1 DEF Init, Tables, Many
<1>3. Control
  <2>1. permit \in BOOLEAN
    BY Zenon DEF Init
  <2>2. loop = "ready" /\ alarm = 0 /\ now = 0 /\ calls = 0 /\ faults = 0
    BY DEF Init
  <2> QED
    BY <1>1, <2>1, <2>2 DEF Control
<1>4. JobsOK
  BY DEF Init, JobsOK, Free
<1> QED
  BY <1>2, <1>3, <1>4, TypeParts DEF JobsOK

LEMMA NextKeepsType ==
  ASSUME TypeOK, JobsOK, [Next]_vars
  PROVE  TypeOK' /\ JobsOK'
<1>1. Tables' /\ Control' /\ JobsOK'
  BY NextKeepsTables, NextKeepsControl, NextKeepsJobs
<1> QED
  BY <1>1 DEF TypeOK, Tables, Control, JobsOK

(* The variables keep their types, whatever the calls, the interleavings and    *)
(* the faults: at each stage an operation holds the rows and records it will    *)
(* need there.                                                                  *)
THEOREM NotificationTypeCorrect == Spec => []TypeOK
<1>1. TypeOK /\ JobsOK /\ [Next]_vars => (TypeOK /\ JobsOK)'
  BY NextKeepsType
<1> QED
  BY InitIsTyped, <1>1, PTL DEF Spec
=============================================================================
