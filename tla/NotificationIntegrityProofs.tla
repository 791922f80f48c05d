---------------------- MODULE NotificationIntegrityProofs ----------------------
(***************************************************************************)
(* The inductive invariant of the notification service: nothing in the      *)
(* store dangles, and a decided batch stays decided, for every number of    *)
(* users, batches and threads and every sequence of calls and faults.       *)
(***************************************************************************)
EXTENDS NotificationProofs

-----------------------------------------------------------------------------
(* The parts of the invariant that speak of the store. *)
HeldOK ==
  \A w \in Threads : ~Free(w) => /\ Written(job[w], notifications)
                                 /\ Saved(job[w], scheduledBatches)
OneCreation ==
  \A w1, w2 \in Threads, b \in Batches : Creating(w1, b) /\ Creating(w2, b) => w1 = w2

LEMMA NInvParts == NInv <=> TypeOK /\ JobsOK /\ NothingDangles /\ HeldOK /\ OneCreation
  BY DEF NInv, TypeOK, JobsOK, HeldOK, OneCreation

(* What is written stays written. *)
LEMMA WrittenGrows ==
  ASSUME NEW j \in Job, Coherent(j), NEW f, NEW g, Written(j, f),
         \A n \in Notifications : f[n] # Null => g[n] # Null
  PROVE  Written(j, g)
<1>1. ASSUME NEW u \in j.row.users, j.row # Null, f[<<j.batch, u>>] # Null
      PROVE  g[<<j.batch, u>>] # Null
  <2>1. <<j.batch, u>> \in Notifications
    BY <1>1 DEF Coherent, Batch, Notifications
  <2> QED
    BY <1>1, <2>1
<1>2. j.stage = "list" => <<j.batch, j.user>> \in Notifications
  BY DEF Coherent, Notifications
<1> QED
  BY <1>1, <1>2 DEF Written

LEMMA SavedGrows ==
  ASSUME NEW j \in Job, Coherent(j), NEW f, NEW g, Saved(j, f),
         \A b \in Batches : f[b] # Null => g[b] # Null,
         j.op = "create" /\ j.stage \in {"records", "record", "list", "row"} =>
           g[j.batch] = Null
  PROVE  Saved(j, g)
  BY DEF Saved, Coherent

(* Job j goes on with the operation and the batch of thread w. *)
Keeps(w, j) == job[w] # Null /\ j.op = job[w].op /\ j.batch = job[w].batch

(* A thread moves on to job j, or to no job, and the rows of the batches stay. *)
LEMMA BeginKeepsHeld ==
  ASSUME JobsOK, HeldOK, OneCreation, NEW w \in Threads, NEW j, Begin(w, j),
         \A n \in Notifications : notifications[n] # Null => notifications'[n] # Null,
         UNCHANGED scheduledBatches,
         Written(j, notifications'), Saved(j, scheduledBatches),
         j.op = "create" => Keeps(w, j)
  PROVE  HeldOK' /\ OneCreation'
<1>1. job'[w] = j /\ \A v \in Threads \ {w} : job'[v] = job[v]
  BY DEF Begin, JobsOK
<1>2. ASSUME NEW v \in Threads, v # w, job[v] # Null
      PROVE  Written(job[v], notifications') /\ Saved(job[v], scheduledBatches)
  <2>1. job[v] \in Job /\ Coherent(job[v])
    BY <1>2, JobShape DEF Free
  <2>2. Written(job[v], notifications) /\ Saved(job[v], scheduledBatches)
    BY <1>2 DEF HeldOK, Free
  <2> QED
    BY <2>1, <2>2, WrittenGrows
<1>3. HeldOK'
  BY <1>1, <1>2 DEF HeldOK, Free
<1>4. ASSUME NEW v \in Threads, NEW b \in Batches, Creating(v, b)' PROVE Creating(v, b)
  BY <1>1, <1>4 DEF Creating, Holds, Free, Keeps
<1>5. OneCreation'
  BY <1>4 DEF OneCreation
<1> QED
  BY <1>3, <1>5

LEMMA EndKeepsHeld ==
  ASSUME JobsOK, HeldOK, OneCreation, NEW w \in Threads, End(w),
         UNCHANGED <<notifications, scheduledBatches>>
  PROVE  HeldOK' /\ OneCreation'
<1>1. job'[w] = Null /\ \A v \in Threads \ {w} : job'[v] = job[v]
  BY DEF End, JobsOK
<1>2. HeldOK'
  BY <1>1 DEF HeldOK, Free
<1>3. ASSUME NEW v \in Threads, NEW b \in Batches, Creating(v, b)' PROVE Creating(v, b)
  BY <1>1, <1>3 DEF Creating, Holds, Free
<1>4. OneCreation'
  BY <1>3 DEF OneCreation
<1> QED
  BY <1>2, <1>4

(* Moving to another stage changes nothing that is held, but for the stages    *)
(* at which records are written.                                               *)
LEMMA StageKeepsHeld ==
  ASSUME JobsOK, HeldOK, OneCreation, NEW w \in Threads, ~Free(w), NEW stage \in Stages,
         Goto(w, stage), UNCHANGED scheduledBatches, UNCHANGED notifications,
         stage # "list",
         job[w].stage \in {"records", "record", "list"} => job[w].left = {} \/ job[w].op # "create",
         Saved([job[w] EXCEPT !.stage = stage], scheduledBatches)
  PROVE  HeldOK' /\ OneCreation'
<1> DEFINE j == [job[w] EXCEPT !.stage = stage]
<1>1. job[w] \in Job /\ Coherent(job[w]) /\ Begin(w, j) /\ j \in Job
  BY JobShape, GotoIsBegin
<1>2. Written(job[w], notifications)
  BY DEF HeldOK
<1>3. Written(j, notifications)
  BY <1>1, <1>2 DEF Written, Job
<1>4. Keeps(w, j)
  BY <1>1 DEF Keeps, Free, Job
<1> QED
  BY <1>1, <1>3, <1>4, BeginKeepsHeld

(* The handlers. *)
LEMMA CreateKeepsHeld ==
  ASSUME TypeOK, JobsOK, HeldOK, OneCreation, NEW w \in Threads, NEW b \in Batches,
         NEW users \in SUBSET Users, NEW c \in Creators, NEW t \in Time,
         CreateNotification(w, b, users, c, t)
  PROVE  HeldOK' /\ OneCreation'
<1>1. PICK row \in Batch, rec \in Record :
        /\ row.users = users
        /\ Begin(w, [Blank("create") EXCEPT !.batch = b, !.row = row, !.left = users, !.rec = rec])
  BY CreateJob
<1> DEFINE j == [Blank("create") EXCEPT !.batch = b, !.row = row, !.left = users, !.rec = rec]
<1>2. /\ j.op = "create" /\ j.stage = "records" /\ j.batch = b /\ j.row.users = j.left
      /\ job'[w] = j /\ \A v \in Threads \ {w} : job'[v] = job[v]
  BY <1>1 DEF Blank, Begin, JobsOK
<1>3. scheduledBatches[b] = Null /\ \A v \in Threads : ~Free(v) => job[v].batch # b
  BY DEF CreateNotification, Fresh
<1>4. UNCHANGED <<notifications, scheduledBatches>>
  BY DEF CreateNotification, store
<1> HIDE DEF j
<1>5. Written(j, notifications) /\ Saved(j, scheduledBatches)
  BY <1>2, <1>3 DEF Written, Saved
<1>6. HeldOK'
  BY <1>2, <1>4, <1>5 DEF HeldOK, Free
<1>7. ASSUME NEW v \in Threads, NEW d \in Batches, Creating(v, d)'
      PROVE  IF v = w THEN d = b ELSE Creating(v, d)
  BY <1>2, <1>7 DEF Creating, Holds, Free
<1>8. ASSUME NEW v \in Threads, Creating(v, b)' PROVE v = w
  BY <1>3, <1>7, <1>8 DEF Creating, Holds
<1>9. OneCreation'
  BY <1>7, <1>8 DEF OneCreation
<1> QED
  BY <1>6, <1>9

LEMMA DeliveryKeepsHeld ==
  ASSUME TypeOK, JobsOK, HeldOK, OneCreation, NEW w \in Threads, NEW byLoop \in BOOLEAN,
         Begin(w, Delivery(byLoop)), UNCHANGED store
  PROVE  HeldOK' /\ OneCreation'
<1>1. Delivery(byLoop) \in Job
  BY DeliveryJob
<1>2. Written(Delivery(byLoop), notifications') /\ Saved(Delivery(byLoop), scheduledBatches)
  BY DEF Delivery, Blank, Written, Saved
<1>3. Delivery(byLoop).op = "deliver"
  BY DEF Delivery, Blank
<1>4. UNCHANGED <<notifications, scheduledBatches>>
  BY DEF store
<1> HIDE DEF Delivery
<1> QED
  BY <1>1, <1>2, <1>3, <1>4, BeginKeepsHeld

LEMMA ChangeKeepsHeld ==
  ASSUME TypeOK, JobsOK, NothingDangles, HeldOK, OneCreation, NEW w \in Threads,
         NEW op \in {"cancel", "reschedule"}, NEW b \in Batches, NEW row \in Batch, Pending(b),
         row.users = scheduledBatches[b].users, Begin(w, Change(op, b, row)), UNCHANGED store
  PROVE  HeldOK' /\ OneCreation'
<1> DEFINE j == Change(op, b, row)
<1>1. j \in Job
  BY ChangeJob
<1>2. j.op = op /\ j.stage = "untime" /\ j.batch = b /\ j.row = row
  BY DEF Change, Blank
<1>3. UNCHANGED <<notifications, scheduledBatches>>
  BY DEF store
<1> HIDE DEF j
<1>4. \A u \in row.users : notifications[<<b, u>>] # Null
  BY DEF NothingDangles, Pending
<1>5. Written(j, notifications') /\ Saved(j, scheduledBatches)
  BY <1>2, <1>3, <1>4 DEF Written, Saved, Pending
<1>6. j.op # "create"
  BY <1>2
<1> QED
  BY <1>1, <1>3, <1>5, <1>6, BeginKeepsHeld DEF j

LEMMA HandlerKeepsHeld ==
  ASSUME TypeOK, JobsOK, NothingDangles, HeldOK, OneCreation, NEW w \in Threads, Handler(w)
  PROVE  HeldOK' /\ OneCreation'
<1>1. CASE DeliverDueNotifications(w)
  BY <1>1, DeliveryKeepsHeld DEF DeliverDueNotifications
<1>2. ASSUME NEW b \in Batches, NEW c \in Creators, CancelScheduledBatch(w, b, c)
      PROVE  HeldOK' /\ OneCreation'
  <2> DEFINE row == [scheduledBatches[b] EXCEPT !.cancelled = TRUE]
  <2>1. Pending(b) /\ Begin(w, Change("cancel", b, row)) /\ UNCHANGED store
    BY <1>2 DEF CancelScheduledBatch
  <2>2. row \in Batch /\ row.users = scheduledBatches[b].users
    BY <2>1 DEF TypeOK, Pending, Batch
  <2> QED
    BY <2>1, <2>2, ChangeKeepsHeld
<1>3. ASSUME NEW b \in Batches, NEW c \in Creators, NEW t \in Time,
             RescheduleScheduledBatch(w, b, c, t)
      PROVE  HeldOK' /\ OneCreation'
  <2> DEFINE row == [scheduledBatches[b] EXCEPT !.trigger = t]
  <2>1. Pending(b) /\ Begin(w, Change("reschedule", b, row)) /\ UNCHANGED store
    BY <1>3 DEF RescheduleScheduledBatch
  <2>2. row \in Batch /\ row.users = scheduledBatches[b].users
    BY <2>1 DEF TypeOK, Pending, Batch
  <2> QED
    BY <2>1, <2>2, ChangeKeepsHeld
<1>4. ASSUME NEW b \in Batches, NEW u \in Users, MarkAsRead(w, b, u)
      PROVE  HeldOK' /\ OneCreation'
  <2> DEFINE rec == [notifications[<<b, u>>] EXCEPT !.read = TRUE]
             j == [Blank("read") EXCEPT !.stage = "record", !.batch = b, !.left = {u}, !.user = u,
                                        !.rec = rec]
  <2>1. rec \in Record
    BY <1>4 DEF TypeOK, MarkAsRead, Notifications, Record
  <2>2. j \in Job
    BY <2>1, BlankJob DEF Operations, Job, Stages
  <2>3. j.op = "read" /\ j.stage = "record" /\ j.row = Null /\ Begin(w, j)
    BY <1>4 DEF Blank, MarkAsRead
  <2>4. UNCHANGED <<notifications, scheduledBatches>>
    BY <1>4 DEF MarkAsRead, store
  <2> HIDE DEF j
  <2>5. Written(j, notifications') /\ Saved(j, scheduledBatches)
    BY <2>3 DEF Written, Saved
  <2> QED
    BY <2>2, <2>3, <2>4, <2>5, BeginKeepsHeld
<1> QED
  BY <1>1, <1>2, <1>3, <1>4, CreateKeepsHeld DEF Handler

(* The steps on a batch. *)
LEMMA TakeKeepsHeld ==
  ASSUME TypeOK, JobsOK, NothingDangles, HeldOK, OneCreation, NEW w \in Threads,
         NEW k \in Time \X Batches, TakeBatch(w, k)
  PROVE  HeldOK' /\ OneCreation'
<1> DEFINE row == scheduledBatches[k[2]]
           taken == [row EXCEPT !.delivered = job[w].at]
           j == [job[w] EXCEPT !.stage = "untime", !.batch = k[2], !.from = row.trigger,
                               !.row = taken, !.left = row.users, !.due = @ \ {k}]
<1>1. /\ job[w] \in Job /\ Coherent(job[w]) /\ job[w].stage = "due" /\ Pending(k[2])
      /\ Begin(w, j) /\ UNCHANGED <<notifications, scheduledBatches>> /\ k[2] \in Batches
  BY JobShape DEF TakeBatch, NextDue, At, Free, store
<1>2. row \in Batch
  BY <1>1 DEF TypeOK, Pending
<1>3. taken \in Batch /\ row.trigger \in Time /\ row.users \in SUBSET Users /\ taken.users = row.users
  BY <1>1, <1>2 DEF Batch, Job
<1>4. j \in Job
  BY <1>1, <1>2, <1>3 DEF Job, Stages
<1>5. /\ j.op = "deliver" /\ j.stage = "untime" /\ j.batch = k[2] /\ j.row.users = row.users
  BY <1>1, <1>3 DEF Job, Coherent
<1>6. (\A u \in row.users : notifications[<<k[2], u>>] # Null) /\ row # Null
  BY <1>1 DEF NothingDangles, Pending
<1> HIDE DEF j
<1>7. Written(j, notifications) /\ Saved(j, scheduledBatches)
  BY <1>5, <1>6 DEF Written, Saved
<1>8. j.op # "create"
  BY <1>5
<1> QED
  BY <1>1, <1>4, <1>7, <1>8, BeginKeepsHeld

(* The row that is written is not that of another creation, whose batch is     *)
(* unknown until it writes its own.                                            *)
LEMMA WriteBatchKeepsHeld ==
  ASSUME TypeOK, JobsOK, HeldOK, OneCreation, NEW w \in Threads, WriteBatch(w)
  PROVE  HeldOK' /\ OneCreation'
<1> DEFINE b == job[w].batch
           stage == IF IsPending(job[w].row) THEN "time" ELSE "records"
           j == [job[w] EXCEPT !.stage = stage]
<1>1. /\ job[w] \in Job /\ Coherent(job[w]) /\ job[w].stage = "row" /\ ~Free(w)
      /\ b \in Batches /\ job[w].row \in Batch
  BY JobShape DEF WriteBatch, At, Free, Coherent
<1>2. /\ scheduledBatches' = [scheduledBatches EXCEPT ![b] = job[w].row]
      /\ notifications' = notifications
  BY DEF WriteBatch
<1>3. Begin(w, j) /\ j \in Job
  BY <1>1, GotoIsBegin DEF WriteBatch, Stages
<1>4. job'[w] = j /\ \A v \in Threads \ {w} : job'[v] = job[v]
  BY <1>3 DEF Begin, JobsOK
<1>5. /\ scheduledBatches'[b] # Null
      /\ \A d \in Batches \ {b} : scheduledBatches'[d] = scheduledBatches[d]
  BY <1>1, <1>2, NullIsNothing DEF TypeOK
<1>6. Written(job[w], notifications) /\ Saved(job[w], scheduledBatches)
  BY <1>1 DEF HeldOK
<1>7. /\ j.op = job[w].op /\ j.batch = b /\ j.row = job[w].row /\ j.left = job[w].left
      /\ j.stage = stage
  BY <1>1 DEF Job
<1>8. j.op = "create" => stage = "time"
  BY <1>1, <1>7 DEF Coherent
<1> HIDE DEF j
<1>9. Written(j, notifications')
  BY <1>1, <1>2, <1>6, <1>7 DEF Written
<1>10. Saved(j, scheduledBatches')
  BY <1>5, <1>7, <1>8 DEF Saved
<1>11. ASSUME NEW v \in Threads, v # w, job[v] # Null
       PROVE  Written(job[v], notifications') /\ Saved(job[v], scheduledBatches')
  <2>1. job[v] \in Job /\ Coherent(job[v])
    BY <1>11, JobShape DEF Free
  <2>2. Written(job[v], notifications) /\ Saved(job[v], scheduledBatches)
    BY <1>11 DEF HeldOK, Free
  <2>3. ASSUME job[v].op = "create", job[v].stage \in {"records", "record", "list", "row"},
               job[v].batch = b
        PROVE  FALSE
    <3>1. scheduledBatches[b] = Null
      BY <2>2, <2>3 DEF Saved
    <3>2. job[w].op = "create"
      BY <1>1, <1>6, <3>1 DEF Saved
    <3> QED
      BY <1>1, <1>11, <2>3, <3>2 DEF OneCreation, Creating, Holds, Free
  <2>4. job[v].op = "create" /\ job[v].stage \in {"records", "record", "list", "row"} =>
          scheduledBatches'[job[v].batch] = Null
    BY <1>5, <2>1, <2>2, <2>3 DEF Saved, Coherent
  <2>5. \A d \in Batches : scheduledBatches[d] # Null => scheduledBatches'[d] # Null
    BY <1>5
  <2>6. Saved(job[v], scheduledBatches')
    BY <2>1, <2>2, <2>4, <2>5, SavedGrows
  <2> QED
    BY <1>2, <2>2, <2>6
<1>12. HeldOK'
  BY <1>4, <1>9, <1>10, <1>11 DEF HeldOK, Free
<1>13. ASSUME NEW v \in Threads, NEW d \in Batches, Creating(v, d)' PROVE Creating(v, d)
  BY <1>1, <1>4, <1>7, <1>13 DEF Creating, Holds, Free
<1>14. OneCreation'
  BY <1>13 DEF OneCreation
<1> QED
  BY <1>12, <1>14

LEMMA BatchStepKeepsHeld ==
  ASSUME TypeOK, JobsOK, NothingDangles, HeldOK, OneCreation, NEW w \in Threads, BatchStep(w)
  PROVE  HeldOK' /\ OneCreation'
<1>1. ASSUME NEW k \in Time \X Batches, PassBatch(w, k) PROVE HeldOK' /\ OneCreation'
  <2> DEFINE j == [job[w] EXCEPT !.due = @ \ {k}]
  <2>1. job[w] \in Job /\ Coherent(job[w]) /\ ~Free(w) /\ Begin(w, j)
    BY <1>1, JobShape DEF PassBatch, NextDue, At, Free
  <2>2. j \in Job /\ Keeps(w, j)
    BY <2>1 DEF Job, Keeps, Free
  <2>3. Written(job[w], notifications) /\ Saved(job[w], scheduledBatches)
    BY <2>1 DEF HeldOK
  <2>4. Written(j, notifications) /\ Saved(j, scheduledBatches)
    BY <2>1, <2>3 DEF Written, Saved, Job
  <2> QED
    BY <1>1, <2>1, <2>2, <2>4, BeginKeepsHeld DEF PassBatch, store
<1>2. ASSUME NEW stage \in Stages \ {"list"}, ~Free(w), Goto(w, stage),
             UNCHANGED <<notifications, scheduledBatches>>,
             job[w].stage \in {"untime", "uncreator", "time", "creator"},
             stage \in {"uncreator", "row"} => job[w].stage \in {"untime", "uncreator"},
             stage \in {"uncreator", "row", "creator", "wake"} \/
               (stage = "records" /\ job[w].op # "create"),
             stage = "creator" => job[w].stage = "time"
      PROVE  HeldOK' /\ OneCreation'
  <2>1. job[w] \in Job /\ Coherent(job[w]) /\ Saved(job[w], scheduledBatches)
    BY <1>2, JobShape DEF HeldOK
  <2> DEFINE j == [job[w] EXCEPT !.stage = stage]
  <2>2. j.op = job[w].op /\ j.batch = job[w].batch /\ j.stage = stage
    BY <2>1 DEF Job
  <2>3. stage \in {"uncreator", "row"} =>
          job[w].op # "create" /\ scheduledBatches[job[w].batch] # Null
    BY <1>2, <2>1 DEF Saved, Coherent, Changing
  <2>4. stage = "creator" => scheduledBatches[job[w].batch] # Null
    BY <1>2, <2>1 DEF Saved
  <2> HIDE DEF j
  <2>5. Saved(j, scheduledBatches)
    BY <1>2, <2>2, <2>3, <2>4 DEF Saved
  <2> QED
    BY <1>2, <2>5, StageKeepsHeld DEF j
<1>3. CASE UnindexTime(w)
  BY <1>2, <1>3 DEF UnindexTime, At, Free, Stages
<1>4. CASE UnindexCreator(w)
  BY <1>2, <1>4 DEF UnindexCreator, At, Free, Stages
<1>5. CASE IndexTime(w)
  BY <1>2, <1>5 DEF IndexTime, At, Free, Stages
<1>6. CASE IndexCreator(w)
  BY <1>2, <1>6 DEF IndexCreator, At, Free, Stages
<1> QED
  BY <1>1, <1>3, <1>4, <1>5, <1>6, TakeKeepsHeld, WriteBatchKeepsHeld DEF BatchStep

(* The steps on a record. *)
LEMMA ReadRecordKeepsHeld ==
  ASSUME TypeOK, JobsOK, HeldOK, OneCreation, NEW w \in Threads, NEW u \in Users, ReadRecord(w, u)
  PROVE  HeldOK' /\ OneCreation'
<1> DEFINE held == job[w]
           rec == notifications[<<held.batch, u>>]
           new == Changed(held, rec)
           go == [held EXCEPT !.stage = "record", !.user = u, !.rec = new]
           skip == [held EXCEPT !.left = @ \ {u}]
<1>1. /\ held \in Job /\ Coherent(held) /\ held.stage = "records" /\ held # Null
      /\ Written(held, notifications) /\ Saved(held, scheduledBatches)
      /\ UNCHANGED <<notifications, scheduledBatches>>
  BY JobShape DEF ReadRecord, At, Free, HeldOK, store
<1>2. CASE held.op = "create" \/ (rec # Null /\ Concerns(held.op, rec))
  <2>1. Begin(w, go)
    BY <1>2 DEF ReadRecord
  <2> HIDE DEF new
  <2>2. /\ go.op = held.op /\ go.batch = held.batch /\ go.row = held.row /\ go.left = held.left
        /\ go.stage = "record"
    BY <1>1 DEF Job
  <2> HIDE DEF go
  <2>3. Written(go, notifications') /\ Saved(go, scheduledBatches) /\ Keeps(w, go)
    BY <1>1, <2>2 DEF Written, Saved, Keeps
  <2> QED
    BY <1>1, <2>1, <2>3, BeginKeepsHeld
<1>3. CASE ~(held.op = "create" \/ (rec # Null /\ Concerns(held.op, rec)))
  <2>1. Begin(w, skip)
    BY <1>3 DEF ReadRecord
  <2>2. /\ skip.op = held.op /\ skip.batch = held.batch /\ skip.row = held.row
        /\ skip.stage = "records" /\ held.op # "create"
    BY <1>1, <1>3 DEF Job
  <2> HIDE DEF skip
  <2>3. Written(skip, notifications') /\ Saved(skip, scheduledBatches) /\ Keeps(w, skip)
    BY <1>1, <2>2 DEF Written, Saved, Keeps
  <2> QED
    BY <1>1, <2>1, <2>3, BeginKeepsHeld
<1> QED
  BY <1>2, <1>3

(* A record that has been written is treated: its creation goes on without it. *)
LEMMA DoneIsHeld ==
  ASSUME NEW j \in Job, Coherent(j), j.stage \in {"record", "list", "send"}, NEW f, NEW g, NEW saved,
         Written(j, f), Saved(j, saved), \A n \in Notifications : f[n] # Null => g[n] # Null,
         j.stage # "send" => g[<<j.batch, j.user>>] # Null,
         j.stage = "send" => j.op # "create"
  PROVE  Written(RecordDone(j), g) /\ Saved(RecordDone(j), saved)
<1> DEFINE done == RecordDone(j)
<1>1. /\ done.op = j.op /\ done.batch = j.batch /\ done.row = j.row /\ done.left = j.left \ {j.user}
      /\ done.stage = "records"
  BY DEF RecordDone, Job
<1>2. Written(j, g)
  BY WrittenGrows
<1> HIDE DEF done
<1>3. Written(done, g)
  BY <1>1, <1>2 DEF Written
<1>4. Saved(done, saved)
  BY <1>1 DEF Saved
<1> QED
  BY <1>3, <1>4 DEF done

LEMMA AfterRecordKeepsHeld ==
  ASSUME JobsOK, HeldOK, OneCreation, NEW w \in Threads, ~Free(w),
         job[w].stage \in {"record", "list"}, AfterRecord(w), UNCHANGED scheduledBatches,
         \A n \in Notifications : notifications[n] # Null => notifications'[n] # Null,
         notifications'[<<job[w].batch, job[w].user>>] # Null
  PROVE  HeldOK' /\ OneCreation'
<1>1. /\ job[w] \in Job /\ Coherent(job[w]) /\ job[w] # Null
      /\ Written(job[w], notifications) /\ Saved(job[w], scheduledBatches)
  BY JobShape DEF Free, HeldOK
<1>2. CASE Announces(job[w].op)
  <2> DEFINE j == [job[w] EXCEPT !.stage = "send"]
  <2>1. Begin(w, j)
    BY <1>2, GotoIsBegin DEF AfterRecord, Stages
  <2>2. /\ j.op = job[w].op /\ j.batch = job[w].batch /\ j.row = job[w].row /\ j.stage = "send"
        /\ j.op # "create"
    BY <1>1, <1>2 DEF Job, Announces
  <2>3. Written(job[w], notifications')
    BY <1>1, WrittenGrows
  <2> HIDE DEF j
  <2>4. Written(j, notifications') /\ Saved(j, scheduledBatches)
    BY <1>1, <2>2, <2>3 DEF Written, Saved
  <2> QED
    BY <2>1, <2>2, <2>4, BeginKeepsHeld
<1>3. CASE ~Announces(job[w].op)
  <2> DEFINE j == RecordDone(job[w])
  <2>1. Begin(w, j)
    BY <1>3 DEF AfterRecord
  <2>2. Written(j, notifications') /\ Saved(j, scheduledBatches)
    BY <1>1, DoneIsHeld
  <2>3. Keeps(w, j)
    BY <1>1 DEF RecordDone, Keeps, Job
  <2> HIDE DEF j
  <2> QED
    BY <2>1, <2>2, <2>3, BeginKeepsHeld
<1> QED
  BY <1>2, <1>3

LEMMA WriteRecordGrows ==
  ASSUME TypeOK, JobsOK, NEW w \in Threads, WriteRecord(w)
  PROVE  /\ \A n \in Notifications : notifications[n] # Null => notifications'[n] # Null
         /\ notifications'[<<job[w].batch, job[w].user>>] # Null
<1>1. <<job[w].batch, job[w].user>> \in Notifications /\ job[w].rec \in Record
  BY JobShape DEF WriteRecord, At, Free, Coherent, Notifications
<1> QED
  BY <1>1, NullIsNothing DEF WriteRecord, TypeOK

LEMMA WriteRecordKeepsHeld ==
  ASSUME TypeOK, JobsOK, HeldOK, OneCreation, NEW w \in Threads, WriteRecord(w)
  PROVE  HeldOK' /\ OneCreation'
<1>1. /\ job[w] \in Job /\ Coherent(job[w]) /\ job[w].stage = "record" /\ ~Free(w)
      /\ Written(job[w], notifications) /\ Saved(job[w], scheduledBatches)
      /\ UNCHANGED scheduledBatches
  BY JobShape DEF WriteRecord, At, Free, HeldOK
<1>2. CASE job[w].rec.delivered # Null
  <2> DEFINE j == [job[w] EXCEPT !.stage = "list"]
  <2>1. Begin(w, j)
    BY <1>1, <1>2, GotoIsBegin DEF WriteRecord, Stages
  <2>2. /\ j.op = job[w].op /\ j.batch = job[w].batch /\ j.row = job[w].row /\ j.left = job[w].left
        /\ j.user = job[w].user /\ j.stage = "list" /\ Keeps(w, j)
    BY <1>1 DEF Job, Keeps, Free
  <2>3. Written(job[w], notifications') /\ notifications'[<<job[w].batch, job[w].user>>] # Null
    BY <1>1, WrittenGrows, WriteRecordGrows
  <2> HIDE DEF j
  <2>4. Written(j, notifications') /\ Saved(j, scheduledBatches)
    BY <1>1, <2>2, <2>3 DEF Written, Saved
  <2> QED
    BY <1>1, <2>1, <2>2, <2>4, BeginKeepsHeld, WriteRecordGrows
<1>3. CASE job[w].rec.delivered = Null
  <2>1. AfterRecord(w)
    BY <1>3 DEF WriteRecord
  <2> QED
    BY <1>1, <2>1, AfterRecordKeepsHeld, WriteRecordGrows
<1> QED
  BY <1>2, <1>3

LEMMA FinishKeepsHeld ==
  ASSUME JobsOK, HeldOK, OneCreation, NEW w \in Threads, FinishRecords(w)
  PROVE  HeldOK' /\ OneCreation'
<1> DEFINE held == job[w]
           publish == [held EXCEPT !.stage = "publish", !.left = held.row.users]
           next == [held EXCEPT !.stage = "due", !.batch = Null, !.row = Null, !.from = 0]
<1>1. /\ held \in Job /\ Coherent(held) /\ held.stage = "records" /\ ~Free(w) /\ held # Null
      /\ held.left = {} /\ held.op \in Operations
      /\ Written(held, notifications) /\ Saved(held, scheduledBatches)
      /\ UNCHANGED <<notifications, scheduledBatches>>
  BY JobShape DEF FinishRecords, At, Free, Job, HeldOK, store
<1>2. ASSUME NEW stage \in {"row", "wake"}, Goto(w, stage), stage = "row" => held.op = "create"
      PROVE  HeldOK' /\ OneCreation'
  <2> DEFINE j == [held EXCEPT !.stage = stage]
  <2>1. j.op = held.op /\ j.batch = held.batch /\ j.stage = stage
    BY <1>1 DEF Job
  <2> HIDE DEF j
  <2>2. Saved(j, scheduledBatches)
    BY <1>1, <1>2, <2>1 DEF Saved
  <2> QED
    BY <1>1, <1>2, <2>2, StageKeepsHeld DEF Stages, j
<1>3. CASE held.op = "create" /\ held.rec.delivered = Null
  BY <1>2, <1>3 DEF FinishRecords
<1>4. CASE held.op = "create" /\ held.rec.delivered # Null
  <2>1. Begin(w, publish)
    BY <1>4 DEF FinishRecords
  <2>2. /\ publish.op = held.op /\ publish.batch = held.batch /\ publish.row = held.row
        /\ publish.stage = "publish" /\ Keeps(w, publish)
    BY <1>1 DEF Job, Keeps
  <2> HIDE DEF publish
  <2>3. Written(publish, notifications) /\ Saved(publish, scheduledBatches)
    BY <1>1, <2>2 DEF Written, Saved
  <2> QED
    BY <1>1, <2>1, <2>2, <2>3, BeginKeepsHeld
<1>5. CASE held.op = "deliver"
  <2>1. Begin(w, next)
    BY <1>5 DEF FinishRecords
  <2>2. next.op = "deliver" /\ next.row = Null /\ next.stage = "due"
    BY <1>1, <1>5 DEF Job
  <2> HIDE DEF next
  <2>3. Written(next, notifications) /\ Saved(next, scheduledBatches)
    BY <2>2 DEF Written, Saved
  <2> QED
    BY <1>1, <2>1, <2>2, <2>3, BeginKeepsHeld
<1>6. CASE held.op \in {"cancel", "reschedule"}
  BY <1>2, <1>6 DEF FinishRecords
<1>7. CASE held.op = "read"
  BY <1>1, <1>7, EndKeepsHeld DEF FinishRecords
<1> QED
  BY <1>1, <1>3, <1>4, <1>5, <1>6, <1>7 DEF Operations

LEMMA RecordStepKeepsHeld ==
  ASSUME TypeOK, JobsOK, HeldOK, OneCreation, NEW w \in Threads, RecordStep(w)
  PROVE  HeldOK' /\ OneCreation'
<1>1. ASSUME NEW u \in Users, Publish(w, u) PROVE HeldOK' /\ OneCreation'
  <2> DEFINE j == [job[w] EXCEPT !.left = @ \ {u}]
  <2>1. /\ job[w] \in Job /\ job[w] # Null /\ job[w].stage = "publish"
        /\ Written(job[w], notifications) /\ Saved(job[w], scheduledBatches)
        /\ UNCHANGED <<notifications, scheduledBatches>>
    BY <1>1, JobShape DEF Publish, At, Free, HeldOK, store
  <2>2. /\ j.op = job[w].op /\ j.batch = job[w].batch /\ j.row = job[w].row /\ j.stage = "publish"
        /\ Keeps(w, j)
    BY <2>1 DEF Job, Keeps
  <2>3. End(w) \/ Begin(w, j)
    BY <1>1 DEF Publish
  <2> HIDE DEF j
  <2>4. Written(j, notifications) /\ Saved(j, scheduledBatches)
    BY <2>1, <2>2 DEF Written, Saved
  <2> QED
    BY <2>1, <2>2, <2>3, <2>4, BeginKeepsHeld, EndKeepsHeld
<1>2. CASE IndexRecord(w)
  <2>1. /\ ~Free(w) /\ job[w].stage = "list" /\ Written(job[w], notifications)
        /\ UNCHANGED <<notifications, scheduledBatches>> /\ AfterRecord(w)
    BY <1>2 DEF IndexRecord, At, Free, HeldOK
  <2>2. notifications[<<job[w].batch, job[w].user>>] # Null
    BY <2>1 DEF Written
  <2> QED
    BY <2>1, <2>2, AfterRecordKeepsHeld
<1>3. CASE SendRecord(w)
  <2> DEFINE j == RecordDone(job[w])
  <2>1. /\ job[w] \in Job /\ Coherent(job[w]) /\ job[w] # Null /\ job[w].stage = "send"
        /\ Written(job[w], notifications) /\ Saved(job[w], scheduledBatches)
        /\ UNCHANGED <<notifications, scheduledBatches>> /\ Begin(w, j)
    BY <1>3, JobShape DEF SendRecord, At, Free, HeldOK, store
  <2>2. job[w].op # "create"
    BY <2>1 DEF Coherent, Announces
  <2>3. Written(j, notifications) /\ Saved(j, scheduledBatches)
    BY <2>1, <2>2, DoneIsHeld
  <2>4. Keeps(w, j)
    BY <2>1 DEF RecordDone, Keeps, Job
  <2> HIDE DEF j
  <2> QED
    BY <2>1, <2>3, <2>4, BeginKeepsHeld
<1> QED
  BY <1>1, <1>2, <1>3, ReadRecordKeepsHeld, WriteRecordKeepsHeld, FinishKeepsHeld DEF RecordStep

(* Every step of the service. *)
LEMMA NextKeepsHeld ==
  ASSUME TypeOK, JobsOK, NothingDangles, HeldOK, OneCreation, [Next]_vars
  PROVE  HeldOK' /\ OneCreation'
<1>1. ASSUME NEW w \in Threads, Step(w) PROVE HeldOK' /\ OneCreation'
  <2>1. CASE WakeScheduler(w) \/ EndDelivery(w) \/ LoopSleeps(w)
    BY <2>1, EndKeepsHeld DEF WakeScheduler, EndDelivery, LoopSleeps, store
  <2> QED
    BY <1>1, <2>1, BatchStepKeepsHeld, RecordStepKeepsHeld DEF Step
<1>2. ASSUME NEW w \in Threads, LoopDelivers(w) PROVE HeldOK' /\ OneCreation'
  BY <1>2, DeliveryKeepsHeld DEF LoopDelivers
<1>3. ASSUME NEW w \in Threads, LoopFails(w) PROVE HeldOK' /\ OneCreation'
  BY <1>3, EndKeepsHeld DEF LoopFails, store
<1>4. ASSUME NEW w \in Threads, Fail(w) PROVE HeldOK' /\ OneCreation'
  <2> DEFINE j == [Delivery(TRUE) EXCEPT !.due = {}, !.at = job[w].at]
  <2>1. j.op = "deliver" /\ j.row = Null /\ j.stage = "due"
    BY DEF Delivery, Blank
  <2>2. UNCHANGED <<notifications, scheduledBatches>> /\ (End(w) \/ Begin(w, j))
    BY <1>4 DEF Fail, store
  <2> HIDE DEF j
  <2>3. Written(j, notifications) /\ Saved(j, scheduledBatches)
    BY <2>1 DEF Written, Saved
  <2> QED
    BY <2>1, <2>2, <2>3, BeginKeepsHeld, EndKeepsHeld
<1>5. CASE AlarmRings \/ SchedulerNotified \/ Tick \/ UNCHANGED vars
  <2>1. UNCHANGED <<job, notifications, scheduledBatches>>
    BY <1>5 DEF AlarmRings, SchedulerNotified, Tick, vars, store
  <2> QED
    BY <2>1 DEF HeldOK, OneCreation, Free, Creating, Holds
<1>6. CASE Crash
  BY <1>6 DEF Crash, HeldOK, OneCreation, Free, Creating, Holds
<1> QED
  BY <1>1, <1>2, <1>3, <1>4, <1>5, <1>6, HandlerKeepsHeld DEF Next

-----------------------------------------------------------------------------
(* Nothing dangles: what the keys and the rows refer to is there before them    *)
(* and never goes.                                                             *)
LEMMA RowsKeepWhole ==
  ASSUME TypeOK, JobsOK, HeldOK, NothingDangles, NEW w \in Threads, WriteBatch(w)
  PROVE  NothingDangles'
<1> DEFINE b == job[w].batch
<1>1. /\ job[w].stage = "row" /\ Written(job[w], notifications)
      /\ b \in Batches /\ job[w].row \in Batch
  BY JobShape DEF WriteBatch, At, Free, Coherent, HeldOK
<1>2. \A u \in job[w].row.users : notifications[<<b, u>>] # Null
  BY <1>1, NullIsNothing DEF Written
<1>3. /\ scheduledBatches'[b] = job[w].row
      /\ \A d \in Batches \ {b} : scheduledBatches'[d] = scheduledBatches[d]
      /\ UNCHANGED <<notifications, userIndex, scheduledByTime, scheduledByCreator>>
  BY <1>1 DEF WriteBatch, TypeOK
<1>4. job[w].row # Null
  BY <1>1, NullIsNothing
<1> HIDE DEF b
<1>5. (\A k \in scheduledByTime : k[2] \in Batches) /\ \A k \in scheduledByCreator : k[3] \in Batches
  BY DEF TypeOK
<1>6. \A d \in Batches : scheduledBatches[d] # Null => scheduledBatches'[d] # Null
  BY <1>1, <1>3, <1>4
<1>7. ASSUME NEW d \in Batches, scheduledBatches'[d] # Null, NEW u \in scheduledBatches'[d].users
      PROVE  notifications[<<d, u>>] # Null
  BY <1>1, <1>2, <1>3, <1>7 DEF NothingDangles
<1> QED
  BY <1>3, <1>5, <1>6, <1>7 DEF NothingDangles

LEMMA NextKeepsWhole ==
  ASSUME TypeOK, JobsOK, HeldOK, NothingDangles, [Next]_vars
  PROVE  NothingDangles'
<1>1. ASSUME UNCHANGED store PROVE NothingDangles'
  BY <1>1 DEF store, NothingDangles
<1>2. ASSUME NEW w \in Threads, WriteRecord(w) PROVE NothingDangles'
  <2>1. /\ \A n \in Notifications : notifications[n] # Null => notifications'[n] # Null
        /\ UNCHANGED <<userIndex, scheduledBatches, scheduledByTime, scheduledByCreator>>
    BY <1>2, WriteRecordGrows DEF WriteRecord
  <2>2. /\ \A k \in userIndex : k[1] \in Notifications
        /\ \A b \in Batches : scheduledBatches[b] # Null =>
             \A u \in scheduledBatches[b].users : <<b, u>> \in Notifications
    BY DEF TypeOK, Batch, Notifications
  <2> QED
    BY <2>1, <2>2 DEF NothingDangles
<1>3. ASSUME NEW w \in Threads, UnindexTime(w) \/ UnindexCreator(w) PROVE NothingDangles'
  <2>1. /\ scheduledByTime' \subseteq scheduledByTime
        /\ scheduledByCreator' \subseteq scheduledByCreator
        /\ UNCHANGED <<notifications, userIndex, scheduledBatches>>
    BY <1>3 DEF UnindexTime, UnindexCreator
  <2> QED
    BY <2>1 DEF NothingDangles
<1>4. ASSUME NEW w \in Threads, IndexTime(w) \/ IndexCreator(w) PROVE NothingDangles'
  <2>1. job[w].stage \in {"time", "creator"} /\ Saved(job[w], scheduledBatches)
    BY <1>4 DEF IndexTime, IndexCreator, At, HeldOK, Free
  <2>2. scheduledBatches[job[w].batch] # Null
    BY <2>1 DEF Saved
  <2>3. /\ \A k \in scheduledByTime' : k \in scheduledByTime \/ k[2] = job[w].batch
        /\ \A k \in scheduledByCreator' : k \in scheduledByCreator \/ k[3] = job[w].batch
        /\ UNCHANGED <<notifications, userIndex, scheduledBatches>>
    BY <1>4 DEF IndexTime, IndexCreator
  <2> QED
    BY <2>2, <2>3 DEF NothingDangles
<1>5. ASSUME NEW w \in Threads, IndexRecord(w) PROVE NothingDangles'
  <2>1. job[w].stage = "list" /\ Written(job[w], notifications)
    BY <1>5 DEF IndexRecord, At, HeldOK, Free
  <2>2. notifications[<<job[w].batch, job[w].user>>] # Null
    BY <2>1 DEF Written
  <2>3. /\ \A k \in userIndex' : k \in userIndex \/ k[1] = <<job[w].batch, job[w].user>>
        /\ UNCHANGED <<notifications, scheduledByTime, scheduledByCreator, scheduledBatches>>
    BY <1>5 DEF IndexRecord
  <2> QED
    BY <2>2, <2>3 DEF NothingDangles
<1>6. ASSUME NEW w \in Threads, Step(w) PROVE NothingDangles'
  <2>1. CASE BatchStep(w)
    BY <1>1, <1>3, <1>4, <2>1, RowsKeepWhole DEF BatchStep, TakeBatch, PassBatch
  <2>2. CASE RecordStep(w)
    BY <1>1, <1>2, <1>5, <2>2 DEF RecordStep, ReadRecord, Publish, SendRecord, FinishRecords
  <2>3. CASE WakeScheduler(w) \/ EndDelivery(w) \/ LoopSleeps(w)
    BY <1>1, <2>3 DEF WakeScheduler, EndDelivery, LoopSleeps
  <2> QED
    BY <1>6, <2>1, <2>2, <2>3 DEF Step
<1>7. ASSUME NEW w \in Threads, Handler(w) PROVE UNCHANGED store
  BY <1>7 DEF Handler, CreateNotification, DeliverDueNotifications, CancelScheduledBatch,
              RescheduleScheduledBatch, MarkAsRead
<1>8. ASSUME NEW w \in Threads, LoopDelivers(w) \/ Fail(w) \/ LoopFails(w) PROVE UNCHANGED store
  BY <1>8 DEF LoopDelivers, Fail, LoopFails
<1>9. CASE AlarmRings \/ SchedulerNotified \/ Tick \/ Crash \/ UNCHANGED vars
  BY <1>1, <1>9 DEF AlarmRings, SchedulerNotified, Tick, Crash, vars, store
<1> QED
  BY <1>1, <1>6, <1>7, <1>8, <1>9 DEF Next

LEMMA NInvInit == Init => NInv
<1> SUFFICES ASSUME Init PROVE NInv
  OBVIOUS
<1>1. TypeOK /\ JobsOK
  BY InitIsTyped
<1>2. NothingDangles
  BY DEF Init, NothingDangles
<1>3. HeldOK /\ OneCreation
  BY DEF Init, HeldOK, OneCreation, Creating, Holds, Free
<1> QED
  BY <1>1, <1>2, <1>3, NInvParts

LEMMA NInvNext ==
  ASSUME NInv, [Next]_vars
  PROVE  NInv'
<1>1. TypeOK /\ JobsOK /\ NothingDangles /\ HeldOK /\ OneCreation
  BY NInvParts
<1>2. TypeOK' /\ JobsOK'
  BY <1>1, NextKeepsType
<1>3. NothingDangles' /\ HeldOK' /\ OneCreation'
  BY <1>1, NextKeepsWhole, NextKeepsHeld
<1> QED
  BY <1>2, <1>3 DEF NInv, JobsOK, HeldOK, OneCreation

(* The invariant: what an operation holds at each stage, and how that agrees    *)
(* with the store, after any calls, interleavings and faults.                  *)
THEOREM NotificationInvariantHolds == Spec => []NInv
<1>1. NInv /\ [Next]_vars => NInv'
  BY NInvNext
<1> QED
  BY NInvInit, <1>1, PTL DEF Spec

(* No fault and no other operation ever meets a key without a batch, a batch   *)
(* without all its notifications, or a listing without a record.               *)
THEOREM StoreIsWhole == Spec => []NothingDangles
<1>1. NInv => NothingDangles
  BY DEF NInv
<1> QED
  BY NotificationInvariantHolds, <1>1, PTL

-----------------------------------------------------------------------------
(* A decided batch stays decided.  A thread that moves on to job j does not     *)
(* reopen it if j is not about to write it back pending.                       *)
Reopens(j, b) ==
  j.batch = b /\ j.stage \in {"untime", "uncreator", "row"} /\ IsPending(j.row)

LEMMA BeginKeepsSettled ==
  ASSUME JobsOK, NEW b \in Batches, Settled(b), NEW w \in Threads, NEW j, Begin(w, j),
         ~Reopens(j, b), UNCHANGED scheduledBatches
  PROVE  Settled(b)'
<1>1. job'[w] = j /\ \A v \in Threads \ {w} : job'[v] = job[v]
  BY DEF Begin, JobsOK
<1>2. ASSUME NEW v \in Threads, HoldsPending(v, b)' PROVE HoldsPending(v, b)
  BY <1>1, <1>2 DEF HoldsPending, Holds, Free, Reopens
<1> QED
  BY <1>2 DEF Settled, Pending

LEMMA EndKeepsSettled ==
  ASSUME JobsOK, NEW b \in Batches, Settled(b), NEW w \in Threads, End(w),
         UNCHANGED scheduledBatches
  PROVE  Settled(b)'
<1>1. job'[w] = Null /\ \A v \in Threads \ {w} : job'[v] = job[v]
  BY DEF End, JobsOK
<1>2. ASSUME NEW v \in Threads, HoldsPending(v, b)' PROVE HoldsPending(v, b)
  BY <1>1, <1>2 DEF HoldsPending, Holds, Free
<1> QED
  BY <1>2 DEF Settled, Pending

LEMMA GotoKeepsSettled ==
  ASSUME JobsOK, NEW b \in Batches, Settled(b), NEW w \in Threads, NEW stage \in Stages,
         Goto(w, stage), ~Free(w), UNCHANGED scheduledBatches,
         \/ stage \notin {"untime", "uncreator", "row"}
         \/ job[w].stage \in {"untime", "uncreator", "row"}
         \/ job[w].batch # b
  PROVE  Settled(b)'
<1> DEFINE j == [job[w] EXCEPT !.stage = stage]
<1>1. Begin(w, j)
  BY GotoIsBegin
<1>2. j.batch = job[w].batch /\ j.row = job[w].row /\ j.stage = stage
  BY JobShape DEF Job
<1>3. ~HoldsPending(w, b)
  BY DEF Settled
<1> HIDE DEF j
<1>4. ~Reopens(j, b)
  BY <1>2, <1>3 DEF Reopens, HoldsPending, Holds
<1> QED
  BY <1>1, <1>4, BeginKeepsSettled

LEMMA HandlerKeepsSettled ==
  ASSUME TypeOK, JobsOK, NEW b \in Batches, Settled(b), NEW w \in Threads, Handler(w)
  PROVE  Settled(b)'
<1>1. UNCHANGED scheduledBatches
  BY DEF Handler, CreateNotification, DeliverDueNotifications, CancelScheduledBatch,
         RescheduleScheduledBatch, MarkAsRead, store
<1>2. ASSUME NEW d \in Batches, NEW users \in SUBSET Users, NEW c \in Creators, NEW t \in Time,
             CreateNotification(w, d, users, c, t)
      PROVE  Settled(b)'
  <2>1. PICK row \in Batch, rec \in Record :
          Begin(w, [Blank("create") EXCEPT !.batch = d, !.row = row, !.left = users, !.rec = rec])
    BY <1>2, CreateJob
  <2> DEFINE j == [Blank("create") EXCEPT !.batch = d, !.row = row, !.left = users, !.rec = rec]
  <2>2. j.stage = "records"
    BY DEF Blank
  <2> HIDE DEF j
  <2> QED
    BY <1>1, <2>1, <2>2, BeginKeepsSettled DEF Reopens, j
<1>3. CASE DeliverDueNotifications(w)
  <2>1. Begin(w, Delivery(FALSE)) /\ Delivery(FALSE).stage = "due"
    BY <1>3 DEF DeliverDueNotifications, Delivery, Blank
  <2> QED
    BY <1>1, <2>1, BeginKeepsSettled DEF Reopens
<1>4. ASSUME NEW d \in Batches, NEW op, NEW row, Pending(d), Begin(w, Change(op, d, row))
      PROVE  Settled(b)'
  <2>1. Change(op, d, row).batch = d /\ d # b
    BY <1>4 DEF Change, Blank, Settled
  <2> QED
    BY <1>1, <1>4, <2>1, BeginKeepsSettled DEF Reopens
<1>5. ASSUME NEW d \in Batches, NEW c \in Creators, CancelScheduledBatch(w, d, c)
      PROVE  Settled(b)'
  BY <1>4, <1>5 DEF CancelScheduledBatch
<1>6. ASSUME NEW d \in Batches, NEW c \in Creators, NEW t \in Time,
             RescheduleScheduledBatch(w, d, c, t)
      PROVE  Settled(b)'
  BY <1>4, <1>6 DEF RescheduleScheduledBatch
<1>7. ASSUME NEW d \in Batches, NEW u \in Users, MarkAsRead(w, d, u)
      PROVE  Settled(b)'
  <2> DEFINE j == [Blank("read") EXCEPT !.stage = "record", !.batch = d, !.left = {u}, !.user = u,
                                        !.rec = [notifications[<<d, u>>] EXCEPT !.read = TRUE]]
  <2>1. Begin(w, j) /\ j.stage = "record"
    BY <1>7 DEF MarkAsRead, Blank
  <2> HIDE DEF j
  <2> QED
    BY <1>1, <2>1, BeginKeepsSettled DEF Reopens
<1> QED
  BY <1>2, <1>3, <1>5, <1>6, <1>7 DEF Handler

LEMMA BatchStepKeepsSettled ==
  ASSUME TypeOK, JobsOK, NEW b \in Batches, Settled(b), NEW w \in Threads, BatchStep(w)
  PROVE  Settled(b)'
<1>1. ASSUME NEW k \in Time \X Batches, TakeBatch(w, k) PROVE Settled(b)'
  <2> DEFINE row == scheduledBatches[k[2]]
             j == [job[w] EXCEPT !.stage = "untime", !.batch = k[2], !.from = row.trigger,
                                 !.row = [row EXCEPT !.delivered = job[w].at], !.left = row.users,
                                 !.due = @ \ {k}]
  <2>1. /\ Begin(w, j) /\ UNCHANGED scheduledBatches /\ Pending(k[2])
        /\ job[w] \in Job
    BY <1>1, JobShape DEF TakeBatch, NextDue, At, Free, store
  <2>2. j.batch = k[2] /\ k[2] # b
    BY <2>1 DEF Settled, Job
  <2> HIDE DEF j
  <2> QED
    BY <2>1, <2>2, BeginKeepsSettled DEF Reopens
<1>2. ASSUME NEW k \in Time \X Batches, PassBatch(w, k) PROVE Settled(b)'
  <2> DEFINE j == [job[w] EXCEPT !.due = @ \ {k}]
  <2>1. Begin(w, j) /\ UNCHANGED scheduledBatches /\ job[w] \in Job /\ job[w].stage = "due"
    BY <1>2, JobShape DEF PassBatch, NextDue, At, Free, store
  <2>2. j.stage = "due"
    BY <2>1 DEF Job
  <2> HIDE DEF j
  <2> QED
    BY <2>1, <2>2, BeginKeepsSettled DEF Reopens
<1>3. CASE UnindexTime(w) \/ UnindexCreator(w)
  BY <1>3, GotoKeepsSettled DEF UnindexTime, UnindexCreator, At, Free, Stages
<1>4. CASE WriteBatch(w)
  <2> DEFINE stage == IF IsPending(job[w].row) THEN "time" ELSE "records"
             j == [job[w] EXCEPT !.stage = stage]
  <2>1. /\ job[w] \in Job /\ job[w].stage = "row" /\ ~Free(w)
        /\ job[w].batch \in Batches /\ job[w].row \in Batch
    BY <1>4, JobShape DEF WriteBatch, At, Free, Coherent
  <2>2. Begin(w, j)
    BY <1>4, <2>1, GotoIsBegin DEF WriteBatch, Stages
  <2>3. job'[w] = j /\ \A v \in Threads \ {w} : job'[v] = job[v]
    BY <2>2 DEF Begin, JobsOK
  <2>4. j.stage \notin {"untime", "uncreator", "row"}
    BY <2>1 DEF Job
  <2> HIDE DEF j
  <2>5. ASSUME NEW v \in Threads, HoldsPending(v, b)' PROVE HoldsPending(v, b)
    BY <2>3, <2>4, <2>5 DEF HoldsPending, Holds, Free
  <2>6. job[w].batch = b => ~IsPending(job[w].row)
    BY <2>1 DEF Settled, HoldsPending, Holds
  <2>7. scheduledBatches'[b] # Null /\ ~IsPending(scheduledBatches'[b])
    BY <1>4, <2>1, <2>6, NullIsNothing DEF WriteBatch, Settled, Pending, TypeOK
  <2> QED
    BY <2>5, <2>7 DEF Settled, Pending
<1>5. CASE IndexTime(w)
  BY <1>5, GotoKeepsSettled DEF IndexTime, At, Free, Stages
<1>6. CASE IndexCreator(w)
  BY <1>6, GotoKeepsSettled DEF IndexCreator, At, Free, Stages
<1> QED
  BY <1>1, <1>2, <1>3, <1>4, <1>5, <1>6 DEF BatchStep

LEMMA RecordStepKeepsSettled ==
  ASSUME JobsOK, HeldOK, NEW b \in Batches, Settled(b), NEW w \in Threads, RecordStep(w)
  PROVE  Settled(b)'
<1>1. UNCHANGED scheduledBatches
  BY DEF RecordStep, ReadRecord, Publish, WriteRecord, IndexRecord, SendRecord, FinishRecords, store
<1>2. ~Free(w) /\ job[w] \in Job /\ job[w] # Null /\ Saved(job[w], scheduledBatches)
  BY JobShape DEF HeldOK, Free, RecordStep, ReadRecord, Publish, WriteRecord, IndexRecord, SendRecord,
         FinishRecords, At
<1>3. ASSUME NEW j, Begin(w, j), j.stage \in {"record", "records", "publish", "due"}
      PROVE  Settled(b)'
  BY <1>1, <1>3, BeginKeepsSettled DEF Reopens
<1>4. ASSUME AfterRecord(w) PROVE Settled(b)'
  <2>1. RecordDone(job[w]).stage = "records"
    BY <1>2 DEF RecordDone, Job
  <2>2. "send" \in Stages
    BY DEF Stages
  <2> QED
    BY <1>1, <1>2, <1>3, <1>4, <2>1, <2>2, GotoKeepsSettled DEF AfterRecord
<1>5. ASSUME NEW u \in Users, ReadRecord(w, u) PROVE Settled(b)'
  <2> DEFINE rec == Changed(job[w], notifications[<<job[w].batch, u>>])
             go == [job[w] EXCEPT !.stage = "record", !.user = u, !.rec = rec]
             skip == [job[w] EXCEPT !.left = @ \ {u}]
  <2>1. Begin(w, go) \/ Begin(w, skip)
    BY <1>5 DEF ReadRecord
  <2> HIDE DEF rec
  <2>2. go.stage = "record" /\ skip.stage = "records"
    BY <1>2, <1>5 DEF Job, ReadRecord, At
  <2> HIDE DEF go, skip
  <2> QED
    BY <1>3, <2>1, <2>2
<1>6. ASSUME NEW u \in Users, Publish(w, u) PROVE Settled(b)'
  <2> DEFINE j == [job[w] EXCEPT !.left = @ \ {u}]
  <2>1. (Begin(w, j) \/ End(w)) /\ j.stage = "publish"
    BY <1>2, <1>6 DEF Publish, At, Job
  <2> HIDE DEF j
  <2> QED
    BY <1>1, <1>3, <2>1, EndKeepsSettled
<1>7. CASE WriteRecord(w)
  BY <1>1, <1>2, <1>4, <1>7, GotoKeepsSettled DEF WriteRecord, Stages
<1>8. CASE IndexRecord(w)
  BY <1>4, <1>8 DEF IndexRecord
<1>9. CASE SendRecord(w)
  <2>1. RecordDone(job[w]).stage = "records"
    BY <1>2 DEF RecordDone, Job
  <2> QED
    BY <1>3, <1>9, <2>1 DEF SendRecord
<1>10. CASE FinishRecords(w)
  <2> DEFINE publish == [job[w] EXCEPT !.stage = "publish", !.left = job[w].row.users]
             next == [job[w] EXCEPT !.stage = "due", !.batch = Null, !.row = Null, !.from = 0]
  <2>1. publish.stage = "publish" /\ next.stage = "due"
    BY <1>2 DEF Job
  <2>2. \/ Begin(w, publish) \/ Begin(w, next) \/ Goto(w, "wake") \/ End(w)
        \/ Goto(w, "row") /\ job[w].op = "create"
    BY <1>2, <1>10 DEF FinishRecords, Job, Operations
  <2> HIDE DEF publish, next
  <2>3. CASE Goto(w, "row") /\ job[w].op = "create"
    <3>1. scheduledBatches[job[w].batch] = Null
      BY <1>2, <1>10, <2>3 DEF Saved, FinishRecords, At
    <3>2. job[w].batch # b
      BY <3>1 DEF Settled
    <3> QED
      BY <1>1, <1>2, <2>3, <3>2, GotoKeepsSettled DEF Stages
  <2>4. "wake" \in Stages
    BY DEF Stages
  <2> QED
    BY <1>1, <1>2, <1>3, <2>1, <2>2, <2>3, <2>4, EndKeepsSettled, GotoKeepsSettled
<1> QED
  BY <1>5, <1>6, <1>7, <1>8, <1>9, <1>10 DEF RecordStep

LEMMA NextKeepsSettled ==
  ASSUME NInv, [Next]_vars, NEW b \in Batches, Settled(b)
  PROVE  Settled(b)'
<1>1. TypeOK /\ JobsOK /\ HeldOK
  BY NInvParts
<1>2. ASSUME NEW w \in Threads, Step(w) PROVE Settled(b)'
  <2>1. CASE WakeScheduler(w) \/ EndDelivery(w) \/ LoopSleeps(w)
    BY <1>1, <2>1, EndKeepsSettled DEF WakeScheduler, EndDelivery, LoopSleeps, store
  <2> QED
    BY <1>1, <1>2, <2>1, BatchStepKeepsSettled, RecordStepKeepsSettled DEF Step
<1>3. ASSUME NEW w \in Threads, LoopDelivers(w) PROVE Settled(b)'
  <2>1. Begin(w, Delivery(TRUE)) /\ Delivery(TRUE).stage = "due" /\ UNCHANGED scheduledBatches
    BY <1>3 DEF LoopDelivers, Delivery, Blank, store
  <2> QED
    BY <1>1, <2>1, BeginKeepsSettled DEF Reopens
<1>4. ASSUME NEW w \in Threads, LoopFails(w) PROVE Settled(b)'
  BY <1>1, <1>4, EndKeepsSettled DEF LoopFails, store
<1>5. ASSUME NEW w \in Threads, Fail(w) PROVE Settled(b)'
  <2> DEFINE j == [Delivery(TRUE) EXCEPT !.due = {}, !.at = job[w].at]
  <2>1. j.stage = "due"
    BY DEF Delivery, Blank
  <2>2. UNCHANGED scheduledBatches /\ (End(w) \/ Begin(w, j))
    BY <1>5 DEF Fail, store
  <2> HIDE DEF j
  <2> QED
    BY <1>1, <2>1, <2>2, BeginKeepsSettled, EndKeepsSettled DEF Reopens
<1>6. CASE AlarmRings \/ SchedulerNotified \/ Tick \/ UNCHANGED vars
  <2>1. UNCHANGED <<job, scheduledBatches>>
    BY <1>6 DEF AlarmRings, SchedulerNotified, Tick, vars, store
  <2> QED
    BY <2>1 DEF Settled, Pending, HoldsPending, Holds, Free
<1>7. CASE Crash
  BY <1>7 DEF Crash, store, Settled, Pending, HoldsPending, Holds, Free
<1> QED
  BY <1>1, <1>2, <1>3, <1>4, <1>5, <1>6, <1>7, HandlerKeepsSettled DEF Next

(* Once a batch is delivered or cancelled, and no reschedule that had read it   *)
(* before is left, it never becomes pending again, whatever overlaps or fails.  *)
THEOREM DecisionsAreFinal == Spec => DecisionIsFinal
<1>1. NInv /\ [Next]_vars => [\A b \in Batches : Settled(b) => Settled(b)']_vars
  BY NextKeepsSettled
<1> QED
  BY NotificationInvariantHolds, <1>1, PTL DEF Spec, DecisionIsFinal

-----------------------------------------------------------------------------
(* Before a fault: a pending batch has its keys, or an operation at hand is     *)
(* about to write the batch or to put them back.                               *)
Rekeying == {"uncreator", "row", "time", "creator"}

Kept(v) == job'[v] = job[v]
KeysAndRows == <<scheduledBatches, scheduledByTime, scheduledByCreator>>

(* Who is about to write or to put back stays so while nobody else writes.     *)
LEMMA WitnessStays ==
  ASSUME NEW b \in Batches, UNCHANGED scheduledBatches, NEW v \in Threads, Kept(v)
  PROVE  /\ Restores(v, b) => Restores(v, b)'
         /\ RestoresTime(v, b) => RestoresTime(v, b)'
  BY DEF Kept, Restores, RestoresTime, Unindexes, Indexes, Holds, Free

LEMMA GotoEffect ==
  ASSUME JobsOK, NEW w \in Threads, NEW stage \in Stages, ~Free(w), Goto(w, stage)
  PROVE  /\ job'[w] # Null /\ job'[w].stage = stage
         /\ job'[w].batch = job[w].batch /\ job'[w].row = job[w].row
         /\ job'[w].user = job[w].user /\ job'[w].rec = job[w].rec
         /\ \A v \in Threads \ {w} : Kept(v)
<1> DEFINE j == [job[w] EXCEPT !.stage = stage]
<1>1. Begin(w, j) /\ j \in Job
  BY GotoIsBegin
<1>2. job'[w] = j /\ \A v \in Threads \ {w} : Kept(v)
  <2> HIDE DEF j
  <2> QED
    BY <1>1 DEF Begin, JobsOK, Kept
<1>3. /\ j.stage = stage /\ j.batch = job[w].batch /\ j.row = job[w].row
      /\ j.user = job[w].user /\ j.rec = job[w].rec
  BY JobShape DEF Job
<1>4. j # Null
  BY <1>1, NullIsNothing
<1> HIDE DEF j
<1> QED
  BY <1>2, <1>3, <1>4

LEMMA ElsewhereKeepsKeys ==
  ASSUME KeysInv, NEW w \in Threads, \A v \in Threads \ {w} : Kept(v),
         Free(w) \/ job[w].stage \notin Rekeying, UNCHANGED KeysAndRows
  PROVE  KeysInv'
<1>1. UNCHANGED scheduledBatches
  BY DEF KeysAndRows
<1>2. ASSUME NEW v \in Threads, NEW b \in Batches, Restores(v, b) \/ RestoresTime(v, b)
      PROVE  Kept(v)
  BY <1>2 DEF Restores, RestoresTime, Unindexes, Indexes, Holds, Rekeying
<1>3. ASSUME NEW v \in Threads, NEW b \in Batches
      PROVE  /\ Restores(v, b) => Restores(v, b)'
             /\ RestoresTime(v, b) => RestoresTime(v, b)'
  BY <1>1, <1>2, WitnessStays, Zenon
<1>4. ASSUME NEW b \in Batches
      PROVE  /\ Pending(b)' <=> Pending(b)
             /\ HasTime(b) => HasTime(b)'
             /\ HasCreator(b) => HasCreator(b)'
  BY DEF KeysAndRows, Pending, HasTime, HasCreator
<1> QED
  BY <1>3, <1>4, Zenon DEF KeysInv

(* The five steps that change keys or rows. *)
LEMMA UnindexTimeKeepsKeys ==
  ASSUME JobsOK, KeysInv, NEW w \in Threads, UnindexTime(w)
  PROVE  KeysInv'
<1>1. /\ job[w] \in Job /\ job[w] # Null /\ job[w].stage = "untime" /\ ~Free(w)
      /\ UNCHANGED scheduledBatches /\ UNCHANGED scheduledByCreator
      /\ scheduledByTime' = scheduledByTime \ {<<job[w].from, job[w].batch>>}
  BY JobShape DEF UnindexTime, At, Free
<1>2. /\ job'[w] # Null /\ job'[w].stage = "uncreator" /\ job'[w].batch = job[w].batch
      /\ \A v \in Threads \ {w} : Kept(v)
  BY <1>1, GotoEffect DEF UnindexTime, Stages
<1>4. ASSUME NEW b \in Batches, job[w].batch = b
      PROVE  Restores(w, b)' /\ RestoresTime(w, b)'
  BY <1>2, <1>4 DEF Restores, RestoresTime, Unindexes, Holds, Free
<1>5. ASSUME NEW b \in Batches, job[w].batch # b
      PROVE  HasTime(b) => HasTime(b)'
  BY <1>1, <1>5 DEF HasTime
<1>6. ASSUME NEW b \in Batches, NEW v \in Threads
      PROVE  /\ Restores(v, b) => Restores(v, b)'
             /\ RestoresTime(v, b) => RestoresTime(v, b)'
  <2>1. CASE v = w
    BY <1>1, <2>1 DEF Restores, RestoresTime, Unindexes, Indexes
  <2> QED
    BY <1>1, <1>2, <2>1, WitnessStays
<1>7. ASSUME NEW b \in Batches
      PROVE  (Pending(b)' <=> Pending(b)) /\ (HasCreator(b) => HasCreator(b)')
  BY <1>1 DEF Pending, HasCreator
<1> QED
  BY <1>4, <1>5, <1>6, <1>7, Zenon DEF KeysInv

LEMMA UnindexCreatorKeepsKeys ==
  ASSUME JobsOK, KeysInv, NEW w \in Threads, UnindexCreator(w)
  PROVE  KeysInv'
<1>1. /\ job[w] \in Job /\ job[w] # Null /\ job[w].stage = "uncreator" /\ ~Free(w)
      /\ UNCHANGED scheduledBatches /\ UNCHANGED scheduledByTime
      /\ scheduledByCreator' =
           scheduledByCreator \ {<<job[w].row.creator, job[w].from, job[w].batch>>}
  BY JobShape DEF UnindexCreator, At, Free
<1>2. /\ job'[w] # Null /\ job'[w].stage = "row" /\ job'[w].batch = job[w].batch
      /\ \A v \in Threads \ {w} : Kept(v)
  BY <1>1, GotoEffect DEF UnindexCreator, Stages
<1>4. ASSUME NEW b \in Batches, job[w].batch = b
      PROVE  Restores(w, b)' /\ RestoresTime(w, b)'
  BY <1>2, <1>4 DEF Restores, RestoresTime, Unindexes, Holds, Free
<1>5. ASSUME NEW b \in Batches, job[w].batch # b
      PROVE  /\ HasCreator(b) => HasCreator(b)'
             /\ ~Restores(w, b) /\ ~RestoresTime(w, b)
  BY <1>1, <1>5 DEF HasCreator, Restores, RestoresTime, Unindexes, Indexes, Holds
<1>6. ASSUME NEW b \in Batches, NEW v \in Threads, v # w
      PROVE  /\ Restores(v, b) => Restores(v, b)'
             /\ RestoresTime(v, b) => RestoresTime(v, b)'
  BY <1>1, <1>2, <1>6, WitnessStays
<1>7. ASSUME NEW b \in Batches
      PROVE  (Pending(b)' <=> Pending(b)) /\ (HasTime(b) => HasTime(b)')
  BY <1>1 DEF Pending, HasTime
<1>8. ASSUME NEW b \in Batches, NEW v \in Threads, job[w].batch # b
      PROVE  /\ Restores(v, b) => Restores(v, b)'
             /\ RestoresTime(v, b) => RestoresTime(v, b)'
  BY <1>5, <1>6, <1>8, Zenon
<1> QED
  BY <1>4, <1>5, <1>7, <1>8, Zenon DEF KeysInv

LEMMA WriteBatchKeepsKeys ==
  ASSUME TypeOK, JobsOK, KeysInv, NEW w \in Threads, WriteBatch(w)
  PROVE  KeysInv'
<1> DEFINE stage == IF IsPending(job[w].row) THEN "time" ELSE "records"
<1>1. /\ job[w] \in Job /\ job[w] # Null /\ job[w].stage = "row" /\ ~Free(w)
      /\ job[w].batch \in Batches /\ job[w].row \in Batch
      /\ UNCHANGED <<scheduledByTime, scheduledByCreator>>
  BY JobShape DEF WriteBatch, At, Free, Coherent
<1>2. /\ scheduledBatches'[job[w].batch] = job[w].row
      /\ \A d \in Batches \ {job[w].batch} : scheduledBatches'[d] = scheduledBatches[d]
  BY <1>1 DEF WriteBatch, TypeOK
<1>3. /\ job'[w] # Null /\ job'[w].stage = stage
      /\ job'[w].batch = job[w].batch /\ job'[w].row = job[w].row
      /\ \A v \in Threads \ {w} : Kept(v)
  <2>1. stage \in Stages /\ Goto(w, stage)
    BY DEF WriteBatch, Stages
  <2> HIDE DEF stage
  <2> QED
    BY <1>1, <2>1, GotoEffect
<1>4. ASSUME NEW b \in Batches, job[w].batch = b, Pending(b)'
      PROVE  Restores(w, b)' /\ RestoresTime(w, b)'
  <2>1. stage = "time"
    BY <1>2, <1>4 DEF Pending
  <2> QED
    BY <1>2, <1>3, <1>4, <2>1 DEF Restores, RestoresTime, Indexes, Holds, Free
<1>5. ASSUME NEW b \in Batches, job[w].batch # b
      PROVE  /\ Pending(b)' <=> Pending(b)
             /\ HasTime(b) => HasTime(b)'
             /\ HasCreator(b) => HasCreator(b)'
  BY <1>1, <1>2, <1>5 DEF Pending, HasTime, HasCreator
<1>6. ASSUME NEW b \in Batches, job[w].batch # b, NEW v \in Threads
      PROVE  /\ Restores(v, b) => Restores(v, b)'
             /\ RestoresTime(v, b) => RestoresTime(v, b)'
  <2>1. CASE v = w
    BY <1>6, <2>1 DEF Restores, RestoresTime, Unindexes, Indexes, Holds
  <2>2. CASE v # w
    <3>1. Kept(v) /\ scheduledBatches'[b] = scheduledBatches[b]
      BY <1>2, <1>3, <1>6, <2>2
    <3> QED
      BY <3>1 DEF Kept, Restores, RestoresTime, Unindexes, Indexes, Holds, Free
  <2> QED
    BY <2>1, <2>2
<1> QED
  BY <1>4, <1>5, <1>6, Zenon DEF KeysInv

LEMMA IndexTimeKeepsKeys ==
  ASSUME JobsOK, KeysInv, NEW w \in Threads, IndexTime(w)
  PROVE  KeysInv'
<1>1. /\ ~Free(w) /\ job[w].stage = "time"
      /\ UNCHANGED scheduledBatches /\ UNCHANGED scheduledByCreator
      /\ scheduledByTime' = scheduledByTime \cup {<<job[w].row.trigger, job[w].batch>>}
  BY DEF IndexTime, At, Free
<1>2. /\ job'[w] # Null /\ job'[w].stage = "creator" /\ job'[w].batch = job[w].batch
      /\ job'[w].row = job[w].row
      /\ \A v \in Threads \ {w} : Kept(v)
  BY <1>1, GotoEffect DEF IndexTime, Stages
<1>3. ASSUME NEW b \in Batches
      PROVE  /\ Pending(b)' <=> Pending(b)
             /\ HasTime(b) => HasTime(b)'
             /\ HasCreator(b) => HasCreator(b)'
  BY <1>1 DEF Pending, HasTime, HasCreator
<1>4. ASSUME NEW b \in Batches
      PROVE  /\ RestoresTime(w, b) => HasTime(b)'
             /\ Restores(w, b) => Restores(w, b)'
  <2>1. RestoresTime(w, b) => HasTime(b)'
    BY <1>1 DEF RestoresTime, HasTime, Unindexes, Indexes, Holds
  <2>2. Restores(w, b) => Restores(w, b)'
    BY <1>1, <1>2 DEF Restores, Unindexes, Indexes, Holds, Free
  <2> QED
    BY <2>1, <2>2
<1>5. ASSUME NEW b \in Batches, NEW v \in Threads, v # w
      PROVE  /\ Restores(v, b) => Restores(v, b)'
             /\ RestoresTime(v, b) => RestoresTime(v, b)'
  BY <1>1, <1>2, <1>5, WitnessStays
<1> QED
  BY <1>3, <1>4, <1>5, Zenon DEF KeysInv

LEMMA IndexCreatorKeepsKeys ==
  ASSUME JobsOK, KeysInv, NEW w \in Threads, IndexCreator(w)
  PROVE  KeysInv'
<1>1. /\ ~Free(w) /\ job[w].stage = "creator"
      /\ UNCHANGED scheduledBatches /\ UNCHANGED scheduledByTime
      /\ scheduledByCreator' =
           scheduledByCreator \cup {<<job[w].row.creator, job[w].row.trigger, job[w].batch>>}
  BY DEF IndexCreator, At, Free
<1>2. \A v \in Threads \ {w} : Kept(v)
  <2>1. Goto(w, "wake") \/ Goto(w, "records")
    BY DEF IndexCreator
  <2>2. "wake" \in Stages /\ "records" \in Stages
    BY DEF Stages
  <2> QED
    BY <1>1, <2>1, <2>2, GotoEffect
<1>3. ASSUME NEW b \in Batches
      PROVE  /\ Pending(b)' <=> Pending(b)
             /\ HasTime(b) => HasTime(b)'
             /\ HasCreator(b) => HasCreator(b)'
  BY <1>1 DEF Pending, HasTime, HasCreator
<1>4. ASSUME NEW b \in Batches
      PROVE  ~RestoresTime(w, b) /\ (Restores(w, b) => HasCreator(b)')
  BY <1>1 DEF RestoresTime, Restores, HasCreator, Unindexes, Indexes, Holds
<1>5. ASSUME NEW b \in Batches, NEW v \in Threads, v # w
      PROVE  /\ Restores(v, b) => Restores(v, b)'
             /\ RestoresTime(v, b) => RestoresTime(v, b)'
  BY <1>1, <1>2, <1>5, WitnessStays
<1> QED
  BY <1>3, <1>4, <1>5, Zenon DEF KeysInv

(* Every other step starts at another stage and leaves keys and rows alone.    *)
LEMMA BeginElsewhere ==
  ASSUME JobsOK, KeysInv, NEW w \in Threads, NEW j, Begin(w, j), Free(w), UNCHANGED KeysAndRows
  PROVE  KeysInv'
<1>1. \A v \in Threads \ {w} : Kept(v)
  BY DEF Kept, Begin, JobsOK
<1> QED
  BY <1>1, ElsewhereKeepsKeys

(* A step is of one thread, which moves on or is done.                          *)
Moves(w) == (\E j : Begin(w, j)) \/ (\E stage : Goto(w, stage)) \/ End(w)

LEMMA StepMoves ==
  ASSUME JobsOK, NEW w \in Threads, Step(w)
  PROVE  Moves(w)
<1>1. CASE BatchStep(w)
  BY <1>1, Zenon DEF Moves, BatchStep, TakeBatch, PassBatch, UnindexTime, UnindexCreator, WriteBatch,
                     IndexTime, IndexCreator
<1>2. CASE RecordStep(w)
  <2>1. ASSUME AfterRecord(w) PROVE Moves(w)
    BY <2>1, Zenon DEF AfterRecord, Moves
  <2>2. ASSUME NEW u \in Users, ReadRecord(w, u) \/ Publish(w, u) PROVE Moves(w)
    BY <2>2, Zenon DEF ReadRecord, Publish, Moves
  <2>3. ASSUME WriteRecord(w) \/ IndexRecord(w) \/ SendRecord(w) PROVE Moves(w)
    BY <2>1, <2>3, Zenon DEF WriteRecord, IndexRecord, SendRecord, Moves
  <2>4. ASSUME FinishRecords(w) PROVE Moves(w)
    <3>1. job[w].op \in Operations
      BY <2>4, JobShape DEF Job, FinishRecords, At, Free
    <3>2. (\E j : Begin(w, j)) \/ End(w) \/ Goto(w, "row") \/ Goto(w, "wake")
      BY <2>4, <3>1 DEF FinishRecords, Operations
    <3> QED
      BY <3>2 DEF Moves
  <2> QED
    BY <1>2, <2>2, <2>3, <2>4 DEF RecordStep
<1>3. CASE WakeScheduler(w) \/ EndDelivery(w) \/ LoopSleeps(w)
  BY <1>3 DEF WakeScheduler, EndDelivery, LoopSleeps, Moves
<1> QED
  BY <1>1, <1>2, <1>3 DEF Step

LEMMA StepMovesOne ==
  ASSUME JobsOK, NEW w \in Threads, Step(w)
  PROVE  \A v \in Threads \ {w} : Kept(v)
<1>1. Moves(w)
  BY StepMoves
<1> QED
  BY <1>1 DEF Moves, Begin, Goto, End, JobsOK, Kept

LEMMA StepKeepsKeys ==
  ASSUME TypeOK, JobsOK, KeysInv, NEW w \in Threads, Step(w)
  PROVE  KeysInv'
<1>1. CASE UnindexTime(w) \/ UnindexCreator(w) \/ WriteBatch(w) \/ IndexTime(w) \/ IndexCreator(w)
  BY <1>1, UnindexTimeKeepsKeys, UnindexCreatorKeepsKeys, WriteBatchKeepsKeys,
     IndexTimeKeepsKeys, IndexCreatorKeepsKeys
<1>2. CASE ~(UnindexTime(w) \/ UnindexCreator(w) \/ WriteBatch(w) \/ IndexTime(w) \/ IndexCreator(w))
  <2>1. job[w].stage \notin Rekeying /\ UNCHANGED KeysAndRows
    BY <1>2 DEF Step, BatchStep, TakeBatch, PassBatch, NextDue, RecordStep, ReadRecord, Publish,
           WriteRecord, IndexRecord, SendRecord, FinishRecords, WakeScheduler, EndDelivery,
           LoopSleeps, At, store, KeysAndRows, Rekeying
  <2> QED
    BY <2>1, StepMovesOne, ElsewhereKeepsKeys
<1> QED
  BY <1>1, <1>2

(* As long as there has been no fault, the step is not one.                     *)
LEMMA NoFaultYet ==
  ASSUME TypeOK, JobsOK, [Next]_vars, faults' = 0
  PROVE  faults = 0 /\ ~Fault
<1>1. ~Fault
  BY DEF Fault, TypeOK
<1>2. ASSUME NEW w \in Threads, Handler(w) \/ LoopDelivers(w) PROVE faults' = faults
  BY <1>2, Zenon DEF Handler, CreateNotification, DeliverDueNotifications, CancelScheduledBatch,
                RescheduleScheduledBatch, MarkAsRead, LoopDelivers, counters
<1>3. ASSUME NEW w \in Threads, Step(w) PROVE faults' = faults
  BY <1>3 DEF Step, BatchStep, TakeBatch, PassBatch, NextDue, UnindexTime, UnindexCreator,
         WriteBatch, IndexTime, IndexCreator, RecordStep, ReadRecord, Publish, WriteRecord,
         IndexRecord, SendRecord, FinishRecords, WakeScheduler, EndDelivery, LoopSleeps, counters
<1>4. ASSUME AlarmRings \/ SchedulerNotified \/ Tick \/ UNCHANGED vars PROVE faults' = faults
  BY <1>4 DEF AlarmRings, SchedulerNotified, Tick, vars, counters
<1> QED
  BY <1>1, <1>2, <1>3, <1>4 DEF Next, Fail, LoopFails, Crash

LEMMA NextKeepsKeys ==
  ASSUME TypeOK, JobsOK, faults = 0 => KeysInv, [Next]_vars
  PROVE  faults' = 0 => KeysInv'
<1> SUFFICES ASSUME faults' = 0 PROVE KeysInv'
  OBVIOUS
<1>1. ~Fault /\ KeysInv
  BY NoFaultYet
<1>2. ASSUME NEW w \in Threads, Handler(w) \/ LoopDelivers(w) PROVE KeysInv'
  <2>1. /\ Free(w) /\ UNCHANGED KeysAndRows /\ \E j : Begin(w, j)
    BY <1>2, Zenon DEF Handler, CreateNotification, DeliverDueNotifications, CancelScheduledBatch,
                RescheduleScheduledBatch, MarkAsRead, LoopDelivers, Call, store, KeysAndRows
  <2> QED
    BY <1>1, <2>1, BeginElsewhere
<1>3. CASE AlarmRings \/ SchedulerNotified \/ Tick \/ UNCHANGED vars
  BY <1>1, <1>3 DEF AlarmRings, SchedulerNotified, Tick, vars, store, KeysInv, Pending, HasTime,
              HasCreator, Restores, RestoresTime, Unindexes, Indexes, Holds, Free
<1> QED
  BY <1>1, <1>2, <1>3, StepKeepsKeys DEF Next, Fail, LoopFails, Crash

(* However the operations interleave, a batch that is pending is found by the   *)
(* delivery loop and by its creator, or an operation at hand is about to write  *)
(* it or to put its keys back, as long as no store call has failed.            *)
THEOREM PendingBatchesAreIndexed ==
  Spec => []PendingIsIndexed
<1>1. Init => TypeOK /\ JobsOK /\ (faults = 0 => KeysInv)
  BY InitIsTyped DEF Init, KeysInv, Pending
<1>2. TypeOK /\ JobsOK /\ (faults = 0 => KeysInv) /\ [Next]_vars
        => (TypeOK /\ JobsOK /\ (faults = 0 => KeysInv))'
  BY NextKeepsType, NextKeepsKeys
<1>3. (faults = 0 => KeysInv) => PendingIsIndexed
  BY Zenon DEF KeysInv, PendingIsIndexed, HasTime, HasCreator, Restores, RestoresTime
<1> QED
  BY <1>1, <1>2, <1>3, PTL DEF Spec

-----------------------------------------------------------------------------
(* Before a fault: a delivered notification is in its user's list, or the       *)
(* operation that wrote it last is about to add the key.                       *)
Lists(w, n) ==
  /\ At(w, "list") /\ <<job[w].batch, job[w].user>> = n
  /\ job[w].rec.delivered = notifications[n].delivered

HasKey(n) == <<n, notifications[n].delivered>> \in userIndex

ListedInv ==
  \A n \in Notifications : Delivered(n) => HasKey(n) \/ \E w \in Threads : Lists(w, n)

LEMMA ElsewhereKeepsListed ==
  ASSUME ListedInv, NEW w \in Threads, \A v \in Threads \ {w} : Kept(v), ~At(w, "list"),
         UNCHANGED notifications, UNCHANGED userIndex
  PROVE  ListedInv'
<1>1. ASSUME NEW n \in Notifications
      PROVE  (Delivered(n)' <=> Delivered(n)) /\ (HasKey(n) => HasKey(n)')
  BY DEF Delivered, HasKey
<1>2. ASSUME NEW n \in Notifications, NEW v \in Threads PROVE Lists(v, n) => Lists(v, n)'
  BY DEF Lists, At, Kept
<1> QED
  BY <1>1, <1>2, Zenon DEF ListedInv

LEMMA WriteRecordKeepsListed ==
  ASSUME TypeOK, JobsOK, ListedInv, NEW w \in Threads, WriteRecord(w)
  PROVE  ListedInv'
<1>0. /\ ~Free(w) /\ job[w].stage = "record" /\ UNCHANGED userIndex
      /\ <<job[w].batch, job[w].user>> \in Notifications
  BY JobShape DEF WriteRecord, At, Free, Coherent, Notifications
<1>1. PICK m \in Notifications : m = <<job[w].batch, job[w].user>>
  BY <1>0
<1>2. /\ notifications'[m] = job[w].rec
      /\ \A n \in Notifications \ {m} : notifications'[n] = notifications[n]
  BY <1>0, <1>1 DEF WriteRecord, TypeOK
<1>3. \A v \in Threads \ {w} : Kept(v)
  BY DEF WriteRecord, AfterRecord, Begin, Goto, JobsOK, Kept
<1>4. Delivered(m)' => Lists(w, m)'
  <2>1. ASSUME job[w].rec.delivered # Null PROVE Lists(w, m)'
    <3>1. Goto(w, "list") /\ "list" \in Stages
      BY <2>1 DEF WriteRecord, Stages
    <3>2. /\ job'[w] # Null /\ job'[w].stage = "list"
          /\ <<job'[w].batch, job'[w].user>> = m /\ job'[w].rec = job[w].rec
      BY <1>0, <1>1, <3>1, GotoEffect
    <3> QED
      BY <1>2, <3>2 DEF Lists, At
  <2> QED
    BY <1>2, <2>1 DEF Delivered
<1>5. ASSUME NEW n \in Notifications, n # m
      PROVE  /\ Delivered(n)' <=> Delivered(n)
             /\ HasKey(n) => HasKey(n)'
  BY <1>0, <1>2, <1>5 DEF Delivered, HasKey
<1>6. ASSUME NEW n \in Notifications, n # m, NEW v \in Threads PROVE Lists(v, n) => Lists(v, n)'
  BY <1>0, <1>1, <1>2, <1>3, <1>6 DEF Lists, At, Kept
<1> QED
  BY <1>4, <1>5, <1>6, Zenon DEF ListedInv

LEMMA IndexRecordKeepsListed ==
  ASSUME JobsOK, ListedInv, NEW w \in Threads, IndexRecord(w)
  PROVE  ListedInv'
<1>1. /\ UNCHANGED notifications
      /\ userIndex' = userIndex \cup {<<<<job[w].batch, job[w].user>>, job[w].rec.delivered>>}
      /\ \A v \in Threads \ {w} : Kept(v)
  BY DEF IndexRecord, AfterRecord, Begin, Goto, JobsOK, Kept
<1>2. ASSUME NEW n \in Notifications
      PROVE  /\ Delivered(n)' <=> Delivered(n)
             /\ HasKey(n) => HasKey(n)'
             /\ Lists(w, n) => HasKey(n)'
  BY <1>1 DEF Delivered, HasKey, Lists
<1>3. ASSUME NEW n \in Notifications, NEW v \in Threads, v # w PROVE Lists(v, n) => Lists(v, n)'
  BY <1>1, <1>3 DEF Lists, At, Kept
<1> QED
  BY <1>2, <1>3, Zenon DEF ListedInv

LEMMA NextKeepsListed ==
  ASSUME TypeOK, JobsOK, faults = 0 => ListedInv, [Next]_vars
  PROVE  faults' = 0 => ListedInv'
<1> SUFFICES ASSUME faults' = 0 PROVE ListedInv'
  OBVIOUS
<1>1. ~Fault /\ ListedInv
  BY NoFaultYet
<1>2. ASSUME NEW w \in Threads, Handler(w) \/ LoopDelivers(w) PROVE ListedInv'
  <2>1. /\ Free(w) /\ UNCHANGED notifications /\ UNCHANGED userIndex /\ \E j : Begin(w, j)
    BY <1>2, Zenon DEF Handler, CreateNotification, DeliverDueNotifications, CancelScheduledBatch,
                RescheduleScheduledBatch, MarkAsRead, LoopDelivers, Call, store
  <2>2. \A v \in Threads \ {w} : Kept(v)
    BY <2>1 DEF Kept, Begin, JobsOK
  <2> QED
    BY <1>1, <2>1, <2>2, ElsewhereKeepsListed DEF At, Free
<1>3. ASSUME NEW w \in Threads, Step(w) PROVE ListedInv'
  <2>1. CASE WriteRecord(w)
    BY <1>1, <2>1, WriteRecordKeepsListed
  <2>2. CASE IndexRecord(w)
    BY <1>1, <2>2, IndexRecordKeepsListed
  <2>3. CASE ~WriteRecord(w) /\ ~IndexRecord(w)
    <3>1. UNCHANGED notifications /\ UNCHANGED userIndex /\ ~At(w, "list")
      BY <1>3, <2>3 DEF Step, BatchStep, TakeBatch, PassBatch, NextDue, UnindexTime, UnindexCreator,
             WriteBatch, IndexTime, IndexCreator, RecordStep, ReadRecord, Publish, SendRecord,
             FinishRecords, WakeScheduler, EndDelivery, LoopSleeps, At, store
    <3>2. \A v \in Threads \ {w} : Kept(v)
      BY <1>3, StepMovesOne
    <3> QED
      BY <1>1, <3>1, <3>2, ElsewhereKeepsListed
  <2> QED
    BY <2>1, <2>2, <2>3
<1>4. CASE AlarmRings \/ SchedulerNotified \/ Tick \/ UNCHANGED vars
  <2>1. UNCHANGED <<notifications, userIndex, job>>
    BY <1>4 DEF AlarmRings, SchedulerNotified, Tick, vars, store
  <2> QED
    BY <1>1, <2>1 DEF ListedInv, Delivered, HasKey, Lists, At
<1> QED
  BY <1>1, <1>2, <1>3, <1>4 DEF Next, Fail, LoopFails, Crash

(* A delivered notification is in its user's list at the time at which it was   *)
(* delivered, or the operation that has just written it is about to add the    *)
(* key, as long as no store call has failed.                                   *)
THEOREM DeliveredAreListed ==
  Spec => []DeliveredIsListed
<1>1. Init => TypeOK /\ JobsOK /\ (faults = 0 => ListedInv)
  BY InitIsTyped DEF Init, ListedInv, Delivered
<1>2. TypeOK /\ JobsOK /\ (faults = 0 => ListedInv) /\ [Next]_vars
        => (TypeOK /\ JobsOK /\ (faults = 0 => ListedInv))'
  BY NextKeepsType, NextKeepsListed
<1>3. (faults = 0 => ListedInv) => DeliveredIsListed
  BY Zenon DEF DeliveredIsListed, ListedInv, Delivered, HasKey, Lists
<1> QED
  BY <1>1, <1>2, <1>3, PTL DEF Spec
=============================================================================
