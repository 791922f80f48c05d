------------------------ MODULE NotificationSerialProofs ------------------------
(***************************************************************************)
(* What operations that do not overlap guarantee: every notification arrives  *)
(* and is listed once, a cancelled batch has delivered nothing, the keys of    *)
(* the schedule are current, and batches follow their life cycle; for every    *)
(* number of users and batches, and whatever fails between two accesses.       *)
(***************************************************************************)
EXTENDS NotificationIntegrityProofs

-----------------------------------------------------------------------------
(* What holds of the one operation that is under way. *)
Sound == \A w \in Threads : ~Free(w) => JobSound(job[w])

LEMMA SerialParts == SerialInv <=> NInv /\ HistoryAgrees /\ Sound
  BY DEF SerialInv, Sound

LEMMA Held ==
  ASSUME NInv, Sound, NEW w \in Threads, ~Free(w)
  PROVE  /\ job[w] \in Job /\ Coherent(job[w]) /\ JobSound(job[w])
         /\ Written(job[w], notifications) /\ Saved(job[w], scheduledBatches)
         /\ TypeOK /\ JobsOK
  BY NInvParts, JobShape DEF HeldOK, Sound

(* With one thread, the operation that moves is the only one.                  *)
LEMMA SoundOfOne ==
  ASSUME OneThread, NEW w \in Threads, ~Free(w)' => JobSound(job[w])'
  PROVE  Sound'
  BY DEF OneThread, Sound

LEMMA StoreAgrees ==
  ASSUME HistoryAgrees, UNCHANGED <<store, arrivals>>
  PROVE  HistoryAgrees'
  BY DEF HistoryAgrees, KeysAreCurrent, Unsent, Delivered, Pending, store

(* Only the stage changes. *)
LEMMA GotoFields ==
  ASSUME JobsOK, NEW w \in Threads, NEW stage \in Stages, ~Free(w), Goto(w, stage)
  PROVE  /\ job'[w] # Null /\ job'[w].stage = stage /\ job'[w].op = job[w].op
         /\ job'[w].batch = job[w].batch /\ job'[w].row = job[w].row
         /\ job'[w].from = job[w].from /\ job'[w].left = job[w].left
         /\ job'[w].user = job[w].user /\ job'[w].rec = job[w].rec
         /\ job'[w].due = job[w].due /\ job'[w].at = job[w].at
<1> DEFINE j == [job[w] EXCEPT !.stage = stage]
<1>1. Begin(w, j) /\ j \in Job
  BY GotoIsBegin
<1>2. job'[w] = j
  <2> HIDE DEF j
  <2> QED
    BY <1>1 DEF Begin, JobsOK
<1>3. /\ j.stage = stage /\ j.op = job[w].op /\ j.batch = job[w].batch /\ j.row = job[w].row
      /\ j.from = job[w].from /\ j.left = job[w].left /\ j.user = job[w].user
      /\ j.rec = job[w].rec /\ j.due = job[w].due /\ j.at = job[w].at
  BY JobShape DEF Job
<1>4. j # Null
  BY <1>1, NullIsNothing
<1> HIDE DEF j
<1> QED
  BY <1>2, <1>3, <1>4

-----------------------------------------------------------------------------
(* The keys of a batch that is about to change go. *)
LEMMA UnindexTimeSerial ==
  ASSUME NInv, HistoryAgrees, Sound, NEW w \in Threads, UnindexTime(w)
  PROVE  HistoryAgrees' /\ JobSound(job[w])'
<1>1. /\ ~Free(w) /\ job[w].stage = "untime"
      /\ UNCHANGED <<notifications, userIndex, scheduledBatches, arrivals, now>>
      /\ scheduledByTime' = scheduledByTime \ {<<job[w].from, job[w].batch>>}
  BY DEF UnindexTime, At, Free
<1>2. /\ job[w] \in Job /\ Coherent(job[w]) /\ JobSound(job[w]) /\ TypeOK /\ JobsOK
  BY <1>1, Held
<1>3. /\ job'[w].stage = "uncreator" /\ job'[w].op = job[w].op
      /\ job'[w].batch = job[w].batch /\ job'[w].row = job[w].row
      /\ job'[w].from = job[w].from
      /\ job'[w].due = job[w].due /\ job'[w].at = job[w].at
  BY <1>1, <1>2, GotoFields DEF UnindexTime, Stages
<1>4. HistoryAgrees'
  BY <1>1 DEF HistoryAgrees, KeysAreCurrent, Unsent, Delivered, Pending
<1>5. job[w].op \in Changing
  BY <1>1, <1>2 DEF Coherent
<1>6. ChangeSound(job[w])
  BY <1>2, <1>5 DEF JobSound
<1>7. Unkeyed(job[w].batch)'
  BY <1>1, <1>3, <1>6 DEF Unkeyed, HistoryAgrees, KeysAreCurrent, ChangeSound
<1>8. ChangeSound(job[w])'
  BY <1>1, <1>3, <1>6, <1>7 DEF ChangeSound, Pending
<1>9. RecordSound(job[w])'
  BY <1>3 DEF RecordSound
<1> QED
  BY <1>1, <1>2, <1>3, <1>4, <1>5, <1>8, <1>9 DEF JobSound, Changing

LEMMA UnindexCreatorSerial ==
  ASSUME NInv, HistoryAgrees, Sound, NEW w \in Threads, UnindexCreator(w)
  PROVE  HistoryAgrees' /\ JobSound(job[w])'
<1>1. /\ ~Free(w) /\ job[w].stage = "uncreator" /\ UNCHANGED <<arrivals, now>>
      /\ UNCHANGED <<notifications, userIndex, scheduledBatches, scheduledByTime>>
  BY DEF UnindexCreator, At, Free
<1>2. /\ job[w] \in Job /\ Coherent(job[w]) /\ JobSound(job[w]) /\ TypeOK /\ JobsOK
  BY <1>1, Held
<1>3. /\ job'[w].stage = "row" /\ job'[w].op = job[w].op
      /\ job'[w].batch = job[w].batch /\ job'[w].row = job[w].row
      /\ job'[w].from = job[w].from
      /\ job'[w].due = job[w].due /\ job'[w].at = job[w].at
  BY <1>1, <1>2, GotoFields DEF UnindexCreator, Stages
<1>4. HistoryAgrees'
  BY <1>1 DEF HistoryAgrees, KeysAreCurrent, Unsent, Delivered, Pending
<1>5. job[w].op \in Changing /\ ChangeSound(job[w])
  BY <1>1, <1>2 DEF Coherent, JobSound
<1>6. ChangeSound(job[w])'
  BY <1>1, <1>3, <1>5 DEF ChangeSound, Pending, Unkeyed
<1>7. RecordSound(job[w])'
  BY <1>3 DEF RecordSound
<1> QED
  BY <1>1, <1>2, <1>3, <1>4, <1>5, <1>6, <1>7 DEF JobSound, Changing

(* The row that is written: its batch has no key by then, and has delivered nothing   *)
(* unless it is a delivery that writes it.                                            *)
LEMMA WrittenRow ==
  ASSUME NInv, HistoryAgrees, Sound, NEW w \in Threads, ~Free(w), job[w].stage = "row"
  PROVE  /\ Unkeyed(job[w].batch)
         /\ job[w].op # "deliver" => Unsent(job[w].batch)
         /\ job[w].op = "deliver" => job[w].row.delivered # Null /\ ~job[w].row.cancelled
<1>1. /\ job[w] \in Job /\ Coherent(job[w]) /\ JobSound(job[w]) /\ TypeOK /\ JobsOK
  BY Held
<1>2. job[w].batch \in Batches
  BY <1>1 DEF Coherent
<1>3. CASE job[w].op = "create"
  BY <1>1, <1>2, <1>3, NullIsNothing DEF JobSound, CreationSound, Unsent, Delivered
<1>4. CASE job[w].op \in Changing
  <2>1. ChangeSound(job[w])
    BY <1>1, <1>4 DEF JobSound
  <2>2. Unkeyed(job[w].batch) /\ Pending(job[w].batch)
    BY <2>1 DEF ChangeSound
  <2>3. Unsent(job[w].batch)
    BY <1>2, <2>2 DEF HistoryAgrees, Pending
  <2>4. scheduledBatches[job[w].batch] \in Batch /\ ~scheduledBatches[job[w].batch].cancelled
    BY <1>1, <1>2, <2>2 DEF TypeOK, Pending, IsPending
  <2>5. ASSUME job[w].op = "deliver"
        PROVE  job[w].row.delivered = job[w].at /\ ~job[w].row.cancelled
    BY <2>1, <2>4, <2>5 DEF ChangeSound, Batch
  <2>6. job[w].at # Null
    BY <1>1, NullIsNothing DEF Job
  <2> QED
    BY <2>2, <2>3, <2>5, <2>6
<1> QED
  BY <1>1, <1>3, <1>4 DEF Coherent

LEMMA WriteBatchSerial ==
  ASSUME NInv, HistoryAgrees, Sound, NEW w \in Threads, WriteBatch(w)
  PROVE  HistoryAgrees' /\ JobSound(job[w])'
<1> DEFINE b == job[w].batch
<1>1. /\ ~Free(w) /\ job[w].stage = "row" /\ UNCHANGED <<arrivals, now>>
      /\ UNCHANGED <<notifications, userIndex, scheduledByTime>>
      /\ scheduledBatches' = [scheduledBatches EXCEPT ![b] = job[w].row]
  BY DEF WriteBatch, At, Free
<1>2. /\ job[w] \in Job /\ Coherent(job[w]) /\ JobSound(job[w]) /\ TypeOK /\ JobsOK
  BY <1>1, Held
<1>3. /\ job'[w].stage = IF IsPending(job[w].row) THEN "time" ELSE "records"
      /\ job'[w].op = job[w].op /\ job'[w].batch = b /\ job'[w].row = job[w].row
      /\ job'[w].left = job[w].left /\ job'[w].rec = job[w].rec
      /\ job'[w].due = job[w].due /\ job'[w].at = job[w].at
  BY <1>1, <1>2, GotoFields DEF WriteBatch, Stages
<1>4. /\ Unkeyed(b) /\ (job[w].op # "deliver" => Unsent(b))
      /\ job[w].op = "deliver" => job[w].row.delivered # Null /\ ~job[w].row.cancelled
  BY <1>1, WrittenRow
<1>5. b \in Batches /\ job[w].row \in Batch
  BY <1>1, <1>2 DEF Coherent
<1>6. /\ scheduledBatches'[b] = job[w].row /\ job[w].row # Null
      /\ \A d \in Batches \ {b} : scheduledBatches'[d] = scheduledBatches[d]
  BY <1>1, <1>2, <1>5, NullIsNothing DEF TypeOK
<1>7. \A d \in Batches \ {b} : Pending(d)' <=> Pending(d)
  BY <1>6 DEF Pending
<1>8. \A d \in Batches : d = b => (Pending(d)' <=> IsPending(job[w].row))
  BY <1>6 DEF Pending
<1>9. HistoryAgrees'
  <2>1. \A k \in userIndex' : Delivered(k[1])' /\ notifications'[k[1]].delivered = k[2]
    BY <1>1 DEF HistoryAgrees, Delivered
  <2>2. \A n \in Notifications : arrivals'[n] # 0 => Delivered(n)' /\ arrivals'[n] = 1
    BY <1>1 DEF HistoryAgrees, Delivered
  <2>3. ASSUME NEW d \in Batches, scheduledBatches'[d] # Null,
               Pending(d)' \/ scheduledBatches'[d].cancelled
        PROVE  Unsent(d)'
    <3>1. CASE d = b
      BY <1>1, <1>4, <1>6, <1>8, <2>3, <3>1 DEF Unsent, Delivered, IsPending
    <3>2. CASE d # b
      BY <1>1, <1>6, <1>7, <2>3, <3>2 DEF Unsent, Delivered, HistoryAgrees
    <3> QED
      BY <3>1, <3>2
  <2>4. KeysAreCurrent'
    <3>1. ASSUME NEW k \in scheduledByTime
          PROVE  k[2] \in Batches \ {b} /\ Pending(k[2]) /\ scheduledBatches[k[2]].trigger = k[1]
      <4>1. k \in Time \X Batches
        BY <1>2 DEF TypeOK
      <4>2. k[2] # b
        BY <1>4, <4>1 DEF Unkeyed
      <4> QED
        BY <4>1, <4>2 DEF HistoryAgrees, KeysAreCurrent
    <3> QED
      BY <1>1, <1>6, <1>7, <3>1 DEF KeysAreCurrent
  <2> QED
    BY <2>1, <2>2, <2>3, <2>4 DEF HistoryAgrees
<1>10. ASSUME job[w].op = "create" PROVE CreationSound(job[w])'
  BY <1>1, <1>2, <1>3, <1>6, <1>10 DEF Coherent, JobSound, CreationSound
<1>11. ASSUME job[w].op \in Changing PROVE ChangeSound(job[w])'
  <2>1. ChangeSound(job[w])
    BY <1>2, <1>11 DEF JobSound
  <2>2. ASSUME job[w].op = "deliver", NEW k \in job[w].due, Pending(k[2])'
        PROVE  scheduledBatches'[k[2]].trigger = k[1] /\ k[1] <= job[w].at
    <3>1. k[2] \in Batches \ {b}
      BY <1>2, <1>4, <1>8, <2>2 DEF Job, IsPending
    <3> QED
      BY <1>6, <1>7, <2>1, <2>2, <3>1 DEF ChangeSound
  <2> QED
    BY <1>3, <1>4, <1>6, <2>2 DEF ChangeSound
<1>12. RecordSound(job[w])'
  BY <1>3 DEF RecordSound
<1> QED
  BY <1>1, <1>2, <1>3, <1>9, <1>10, <1>11, <1>12 DEF JobSound

(* The row that is in the store and that its keys are made of. *)
LEMMA StoredRow ==
  ASSUME NInv, Sound, NEW w \in Threads, ~Free(w), job[w].stage = "time"
  PROVE  Pending(job[w].batch) /\ scheduledBatches[job[w].batch] = job[w].row
<1>1. /\ job[w] \in Job /\ Coherent(job[w]) /\ JobSound(job[w]) /\ Saved(job[w], scheduledBatches)
  BY Held
<1>2. scheduledBatches[job[w].batch] # Null
  BY <1>1 DEF Saved
<1>3. CASE job[w].op = "create"
  BY <1>1, <1>2, <1>3 DEF Coherent, JobSound, CreationSound, Pending
<1>4. CASE job[w].op \in Changing
  BY <1>1, <1>2, <1>4 DEF JobSound, ChangeSound, Pending
<1> QED
  BY <1>1, <1>3, <1>4 DEF Coherent

LEMMA IndexTimeSerial ==
  ASSUME NInv, HistoryAgrees, Sound, NEW w \in Threads, IndexTime(w)
  PROVE  HistoryAgrees' /\ JobSound(job[w])'
<1>1. /\ ~Free(w) /\ job[w].stage = "time" /\ UNCHANGED <<arrivals, now>>
      /\ UNCHANGED <<notifications, userIndex, scheduledBatches>>
      /\ scheduledByTime' = scheduledByTime \cup {<<job[w].row.trigger, job[w].batch>>}
  BY DEF IndexTime, At, Free
<1>2. /\ job[w] \in Job /\ Coherent(job[w]) /\ JobSound(job[w]) /\ TypeOK /\ JobsOK
  BY <1>1, Held
<1>3. /\ job'[w].stage = "creator" /\ job'[w].op = job[w].op
      /\ job'[w].batch = job[w].batch /\ job'[w].row = job[w].row
      /\ job'[w].left = job[w].left /\ job'[w].rec = job[w].rec
      /\ job'[w].due = job[w].due /\ job'[w].at = job[w].at
  BY <1>1, <1>2, GotoFields DEF IndexTime, Stages
<1>4. Pending(job[w].batch) /\ scheduledBatches[job[w].batch] = job[w].row
  BY <1>1, StoredRow
<1>5. KeysAreCurrent'
  BY <1>1, <1>4 DEF KeysAreCurrent, HistoryAgrees, Pending
<1>6. HistoryAgrees'
  BY <1>1, <1>5 DEF HistoryAgrees, Unsent, Delivered, Pending
<1>7. job[w].op = "create" => CreationSound(job[w])'
  BY <1>1, <1>2, <1>3 DEF JobSound, CreationSound
<1>8. job[w].op \in Changing => ChangeSound(job[w])'
  BY <1>1, <1>2, <1>3 DEF JobSound, ChangeSound, Pending
<1>9. RecordSound(job[w])'
  BY <1>3 DEF RecordSound
<1> QED
  BY <1>1, <1>2, <1>3, <1>6, <1>7, <1>8, <1>9 DEF JobSound

LEMMA IndexCreatorSerial ==
  ASSUME NInv, HistoryAgrees, Sound, NEW w \in Threads, IndexCreator(w)
  PROVE  HistoryAgrees' /\ JobSound(job[w])'
<1>1. /\ ~Free(w) /\ job[w].stage = "creator" /\ UNCHANGED <<arrivals, now>>
      /\ UNCHANGED <<notifications, userIndex, scheduledBatches, scheduledByTime>>
  BY DEF IndexCreator, At, Free
<1>2. /\ job[w] \in Job /\ Coherent(job[w]) /\ JobSound(job[w]) /\ TypeOK /\ JobsOK
  BY <1>1, Held
<1>3. /\ job'[w].stage = IF job[w].op = "create" THEN "wake" ELSE "records"
      /\ job'[w].op = job[w].op
      /\ job'[w].batch = job[w].batch /\ job'[w].row = job[w].row
      /\ job'[w].left = job[w].left /\ job'[w].rec = job[w].rec
      /\ job'[w].due = job[w].due /\ job'[w].at = job[w].at
  BY <1>1, <1>2, GotoFields DEF IndexCreator, Stages
<1>4. HistoryAgrees'
  BY <1>1 DEF HistoryAgrees, KeysAreCurrent, Unsent, Delivered, Pending
<1>5. job[w].op = "create" => CreationSound(job[w])'
  BY <1>1, <1>2, <1>3 DEF JobSound, CreationSound
<1>6. job[w].op \in Changing => ChangeSound(job[w])'
  BY <1>1, <1>2, <1>3 DEF JobSound, ChangeSound, Pending, Changing
<1>7. RecordSound(job[w])'
  BY <1>3 DEF RecordSound
<1> QED
  BY <1>1, <1>2, <1>3, <1>4, <1>5, <1>6, <1>7 DEF JobSound

(* A delivery takes a batch that was due when it began. *)
LEMMA TakeBatchSerial ==
  ASSUME NInv, HistoryAgrees, Sound, NEW w \in Threads, NEW k \in Time \X Batches,
         TakeBatch(w, k)
  PROVE  HistoryAgrees' /\ JobSound(job[w])'
<1> DEFINE row == scheduledBatches[k[2]]
           j == [job[w] EXCEPT !.stage = "untime", !.batch = k[2], !.from = row.trigger,
                               !.row = [row EXCEPT !.delivered = job[w].at], !.left = row.users,
                               !.due = @ \ {k}]
<1>1. /\ ~Free(w) /\ job[w].stage = "due" /\ k \in job[w].due /\ Pending(k[2])
      /\ UNCHANGED <<store, arrivals, now>> /\ Begin(w, j)
  BY DEF TakeBatch, NextDue, At, Free
<1>2. /\ job[w] \in Job /\ Coherent(job[w]) /\ JobSound(job[w]) /\ TypeOK /\ JobsOK
  BY <1>1, Held
<1>3. job'[w] = j
  <2> HIDE DEF j
  <2> QED
    BY <1>1, <1>2 DEF Begin, JobsOK
<1>4. /\ job'[w].stage = "untime" /\ job'[w].op = job[w].op /\ job'[w].batch = k[2]
      /\ job'[w].row = [row EXCEPT !.delivered = job[w].at] /\ job'[w].from = row.trigger
      /\ job'[w].due = job[w].due \ {k} /\ job'[w].at = job[w].at
  BY <1>2, <1>3 DEF Job
<1> HIDE DEF j
<1>5. HistoryAgrees'
  BY <1>1, StoreAgrees
<1>6. job[w].op = "deliver" /\ ChangeSound(job[w])
  BY <1>1, <1>2 DEF Coherent, JobSound, Changing
<1>7. row.trigger = k[1] /\ k[1] <= job[w].at
  BY <1>1, <1>6 DEF ChangeSound
<1>8. /\ UNCHANGED scheduledBatches /\ \A b \in Batches : Pending(b)' <=> Pending(b)
      /\ k[2] \in Batches /\ \A other \in job[w].due : other[2] \in Batches
  BY <1>1, <1>2 DEF store, Pending, Job
<1>9. ChangeSound(job[w])'
  BY <1>1, <1>4, <1>6, <1>7, <1>8 DEF ChangeSound
<1>10. RecordSound(job[w])'
  BY <1>4, <1>6 DEF RecordSound
<1> QED
  BY <1>1, <1>2, <1>4, <1>5, <1>6, <1>9, <1>10 DEF JobSound

LEMMA PassBatchSerial ==
  ASSUME NInv, HistoryAgrees, Sound, NEW w \in Threads, NEW k, PassBatch(w, k)
  PROVE  HistoryAgrees' /\ JobSound(job[w])'
<1> DEFINE j == [job[w] EXCEPT !.due = @ \ {k}]
<1>1. /\ ~Free(w) /\ job[w].stage = "due" /\ UNCHANGED <<store, arrivals, now>> /\ Begin(w, j)
  BY DEF PassBatch, NextDue, At, Free
<1>2. /\ job[w] \in Job /\ Coherent(job[w]) /\ JobSound(job[w]) /\ TypeOK /\ JobsOK
  BY <1>1, Held
<1>3. job'[w] = j
  <2> HIDE DEF j
  <2> QED
    BY <1>1, <1>2 DEF Begin, JobsOK
<1>4. /\ job'[w].stage = "due" /\ job'[w].op = job[w].op
      /\ job'[w].due = job[w].due \ {k} /\ job'[w].at = job[w].at
  BY <1>1, <1>2, <1>3 DEF Job
<1> HIDE DEF j
<1>5. HistoryAgrees'
  BY <1>1, StoreAgrees
<1>6. job[w].op = "deliver" /\ ChangeSound(job[w])
  BY <1>1, <1>2 DEF Coherent, JobSound, Changing
<1>7. UNCHANGED scheduledBatches
  BY <1>1 DEF store
<1>8. ChangeSound(job[w])'
  BY <1>1, <1>4, <1>6, <1>7 DEF ChangeSound, Pending
<1>9. RecordSound(job[w])'
  BY <1>4, <1>6 DEF RecordSound
<1> QED
  BY <1>1, <1>2, <1>4, <1>5, <1>6, <1>8, <1>9 DEF JobSound

-----------------------------------------------------------------------------
(* A record that is read again is copied with its change. *)
LEMMA ReadRecordSerial ==
  ASSUME NInv, HistoryAgrees, Sound, NEW w \in Threads, NEW u \in Users, ReadRecord(w, u)
  PROVE  HistoryAgrees' /\ JobSound(job[w])'
<1> DEFINE rec == notifications[<<job[w].batch, u>>]
           takes == job[w].op = "create" \/ (rec # Null /\ Concerns(job[w].op, rec))
           new == Changed(job[w], rec)
           j == [job[w] EXCEPT !.stage = "record", !.user = u, !.rec = new]
           passed == [job[w] EXCEPT !.left = @ \ {u}]
<1>1. /\ ~Free(w) /\ job[w].stage = "records" /\ u \in job[w].left
      /\ UNCHANGED <<store, arrivals, now>>
      /\ takes => Begin(w, j)
      /\ ~takes => Begin(w, passed)
  BY DEF ReadRecord, At, Free
<1>2. /\ job[w] \in Job /\ Coherent(job[w]) /\ JobSound(job[w]) /\ TypeOK /\ JobsOK
  BY <1>1, Held
<1>3. HistoryAgrees' /\ UNCHANGED <<notifications, scheduledBatches, scheduledByTime>>
  BY <1>1, StoreAgrees DEF store
<1>4. job[w].op # "read"
  BY <1>1, <1>2 DEF Coherent
<1>5. CASE takes
  <2>1. job'[w] = j
    <3> HIDE DEF j
    <3> QED
      BY <1>1, <1>2, <1>5 DEF Begin, JobsOK
  <2>2. /\ job'[w].stage = "record" /\ job'[w].op = job[w].op
        /\ job'[w].batch = job[w].batch /\ job'[w].row = job[w].row
        /\ job'[w].left = job[w].left /\ job'[w].user = u /\ job'[w].rec = new
        /\ job'[w].due = job[w].due /\ job'[w].at = job[w].at
    BY <1>2, <2>1 DEF Job
  <2>3. job[w].op = "create" => new = job[w].rec
    BY DEF Changed
  <2>4. ASSUME job[w].op \in Changing
        PROVE  /\ rec # Null
               /\ job[w].op = "deliver" => ~Delivered(<<job[w].batch, u>>) /\ new.delivered = job[w].at
               /\ job[w].op # "deliver" => new.delivered = rec.delivered
    <3>1. rec # Null /\ Concerns(job[w].op, rec)
      BY <1>5, <2>4 DEF Changing
    <3>2. job[w].batch \in Batches
      BY <1>1, <1>2 DEF Coherent
    <3>3. rec \in Record
      BY <1>2, <3>1, <3>2 DEF TypeOK, Notifications
    <3> QED
      BY <2>4, <3>1, <3>3 DEF Changed, Concerns, Delivered, Record, Changing
  <2> HIDE DEF j, new
  <2>5. job[w].op = "create" => CreationSound(job[w])'
    BY <1>1, <1>2, <1>3, <2>2, <2>3 DEF JobSound, CreationSound
  <2>6. job[w].op \in Changing => ChangeSound(job[w])'
    BY <1>1, <1>2, <1>3, <2>2 DEF JobSound, ChangeSound, Pending
  <2>7. RecordSound(job[w])'
    <3>1. job[w].op \in Changing \cup {"create"}
      BY <1>2, <1>4 DEF Job, Operations, Changing
    <3> QED
      BY <1>3, <1>4, <2>2, <2>4, <3>1 DEF RecordSound, Delivered
  <2> QED
    BY <1>1, <1>2, <1>3, <2>2, <2>5, <2>6, <2>7 DEF JobSound
<1>6. CASE ~takes
  <2>1. job'[w] = passed
    <3> HIDE DEF passed
    <3> QED
      BY <1>1, <1>2, <1>6 DEF Begin, JobsOK
  <2>2. /\ job'[w].stage = "records" /\ job'[w].op = job[w].op /\ job[w].op # "create"
        /\ job'[w].batch = job[w].batch /\ job'[w].row = job[w].row
        /\ job'[w].due = job[w].due /\ job'[w].at = job[w].at
    BY <1>1, <1>2, <1>6, <2>1 DEF Job
  <2> HIDE DEF passed
  <2>3. job[w].op \in Changing => ChangeSound(job[w])'
    BY <1>1, <1>2, <1>3, <2>2 DEF JobSound, ChangeSound, Pending
  <2>4. RecordSound(job[w])'
    BY <2>2 DEF RecordSound
  <2> QED
    BY <1>1, <1>2, <1>3, <2>2, <2>3, <2>4 DEF JobSound
<1> QED
  BY <1>5, <1>6

(* After the record: the next recipient, or the streams with the record as it is. *)
LEMMA DoneFields ==
  ASSUME JobsOK, NEW w \in Threads, ~Free(w), Begin(w, RecordDone(job[w]))
  PROVE  /\ job'[w].stage = "records" /\ job'[w].op = job[w].op
         /\ job'[w].batch = job[w].batch /\ job'[w].row = job[w].row
         /\ job'[w].left = job[w].left \ {job[w].user}
         /\ job[w].op = "create" => job'[w].rec = job[w].rec
         /\ job'[w].due = job[w].due /\ job'[w].at = job[w].at
<1> DEFINE j == RecordDone(job[w])
<1>1. job'[w] = j
  <2>1. Begin(w, j)
    OBVIOUS
  <2> HIDE DEF j
  <2> QED
    BY <2>1 DEF Begin, JobsOK
<1>2. job[w] \in Job
  BY JobShape
<1> QED
  BY <1>1, <1>2 DEF RecordDone, Job

LEMMA AfterRecordFields ==
  ASSUME JobsOK, NEW w \in Threads, ~Free(w), AfterRecord(w)
  PROVE  /\ job'[w].op = job[w].op /\ job'[w].batch = job[w].batch /\ job'[w].row = job[w].row
         /\ job'[w].due = job[w].due /\ job'[w].at = job[w].at
         /\ job[w].op = "create" => job'[w].rec = job[w].rec
         /\ IF Announces(job[w].op)
            THEN /\ job'[w].stage = "send" /\ job'[w].user = job[w].user
                 /\ job'[w].rec = job[w].rec
            ELSE job'[w].stage = "records" /\ job'[w].left = job[w].left \ {job[w].user}
<1>1. CASE Announces(job[w].op)
  BY <1>1, GotoFields DEF AfterRecord, Stages
<1>2. CASE ~Announces(job[w].op)
  BY <1>2, DoneFields DEF AfterRecord
<1> QED
  BY <1>1, <1>2

(* What the record that is about to be written may be. *)
LEMMA WrittenRecord ==
  ASSUME NInv, HistoryAgrees, Sound, NEW w \in Threads, ~Free(w), job[w].stage = "record"
  PROVE  LET n == <<job[w].batch, job[w].user>>
         IN /\ n \in Notifications /\ job[w].rec \in Record
            /\ Delivered(n) => notifications[n].delivered = job[w].rec.delivered
            /\ Delivered(n) \/ job[w].rec.delivered = Null \/ job[w].op \in {"create", "deliver"}
            /\ job[w].op = "deliver" => arrivals[n] = 0 /\ job[w].rec.delivered # Null
<1> DEFINE n == <<job[w].batch, job[w].user>>
<1>1. /\ job[w] \in Job /\ Coherent(job[w]) /\ JobSound(job[w]) /\ TypeOK /\ JobsOK
  BY Held
<1>2. job[w].batch \in Batches /\ job[w].user \in Users /\ job[w].rec \in Record
  BY <1>1 DEF Coherent
<1>3. n \in Notifications
  BY <1>2 DEF Notifications
<1>4. CASE job[w].op = "create"
  BY <1>1, <1>2, <1>3, <1>4 DEF JobSound, CreationSound, Delivered
<1>5. CASE job[w].op # "create"
  <2>1. RecordSound(job[w])
    BY <1>1 DEF JobSound
  <2>2. /\ notifications[n] # Null
        /\ job[w].op = "deliver" => ~Delivered(n) /\ job[w].rec.delivered = job[w].at
        /\ job[w].op # "deliver" => job[w].rec.delivered = notifications[n].delivered
    BY <1>5, <2>1 DEF RecordSound
  <2>3. job[w].at # Null
    BY <1>1, NullIsNothing DEF Job
  <2>4. ~Delivered(n) => arrivals[n] = 0
    BY <1>3 DEF HistoryAgrees
  <2> QED
    BY <1>2, <1>3, <2>2, <2>3, <2>4 DEF Delivered
<1> QED
  BY <1>4, <1>5

(* A delivery writes no record of a batch that is pending or cancelled. *)
LEMMA WrittenBatch ==
  ASSUME NInv, HistoryAgrees, Sound, NEW w \in Threads, ~Free(w), job[w].stage = "record",
         scheduledBatches[job[w].batch] # Null,
         Pending(job[w].batch) \/ scheduledBatches[job[w].batch].cancelled
  PROVE  job[w].rec.delivered = Null
<1>1. /\ job[w] \in Job /\ Coherent(job[w]) /\ JobSound(job[w]) /\ Saved(job[w], scheduledBatches)
  BY Held
<1>2. job[w].op # "create"
  BY <1>1 DEF Saved
<1>3. job[w].op # "deliver"
  <2> SUFFICES ASSUME job[w].op = "deliver" PROVE FALSE
    OBVIOUS
  <2>1. ChangeSound(job[w])
    BY <1>1 DEF JobSound, Changing
  <2> QED
    BY <2>1 DEF ChangeSound, Pending, IsPending
<1>4. job[w].batch \in Batches /\ job[w].user \in Users
  BY <1>1 DEF Coherent
<1>5. ~Delivered(<<job[w].batch, job[w].user>>)
  BY <1>4 DEF HistoryAgrees, Unsent
<1> QED
  BY <1>2, <1>3, <1>5, WrittenRecord

LEMMA WriteRecordAgrees ==
  ASSUME NInv, HistoryAgrees, Sound, NEW w \in Threads, WriteRecord(w)
  PROVE  HistoryAgrees'
<1>1. /\ ~Free(w) /\ job[w].stage = "record"
      /\ UNCHANGED <<userIndex, scheduledBatches, scheduledByTime, arrivals>>
      /\ notifications' = [notifications EXCEPT ![<<job[w].batch, job[w].user>>] = job[w].rec]
  BY DEF WriteRecord, At, Free
<1>2. PICK n \in Notifications : n = <<job[w].batch, job[w].user>>
  BY <1>1, WrittenRecord
<1>3. /\ Delivered(n) => notifications[n].delivered = job[w].rec.delivered
      /\ job[w].rec \in Record /\ TypeOK
  BY <1>1, <1>2, WrittenRecord, NInvParts
<1>4. /\ notifications'[n] = job[w].rec
      /\ \A m \in Notifications \ {n} : notifications'[m] = notifications[m]
  BY <1>1, <1>2, <1>3 DEF TypeOK
<1>5. \A m \in Notifications : Delivered(m) =>
        Delivered(m)' /\ notifications'[m].delivered = notifications[m].delivered
  BY <1>3, <1>4, NullIsNothing DEF Delivered
<1>6. \A m \in Notifications : Delivered(m)' => Delivered(m) \/ (m = n /\ job[w].rec.delivered # Null)
  BY <1>4 DEF Delivered
<1>7. \A k \in userIndex' : Delivered(k[1])' /\ notifications'[k[1]].delivered = k[2]
  <2>1. \A k \in userIndex : k[1] \in Notifications
    BY <1>3 DEF TypeOK
  <2> QED
    BY <1>1, <1>5, <2>1 DEF HistoryAgrees
<1>8. \A m \in Notifications : arrivals'[m] # 0 => Delivered(m)' /\ arrivals'[m] = 1
  BY <1>1, <1>5 DEF HistoryAgrees
<1>9. ASSUME NEW b \in Batches, scheduledBatches[b] # Null,
             Pending(b) \/ scheduledBatches[b].cancelled
      PROVE  Unsent(b)'
  <2>1. Unsent(b)
    BY <1>9 DEF HistoryAgrees
  <2>2. ASSUME NEW u \in Users, Delivered(<<b, u>>)' PROVE FALSE
    <3>1. <<b, u>> \in Notifications /\ ~Delivered(<<b, u>>)
      BY <2>1 DEF Unsent, Notifications
    <3>2. <<b, u>> = n /\ job[w].rec.delivered # Null
      BY <1>6, <2>2, <3>1
    <3>3. b = job[w].batch
      BY <1>2, <3>2
    <3> QED
      BY <1>1, <1>9, <3>2, <3>3, WrittenBatch
  <2> QED
    BY <2>2 DEF Unsent
<1>10. KeysAreCurrent'
  BY <1>1 DEF HistoryAgrees, KeysAreCurrent, Pending
<1> QED
  BY <1>1, <1>7, <1>8, <1>9, <1>10 DEF HistoryAgrees, Pending

(* Once the record is written, and listed if it is delivered, the operation goes on   *)
(* with the next recipient.                                                           *)
LEMMA CreationGoesOn ==
  ASSUME NInv, Sound, NEW w \in Threads, ~Free(w), job[w].op = "create",
         job[w].stage \in {"record", "list"},
         UNCHANGED <<arrivals, scheduledBatches, scheduledByTime>>,
         LET n == <<job[w].batch, job[w].user>>
         IN /\ notifications'[n] = job[w].rec
            /\ \A m \in Notifications \ {n} : notifications'[m] = notifications[m],
         job'[w].op = "create", job'[w].batch = job[w].batch, job'[w].row = job[w].row,
         job'[w].rec = job[w].rec,
         \/ job'[w].stage = "list" /\ job'[w].left = job[w].left
         \/ job'[w].stage = "records" /\ job'[w].left = job[w].left \ {job[w].user}
  PROVE  CreationSound(job[w])'
<1>1. /\ job[w] \in Job /\ Coherent(job[w]) /\ JobSound(job[w])
  BY Held
<1>2. job[w].batch \in Batches /\ job[w].row \in Batch
  BY <1>1 DEF Coherent
<1>3. \A u \in Users : <<job[w].batch, u>> \in Notifications
  BY <1>2 DEF Notifications
<1>4. CreationSound(job[w])
  BY <1>1 DEF JobSound
<1>5. \A u \in Users : notifications'[<<job[w].batch, u>>] =
        IF u = job[w].user THEN job[w].rec ELSE notifications[<<job[w].batch, u>>]
  BY <1>3
<1>6. job[w].row.users \subseteq Users
  BY <1>2 DEF Batch
<1> QED
  BY <1>4, <1>5, <1>6 DEF CreationSound

LEMMA WriteRecordSerial ==
  ASSUME NInv, HistoryAgrees, Sound, NEW w \in Threads, WriteRecord(w)
  PROVE  HistoryAgrees' /\ JobSound(job[w])'
<1>1. /\ ~Free(w) /\ job[w].stage = "record" /\ UNCHANGED now
      /\ UNCHANGED <<userIndex, scheduledBatches, scheduledByTime, arrivals>>
      /\ notifications' = [notifications EXCEPT ![<<job[w].batch, job[w].user>>] = job[w].rec]
      /\ IF job[w].rec.delivered # Null THEN Goto(w, "list") ELSE AfterRecord(w)
  BY DEF WriteRecord, At, Free
<1>2. /\ job[w] \in Job /\ Coherent(job[w]) /\ JobSound(job[w]) /\ TypeOK /\ JobsOK
  BY <1>1, Held
<1>3. HistoryAgrees'
  BY WriteRecordAgrees
<1>4. PICK n \in Notifications : n = <<job[w].batch, job[w].user>>
  BY <1>1, WrittenRecord
<1>5. /\ notifications'[n] = job[w].rec
      /\ \A m \in Notifications \ {n} : notifications'[m] = notifications[m]
  BY <1>1, <1>2, <1>4 DEF TypeOK
<1>6. job[w].op = "deliver" => arrivals[n] = 0 /\ job[w].rec.delivered # Null
  BY <1>1, <1>4, WrittenRecord
<1>7. /\ job'[w].op = job[w].op /\ job'[w].batch = job[w].batch /\ job'[w].row = job[w].row
      /\ job'[w].due = job[w].due /\ job'[w].at = job[w].at
      /\ job[w].op = "create" => job'[w].rec = job[w].rec
      /\ \/ /\ job'[w].stage = "list" /\ job'[w].user = job[w].user /\ job'[w].rec = job[w].rec
            /\ job'[w].left = job[w].left
         \/ /\ job'[w].stage = "send" /\ job'[w].user = job[w].user /\ job'[w].rec = job[w].rec
            /\ Announces(job[w].op)
         \/ job'[w].stage = "records" /\ job'[w].left = job[w].left \ {job[w].user}
  <2>1. CASE job[w].rec.delivered # Null
    BY <1>1, <1>2, <2>1, GotoFields DEF Stages
  <2>2. CASE job[w].rec.delivered = Null
    BY <1>1, <1>2, <2>2, AfterRecordFields
  <2> QED
    BY <2>1, <2>2
<1>8. job[w].op = "create" => CreationSound(job[w])'
  BY <1>1, <1>4, <1>5, <1>7, CreationGoesOn DEF NInv, Announces
<1>9. job[w].op \in Changing => ChangeSound(job[w])'
  BY <1>1, <1>2, <1>7 DEF JobSound, ChangeSound, Pending
<1>10. RecordSound(job[w])'
  BY <1>1, <1>2, <1>4, <1>5, <1>6, <1>7 DEF JobSound, RecordSound
<1> QED
  BY <1>1, <1>2, <1>3, <1>7, <1>8, <1>9, <1>10 DEF JobSound

(* A key of the list is added for the record that has just been written. *)
LEMMA IndexRecordSerial ==
  ASSUME NInv, HistoryAgrees, Sound, NEW w \in Threads, IndexRecord(w)
  PROVE  HistoryAgrees' /\ JobSound(job[w])'
<1>1. /\ ~Free(w) /\ job[w].stage = "list" /\ UNCHANGED <<now, arrivals>>
      /\ UNCHANGED <<notifications, scheduledBatches, scheduledByTime>>
      /\ userIndex' = userIndex \cup {<<<<job[w].batch, job[w].user>>, job[w].rec.delivered>>}
      /\ AfterRecord(w)
  BY DEF IndexRecord, At, Free
<1>2. /\ job[w] \in Job /\ Coherent(job[w]) /\ JobSound(job[w]) /\ TypeOK /\ JobsOK
  BY <1>1, Held
<1>3. job[w].batch \in Batches /\ job[w].user \in Users /\ job[w].rec \in Record
  BY <1>1, <1>2 DEF Coherent
<1>4. PICK n \in Notifications : n = <<job[w].batch, job[w].user>>
  BY <1>3 DEF Notifications
<1>5. /\ notifications[n] = job[w].rec /\ job[w].rec.delivered # Null
      /\ job[w].op = "deliver" => arrivals[n] = 0
  BY <1>1, <1>2, <1>4 DEF Coherent, JobSound, RecordSound
<1>6. Delivered(n) /\ notifications[n].delivered = job[w].rec.delivered
  BY <1>3, <1>5, NullIsNothing DEF Delivered
<1>7. HistoryAgrees'
  <2>1. \A k \in userIndex' : Delivered(k[1])' /\ notifications'[k[1]].delivered = k[2]
    BY <1>1, <1>4, <1>6 DEF HistoryAgrees, Delivered
  <2> QED
    BY <1>1, <2>1 DEF HistoryAgrees, KeysAreCurrent, Unsent, Delivered, Pending
<1>8. /\ job'[w].op = job[w].op /\ job'[w].batch = job[w].batch /\ job'[w].row = job[w].row
      /\ job'[w].due = job[w].due /\ job'[w].at = job[w].at
      /\ job[w].op = "create" => job'[w].rec = job[w].rec
      /\ \/ /\ job'[w].stage = "send" /\ job'[w].user = job[w].user /\ job'[w].rec = job[w].rec
            /\ Announces(job[w].op)
         \/ job'[w].stage = "records" /\ job'[w].left = job[w].left \ {job[w].user}
  BY <1>1, <1>2, AfterRecordFields
<1>9. job[w].op = "create" => CreationSound(job[w])'
  BY <1>1, <1>4, <1>5, <1>8, CreationGoesOn DEF NInv, Announces
<1>10. job[w].op \in Changing => ChangeSound(job[w])'
  BY <1>1, <1>2, <1>8 DEF JobSound, ChangeSound, Pending
<1>11. RecordSound(job[w])'
  BY <1>1, <1>2, <1>4, <1>5, <1>8 DEF JobSound, RecordSound
<1> QED
  BY <1>1, <1>2, <1>7, <1>8, <1>9, <1>10, <1>11 DEF JobSound

-----------------------------------------------------------------------------
(* What arrives has been delivered, and has not arrived before. *)
LEMMA ArriveAgrees ==
  ASSUME TypeOK, HistoryAgrees, NEW n \in Notifications, NEW rec, Arrive(n, rec),
         UNCHANGED store, ~rec.read => Delivered(n) /\ arrivals[n] = 0
  PROVE  HistoryAgrees' /\ \A m \in Notifications \ {n} : arrivals'[m] = arrivals[m]
<1>1. UNCHANGED <<notifications, userIndex, scheduledBatches, scheduledByTime>>
  BY DEF store
<1>2. arrivals \in [Notifications -> 0 .. Many] /\ Many = 2
  BY DEF TypeOK, Many
<1>3. \A m \in Notifications : arrivals'[m] = arrivals[m] \/ (m = n /\ Delivered(n) /\ arrivals'[m] = 1)
  BY <1>2 DEF Arrive
<1>4. \A m \in Notifications : Delivered(m)' <=> Delivered(m)
  BY <1>1 DEF Delivered
<1>5. \A m \in Notifications : arrivals'[m] # 0 => Delivered(m)' /\ arrivals'[m] = 1
  BY <1>3, <1>4 DEF HistoryAgrees
<1>6. HistoryAgrees'
  BY <1>1, <1>5 DEF HistoryAgrees, KeysAreCurrent, Unsent, Delivered, Pending
<1> QED
  BY <1>3, <1>6

LEMMA SendRecordSerial ==
  ASSUME NInv, HistoryAgrees, Sound, NEW w \in Threads, SendRecord(w)
  PROVE  HistoryAgrees' /\ JobSound(job[w])'
<1>1. /\ ~Free(w) /\ job[w].stage = "send" /\ UNCHANGED <<store, now>>
      /\ Arrive(<<job[w].batch, job[w].user>>, job[w].rec)
      /\ Begin(w, RecordDone(job[w]))
  BY DEF SendRecord, At, Free
<1>2. /\ job[w] \in Job /\ Coherent(job[w]) /\ JobSound(job[w]) /\ TypeOK /\ JobsOK
  BY <1>1, Held
<1>3. job[w].batch \in Batches /\ job[w].user \in Users /\ job[w].rec \in Record
  BY <1>1, <1>2 DEF Coherent
<1>4. PICK n \in Notifications : n = <<job[w].batch, job[w].user>>
  BY <1>3 DEF Notifications
<1>5. job[w].op \in {"deliver", "read"}
  BY <1>1, <1>2 DEF Coherent, Announces
<1>6. ~job[w].rec.read => Delivered(n) /\ arrivals[n] = 0
  BY <1>1, <1>2, <1>3, <1>4, <1>5, NullIsNothing DEF JobSound, RecordSound, Delivered
<1>7. HistoryAgrees'
  BY <1>1, <1>2, <1>4, <1>6, ArriveAgrees
<1>8. /\ job'[w].stage = "records" /\ job'[w].op = job[w].op
      /\ job'[w].batch = job[w].batch /\ job'[w].row = job[w].row
      /\ job'[w].due = job[w].due /\ job'[w].at = job[w].at
  BY <1>1, <1>2, DoneFields
<1>9. job[w].op \in Changing => ChangeSound(job[w])'
  BY <1>1, <1>2, <1>8 DEF JobSound, ChangeSound, Pending, store
<1>10. RecordSound(job[w])'
  BY <1>8 DEF RecordSound
<1> QED
  BY <1>1, <1>2, <1>5, <1>7, <1>8, <1>9, <1>10 DEF JobSound

LEMMA FinishRecordsSerial ==
  ASSUME NInv, HistoryAgrees, Sound, NEW w \in Threads, FinishRecords(w)
  PROVE  HistoryAgrees' /\ (~Free(w)' => JobSound(job[w])')
<1> DEFINE publish == [job[w] EXCEPT !.stage = "publish", !.left = job[w].row.users]
           next == [job[w] EXCEPT !.stage = "due", !.batch = Null, !.row = Null, !.from = 0]
<1>1. /\ ~Free(w) /\ job[w].stage = "records" /\ job[w].left = {}
      /\ UNCHANGED <<store, arrivals, now>>
  BY DEF FinishRecords, At, Free
<1>2. /\ job[w] \in Job /\ Coherent(job[w]) /\ JobSound(job[w]) /\ TypeOK /\ JobsOK
      /\ Saved(job[w], scheduledBatches)
  BY <1>1, Held
<1>3. HistoryAgrees' /\ UNCHANGED <<notifications, scheduledBatches, scheduledByTime>>
  BY <1>1, StoreAgrees DEF store
<1>4. CASE job[w].op = "create" /\ job[w].rec.delivered = Null
  <2>1. Goto(w, "row")
    BY <1>4 DEF FinishRecords
  <2>2. /\ job'[w].stage = "row" /\ job'[w].op = "create"
        /\ job'[w].batch = job[w].batch /\ job'[w].row = job[w].row
        /\ job'[w].left = job[w].left /\ job'[w].rec = job[w].rec /\ job'[w].at = job[w].at
    BY <1>1, <1>2, <1>4, <2>1, GotoFields DEF Stages
  <2>3. Unkeyed(job[w].batch)
    BY <1>1, <1>2, <1>4 DEF Unkeyed, HistoryAgrees, KeysAreCurrent, Pending, Saved
  <2>4. CreationSound(job[w])'
    BY <1>1, <1>2, <1>3, <1>4, <2>2, <2>3 DEF JobSound, CreationSound, Unkeyed
  <2>5. RecordSound(job[w])'
    BY <2>2 DEF RecordSound
  <2> QED
    BY <1>1, <1>2, <1>3, <2>2, <2>4, <2>5 DEF JobSound, Changing
<1>5. CASE job[w].op = "create" /\ job[w].rec.delivered # Null
  <2>1. Begin(w, publish)
    BY <1>5 DEF FinishRecords
  <2>2. job'[w] = publish
    <3> HIDE DEF publish
    <3> QED
      BY <1>2, <2>1 DEF Begin, JobsOK
  <2>3. /\ job'[w].stage = "publish" /\ job'[w].op = "create"
        /\ job'[w].batch = job[w].batch /\ job'[w].row = job[w].row
        /\ job'[w].left = job[w].row.users /\ job'[w].rec = job[w].rec /\ job'[w].at = job[w].at
    BY <1>2, <1>5, <2>2 DEF Job
  <2> HIDE DEF publish
  <2>4. CreationSound(job[w])'
    BY <1>1, <1>2, <1>3, <1>5, <2>3 DEF JobSound, CreationSound
  <2>5. RecordSound(job[w])'
    BY <2>3 DEF RecordSound
  <2> QED
    BY <1>1, <1>2, <1>3, <2>3, <2>4, <2>5 DEF JobSound, Changing
<1>6. CASE job[w].op = "deliver"
  <2>1. Begin(w, next)
    BY <1>6 DEF FinishRecords
  <2>2. job'[w] = next
    <3> HIDE DEF next
    <3> QED
      BY <1>2, <2>1 DEF Begin, JobsOK
  <2>3. /\ job'[w].stage = "due" /\ job'[w].op = "deliver"
        /\ job'[w].due = job[w].due /\ job'[w].at = job[w].at
    BY <1>2, <1>6, <2>2 DEF Job
  <2> HIDE DEF next
  <2>4. ChangeSound(job[w])'
    BY <1>1, <1>2, <1>3, <1>6, <2>3 DEF JobSound, ChangeSound, Pending, Changing
  <2>5. RecordSound(job[w])'
    BY <2>3 DEF RecordSound
  <2> QED
    BY <1>1, <1>2, <1>3, <2>3, <2>4, <2>5 DEF JobSound
<1>7. CASE job[w].op \in {"cancel", "reschedule"}
  <2>1. Goto(w, "wake")
    BY <1>7 DEF FinishRecords
  <2>2. job'[w].stage = "wake" /\ job'[w].op = job[w].op /\ job'[w].at = job[w].at
    BY <1>1, <1>2, <2>1, GotoFields DEF Stages
  <2>3. ChangeSound(job[w])' /\ RecordSound(job[w])'
    BY <1>7, <2>2 DEF ChangeSound, RecordSound
  <2> QED
    BY <1>1, <1>2, <1>3, <1>7, <2>2, <2>3 DEF JobSound
<1>8. CASE job[w].op = "read"
  <2>1. End(w)
    BY <1>8 DEF FinishRecords
  <2>2. Free(w)'
    BY <1>2, <2>1 DEF End, Free, JobsOK
  <2> QED
    BY <1>3, <2>2
<1> QED
  BY <1>2, <1>4, <1>5, <1>6, <1>7, <1>8 DEF Job, Operations

(* A new immediate notification is sent to one recipient after the other. *)
LEMMA PublishSerial ==
  ASSUME NInv, HistoryAgrees, Sound, NEW w \in Threads, NEW u \in Users, Publish(w, u)
  PROVE  HistoryAgrees' /\ (~Free(w)' => JobSound(job[w])')
<1> DEFINE j == [job[w] EXCEPT !.left = @ \ {u}]
<1>1. /\ ~Free(w) /\ job[w].stage = "publish" /\ u \in job[w].left /\ UNCHANGED <<store, now>>
      /\ Arrive(<<job[w].batch, u>>, job[w].rec)
      /\ IF job[w].left = {u} THEN End(w) ELSE Begin(w, j)
  BY DEF Publish, At, Free
<1>2. /\ job[w] \in Job /\ Coherent(job[w]) /\ JobSound(job[w]) /\ TypeOK /\ JobsOK
  BY <1>1, Held
<1>3. /\ job[w].op = "create" /\ job[w].batch \in Batches /\ job[w].rec \in Record
      /\ CreationSound(job[w])
  BY <1>1, <1>2 DEF Coherent, JobSound
<1>4. PICK n \in Notifications : n = <<job[w].batch, u>>
  BY <1>3 DEF Notifications
<1>5. Delivered(n) /\ arrivals[n] = 0
  BY <1>1, <1>3, <1>4, NullIsNothing DEF CreationSound, Delivered
<1>6. HistoryAgrees' /\ \A m \in Notifications \ {n} : arrivals'[m] = arrivals[m]
  BY <1>1, <1>2, <1>4, <1>5, ArriveAgrees
<1>7. CASE job[w].left = {u}
  <2>1. Free(w)'
    BY <1>1, <1>2, <1>7 DEF End, Free, JobsOK
  <2> QED
    BY <1>6, <2>1
<1>8. CASE job[w].left # {u}
  <2>1. job'[w] = j
    <3> HIDE DEF j
    <3> QED
      BY <1>1, <1>2, <1>8 DEF Begin, JobsOK
  <2>2. /\ job'[w].stage = "publish" /\ job'[w].op = "create"
        /\ job'[w].batch = job[w].batch /\ job'[w].row = job[w].row
        /\ job'[w].left = job[w].left \ {u} /\ job'[w].rec = job[w].rec /\ job'[w].at = job[w].at
    BY <1>1, <1>2, <1>3, <2>1 DEF Job
  <2> HIDE DEF j
  <2>3. \A v \in job[w].left \ {u} : arrivals'[<<job[w].batch, v>>] = 0
    <3>1. job[w].left \subseteq Users
      BY <1>2 DEF Job
    <3>2. ASSUME NEW v \in job[w].left \ {u}
          PROVE  <<job[w].batch, v>> \in Notifications \ {n}
      BY <1>3, <1>4, <3>1 DEF Notifications
    <3> QED
      BY <1>1, <1>3, <1>6, <3>2 DEF CreationSound
  <2>4. CreationSound(job[w])'
    BY <1>1, <1>3, <2>2, <2>3 DEF CreationSound, store
  <2>5. RecordSound(job[w])'
    BY <2>2 DEF RecordSound
  <2> QED
    BY <1>1, <1>2, <1>6, <2>2, <2>4, <2>5 DEF JobSound, Changing
<1> QED
  BY <1>7, <1>8

-----------------------------------------------------------------------------
(* The handlers begin with nothing written. *)
LEMMA CreateSerial ==
  ASSUME NInv, HistoryAgrees, NEW w \in Threads, NEW b \in Batches, NEW users \in SUBSET Users,
         NEW c \in Creators, NEW t \in Time, CreateNotification(w, b, users, c, t)
  PROVE  HistoryAgrees' /\ JobSound(job[w])'
<1>1. TypeOK /\ JobsOK
  BY NInvParts
<1>2. PICK row \in Batch, rec \in Record :
        /\ row.users = users
        /\ Begin(w, [Blank("create") EXCEPT !.batch = b, !.row = row, !.left = users, !.rec = rec])
  BY <1>1, CreateJob
<1> DEFINE j == [Blank("create") EXCEPT !.batch = b, !.row = row, !.left = users, !.rec = rec]
<1>3. /\ j.op = "create" /\ j.stage = "records" /\ j.batch = b /\ j.row = row
      /\ j.left = users /\ j.rec = rec /\ j.at = 0
  BY DEF Blank
<1>4. job'[w] = j
  <2>1. Begin(w, j)
    BY <1>2
  <2> HIDE DEF j
  <2> QED
    BY <1>1, <2>1 DEF Begin, JobsOK
<1> HIDE DEF j
<1>5. /\ \A u \in Users : notifications[<<b, u>>] = Null
      /\ UNCHANGED <<store, arrivals, now>>
  BY DEF CreateNotification, Fresh
<1>6. HistoryAgrees'
  BY <1>5, StoreAgrees
<1>7. \A u \in Users : arrivals[<<b, u>>] = 0
  <2>1. \A u \in Users : <<b, u>> \in Notifications
    BY DEF Notifications
  <2> QED
    BY <1>5, <2>1 DEF HistoryAgrees, Delivered
<1>8. CreationSound(job[w])'
  BY <1>2, <1>3, <1>4, <1>5, <1>7 DEF CreationSound, store
<1>9. RecordSound(job[w])'
  BY <1>3, <1>4 DEF RecordSound
<1>10. now' \in Time /\ 0 <= now'
  BY <1>1, <1>5 DEF TypeOK, Time
<1> QED
  BY <1>3, <1>4, <1>6, <1>8, <1>9, <1>10 DEF JobSound, Changing

LEMMA DeliverySerial ==
  ASSUME NInv, HistoryAgrees, NEW w \in Threads, NEW byLoop \in BOOLEAN,
         Begin(w, Delivery(byLoop)), UNCHANGED <<store, arrivals, now>>
  PROVE  HistoryAgrees' /\ JobSound(job[w])'
<1> DEFINE j == Delivery(byLoop)
<1>1. TypeOK /\ JobsOK
  BY NInvParts
<1>2. j.op = "deliver" /\ j.stage = "due" /\ j.due = DueKeys /\ j.at = now
  BY DEF Delivery, Blank
<1>3. job'[w] = j
  <2>1. Begin(w, j)
    OBVIOUS
  <2> HIDE DEF j
  <2> QED
    BY <1>1, <2>1 DEF Begin, JobsOK
<1> HIDE DEF j
<1>4. HistoryAgrees' /\ UNCHANGED scheduledBatches
  BY StoreAgrees DEF store
<1>5. \A k \in DueKeys : Pending(k[2]) /\ scheduledBatches[k[2]].trigger = k[1] /\ k[1] <= now
  BY DEF DueKeys, HistoryAgrees, KeysAreCurrent
<1>6. ChangeSound(job[w])'
  BY <1>2, <1>3, <1>4, <1>5 DEF ChangeSound
<1>7. RecordSound(job[w])'
  BY <1>2, <1>3 DEF RecordSound
<1>8. now' <= now' /\ UNCHANGED now
  BY <1>1 DEF TypeOK, Time
<1> QED
  BY <1>2, <1>3, <1>4, <1>6, <1>7, <1>8 DEF JobSound

LEMMA ChangeSerial ==
  ASSUME NInv, HistoryAgrees, NEW w \in Threads, NEW op \in {"cancel", "reschedule"},
         NEW b \in Batches, Pending(b), NEW row,
         op = "cancel" => row = [scheduledBatches[b] EXCEPT !.cancelled = TRUE],
         op = "reschedule" => row = [scheduledBatches[b] EXCEPT !.trigger = row.trigger],
         Begin(w, Change(op, b, row)), UNCHANGED <<store, arrivals, now>>
  PROVE  HistoryAgrees' /\ JobSound(job[w])'
<1> DEFINE j == Change(op, b, row)
<1>1. TypeOK /\ JobsOK
  BY NInvParts
<1>2. /\ j.op = op /\ j.stage = "untime" /\ j.batch = b /\ j.row = row
      /\ j.from = scheduledBatches[b].trigger /\ j.at = 0
  BY DEF Change, Blank
<1>3. job'[w] = j
  <2>1. Begin(w, j)
    OBVIOUS
  <2> HIDE DEF j
  <2> QED
    BY <1>1, <2>1 DEF Begin, JobsOK
<1> HIDE DEF j
<1>4. HistoryAgrees' /\ UNCHANGED scheduledBatches
  BY StoreAgrees DEF store
<1>5. ChangeSound(job[w])'
  BY <1>2, <1>3, <1>4 DEF ChangeSound, Pending
<1>6. RecordSound(job[w])'
  BY <1>2, <1>3 DEF RecordSound
<1>7. now' \in Time /\ 0 <= now'
  BY <1>1 DEF TypeOK, Time
<1> QED
  BY <1>2, <1>3, <1>4, <1>5, <1>6, <1>7 DEF JobSound, Changing

LEMMA ReadSerial ==
  ASSUME NInv, HistoryAgrees, NEW w \in Threads, NEW b \in Batches, NEW u \in Users,
         MarkAsRead(w, b, u)
  PROVE  HistoryAgrees' /\ JobSound(job[w])'
<1> DEFINE rec == [notifications[<<b, u>>] EXCEPT !.read = TRUE]
           j == [Blank("read") EXCEPT !.stage = "record", !.batch = b, !.left = {u}, !.user = u,
                                      !.rec = rec]
<1>1. TypeOK /\ JobsOK
  BY NInvParts
<1>2. /\ notifications[<<b, u>>] # Null /\ Begin(w, j) /\ UNCHANGED <<store, arrivals, now>>
  BY DEF MarkAsRead
<1>3. notifications[<<b, u>>] \in Record
  BY <1>1, <1>2 DEF TypeOK, Notifications
<1>4. rec.read /\ rec.delivered = notifications[<<b, u>>].delivered
  BY <1>3 DEF Record
<1>5. /\ j.op = "read" /\ j.stage = "record" /\ j.batch = b /\ j.user = u /\ j.rec = rec
      /\ j.at = 0
  BY DEF Blank
<1>6. job'[w] = j
  <2> HIDE DEF j
  <2> QED
    BY <1>1, <1>2 DEF Begin, JobsOK
<1> HIDE DEF j, rec
<1>7. HistoryAgrees' /\ UNCHANGED notifications
  BY <1>2, StoreAgrees DEF store
<1>8. RecordSound(job[w])'
  BY <1>2, <1>4, <1>5, <1>6, <1>7 DEF RecordSound
<1>9. now' \in Time /\ 0 <= now'
  BY <1>1, <1>2 DEF TypeOK, Time
<1> QED
  BY <1>5, <1>6, <1>7, <1>8, <1>9 DEF JobSound, Changing

LEMMA HandlerSerial ==
  ASSUME NInv, HistoryAgrees, NEW w \in Threads, Handler(w)
  PROVE  HistoryAgrees' /\ JobSound(job[w])'
<1>1. CASE DeliverDueNotifications(w)
  BY <1>1, DeliverySerial DEF DeliverDueNotifications
<1>2. ASSUME NEW b \in Batches, NEW c \in Creators, CancelScheduledBatch(w, b, c)
      PROVE  HistoryAgrees' /\ JobSound(job[w])'
  BY <1>2, ChangeSerial DEF CancelScheduledBatch
<1>3. ASSUME NEW b \in Batches, NEW c \in Creators, NEW t \in Time,
             RescheduleScheduledBatch(w, b, c, t)
      PROVE  HistoryAgrees' /\ JobSound(job[w])'
  <2> DEFINE row == [scheduledBatches[b] EXCEPT !.trigger = t]
  <2>1. /\ Pending(b) /\ Begin(w, Change("reschedule", b, row))
        /\ UNCHANGED <<store, arrivals, now>>
    BY <1>3 DEF RescheduleScheduledBatch
  <2>2. row.trigger = t
    BY <2>1, NInvParts DEF TypeOK, Pending, Batch
  <2>3. row = [scheduledBatches[b] EXCEPT !.trigger = row.trigger]
    BY <2>2
  <2> HIDE DEF row
  <2> QED
    BY <2>1, <2>3, ChangeSerial
<1> QED
  BY <1>1, <1>2, <1>3, CreateSerial, ReadSerial DEF Handler

-----------------------------------------------------------------------------
(* The steps of the one operation. *)
LEMMA EndSerial ==
  ASSUME NInv, HistoryAgrees, NEW w \in Threads, End(w), UNCHANGED <<store, arrivals>>
  PROVE  HistoryAgrees' /\ (~Free(w)' => JobSound(job[w])')
<1>1. Free(w)'
  BY NInvParts DEF End, Free, JobsOK
<1> QED
  BY <1>1, StoreAgrees

LEMMA StepSerial ==
  ASSUME NInv, HistoryAgrees, Sound, NEW w \in Threads, Step(w)
  PROVE  HistoryAgrees' /\ (~Free(w)' => JobSound(job[w])')
<1>1. ASSUME NEW k \in Time \X Batches, TakeBatch(w, k) \/ PassBatch(w, k)
      PROVE  HistoryAgrees' /\ JobSound(job[w])'
  BY <1>1, TakeBatchSerial, PassBatchSerial
<1>2. CASE BatchStep(w)
  BY <1>1, <1>2, UnindexTimeSerial, UnindexCreatorSerial, WriteBatchSerial, IndexTimeSerial,
     IndexCreatorSerial DEF BatchStep
<1>3. CASE RecordStep(w)
  BY <1>3, ReadRecordSerial, PublishSerial, WriteRecordSerial, IndexRecordSerial,
     SendRecordSerial, FinishRecordsSerial DEF RecordStep
<1>4. CASE WakeScheduler(w) \/ EndDelivery(w) \/ LoopSleeps(w)
  BY <1>4, EndSerial DEF WakeScheduler, EndDelivery, LoopSleeps
<1> QED
  BY <1>2, <1>3, <1>4 DEF Step

(* The loop goes on with no key at hand; any other operation ends. *)
LEMMA FailSerial ==
  ASSUME NInv, HistoryAgrees, Sound, NEW w \in Threads, Fail(w)
  PROVE  HistoryAgrees' /\ (~Free(w)' => JobSound(job[w])')
<1> DEFINE j == [Delivery(TRUE) EXCEPT !.due = {}, !.at = job[w].at]
<1>1. /\ ~Free(w) /\ UNCHANGED <<store, arrivals, now>>
      /\ Begin(w, j) \/ End(w)
  BY DEF Fail
<1>2. JobSound(job[w]) /\ JobsOK
  BY <1>1, Held
<1>3. CASE End(w)
  BY <1>1, <1>3, EndSerial
<1>4. CASE Begin(w, j)
  <2>1. j.op = "deliver" /\ j.stage = "due" /\ j.due = {} /\ j.at = job[w].at
    BY DEF Delivery, Blank
  <2>2. job'[w] = j
    <3> HIDE DEF j
    <3> QED
      BY <1>2, <1>4 DEF Begin, JobsOK
  <2> HIDE DEF j
  <2>3. ChangeSound(job[w])' /\ RecordSound(job[w])'
    BY <2>1, <2>2 DEF ChangeSound, RecordSound
  <2> QED
    BY <1>1, <1>2, <2>1, <2>2, <2>3, StoreAgrees DEF JobSound
<1> QED
  BY <1>1, <1>3, <1>4

(* Time passes, and what has begun began before. *)
LEMMA TickSerial ==
  ASSUME NInv, HistoryAgrees, Sound, Tick
  PROVE  HistoryAgrees' /\ Sound'
<1>1. /\ UNCHANGED <<store, arrivals, job>> /\ now' = now + 1
      /\ UNCHANGED <<notifications, userIndex, scheduledBatches, scheduledByTime>>
  BY DEF Tick, store
<1>2. ASSUME NEW w \in Threads, ~Free(w)' PROVE JobSound(job[w])'
  <2>1. /\ job[w] \in Job /\ JobSound(job[w]) /\ TypeOK
    BY <1>1, <1>2, Held DEF Free
  <2>2. job[w].at \in Time /\ now \in Time /\ MaxTime \in Nat
    BY <2>1, NullIsNothing DEF Job, TypeOK
  <2>3. job[w].at <= now'
    BY <1>1, <2>1, <2>2 DEF JobSound, Time
  <2>4. CreationSound(job[w])' <=> CreationSound(job[w])
    BY <1>1 DEF CreationSound, Unkeyed
  <2>5. ChangeSound(job[w])' <=> ChangeSound(job[w])
    BY <1>1 DEF ChangeSound, Unkeyed, Pending
  <2>6. RecordSound(job[w])' <=> RecordSound(job[w])
    BY <1>1 DEF RecordSound, Delivered
  <2> QED
    BY <1>1, <2>1, <2>3, <2>4, <2>5, <2>6 DEF JobSound
<1> QED
  BY <1>1, <1>2, StoreAgrees DEF Sound

LEMMA SerialNext ==
  ASSUME OneThread, SerialInv, [Next]_vars
  PROVE  SerialInv'
<1>1. NInv /\ HistoryAgrees /\ Sound
  BY SerialParts
<1>2. NInv'
  BY <1>1, NInvNext
<1>3. ASSUME NEW w \in Threads, Handler(w) \/ LoopDelivers(w) \/ Step(w) \/ Fail(w) \/ LoopFails(w)
      PROVE  HistoryAgrees' /\ (~Free(w)' => JobSound(job[w])')
  <2>1. CASE LoopDelivers(w)
    BY <1>1, <2>1, DeliverySerial DEF LoopDelivers
  <2>2. CASE LoopFails(w)
    BY <1>1, <2>2, EndSerial DEF LoopFails
  <2> QED
    BY <1>1, <1>3, <2>1, <2>2, HandlerSerial, StepSerial, FailSerial
<1>4. ASSUME NEW w \in Threads, Handler(w) \/ LoopDelivers(w) \/ Step(w) \/ Fail(w) \/ LoopFails(w)
      PROVE  HistoryAgrees' /\ Sound'
  BY <1>3, <1>4, SoundOfOne
<1>5. ASSUME AlarmRings \/ SchedulerNotified \/ UNCHANGED vars
      PROVE  HistoryAgrees' /\ Sound'
  <2>1. UNCHANGED <<store, arrivals, job, now>>
    BY <1>5 DEF AlarmRings, SchedulerNotified, vars, store
  <2>2. /\ notifications' = notifications /\ userIndex' = userIndex
        /\ scheduledBatches' = scheduledBatches /\ scheduledByTime' = scheduledByTime
        /\ scheduledByCreator' = scheduledByCreator
        /\ arrivals' = arrivals /\ job' = job /\ now' = now
    BY <2>1 DEF store
  <2>3. \A w \in Threads : /\ Free(w)' <=> Free(w)
                           /\ JobSound(job[w])' <=> JobSound(job[w])
    <3> TAKE w \in Threads
    <3>1. /\ CreationSound(job[w])' <=> CreationSound(job[w])
          /\ ChangeSound(job[w])' <=> ChangeSound(job[w])
      BY <2>2 DEF CreationSound, ChangeSound, Unkeyed, Pending
    <3>2. RecordSound(job[w])' <=> RecordSound(job[w])
      BY <2>2 DEF RecordSound, Delivered
    <3> QED
      BY <2>2, <3>1, <3>2 DEF Free, JobSound
  <2>4. Sound'
    BY <1>1, <2>3 DEF Sound
  <2> QED
    BY <1>1, <2>1, <2>4, StoreAgrees
<1>6. ASSUME Crash PROVE HistoryAgrees' /\ Sound'
  <2>1. \A w \in Threads : Free(w)'
    BY <1>6 DEF Crash, Free
  <2> QED
    BY <1>1, <1>6, <2>1, StoreAgrees DEF Crash, Sound
<1>7. HistoryAgrees' /\ Sound'
  BY <1>1, <1>4, <1>5, <1>6, TickSerial DEF Next
<1>8. SerialInv' <=> NInv' /\ HistoryAgrees' /\ Sound'
  BY DEF SerialInv, Sound
<1> QED
  BY <1>2, <1>7, <1>8

LEMMA SerialInit == Init => SerialInv
<1> SUFFICES ASSUME Init PROVE SerialInv
  OBVIOUS
<1>1. NInv
  BY NInvInit
<1>2. HistoryAgrees
  <2>1. \A n \in Notifications : notifications[n] = Null /\ arrivals[n] = 0
    BY DEF Init
  <2>2. \A b \in Batches : scheduledBatches[b] = Null
    BY DEF Init
  <2> QED
    BY <2>1, <2>2 DEF Init, HistoryAgrees, KeysAreCurrent
<1>3. Sound
  BY DEF Init, Sound, Free
<1> QED
  BY <1>1, <1>2, <1>3, SerialParts

(* However many users and batches there are, and whatever fails between two accesses,  *)
(* the history of the notifications agrees with the store when operations do not        *)
(* overlap.                                                                              *)
THEOREM SerialInvariantHolds ==
  ASSUME OneThread
  PROVE  Spec => []SerialInv
<1>1. SerialInv /\ [Next]_vars => SerialInv'
  BY SerialNext
<1> QED
  BY SerialInit, <1>1, PTL DEF Spec

(* A user is told of a notification at most once, although a delivery that fails half-  *)
(* way is repeated: what it has sent it has recorded as delivered before.               *)
THEOREM EveryNotificationArrivesOnce ==
  ASSUME OneThread
  PROVE  Spec => []ArrivesOnce
<1>1. SerialInv => ArrivesOnce
  BY SerialParts DEF HistoryAgrees, ArrivesOnce, Many
<1> QED
  BY SerialInvariantHolds, <1>1, PTL

(* A notification is in its user's list once, at the time at which it was delivered:     *)
(* write_notification adds a key at every write, and all of them are the same.           *)
THEOREM EveryNotificationIsListedOnce ==
  ASSUME OneThread
  PROVE  Spec => []ListedOnce
<1>1. SerialInv => ListedOnce
  <2> SUFFICES ASSUME SerialInv, NEW k1 \in userIndex, NEW k2 \in userIndex, k1[1] = k2[1]
               PROVE  k1 = k2
    BY DEF ListedOnce
  <2>1. k1 \in Notifications \X Time /\ k2 \in Notifications \X Time
    BY SerialParts, NInvParts DEF TypeOK
  <2>2. k1[2] = k2[2]
    BY SerialParts DEF HistoryAgrees
  <2> QED
    BY <2>1, <2>2
<1> QED
  BY SerialInvariantHolds, <1>1, PTL

(* Nothing of a batch that was cancelled has been delivered, and nothing will be: the    *)
(* delivery reads the batch again and takes only one that is still pending.              *)
THEOREM CancelledIsNeverDelivered ==
  ASSUME OneThread
  PROVE  Spec => []CancelledNotDelivered
<1>1. SerialInv => CancelledNotDelivered
  BY SerialParts DEF HistoryAgrees, CancelledNotDelivered, Unsent, Delivered
<1> QED
  BY SerialInvariantHolds, <1>1, PTL

(* The schedule holds no key but those of pending batches, at the time they are due,     *)
(* so that the loop never delivers early and never polls for a key that is stale.        *)
THEOREM ScheduleIsCurrent ==
  ASSUME OneThread
  PROVE  Spec => []KeysAreCurrent
<1>1. SerialInv => KeysAreCurrent
  BY SerialParts DEF HistoryAgrees
<1> QED
  BY SerialInvariantHolds, <1>1, PTL

-----------------------------------------------------------------------------
(* The life cycle of a batch, as its row shows it. *)
Status(b) ==
  IF scheduledBatches[b] = Null THEN "unknown"
  ELSE IF scheduledBatches[b].cancelled THEN "cancelled"
  ELSE IF scheduledBatches[b].delivered # Null THEN "delivered"
  ELSE "pending"
DueTime(b) == IF Pending(b) THEN scheduledBatches[b].trigger ELSE 0

LEMMA LifecycleStutters ==
  ASSUME UNCHANGED <<scheduledBatches, now>>
  PROVE  UNCHANGED Lifecycle!vars
  BY DEF Lifecycle!vars, Pending

(* Only the row of the batch that is written decides. *)
LEMMA RowDecides ==
  ASSUME NInv, NEW b \in Batches, NEW row \in Batch,
         scheduledBatches' = [scheduledBatches EXCEPT ![b] = row]
  PROVE  /\ Status(b)' = IF row.cancelled THEN "cancelled"
                         ELSE IF row.delivered # Null THEN "delivered" ELSE "pending"
         /\ DueTime(b)' = IF IsPending(row) THEN row.trigger ELSE 0
         /\ \A d \in Batches \ {b} : Status(d)' = Status(d) /\ DueTime(d)' = DueTime(d)
<1>1. scheduledBatches'[b] = row /\ \A d \in Batches \ {b} : scheduledBatches'[d] = scheduledBatches[d]
  BY NInvParts DEF TypeOK
<1>2. row # Null
  BY NullIsNothing
<1> QED
  BY <1>1, <1>2 DEF Status, DueTime, Pending

(* A row that is written schedules its batch, moves its time or decides it. *)
LEMMA WriteBatchFollowsLifecycle ==
  ASSUME SerialInv, NEW w \in Threads, WriteBatch(w)
  PROVE  Lifecycle!Next
<1> DEFINE status == [b \in Batches |-> Status(b)]
           trigger == [b \in Batches |-> DueTime(b)]
<1>1. NInv /\ HistoryAgrees /\ Sound
  BY SerialParts
<1>2. /\ ~Free(w) /\ job[w].stage = "row" /\ UNCHANGED now
      /\ scheduledBatches' = [scheduledBatches EXCEPT ![job[w].batch] = job[w].row]
  BY DEF WriteBatch, At, Free
<1>3. /\ job[w] \in Job /\ Coherent(job[w]) /\ JobSound(job[w]) /\ Saved(job[w], scheduledBatches)
      /\ TypeOK
  BY <1>1, <1>2, Held
<1>4. PICK b \in Batches, row \in Batch : b = job[w].batch /\ row = job[w].row
  BY <1>2, <1>3 DEF Coherent
<1>5. /\ Status(b)' = IF row.cancelled THEN "cancelled"
                      ELSE IF row.delivered # Null THEN "delivered" ELSE "pending"
      /\ DueTime(b)' = IF IsPending(row) THEN row.trigger ELSE 0
      /\ \A d \in Batches \ {b} : Status(d)' = Status(d) /\ DueTime(d)' = DueTime(d)
  BY <1>1, <1>2, <1>4, RowDecides
<1>6. /\ status' = [status EXCEPT ![b] = Status(b)']
      /\ trigger' = [trigger EXCEPT ![b] = DueTime(b)']
  BY <1>5
<1>7. row.trigger \in Time
  BY DEF Batch
<1>8. CASE job[w].op = "create"
  <2>1. Status(b) = "unknown" /\ IsPending(row)
    BY <1>2, <1>3, <1>4, <1>8 DEF Saved, Coherent, Status
  <2>2. Status(b)' = "pending" /\ DueTime(b)' = row.trigger
    BY <1>5, <2>1 DEF IsPending
  <2>3. status' = [status EXCEPT ![b] = "pending"] /\ trigger' = [trigger EXCEPT ![b] = row.trigger]
    BY <1>6, <2>2
  <2>4. Lifecycle!Schedule(b, row.trigger)
    BY <1>2, <2>1, <2>3 DEF Lifecycle!Schedule, Status, DueTime
  <2> QED
    BY <1>7, <2>4 DEF Lifecycle!Next
<1>9. CASE job[w].op \in Changing
  <2>1. ChangeSound(job[w])
    BY <1>3, <1>9 DEF JobSound
  <2>2. Pending(b) /\ scheduledBatches[b] \in Batch
    BY <1>2, <1>3, <1>4, <2>1 DEF ChangeSound, TypeOK, Pending
  <2>3. Status(b) = "pending" /\ DueTime(b) = scheduledBatches[b].trigger
    BY <2>2 DEF Status, DueTime, Pending, IsPending
  <2>4. CASE job[w].op = "deliver"
    <3>1. row = [scheduledBatches[b] EXCEPT !.delivered = job[w].at] /\ scheduledBatches[b].trigger <= job[w].at
      BY <1>2, <1>4, <2>1, <2>4 DEF ChangeSound
    <3>2. job[w].at # Null /\ job[w].at <= now /\ job[w].at \in Time /\ now \in Time /\ MaxTime \in Nat
      BY <1>3, NullIsNothing DEF Job, JobSound, TypeOK
    <3>3. row.delivered # Null /\ ~row.cancelled /\ scheduledBatches[b].trigger \in Time
      BY <2>2, <3>1, <3>2 DEF Batch, Pending, IsPending
    <3>4. scheduledBatches[b].trigger <= now
      BY <3>1, <3>2, <3>3 DEF Time
    <3>5. Lifecycle!Decide(b, "delivered")
      BY <1>2, <1>5, <1>6, <2>3, <3>3, <3>4 DEF Lifecycle!Decide, Status, DueTime, Pending, IsPending
    <3> QED
      BY <3>5 DEF Lifecycle!Next
  <2>5. CASE job[w].op = "cancel"
    <3>1. row.cancelled
      BY <1>2, <1>4, <2>1, <2>2, <2>5 DEF ChangeSound, Batch
    <3>2. Lifecycle!Decide(b, "cancelled")
      BY <1>2, <1>5, <1>6, <2>3, <3>1 DEF Lifecycle!Decide, Status, DueTime, Pending, IsPending
    <3> QED
      BY <3>2 DEF Lifecycle!Next
  <2>6. CASE job[w].op = "reschedule"
    <3>1. IsPending(row)
      BY <1>2, <1>4, <2>1, <2>2, <2>6 DEF ChangeSound, Batch, Pending, IsPending
    <3>2. status' = status
      BY <1>5, <2>3, <3>1 DEF IsPending
    <3>3. trigger' = [trigger EXCEPT ![b] = row.trigger]
      BY <1>5, <1>6, <3>1
    <3>4. Lifecycle!Reschedule(b, row.trigger)
      BY <1>2, <2>3, <3>2, <3>3 DEF Lifecycle!Reschedule, Status, DueTime
    <3> QED
      BY <1>7, <3>4 DEF Lifecycle!Next
  <2> QED
    BY <1>9, <2>4, <2>5, <2>6 DEF Changing
<1> QED
  BY <1>2, <1>3, <1>8, <1>9 DEF Coherent

LEMMA NextFollowsLifecycle ==
  ASSUME SerialInv, [Next]_vars
  PROVE  [Lifecycle!Next]_(Lifecycle!vars)
<1>1. CASE \E w \in Threads : WriteBatch(w)
  BY <1>1, WriteBatchFollowsLifecycle
<1>2. CASE Tick
  <2>1. TypeOK /\ MaxTime \in Nat
    BY SerialParts, NInvParts, NullIsNothing
  <2>2. now' \in Time /\ now' > now /\ UNCHANGED scheduledBatches
    BY <1>2, <2>1 DEF Tick, TypeOK, Time, store
  <2>3. Lifecycle!Tick
    BY <2>2 DEF Lifecycle!Tick, Pending
  <2> QED
    BY <2>3 DEF Lifecycle!Next
<1>3. CASE UNCHANGED <<scheduledBatches, now>>
  BY <1>3, LifecycleStutters
<1>4. ASSUME NEW w \in Threads, Handler(w)
      PROVE  UNCHANGED <<scheduledBatches, now>>
  BY <1>4 DEF Handler, CreateNotification, DeliverDueNotifications, CancelScheduledBatch,
     RescheduleScheduledBatch, MarkAsRead, store
<1>5. ASSUME NEW w \in Threads, Step(w), ~WriteBatch(w)
      PROVE  UNCHANGED <<scheduledBatches, now>>
  BY <1>5 DEF Step, BatchStep, RecordStep, TakeBatch, PassBatch, UnindexTime, UnindexCreator,
     IndexTime, IndexCreator, ReadRecord, Publish, WriteRecord, IndexRecord, SendRecord,
     FinishRecords, WakeScheduler, EndDelivery, LoopSleeps, store
<1>6. ASSUME NEW w \in Threads, LoopDelivers(w) \/ Fail(w) \/ LoopFails(w)
      PROVE  UNCHANGED <<scheduledBatches, now>>
  BY <1>6 DEF LoopDelivers, Fail, LoopFails, store
<1>7. CASE AlarmRings \/ SchedulerNotified \/ Crash \/ UNCHANGED vars
  <2>1. UNCHANGED <<scheduledBatches, now>>
    BY <1>7 DEF AlarmRings, SchedulerNotified, Crash, vars, store
  <2> QED
    BY <2>1, <1>3
<1> QED
  BY <1>1, <1>2, <1>3, <1>4, <1>5, <1>6, <1>7 DEF Next

LEMMA LifecycleInit == Init => Lifecycle!Init
  BY DEF Init, Lifecycle!Init, Pending

(* Every history of the store is one of the abstract life cycle: a batch is delivered or   *)
(* cancelled once, never both, never before the time it is scheduled for at that moment,    *)
(* and a reschedule never brings it back.                                                    *)
THEOREM BatchesFollowLifecycle ==
  ASSUME OneThread
  PROVE  Spec => ImplementsLifecycle
<1>1. SerialInv /\ [Next]_vars => [Lifecycle!Next]_(Lifecycle!vars)
  BY NextFollowsLifecycle
<1> QED
  BY LifecycleInit, SerialInvariantHolds, <1>1, PTL DEF Spec, ImplementsLifecycle, Lifecycle!Spec
=============================================================================
