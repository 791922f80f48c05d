------------------------- MODULE NotificationInvariant -------------------------
(***************************************************************************)
(* The inductive invariant of the notification service: what each operation *)
(* holds at each stage, and how that agrees with the store.                  *)
(***************************************************************************)
EXTENDS NotificationService

(* What stage an operation can be at, and what it holds there. *)
Changing == {"deliver", "cancel", "reschedule"}

Coherent(j) ==
  /\ j.stage = "due" => j.op = "deliver"
  /\ j.stage \in {"untime", "uncreator"} => j.op \in Changing
  /\ j.stage \in {"row", "time", "creator"} => j.op \in Changing \cup {"create"}
  /\ \/ j.stage \in {"untime", "uncreator", "row", "time", "creator"}
     \/ j.op \in {"create", "reschedule"} \/ j.row # Null
     => j.batch \in Batches /\ j.row \in Batch
  /\ j.stage \in {"records", "record", "list", "send"} => j.batch \in Batches
  /\ j.stage \in {"record", "list", "send"} => j.user \in Users /\ j.rec \in Record
  /\ j.op = "create" => j.rec \in Record /\ IsPending(j.row)
  /\ j.stage = "publish" => j.op = "create"
  /\ j.stage = "list" => j.rec.delivered # Null
  /\ j.stage = "send" => Announces(j.op)
  /\ j.op = "read" =>
       /\ j.stage = "records" => j.left = {}
       /\ j.stage \in {"record", "list", "send"} => j.left = {j.user}

(* The notifications of a row that is at hand exist, but for those that their  *)
(* creation has still to write.                                                *)
Written(j, written) ==
  /\ j.row # Null =>
       \A u \in j.row.users :
         \/ j.op = "create" /\ j.stage \in {"records", "record", "list"} /\ u \in j.left
         \/ written[<<j.batch, u>>] # Null
  /\ j.stage = "list" => written[<<j.batch, j.user>>] # Null

(* A row is in the store before anybody but its creation works with it. *)
Saved(j, saved) ==
  /\ j.stage \in {"time", "creator"} => saved[j.batch] # Null
  /\ j.stage \in {"untime", "uncreator", "row"} /\ j.op # "create" => saved[j.batch] # Null
  /\ j.op = "create" /\ j.stage \in {"records", "record", "list", "row"} =>
       saved[j.batch] = Null

Creating(w, b) == Holds(w, b) /\ job[w].op = "create"

NInv ==
  /\ TypeOK
  /\ NothingDangles
  /\ \A w \in Threads : ~Free(w) => /\ Coherent(job[w])
                                 /\ Written(job[w], notifications)
                                 /\ Saved(job[w], scheduledBatches)
  /\ \A w1, w2 \in Threads, b \in Batches : Creating(w1, b) /\ Creating(w2, b) => w1 = w2

(* Without faults, each key of a pending batch is there, or an operation has   *)
(* yet to write the batch or to put the key back.                              *)
HasTime(b) == <<scheduledBatches[b].trigger, b>> \in scheduledByTime
HasCreator(b) ==
  <<scheduledBatches[b].creator, scheduledBatches[b].trigger, b>> \in scheduledByCreator

RestoresTime(w, b) == Unindexes(w, b) \/ (Indexes(w, b) /\ job[w].stage = "time")
Restores(w, b) == Unindexes(w, b) \/ Indexes(w, b)

KeysInv ==
  \A b \in Batches : Pending(b) =>
    /\ HasTime(b) \/ \E w \in Threads : RestoresTime(w, b)
    /\ HasCreator(b) \/ \E w \in Threads : Restores(w, b)

(***************************************************************************)
(* Operations that do not overlap (one thread), whatever fails between      *)
(* their steps.                                                             *)
(***************************************************************************)
OneThread == \A w1, w2 \in Threads : w1 = w2

Delivered(n) == notifications[n] # Null /\ notifications[n].delivered # Null
Unsent(b) == \A u \in Users : ~Delivered(<<b, u>>)
Unkeyed(b) == \A t \in Time : <<t, b>> \notin scheduledByTime

(* A key of the list is that of a record as it is, only what is delivered has     *)
(* arrived, and a batch that is pending or cancelled has delivered nothing.       *)
HistoryAgrees ==
  /\ \A k \in userIndex : Delivered(k[1]) /\ notifications[k[1]].delivered = k[2]
  /\ \A n \in Notifications : arrivals[n] # 0 => Delivered(n) /\ arrivals[n] = 1
  /\ \A b \in Batches :
       scheduledBatches[b] # Null /\ (Pending(b) \/ scheduledBatches[b].cancelled) => Unsent(b)
  /\ KeysAreCurrent

(* What a creation has written so far: all of it is the record that it holds, and    *)
(* nothing has been sent of what it has still to send.                               *)
CreationSound(j) ==
  LET mine(u) == <<j.batch, u>>
  IN /\ j.left \subseteq j.row.users
     /\ \A u \in Users : notifications[mine(u)] \in {Null, j.rec}
     /\ j.stage \in {"records", "record", "list"} =>
          /\ \A u \in j.row.users : arrivals[mine(u)] = 0
          /\ \A u \in j.row.users \ j.left : notifications[mine(u)] = j.rec
     /\ j.stage = "publish" =>
          /\ j.rec.delivered # Null
          /\ \A u \in j.row.users : notifications[mine(u)] = j.rec
          /\ \A u \in j.left : arrivals[mine(u)] = 0
     /\ j.stage = "row" => j.rec.delivered = Null /\ Unkeyed(j.batch)
     /\ j.stage = "time" => scheduledBatches[j.batch] = j.row

(* Before it writes the batch, a change holds what is stored but for what it changes;   *)
(* afterwards what it holds is stored.  What it delivers was due.                      *)
ChangeSound(j) ==
  LET row == scheduledBatches[j.batch]
  IN /\ j.stage \in {"untime", "uncreator", "row"} =>
          /\ Pending(j.batch) /\ j.from = row.trigger
          /\ j.op = "deliver" => j.row = [row EXCEPT !.delivered = j.at] /\ row.trigger <= j.at
          /\ j.op = "cancel" => j.row = [row EXCEPT !.cancelled = TRUE]
          /\ j.op = "reschedule" => j.row = [row EXCEPT !.trigger = j.row.trigger]
     /\ j.stage \in {"uncreator", "row"} => Unkeyed(j.batch)
     /\ j.stage \in {"time", "creator", "records", "record", "list", "send"} => row = j.row
     /\ j.stage = "time" => IsPending(j.row)
     /\ j.op = "deliver" =>
          /\ \A k \in j.due : Pending(k[2]) =>
               scheduledBatches[k[2]].trigger = k[1] /\ k[1] <= j.at
          /\ j.stage \in {"time", "creator", "records", "record", "list", "send"} =>
               row.delivered # Null /\ ~row.cancelled

(* The record that is written is that in the store, or delivers it.                *)
RecordSound(j) ==
  LET n == <<j.batch, j.user>>
  IN /\ j.stage = "record" /\ j.op # "create" =>
          /\ notifications[n] # Null
          /\ j.op = "deliver" => ~Delivered(n) /\ j.rec.delivered = j.at
          /\ j.op # "deliver" => j.rec.delivered = notifications[n].delivered
     /\ j.stage \in {"list", "send"} => notifications[n] = j.rec
     /\ j.stage \in {"list", "send"} /\ j.op = "deliver" =>
          j.rec.delivered # Null /\ arrivals[n] = 0
     /\ j.op = "read" /\ j.stage \in {"record", "list", "send"} => j.rec.read

JobSound(j) ==
  /\ j.at <= now
  /\ j.op = "create" => CreationSound(j)
  /\ j.op \in Changing => ChangeSound(j)
  /\ RecordSound(j)

SerialInv ==
  /\ NInv
  /\ HistoryAgrees
  /\ \A w \in Threads : ~Free(w) => JobSound(job[w])
=============================================================================
