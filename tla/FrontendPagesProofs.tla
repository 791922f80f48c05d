-------------------------- MODULE FrontendPagesProofs --------------------------
(***************************************************************************)
(* The project page, the sending of notifications and the notification centre, and     *)
(* then all seven pages side by side, for any number of rows, tasks, clicks and faults:    *)
(* the invariants of FrontendPagesInvariant are inductive and imply the properties of         *)
(* FrontendPages.                                                                                *)
(***************************************************************************)
EXTENDS FrontendFormsProofs

-----------------------------------------------------------------------------
(* Sending notifications. *)

LEMMA ComposeTaskType ==
  ASSUME ComposeTyped, NEW k \in Compose!Running
  PROVE  k \in Tasks /\ ComposeTask(composeTasks[k]) /\ composeTasks[k].kind \in ComposeKinds
BY DEF ComposeTyped, ComposeTask, Compose!Running, Compose!NoTask

LEMMA ComposeSlot ==
  ASSUME ComposeTyped, Compose!Running # Tasks
  PROVE  Compose!Slot \in Tasks /\ composeTasks[Compose!Slot] = Compose!NoTask
<1>1. \E k \in Tasks : composeTasks[k] = Compose!NoTask
  BY DEF ComposeTyped, ComposeTask, ComposeKinds, Compose!Running, Compose!NoTask
<1> QED
  BY <1>1 DEF Compose!Slot

LEMMA ComposeIsTask ==
  ASSUME NEW t, ComposeTask(t)
  PROVE  t # Compose!NoTask /\ t.kind # "none" /\ t.kind \in ComposeKinds
BY DEF ComposeTask, ComposeKinds, Compose!NoTask

(* A task that starts, takes another step, or ends.                              *)
LEMMA ComposeTaskStep ==
  ASSUME ComposeTyped, NEW k \in Tasks, NEW t, t = Compose!NoTask \/ ComposeTask(t),
         composeTasks' = [composeTasks EXCEPT ![k] = t]
  PROVE  /\ DOMAIN composeTasks' = Tasks
         /\ \A j \in Tasks : composeTasks'[j] = Compose!NoTask \/ ComposeTask(composeTasks'[j])
         /\ composeTasks'[k] = t /\ (k \in Compose!Running' <=> t # Compose!NoTask)
         /\ \A j \in Tasks \ {k} : composeTasks'[j] = composeTasks[j]
         /\ \A j \in Tasks \ {k} : j \in Compose!Running' <=> j \in Compose!Running
         /\ Compose!Running' \subseteq Tasks
<1>1. DOMAIN composeTasks = Tasks
  BY DEF ComposeTyped
<1>2. /\ DOMAIN composeTasks' = Tasks /\ composeTasks'[k] = t
      /\ \A j \in Tasks \ {k} : composeTasks'[j] = composeTasks[j]
  BY <1>1
<1>3. \A j \in Tasks : composeTasks'[j] = Compose!NoTask \/ ComposeTask(composeTasks'[j])
  BY <1>2 DEF ComposeTyped
<1>4. k \in Compose!Running' <=> t # Compose!NoTask
  <2>1. t # Compose!NoTask => t.kind # "none"
    BY ComposeIsTask
  <2> QED
    BY <1>2, <2>1 DEF Compose!Running, Compose!NoTask
<1>5. \A j \in Tasks \ {k} : j \in Compose!Running' <=> j \in Compose!Running
  BY <1>2 DEF Compose!Running
<1> QED
  BY <1>2, <1>3, <1>4, <1>5 DEF Compose!Running

LEMMA ComposeTypedIntro ==
  ASSUME batch' \in [Batches -> Compose!Stages], composePage' \in Compose!Pages,
         chosen' \subseteq Users, composeFlags' \in ComposeFlags, DOMAIN composeTasks' = Tasks,
         \A j \in Tasks : composeTasks'[j] = Compose!NoTask \/ ComposeTask(composeTasks'[j]),
         \A b \in Batches : batch'[b].stage = "pending" => batch'[b].at \in Times,
         composePage'.dialog = "reschedule" => composePage'.target \in Batches,
         composePage'.loading => composePage'.dialog = "none"
  PROVE  ComposeTyped'
<1>1. ASSUME NEW k \in Compose!Running'
      PROVE  /\ composeTasks'[k].kind \in Compose!Writes \cup {"load", "left", "source", "options"}
             /\ composeTasks'[k].phase \in {"asked", "done", "failed", "reload", "loaded", "listed"}
             /\ composeTasks'[k].list \in Compose!Lists \cup {Null}
             /\ composeTasks'[k].rest \in BOOLEAN
  <2>1. PICK t : t = composeTasks'[k] /\ ComposeTask(t)
    BY DEF Compose!Running, Compose!NoTask
  <2>2. /\ t.kind \in ComposeKinds /\ t.phase \in ComposePhases(t.kind)
        /\ t.list \in Compose!Lists \cup {Null} /\ t.rest \in BOOLEAN
    BY <2>1 DEF ComposeTask
  <2> QED
    BY <2>1, <2>2 DEF ComposeKinds, ComposePhases, Compose!Writes
<1> QED
  BY <1>1 DEF ComposeTyped, Compose!TypeOK

(* A flag of the page goes with a task of its kind: those of other kinds than "ended"  *)
(* run on.                                                                              *)
LEMMA ComposeFlagsStand ==
  ASSUME ComposeTyped, Compose!NeverStuck, NEW ended,
         \A j \in Compose!Running : composeTasks[j].kind \notin ended =>
           j \in Compose!Running' /\ composeTasks'[j].kind = composeTasks[j].kind,
         composePage'.loading => composePage.loading /\ "load" \notin ended,
         \/ composePage'.submitting => composePage.submitting /\ "create" \notin ended
         \/ \E j \in Compose!Running' : composeTasks'[j].kind = "create",
         \/ composePage'.rescheduling => composePage.rescheduling /\ "reschedule" \notin ended
         \/ \E j \in Compose!Running' : composeTasks'[j].kind = "reschedule",
         \/ composePage'.sourceLoading =>
              composePage.sourceLoading /\ "source" \notin ended /\ "options" \notin ended
         \/ \E j \in Compose!Running' : composeTasks'[j].kind \in {"source", "options"}
  PROVE  Compose!NeverStuck'
<1> DEFINE runs(kind) == \E j \in Compose!Running : composeTasks[j].kind = kind
<1>1. \A kind : runs(kind) /\ kind \notin ended =>
        \E j \in Compose!Running' : composeTasks'[j].kind = kind
  OBVIOUS
<1>2. /\ composePage.loading => runs("load")
      /\ composePage.submitting => runs("create")
      /\ composePage.rescheduling => runs("reschedule")
      /\ composePage.sourceLoading => runs("source") \/ runs("options")
  BY DEF Compose!NeverStuck
<1> HIDE DEF runs
<1> QED
  BY <1>1, <1>2 DEF Compose!NeverStuck

(* Nothing touches the form, the choice in it and the tasks that read a source.  *)
LEMMA SourcesStand ==
  ASSUME SourcesAgree, Compose!RecipientsAsChosen,
         Compose!Composing' /\ ~composeFlags'.crossed =>
           /\ Compose!Composing /\ ~composeFlags.crossed
           /\ composePage'.to = composePage.to /\ chosen' = chosen,
         \A j \in Compose!Running' : composeTasks'[j].kind = "source" =>
           /\ j \in Compose!Running /\ composeTasks[j].kind = "source"
           /\ composeTasks[j].data = composeTasks'[j].data,
         \A j \in Compose!Running : composeTasks[j].kind = "source" =>
           j \in Compose!Running' /\ composeTasks'[j].kind = "source"
  PROVE  SourcesAgree' /\ Compose!RecipientsAsChosen'
<1>1. Compose!ReadingSource' <=> Compose!ReadingSource
  BY DEF Compose!ReadingSource
<1>2. SourcesAgree'
  BY DEF SourcesAgree
<1>3. Compose!RecipientsAsChosen'
  BY <1>1 DEF Compose!RecipientsAsChosen
<1> QED
  BY <1>2, <1>3

(* Nothing touches the batches, their list and the tasks that list them.         *)
LEMMA ListStands ==
  ASSUME ListKept, batch' = batch, composePage'.scheduled = composePage.scheduled,
         Compose!Listing' = Compose!Listing,
         \A j \in Compose!Listing : composeTasks'[j] = composeTasks[j],
         composeFlags'.overlap = composeFlags.overlap, composeFlags'.stale = composeFlags.stale
  PROVE  ListKept'
<1>1. Compose!Stored' = Compose!Stored
  BY DEF Compose!Stored
<1> QED
  BY <1>1 DEF ListKept

LEMMA ComposeTypes ==
  ASSUME ComposeInv
  PROVE  /\ ComposeTyped /\ batch \in [Batches -> Compose!Stages]
         /\ composePage \in Compose!Pages /\ chosen \subseteq Users /\ composeFlags \in ComposeFlags
         /\ DOMAIN composeTasks = Tasks
         /\ \A j \in Tasks : composeTasks[j] = Compose!NoTask \/ ComposeTask(composeTasks[j])
         /\ \A b \in Batches : batch[b].stage = "pending" => batch[b].at \in Times
         /\ composePage.dialog = "reschedule" => composePage.target \in Batches
         /\ composePage.loading => composePage.dialog = "none"
BY DEF ComposeInv, ComposeTyped, Compose!TypeOK

(* What the dialogs do without a call.                                           *)
LEMMA ComposeQuiet ==
  ASSUME ComposeInv, UNCHANGED <<batch, composeTasks>>,
         composePage' \in Compose!Pages, chosen' \subseteq Users, composeFlags' \in ComposeFlags,
         composePage'.dialog = "reschedule" => composePage'.target \in Batches,
         ~composePage'.loading,
         composePage'.scheduled = composePage.scheduled,
         composePage'.submitting = composePage.submitting,
         composePage'.rescheduling = composePage.rescheduling,
         composePage'.sourceLoading = composePage.sourceLoading,
         composeFlags'.overlap = composeFlags.overlap, composeFlags'.stale = composeFlags.stale,
         SourcesAgree', Compose!RecipientsAsChosen'
  PROVE  ComposeInv'
<1>1. Compose!Running' = Compose!Running /\ Compose!Listing' = Compose!Listing
  BY DEF Compose!Running, Compose!Listing
<1>2. ComposeTyped'
  BY ComposeTypes, ComposeTypedIntro
<1>3. Compose!NeverStuck'
  BY <1>1 DEF ComposeInv, Compose!NeverStuck
<1>4. ListKept'
  BY <1>1, ListStands DEF ComposeInv
<1> QED
  BY <1>2, <1>3, <1>4 DEF ComposeInv

LEMMA ComposeDialogs ==
  ASSUME ComposeInv,
         \/ Compose!CloseComposeDialog \/ Compose!CloseRescheduleDialog
         \/ \E u \in Users : Compose!HandleDirectorySelectionChange(u)
         \/ \E b \in Batches : Compose!OpenRescheduleDialog(b)
  PROVE  ComposeInv'
<1>1. /\ composePage \in Compose!Pages /\ chosen \subseteq Users /\ composeFlags \in ComposeFlags
      /\ composePage.dialog = "reschedule" => composePage.target \in Batches
  BY ComposeTypes
<1>2. ASSUME Compose!Crossing
      PROVE  /\ composeFlags' \in ComposeFlags
             /\ composeFlags'.overlap = composeFlags.overlap
             /\ composeFlags'.stale = composeFlags.stale
             /\ composeFlags'.crossed <=> composeFlags.crossed \/ Compose!ReadingSource
  <2>1. PICK reading \in BOOLEAN : reading <=> Compose!ReadingSource
    OBVIOUS
  <2>2. composeFlags' = [composeFlags EXCEPT !.crossed = @ \/ reading]
    BY <1>2, <2>1 DEF Compose!Crossing
  <2> QED
    BY <1>1, <2>1, <2>2 DEF ComposeFlags
<1>3. CASE Compose!CloseComposeDialog
  <2>1. /\ UNCHANGED <<batch, composeTasks>> /\ Compose!Crossing /\ chosen' = {}
        /\ composePage' = [composePage EXCEPT !.dialog = "none", !.to = {}]
        /\ ~composePage.loading
    BY <1>3 DEF Compose!CloseComposeDialog, Compose!Quietly, Compose!Composing
  <2>2. /\ composePage' \in Compose!Pages /\ composePage'.dialog = "none"
        /\ ~composePage'.loading /\ composePage'.scheduled = composePage.scheduled
        /\ composePage'.submitting = composePage.submitting
        /\ composePage'.rescheduling = composePage.rescheduling
        /\ composePage'.sourceLoading = composePage.sourceLoading
    BY <1>1, <2>1 DEF Compose!Pages
  <2>3. SourcesAgree' /\ Compose!RecipientsAsChosen'
    BY <2>2 DEF SourcesAgree, Compose!RecipientsAsChosen, Compose!Composing
  <2> QED
    BY <1>2, <2>1, <2>2, <2>3, ComposeQuiet
<1>4. CASE Compose!CloseRescheduleDialog
  <2>1. /\ UNCHANGED <<batch, composeTasks, chosen, composeFlags>>
        /\ composePage' = [composePage EXCEPT !.dialog = "none", !.target = Null]
        /\ ~composePage.loading
    BY <1>4 DEF Compose!CloseRescheduleDialog, Compose!Quietly, Compose!Rescheduling
  <2>2. /\ composePage' \in Compose!Pages /\ composePage'.dialog = "none"
        /\ ~composePage'.loading /\ composePage'.scheduled = composePage.scheduled
        /\ composePage'.submitting = composePage.submitting
        /\ composePage'.rescheduling = composePage.rescheduling
        /\ composePage'.sourceLoading = composePage.sourceLoading
    BY <1>1, <2>1 DEF Compose!Pages
  <2>3. SourcesAgree' /\ Compose!RecipientsAsChosen'
    BY <2>2 DEF SourcesAgree, Compose!RecipientsAsChosen, Compose!Composing
  <2> QED
    BY <1>1, <2>1, <2>2, <2>3, ComposeQuiet
<1>5. ASSUME NEW b \in Batches, Compose!OpenRescheduleDialog(b)
      PROVE  ComposeInv'
  <2>1. /\ UNCHANGED <<batch, composeTasks, chosen, composeFlags>>
        /\ composePage' = [composePage EXCEPT !.dialog = "reschedule", !.target = b]
        /\ ~composePage.loading
    BY <1>5 DEF Compose!OpenRescheduleDialog, Compose!Quietly, Compose!Free
  <2>2. /\ composePage' \in Compose!Pages
        /\ composePage'.dialog = "reschedule" /\ composePage'.target \in Batches
        /\ ~composePage'.loading /\ composePage'.scheduled = composePage.scheduled
        /\ composePage'.submitting = composePage.submitting
        /\ composePage'.rescheduling = composePage.rescheduling
        /\ composePage'.sourceLoading = composePage.sourceLoading
    BY <1>1, <2>1 DEF Compose!Pages
  <2>3. SourcesAgree' /\ Compose!RecipientsAsChosen'
    BY <2>2 DEF SourcesAgree, Compose!RecipientsAsChosen, Compose!Composing
  <2> QED
    BY <1>1, <2>1, <2>2, <2>3, ComposeQuiet
<1>6. ASSUME NEW u \in Users, Compose!HandleDirectorySelectionChange(u)
      PROVE  ComposeInv'
  <2>1. /\ UNCHANGED <<batch, composeTasks>> /\ Compose!Crossing /\ Compose!Composing
        /\ composePage' = [composePage EXCEPT !.to = Compose!Toggled(u)]
        /\ chosen' = IF u \in composePage.to THEN chosen \ {u} ELSE chosen \cup {u}
    BY <1>6 DEF Compose!HandleDirectorySelectionChange, Compose!Quietly
  <2>2. /\ composePage' \in Compose!Pages /\ chosen' \subseteq Users
        /\ composePage'.to = Compose!Toggled(u)
        /\ ~composePage'.loading /\ composePage'.dialog = composePage.dialog
        /\ composePage'.target = composePage.target
        /\ composePage'.scheduled = composePage.scheduled
        /\ composePage'.submitting = composePage.submitting
        /\ composePage'.rescheduling = composePage.rescheduling
        /\ composePage'.sourceLoading = composePage.sourceLoading
    <3>1. Compose!Toggled(u) \subseteq Users
      BY <1>1 DEF Compose!Toggled, Compose!Pages
    <3> QED
      BY <1>1, <2>1, <3>1 DEF Compose!Pages, Compose!Composing
  <2>3. Compose!ReadingSource' <=> Compose!ReadingSource
    BY <2>1 DEF Compose!ReadingSource, Compose!Running
  <2>4. SourcesAgree'
    BY <1>2, <2>1, <2>3 DEF SourcesAgree, Compose!ReadingSource
  <2>5. Compose!RecipientsAsChosen'
    <3>1. ASSUME ~composeFlags'.crossed
          PROVE  composePage'.to = chosen'
      <4>1. composePage.to = chosen
        BY <1>2, <2>1, <3>1 DEF ComposeInv, Compose!RecipientsAsChosen
      <4> QED
        BY <2>1, <2>2, <4>1 DEF Compose!Toggled
    <3> QED
      BY <3>1 DEF Compose!RecipientsAsChosen
  <2> QED
    BY <1>1, <1>2, <2>1, <2>2, <2>4, <2>5, ComposeQuiet
<1> QED
  BY <1>3, <1>4, <1>5, <1>6

(* A write starts: it is alone among those that list the batches, or overlaps.   *)
LEMMA ComposeWriteStarts ==
  ASSUME ComposeInv, NEW task, ComposeTask(task), Compose!Start(task),
         task.kind \in Compose!Writes, task.phase = "asked", UNCHANGED <<batch, chosen>>,
         composePage' \in Compose!Pages, composePage'.dialog = composePage.dialog,
         composePage'.target = composePage.target, composePage'.to = composePage.to,
         composePage'.loading = composePage.loading,
         composePage'.scheduled = composePage.scheduled,
         composePage'.sourceLoading = composePage.sourceLoading,
         composePage'.submitting => composePage.submitting \/ task.kind = "create",
         composePage'.rescheduling => composePage.rescheduling \/ task.kind = "reschedule"
  PROVE  ComposeInv'
<1>1. PICK k \in Tasks :
        composeTasks[k] = Compose!NoTask /\ composeTasks' = [composeTasks EXCEPT ![k] = task]
  BY ComposeTypes, ComposeSlot DEF Compose!Start
<1>2. /\ DOMAIN composeTasks' = Tasks
      /\ \A j \in Tasks : composeTasks'[j] = Compose!NoTask \/ ComposeTask(composeTasks'[j])
      /\ composeTasks'[k] = task /\ k \in Compose!Running' /\ k \notin Compose!Running
      /\ \A j \in Tasks \ {k} : composeTasks'[j] = composeTasks[j]
      /\ \A j \in Tasks \ {k} : j \in Compose!Running' <=> j \in Compose!Running
      /\ Compose!Running' \subseteq Tasks /\ Compose!Running \subseteq Tasks
  BY <1>1, ComposeTypes, ComposeTaskStep, ComposeIsTask DEF Compose!Running, Compose!NoTask
<1>3. /\ composeFlags' \in ComposeFlags /\ composeFlags'.crossed = composeFlags.crossed
      /\ composeFlags'.stale = composeFlags.stale
      /\ composeFlags'.overlap <=> composeFlags.overlap \/ Compose!Listing # {}
  <2>1. PICK busy \in BOOLEAN : busy <=> Compose!Listing # {}
    OBVIOUS
  <2>2. composeFlags' = [composeFlags EXCEPT !.overlap = @ \/ busy]
    BY <2>1 DEF Compose!Start
  <2> QED
    BY <2>1, <2>2, ComposeTypes DEF ComposeFlags
<1>4. ComposeTyped'
  BY <1>2, <1>3, ComposeTypes, ComposeTypedIntro
<1>5. Compose!NeverStuck'
  <2>1. \A j \in Compose!Running :
          j \in Compose!Running' /\ composeTasks'[j].kind = composeTasks[j].kind
    BY <1>2
  <2>2. PICK ended : ended = {}
    OBVIOUS
  <2>3. \/ composePage'.submitting => composePage.submitting /\ "create" \notin ended
        \/ \E j \in Compose!Running' : composeTasks'[j].kind = "create"
    BY <1>2, <2>2
  <2>4. \/ composePage'.rescheduling => composePage.rescheduling /\ "reschedule" \notin ended
        \/ \E j \in Compose!Running' : composeTasks'[j].kind = "reschedule"
    BY <1>2, <2>2
  <2>5. /\ composePage'.loading => composePage.loading /\ "load" \notin ended
        /\ composePage'.sourceLoading =>
             composePage.sourceLoading /\ "source" \notin ended /\ "options" \notin ended
        /\ \A j \in Compose!Running : composeTasks[j].kind \notin ended =>
             j \in Compose!Running' /\ composeTasks'[j].kind = composeTasks[j].kind
    BY <2>1, <2>2
  <2> QED
    BY <2>3, <2>4, <2>5, ComposeTypes, ComposeFlagsStand DEF ComposeInv
<1>6. SourcesAgree' /\ Compose!RecipientsAsChosen'
  <2>1. task.kind # "source"
    BY DEF Compose!Writes
  <2> QED
    BY <1>2, <1>3, <2>1, SourcesStand DEF ComposeInv, Compose!Composing
<1>7. ListKept'
  <2>1. SUFFICES ASSUME ~composeFlags'.overlap
                 PROVE  ListKept'
    BY DEF ListKept
  <2>2. ~composeFlags.overlap /\ Compose!Listing = {}
    BY <1>3, <2>1
  <2>3. Compose!Listing' \subseteq {k}
    BY <1>2, <2>2 DEF Compose!Listing
  <2>4. Compose!Stored' = Compose!Stored
    BY DEF Compose!Stored
  <2> QED
    BY <1>2, <1>3, <2>2, <2>3, <2>4 DEF ComposeInv, ListKept
<1> QED
  BY <1>4, <1>5, <1>6, <1>7 DEF ComposeInv

LEMMA ComposeWrites ==
  ASSUME ComposeInv,
         \/ Compose!HandleCreate \/ Compose!HandleRescheduleScheduled
         \/ \E b \in Batches : Compose!HandleCancelScheduled(b)
  PROVE  ComposeInv'
<1>1. /\ composePage \in Compose!Pages
      /\ composePage.dialog = "reschedule" => composePage.target \in Batches
  BY ComposeTypes
<1>2. CASE Compose!HandleCreate
  <2>1. PICK at \in Compose!Triggers :
          Compose!Start(Compose!Task("create", "asked", Null, at))
    BY <1>2 DEF Compose!HandleCreate
  <2>2. PICK task : task = Compose!Task("create", "asked", Null, at)
    OBVIOUS
  <2>3. /\ ComposeTask(task) /\ task.kind = "create" /\ task.phase = "asked"
    BY <2>2
    DEF Compose!Task, ComposeTask, ComposeKinds, ComposePhases, ComposeTargets, ComposeData
  <2>4. /\ UNCHANGED <<batch, chosen>>
        /\ composePage' = [composePage EXCEPT !.submitting = TRUE]
    BY <1>2 DEF Compose!HandleCreate
  <2>5. /\ composePage' \in Compose!Pages /\ composePage'.dialog = composePage.dialog
        /\ composePage'.target = composePage.target /\ composePage'.to = composePage.to
        /\ composePage'.loading = composePage.loading
        /\ composePage'.scheduled = composePage.scheduled
        /\ composePage'.sourceLoading = composePage.sourceLoading
        /\ composePage'.rescheduling = composePage.rescheduling
    BY <1>1, <2>4 DEF Compose!Pages
  <2> QED
    BY <2>1, <2>2, <2>3, <2>4, <2>5, ComposeWriteStarts DEF Compose!Writes
<1>3. CASE Compose!HandleRescheduleScheduled
  <2>1. PICK at \in Times :
          Compose!Start(Compose!Task("reschedule", "asked", composePage.target, at))
    BY <1>3 DEF Compose!HandleRescheduleScheduled, Compose!RescheduleTriggers
  <2>2. PICK task : task = Compose!Task("reschedule", "asked", composePage.target, at)
    OBVIOUS
  <2>3. composePage.target \in Batches
    BY <1>1, <1>3 DEF Compose!HandleRescheduleScheduled, Compose!Rescheduling
  <2>4. /\ ComposeTask(task) /\ task.kind = "reschedule" /\ task.phase = "asked"
    BY <2>2, <2>3
    DEF Compose!Task, ComposeTask, ComposeKinds, ComposePhases, ComposeTargets, ComposeData
  <2>5. /\ UNCHANGED <<batch, chosen>>
        /\ composePage' = [composePage EXCEPT !.rescheduling = TRUE]
    BY <1>3 DEF Compose!HandleRescheduleScheduled
  <2>6. /\ composePage' \in Compose!Pages /\ composePage'.dialog = composePage.dialog
        /\ composePage'.target = composePage.target /\ composePage'.to = composePage.to
        /\ composePage'.loading = composePage.loading
        /\ composePage'.scheduled = composePage.scheduled
        /\ composePage'.sourceLoading = composePage.sourceLoading
        /\ composePage'.submitting = composePage.submitting
    BY <1>1, <2>5 DEF Compose!Pages
  <2> QED
    BY <2>1, <2>2, <2>4, <2>5, <2>6, ComposeWriteStarts DEF Compose!Writes
<1>4. ASSUME NEW b \in Batches, Compose!HandleCancelScheduled(b)
      PROVE  ComposeInv'
  <2>1. PICK task : task = Compose!Task("cancel", "asked", b, Null)
    OBVIOUS
  <2>2. /\ ComposeTask(task) /\ task.kind = "cancel" /\ task.phase = "asked"
    BY <2>1
    DEF Compose!Task, ComposeTask, ComposeKinds, ComposePhases, ComposeTargets, ComposeData
  <2>3. UNCHANGED <<batch, chosen, composePage>> /\ Compose!Start(task)
    BY <1>4, <2>1 DEF Compose!HandleCancelScheduled
  <2> QED
    BY <1>1, <2>2, <2>3, ComposeWriteStarts DEF Compose!Writes
<1> QED
  BY <1>2, <1>3, <1>4

(* What reads no batches starts or ends: the list and its tasks are left alone.  *)
LEMMA ListIgnores ==
  ASSUME ComposeInv, NEW k \in Tasks, NEW t, t = Compose!NoTask \/ ComposeTask(t),
         composeTasks' = [composeTasks EXCEPT ![k] = t], batch' = batch,
         composeTasks[k] = Compose!NoTask \/ composeTasks[k].kind \in {"source", "options"},
         t = Compose!NoTask \/ t.kind \in {"source", "options"},
         composePage'.scheduled = composePage.scheduled,
         composeFlags'.overlap = composeFlags.overlap, composeFlags'.stale = composeFlags.stale
  PROVE  ListKept'
<1>1. /\ composeTasks'[k] = t
      /\ \A j \in Tasks \ {k} : composeTasks'[j] = composeTasks[j]
      /\ \A j \in Tasks \ {k} : j \in Compose!Running' <=> j \in Compose!Running
      /\ Compose!Running' \subseteq Tasks /\ Compose!Running \subseteq Tasks
  BY ComposeTypes, ComposeTaskStep DEF Compose!Running
<1>2. k \notin Compose!Listing /\ k \notin Compose!Listing'
  BY <1>1 DEF Compose!Listing, Compose!Writes, Compose!Running, Compose!NoTask
<1>3. Compose!Listing' = Compose!Listing /\ \A j \in Compose!Listing : composeTasks'[j] = composeTasks[j]
  BY <1>1, <1>2 DEF Compose!Listing
<1> QED
  BY <1>3, ListStands DEF ComposeInv

LEMMA ComposeReadStarts ==
  ASSUME ComposeInv, Compose!OpenComposeDialog \/ Compose!HandleAddRecipientsFromSource
  PROVE  ComposeInv'
<1>1. /\ composePage \in Compose!Pages /\ chosen \subseteq Users /\ composeFlags \in ComposeFlags
      /\ composePage.dialog = "reschedule" => composePage.target \in Batches
      /\ Compose!Running \subseteq Tasks
  BY ComposeTypes DEF Compose!Running
<1>2. CASE Compose!OpenComposeDialog
  <2>1. /\ ~composePage.loading /\ chosen' = {} /\ batch' = batch
        /\ composePage' = [composePage EXCEPT !.dialog = "compose", !.to = {},
                                              !.sourceLoading = @ \/ ~composePage.options]
        /\ composeFlags' = [composeFlags EXCEPT !.crossed = Compose!ReadingSource]
    BY <1>2 DEF Compose!OpenComposeDialog, Compose!Free
  <2>2. /\ composePage' \in Compose!Pages /\ ~composePage'.loading
        /\ composePage'.dialog = "compose" /\ composePage'.to = {}
        /\ composePage'.scheduled = composePage.scheduled
        /\ composePage'.submitting = composePage.submitting
        /\ composePage'.rescheduling = composePage.rescheduling
        /\ composePage'.sourceLoading <=> composePage.sourceLoading \/ ~composePage.options
    <3>1. PICK waits \in BOOLEAN : waits <=> composePage.sourceLoading \/ ~composePage.options
      OBVIOUS
    <3>2. composePage' = [composePage EXCEPT !.dialog = "compose", !.to = {},
                                             !.sourceLoading = waits]
      BY <1>1, <2>1, <3>1 DEF Compose!Pages
    <3> QED
      BY <1>1, <2>1, <3>1, <3>2 DEF Compose!Pages
  <2>3. /\ composeFlags' \in ComposeFlags /\ composeFlags'.overlap = composeFlags.overlap
        /\ composeFlags'.stale = composeFlags.stale
        /\ composeFlags'.crossed <=> Compose!ReadingSource
    <3>1. PICK reading \in BOOLEAN : reading <=> Compose!ReadingSource
      OBVIOUS
    <3>2. composeFlags' = [composeFlags EXCEPT !.crossed = reading]
      BY <2>1, <3>1
    <3> QED
      BY <1>1, <3>1, <3>2 DEF ComposeFlags
  <2>4. CASE composePage.options
    <3>1. composeTasks' = composeTasks
      BY <1>2, <2>4 DEF Compose!OpenComposeDialog
    <3>2. SourcesAgree' /\ Compose!RecipientsAsChosen'
      BY <2>1, <2>2, <2>3, <3>1
      DEF SourcesAgree, Compose!RecipientsAsChosen, Compose!ReadingSource, Compose!Running
    <3>3. composePage'.sourceLoading = composePage.sourceLoading
      BY <1>1, <2>2, <2>4 DEF Compose!Pages
    <3> QED
      BY <1>1, <2>1, <2>2, <2>3, <3>1, <3>2, <3>3, ComposeQuiet
  <2>5. CASE ~composePage.options
    <3>1. PICK t : t = Compose!Task("options", "asked", Null, Null)
      OBVIOUS
    <3>2. PICK k \in Tasks :
            composeTasks[k] = Compose!NoTask /\ composeTasks' = [composeTasks EXCEPT ![k] = t]
      BY <1>2, <2>5, <3>1, ComposeTypes, ComposeSlot DEF Compose!OpenComposeDialog
    <3>3. ComposeTask(t) /\ t.kind = "options"
      BY <3>1
      DEF Compose!Task, ComposeTask, ComposeKinds, ComposePhases, ComposeTargets, ComposeData
    <3>4. /\ DOMAIN composeTasks' = Tasks
          /\ \A j \in Tasks : composeTasks'[j] = Compose!NoTask \/ ComposeTask(composeTasks'[j])
          /\ composeTasks'[k] = t /\ k \in Compose!Running' /\ k \notin Compose!Running
          /\ \A j \in Tasks \ {k} : composeTasks'[j] = composeTasks[j]
          /\ \A j \in Tasks \ {k} : j \in Compose!Running' <=> j \in Compose!Running
          /\ Compose!Running' \subseteq Tasks
      BY <3>2, <3>3, ComposeTypes, ComposeTaskStep, ComposeIsTask
      DEF Compose!Running, Compose!NoTask
    <3>5. ComposeTyped'
      BY <2>1, <2>2, <2>3, <3>4, ComposeTypes, ComposeTypedIntro
    <3>6. Compose!NeverStuck'
      <4>1. PICK ended : ended = {}
        OBVIOUS
      <4>2. \E j \in Compose!Running' : composeTasks'[j].kind \in {"source", "options"}
        BY <3>3, <3>4
      <4>3. \A j \in Compose!Running :
              j \in Compose!Running' /\ composeTasks'[j].kind = composeTasks[j].kind
        BY <1>1, <3>4
      <4> QED
        BY <2>2, <4>1, <4>2, <4>3, ComposeTypes, ComposeFlagsStand DEF ComposeInv
    <3>7. SourcesAgree' /\ Compose!RecipientsAsChosen'
      <4>1. Compose!ReadingSource' => Compose!ReadingSource
        BY <3>3, <3>4 DEF Compose!ReadingSource
      <4>2. SourcesAgree'
        BY <2>3, <4>1 DEF SourcesAgree, Compose!ReadingSource
      <4> QED
        BY <2>1, <2>2, <4>2 DEF Compose!RecipientsAsChosen
    <3>8. ListKept'
      BY <2>1, <2>2, <2>3, <3>2, <3>3, ListIgnores
    <3> QED
      BY <3>5, <3>6, <3>7, <3>8 DEF ComposeInv
  <2> QED
    BY <2>4, <2>5
<1>3. CASE Compose!HandleAddRecipientsFromSource
  <2>1. PICK t : t = Compose!Task("source", "asked", Null, composePage.to)
    OBVIOUS
  <2>2. /\ Compose!Composing /\ Compose!Start(t)
        /\ composePage' = [composePage EXCEPT !.sourceLoading = TRUE]
        /\ chosen' = chosen \cup SourceUsers /\ batch' = batch
    BY <1>3, <2>1 DEF Compose!HandleAddRecipientsFromSource, Compose!CanReadSource
  <2>3. PICK k \in Tasks :
          composeTasks[k] = Compose!NoTask /\ composeTasks' = [composeTasks EXCEPT ![k] = t]
    BY <2>2, ComposeTypes, ComposeSlot DEF Compose!Start
  <2>4. ComposeTask(t) /\ t.kind = "source" /\ t.data = composePage.to
    BY <1>1, <2>1
    DEF Compose!Task, ComposeTask, ComposeKinds, ComposePhases, ComposeTargets, ComposeData,
        Compose!Pages
  <2>5. /\ composePage' \in Compose!Pages /\ composePage'.dialog = composePage.dialog
        /\ composePage'.target = composePage.target /\ composePage'.to = composePage.to
        /\ composePage'.loading = composePage.loading
        /\ composePage'.scheduled = composePage.scheduled
        /\ composePage'.submitting = composePage.submitting
        /\ composePage'.rescheduling = composePage.rescheduling
    BY <1>1, <2>2 DEF Compose!Pages
  <2>6. /\ composeFlags' \in ComposeFlags /\ composeFlags'.overlap = composeFlags.overlap
        /\ composeFlags'.stale = composeFlags.stale
        /\ composeFlags'.crossed = composeFlags.crossed
    <3>1. ~(t.kind \in Compose!Writes /\ Compose!Listing # {})
      BY <2>4 DEF Compose!Writes
    <3>2. PICK busy \in BOOLEAN : busy <=> t.kind \in Compose!Writes /\ Compose!Listing # {}
      OBVIOUS
    <3>3. composeFlags' = [composeFlags EXCEPT !.overlap = @ \/ busy]
      BY <2>2, <3>2 DEF Compose!Start
    <3> QED
      BY <1>1, <3>1, <3>2, <3>3 DEF ComposeFlags
  <2>7. /\ DOMAIN composeTasks' = Tasks
        /\ \A j \in Tasks : composeTasks'[j] = Compose!NoTask \/ ComposeTask(composeTasks'[j])
        /\ composeTasks'[k] = t /\ k \in Compose!Running' /\ k \notin Compose!Running
        /\ \A j \in Tasks \ {k} : composeTasks'[j] = composeTasks[j]
        /\ \A j \in Tasks \ {k} : j \in Compose!Running' <=> j \in Compose!Running
        /\ Compose!Running' \subseteq Tasks
    BY <2>3, <2>4, ComposeTypes, ComposeTaskStep, ComposeIsTask
    DEF Compose!Running, Compose!NoTask
  <2>8. ComposeTyped'
    <3>1. chosen' \subseteq Users
      BY <1>1, <2>2, ComposeAssumption
    <3> QED
      BY <2>2, <2>5, <2>6, <2>7, <3>1, ComposeTypes, ComposeTypedIntro
  <2>9. Compose!NeverStuck'
    <3>1. PICK ended : ended = {}
      OBVIOUS
    <3>2. \E j \in Compose!Running' : composeTasks'[j].kind \in {"source", "options"}
      BY <2>4, <2>7
    <3>3. \A j \in Compose!Running :
            j \in Compose!Running' /\ composeTasks'[j].kind = composeTasks[j].kind
      BY <1>1, <2>7
    <3>4. /\ composePage'.loading => composePage.loading /\ "load" \notin ended
          /\ composePage'.submitting => composePage.submitting /\ "create" \notin ended
          /\ composePage'.rescheduling => composePage.rescheduling /\ "reschedule" \notin ended
          /\ \A j \in Compose!Running : composeTasks[j].kind \notin ended =>
               j \in Compose!Running' /\ composeTasks'[j].kind = composeTasks[j].kind
      BY <2>5, <3>1, <3>3
    <3> QED
      BY <3>2, <3>4, ComposeTypes, ComposeFlagsStand DEF ComposeInv
  <2>10. Compose!RecipientsAsChosen'
    <3>1. Compose!ReadingSource'
      BY <2>4, <2>7 DEF Compose!ReadingSource
    <3> QED
      BY <3>1 DEF Compose!RecipientsAsChosen
  <2>11. SourcesAgree'
    <3>1. SUFFICES ASSUME ~composeFlags.crossed,
                          NEW j \in Compose!Running', composeTasks'[j].kind = "source"
                   PROVE  /\ composeTasks'[j].data \cup SourceUsers = chosen'
                          /\ composePage'.to \cup SourceUsers = chosen'
      BY <2>6 DEF SourcesAgree
    <3>2. CASE Compose!ReadingSource
      <4>1. composePage.to \cup SourceUsers = chosen
        BY <2>2, <3>1, <3>2 DEF ComposeInv, SourcesAgree, Compose!ReadingSource
      <4>2. chosen' = chosen
        BY <2>2, <4>1
      <4>3. CASE j = k
        BY <2>4, <2>5, <2>7, <4>1, <4>2, <4>3
      <4>4. CASE j # k
        BY <2>2, <2>5, <2>7, <3>1, <4>1, <4>2, <4>4 DEF ComposeInv, SourcesAgree
      <4> QED
        BY <4>3, <4>4
    <3>3. CASE ~Compose!ReadingSource
      <4>1. composePage.to = chosen
        BY <2>2, <3>1, <3>3 DEF ComposeInv, Compose!RecipientsAsChosen
      <4>2. j = k
        BY <2>7, <3>1, <3>3 DEF Compose!ReadingSource
      <4> QED
        BY <2>2, <2>4, <2>5, <2>7, <4>1, <4>2
    <3> QED
      BY <3>2, <3>3
  <2>12. ListKept'
    BY <2>2, <2>3, <2>4, <2>5, <2>6, ListIgnores
  <2> QED
    BY <2>8, <2>9, <2>10, <2>11, <2>12 DEF ComposeInv
<1> QED
  BY <1>2, <1>3

(* A task ends.                                                                  *)
LEMMA ComposeTaskEnds ==
  ASSUME ComposeInv, NEW k \in Compose!Running,
         composeTasks' = [composeTasks EXCEPT ![k] = Compose!NoTask]
  PROVE  /\ DOMAIN composeTasks' = Tasks
         /\ \A j \in Tasks : composeTasks'[j] = Compose!NoTask \/ ComposeTask(composeTasks'[j])
         /\ \A j \in Tasks \ {k} : composeTasks'[j] = composeTasks[j]
         /\ Compose!Running' = Compose!Running \ {k} /\ Compose!Running \subseteq Tasks
         /\ Compose!Listing' = Compose!Listing \ {k}
<1>1. k \in Tasks /\ Compose!Running \subseteq Tasks
  BY DEF Compose!Running
<1>2. PICK t : t = Compose!NoTask
  OBVIOUS
<1>3. /\ DOMAIN composeTasks' = Tasks
      /\ \A j \in Tasks : composeTasks'[j] = Compose!NoTask \/ ComposeTask(composeTasks'[j])
      /\ \A j \in Tasks \ {k} : composeTasks'[j] = composeTasks[j]
      /\ \A j \in Tasks \ {k} : j \in Compose!Running' <=> j \in Compose!Running
      /\ Compose!Running' \subseteq Tasks /\ k \notin Compose!Running'
  BY <1>1, <1>2, ComposeTypes, ComposeTaskStep
<1>4. Compose!Running' = Compose!Running \ {k}
  BY <1>1, <1>3
<1>5. Compose!Listing' = Compose!Listing \ {k}
  BY <1>1, <1>3, <1>4 DEF Compose!Listing
<1> QED
  BY <1>1, <1>3, <1>4, <1>5

LEMMA ComposeReadEnds ==
  ASSUME ComposeInv, NEW k \in Tasks,
         Compose!OptionsAnswered(k) \/ Compose!SourceAnswered(k)
  PROVE  ComposeInv'
<1>1. /\ k \in Compose!Running /\ composeTasks' = [composeTasks EXCEPT ![k] = Compose!NoTask]
      /\ composeTasks[k].kind \in {"source", "options"}
      /\ UNCHANGED <<batch, chosen>>
  BY DEF Compose!OptionsAnswered, Compose!SourceAnswered
<1>2. /\ composePage \in Compose!Pages /\ chosen \subseteq Users /\ composeFlags \in ComposeFlags
      /\ composePage.dialog = "reschedule" => composePage.target \in Batches
      /\ ComposeTask(composeTasks[k])
  BY <1>1, ComposeTypes, ComposeTaskType
<1>3. /\ DOMAIN composeTasks' = Tasks
      /\ \A j \in Tasks : composeTasks'[j] = Compose!NoTask \/ ComposeTask(composeTasks'[j])
      /\ \A j \in Tasks \ {k} : composeTasks'[j] = composeTasks[j]
      /\ Compose!Running' = Compose!Running \ {k} /\ Compose!Running \subseteq Tasks
  BY <1>1, ComposeTaskEnds
<1>4. /\ composePage' \in Compose!Pages /\ composePage'.dialog = composePage.dialog
      /\ composePage'.target = composePage.target
      /\ composePage'.loading = composePage.loading
      /\ composePage'.scheduled = composePage.scheduled
      /\ composePage'.submitting = composePage.submitting
      /\ composePage'.rescheduling = composePage.rescheduling
      /\ ~composePage'.sourceLoading
      /\ composePage'.to = IF composeTasks[k].kind = "source" /\ composeTasks[k].phase = "asked"
                           THEN composeTasks[k].data \cup SourceUsers ELSE composePage.to
  <2>1. CASE Compose!OptionsAnswered(k)
    <3>1. PICK found \in BOOLEAN : found <=> composeTasks[k].phase = "asked"
      OBVIOUS
    <3>2. /\ composePage' = [composePage EXCEPT !.sourceLoading = FALSE, !.options = found]
          /\ composeTasks[k].kind = "options"
      BY <2>1, <3>1 DEF Compose!OptionsAnswered
    <3> QED
      BY <1>2, <3>1, <3>2 DEF Compose!Pages
  <2>2. CASE Compose!SourceAnswered(k)
    <3>1. /\ composeTasks[k].kind = "source" /\ composeTasks[k].data \subseteq Users
          /\ composeTasks[k].data \cup SourceUsers \subseteq Users
      BY <1>2, <2>2, ComposeAssumption DEF Compose!SourceAnswered, ComposeTask, ComposeData
    <3>2. CASE composeTasks[k].phase = "asked"
      <4>1. composePage' = [composePage EXCEPT !.sourceLoading = FALSE,
                                               !.to = composeTasks[k].data \cup SourceUsers]
        BY <2>2, <3>2 DEF Compose!SourceAnswered
      <4> QED
        BY <1>2, <3>1, <3>2, <4>1 DEF Compose!Pages
    <3>3. CASE composeTasks[k].phase # "asked"
      <4>1. composePage' = [composePage EXCEPT !.sourceLoading = FALSE]
        BY <2>2, <3>3 DEF Compose!SourceAnswered
      <4> QED
        BY <1>2, <3>3, <4>1 DEF Compose!Pages
    <3> QED
      BY <3>2, <3>3
  <2> QED
    BY <2>1, <2>2
<1>5. /\ composeFlags' \in ComposeFlags /\ composeFlags'.overlap = composeFlags.overlap
      /\ composeFlags'.stale = composeFlags.stale
      /\ ~composeFlags'.crossed =>
           /\ ~composeFlags.crossed
           /\ composeTasks[k].kind = "source" => composeTasks[k].phase = "asked"
  <2>1. CASE Compose!OptionsAnswered(k)
    BY <1>2, <2>1 DEF Compose!OptionsAnswered
  <2>2. CASE Compose!SourceAnswered(k)
    <3>1. PICK failed \in BOOLEAN : failed <=> composeTasks[k].phase = "failed"
      OBVIOUS
    <3>2. composeFlags' = [composeFlags EXCEPT !.crossed = @ \/ failed]
      BY <2>2, <3>1 DEF Compose!SourceAnswered
    <3>3. composeTasks[k].phase \in {"asked", "failed"}
      BY <1>2, <2>2 DEF Compose!SourceAnswered, ComposeTask, ComposePhases
    <3> QED
      BY <1>2, <3>1, <3>2, <3>3 DEF ComposeFlags
  <2> QED
    BY <2>1, <2>2
<1>6. ComposeTyped'
  BY <1>1, <1>2, <1>3, <1>4, <1>5, ComposeTypes, ComposeTypedIntro
<1>7. Compose!NeverStuck'
  <2>1. PICK ended : ended = {"source", "options"}
    OBVIOUS
  <2>2. /\ composePage'.loading => composePage.loading /\ "load" \notin ended
        /\ composePage'.submitting => composePage.submitting /\ "create" \notin ended
        /\ composePage'.rescheduling => composePage.rescheduling /\ "reschedule" \notin ended
        /\ composePage'.sourceLoading =>
             composePage.sourceLoading /\ "source" \notin ended /\ "options" \notin ended
        /\ \A j \in Compose!Running : composeTasks[j].kind \notin ended =>
             j \in Compose!Running' /\ composeTasks'[j].kind = composeTasks[j].kind
    BY <1>1, <1>3, <1>4, <2>1
  <2> QED
    BY <2>2, ComposeTypes, ComposeFlagsStand DEF ComposeInv
<1>8. /\ \A j \in Compose!Running' :
           j # k /\ j \in Compose!Running /\ composeTasks'[j] = composeTasks[j]
      /\ Compose!Composing' <=> Compose!Composing
  BY <1>3, <1>4 DEF Compose!Composing
<1>9. SourcesAgree'
  <2>1. SUFFICES ASSUME Compose!Composing, ~composeFlags'.crossed,
                        NEW j \in Compose!Running', composeTasks'[j].kind = "source"
                 PROVE  /\ composeTasks'[j].data \cup SourceUsers = chosen
                        /\ composePage'.to \cup SourceUsers = chosen
    BY <1>1, <1>8 DEF SourcesAgree
  <2>2. /\ composeTasks[j].data \cup SourceUsers = chosen
        /\ composePage.to \cup SourceUsers = chosen
        /\ composeTasks[k].kind = "source" => composeTasks[k].data \cup SourceUsers = chosen
    BY <1>1, <1>5, <1>8, <2>1 DEF ComposeInv, SourcesAgree
  <2> QED
    BY <1>4, <1>8, <2>2
<1>10. Compose!RecipientsAsChosen'
  <2>1. SUFFICES ASSUME Compose!Composing, ~composeFlags'.crossed, ~Compose!ReadingSource'
                 PROVE  composePage'.to = chosen
    BY <1>1, <1>8 DEF Compose!RecipientsAsChosen
  <2>2. CASE composeTasks[k].kind = "source"
    BY <1>1, <1>4, <1>5, <2>1, <2>2 DEF ComposeInv, SourcesAgree
  <2>3. CASE composeTasks[k].kind # "source"
    <3>1. ~Compose!ReadingSource
      BY <1>1, <1>3, <2>1, <2>3 DEF Compose!ReadingSource
    <3> QED
      BY <1>4, <1>5, <2>1, <2>3, <3>1 DEF ComposeInv, Compose!RecipientsAsChosen
  <2> QED
    BY <2>2, <2>3
<1>11. ListKept'
  <2>1. PICK t : t = Compose!NoTask
    OBVIOUS
  <2> QED
    BY <1>1, <1>4, <1>5, <2>1, ListIgnores
<1> QED
  BY <1>6, <1>7, <1>9, <1>10, <1>11 DEF ComposeInv

(* A notification of the stream ends the spinner.                                *)
LEMMA ComposeStreamed ==
  ASSUME ComposeInv, Compose!NotificationStreamed
  PROVE  ComposeInv'
<1>1. /\ composePage \in Compose!Pages /\ composePage.dialog = "none"
      /\ composePage' = [composePage EXCEPT !.loading = FALSE]
      /\ UNCHANGED <<batch, composeTasks, chosen, composeFlags>>
      /\ chosen \subseteq Users /\ composeFlags \in ComposeFlags
  BY ComposeTypes DEF Compose!NotificationStreamed, Compose!Quietly
<1>2. /\ composePage' \in Compose!Pages /\ ~composePage'.loading /\ composePage'.dialog = "none"
      /\ composePage'.scheduled = composePage.scheduled
      /\ composePage'.submitting = composePage.submitting
      /\ composePage'.rescheduling = composePage.rescheduling
      /\ composePage'.sourceLoading = composePage.sourceLoading
  BY <1>1 DEF Compose!Pages
<1>3. SourcesAgree' /\ Compose!RecipientsAsChosen'
  BY <1>2 DEF SourcesAgree, Compose!RecipientsAsChosen, Compose!Composing
<1> QED
  BY <1>1, <1>2, <1>3, ComposeQuiet

LEMMA ComposeReleases ==
  ASSUME NEW k, NEW shows \in Compose!Pages, composePage' = Compose!Released(k, shows)
  PROVE  /\ composePage' \in Compose!Pages /\ composePage'.dialog = shows.dialog
         /\ composePage'.target = shows.target /\ composePage'.to = shows.to
         /\ composePage'.scheduled = shows.scheduled
         /\ composePage'.sourceLoading = shows.sourceLoading
         /\ composePage'.loading => shows.loading /\ composeTasks[k].kind # "load"
         /\ composePage'.submitting => shows.submitting /\ composeTasks[k].kind # "create"
         /\ composePage'.rescheduling => shows.rescheduling /\ composeTasks[k].kind # "reschedule"
<1>1. CASE composeTasks[k].kind = "load"
  BY <1>1 DEF Compose!Released, Compose!Pages
<1>2. CASE composeTasks[k].kind = "create"
  BY <1>2 DEF Compose!Released, Compose!Pages
<1>3. CASE composeTasks[k].kind = "reschedule"
  BY <1>3 DEF Compose!Released, Compose!Pages
<1>4. CASE composeTasks[k].kind \notin {"load", "create", "reschedule"}
  BY <1>4 DEF Compose!Released
<1> QED
  BY <1>1, <1>2, <1>3, <1>4

(* A task that lists the batches ends: the list arrives last, or has been there, or       *)
(* something has failed.                                                                     *)
LEMMA ComposeListEnds ==
  ASSUME ComposeInv, NEW k \in Compose!Listing, NEW shows,
         composeTasks' = [composeTasks EXCEPT ![k] = Compose!NoTask], UNCHANGED <<batch, chosen>>,
         composePage' = Compose!Released(k, shows),
         \/ /\ composeTasks[k].phase = "loaded"
            /\ shows = [composePage EXCEPT !.scheduled = composeTasks[k].list]
            /\ UNCHANGED composeFlags
         \/ composeTasks[k].phase = "listed" /\ shows = composePage /\ UNCHANGED composeFlags
         \/ shows = composePage /\ composeFlags' = [composeFlags EXCEPT !.stale = TRUE]
  PROVE  ComposeInv'
<1>1. k \in Compose!Running /\ k \in Tasks
  BY DEF Compose!Listing, Compose!Running
<1>2. /\ composePage \in Compose!Pages /\ chosen \subseteq Users /\ composeFlags \in ComposeFlags
      /\ composePage.dialog = "reschedule" => composePage.target \in Batches
      /\ composePage.loading => composePage.dialog = "none"
      /\ ComposeTask(composeTasks[k]) /\ composeTasks[k].kind \in ComposeKinds
  BY <1>1, ComposeTypes, ComposeTaskType
<1>3. composeTasks[k].kind \notin {"source", "options"}
  BY DEF Compose!Listing, Compose!Writes
<1>4. /\ DOMAIN composeTasks' = Tasks
      /\ \A j \in Tasks : composeTasks'[j] = Compose!NoTask \/ ComposeTask(composeTasks'[j])
      /\ \A j \in Tasks \ {k} : composeTasks'[j] = composeTasks[j]
      /\ Compose!Running' = Compose!Running \ {k} /\ Compose!Running \subseteq Tasks
      /\ Compose!Listing' = Compose!Listing \ {k}
  BY <1>1, ComposeTaskEnds
<1>5. composeTasks[k].phase = "loaded" => composeTasks[k].list \in Compose!Lists
  BY <1>2 DEF ComposeTask
<1>6. /\ shows \in Compose!Pages
      /\ shows.dialog = composePage.dialog /\ shows.target = composePage.target
      /\ shows.to = composePage.to /\ shows.loading = composePage.loading
      /\ shows.submitting = composePage.submitting
      /\ shows.rescheduling = composePage.rescheduling
      /\ shows.sourceLoading = composePage.sourceLoading
  BY <1>2, <1>5 DEF Compose!Pages
<1>7. /\ composePage' \in Compose!Pages /\ composePage'.dialog = shows.dialog
      /\ composePage'.target = shows.target /\ composePage'.to = shows.to
      /\ composePage'.scheduled = shows.scheduled
      /\ composePage'.sourceLoading = shows.sourceLoading
      /\ composePage'.loading => shows.loading /\ composeTasks[k].kind # "load"
      /\ composePage'.submitting => shows.submitting /\ composeTasks[k].kind # "create"
      /\ composePage'.rescheduling => shows.rescheduling /\ composeTasks[k].kind # "reschedule"
  BY <1>6, ComposeReleases
<1>8. /\ composeFlags' \in ComposeFlags /\ composeFlags'.overlap = composeFlags.overlap
      /\ composeFlags'.crossed = composeFlags.crossed
      /\ composeFlags'.stale \/ composeFlags' = composeFlags
  BY <1>2 DEF ComposeFlags
<1>9. ComposeTyped'
  BY <1>2, <1>4, <1>6, <1>7, <1>8, ComposeTypes, ComposeTypedIntro
<1>10. Compose!NeverStuck'
  <2>1. PICK ended : ended = {composeTasks[k].kind}
    OBVIOUS
  <2>2. /\ composePage'.loading => composePage.loading /\ "load" \notin ended
        /\ composePage'.submitting => composePage.submitting /\ "create" \notin ended
        /\ composePage'.rescheduling => composePage.rescheduling /\ "reschedule" \notin ended
        /\ composePage'.sourceLoading =>
             composePage.sourceLoading /\ "source" \notin ended /\ "options" \notin ended
    BY <1>3, <1>6, <1>7, <2>1
  <2>3. \A j \in Compose!Running : composeTasks[j].kind \notin ended =>
          j \in Compose!Running' /\ composeTasks'[j].kind = composeTasks[j].kind
    BY <1>4, <2>1
  <2> QED
    BY <2>2, <2>3, ComposeTypes, ComposeFlagsStand DEF ComposeInv
<1>11. SourcesAgree' /\ Compose!RecipientsAsChosen'
  <2>1. Compose!Composing' => Compose!Composing
    BY <1>2, <1>6, <1>7 DEF Compose!Composing, Compose!Pages
  <2>2. /\ \A j \in Compose!Running' : j \in Compose!Running /\ composeTasks'[j] = composeTasks[j]
        /\ \A j \in Compose!Running : composeTasks[j].kind = "source" =>
             j \in Compose!Running' /\ composeTasks'[j] = composeTasks[j]
    BY <1>3, <1>4
  <2> QED
    BY <1>6, <1>7, <1>8, <2>1, <2>2, SourcesStand DEF ComposeInv
<1>12. ListKept'
  <2>1. SUFFICES ASSUME ~composeFlags.overlap, ~composeFlags'.stale
                 PROVE  composePage'.scheduled = Compose!Stored
    <3>1. SUFFICES ASSUME ~composeFlags.overlap
                   PROVE  ListKept'
      BY <1>8 DEF ListKept
    <3>2. Compose!Stored' = Compose!Stored
      BY DEF Compose!Stored
    <3>3. \A j \in Compose!Listing : j = k
      BY <3>1 DEF ComposeInv, ListKept
    <3>4. Compose!Listing' = {}
      BY <1>4, <3>3
    <3> QED
      BY <3>1, <3>2, <3>4 DEF ListKept
  <2>2. ~composeFlags.stale /\ (\A j \in Compose!Listing : j = k)
    BY <1>8, <2>1 DEF ComposeInv, ListKept
  <2>3. CASE composeTasks[k].phase = "loaded" /\ shows = [composePage EXCEPT !.scheduled = composeTasks[k].list]
    <3>1. composeTasks[k].list = Compose!Stored
      BY <2>1, <2>2, <2>3 DEF ComposeInv, ListKept
    <3> QED
      BY <1>2, <1>7, <2>3, <3>1 DEF Compose!Pages
  <2>4. CASE composeTasks[k].phase = "listed" /\ shows = composePage
    BY <1>7, <2>1, <2>2, <2>4 DEF ComposeInv, ListKept
  <2>5. composeFlags' # [composeFlags EXCEPT !.stale = TRUE]
    BY <1>2, <2>1 DEF ComposeFlags
  <2> QED
    BY <2>3, <2>4, <2>5
<1> QED
  BY <1>9, <1>10, <1>11, <1>12 DEF ComposeInv

(* A task takes another step.                                                    *)
LEMMA ComposeTaskMoves ==
  ASSUME ComposeInv, NEW k \in Compose!Running, NEW t, ComposeTask(t),
         t.kind = composeTasks[k].kind, t.data = composeTasks[k].data,
         composeTasks' = [composeTasks EXCEPT ![k] = t]
  PROVE  /\ DOMAIN composeTasks' = Tasks
         /\ \A j \in Tasks : composeTasks'[j] = Compose!NoTask \/ ComposeTask(composeTasks'[j])
         /\ composeTasks'[k] = t /\ \A j \in Tasks \ {k} : composeTasks'[j] = composeTasks[j]
         /\ Compose!Running' = Compose!Running /\ Compose!Running \subseteq Tasks
         /\ \A j \in Compose!Running :
              /\ composeTasks'[j].kind = composeTasks[j].kind
              /\ composeTasks'[j].data = composeTasks[j].data
         /\ Compose!Listing' = Compose!Listing
<1>1. k \in Tasks /\ Compose!Running \subseteq Tasks
  BY DEF Compose!Running
<1>2. /\ DOMAIN composeTasks' = Tasks
      /\ \A j \in Tasks : composeTasks'[j] = Compose!NoTask \/ ComposeTask(composeTasks'[j])
      /\ composeTasks'[k] = t /\ k \in Compose!Running'
      /\ \A j \in Tasks \ {k} : composeTasks'[j] = composeTasks[j]
      /\ \A j \in Tasks \ {k} : j \in Compose!Running' <=> j \in Compose!Running
      /\ Compose!Running' \subseteq Tasks
  BY <1>1, ComposeTypes, ComposeTaskStep, ComposeIsTask
<1>3. Compose!Running' = Compose!Running
  BY <1>1, <1>2
<1>4. \A j \in Compose!Running :
        /\ composeTasks'[j].kind = composeTasks[j].kind
        /\ composeTasks'[j].data = composeTasks[j].data
  BY <1>1, <1>2
<1>5. Compose!Listing' = Compose!Listing
  BY <1>3, <1>4 DEF Compose!Listing
<1> QED
  BY <1>1, <1>2, <1>3, <1>4, <1>5

(* One of two calls made together is answered, and the task waits for the other.     *)
LEMMA ComposeListMoves ==
  ASSUME ComposeInv, NEW k \in Compose!Listing, NEW t, ComposeTask(t),
         t.kind = composeTasks[k].kind, t.data = composeTasks[k].data,
         composeTasks' = [composeTasks EXCEPT ![k] = t], UNCHANGED <<batch, chosen, composeFlags>>,
         \/ /\ composePage' = composePage
            /\ t.phase = composeTasks[k].phase /\ t.list = composeTasks[k].list
         \/ /\ composePage' = [composePage EXCEPT !.scheduled = composeTasks[k].list]
            /\ composeTasks[k].phase = "loaded" /\ t.phase = "listed"
  PROVE  ComposeInv'
<1>1. /\ k \in Compose!Running /\ k \in Tasks /\ ComposeTask(composeTasks[k])
  BY ComposeTypes, ComposeTaskType DEF Compose!Listing, Compose!Running
<1>2. /\ DOMAIN composeTasks' = Tasks
      /\ \A j \in Tasks : composeTasks'[j] = Compose!NoTask \/ ComposeTask(composeTasks'[j])
      /\ composeTasks'[k] = t /\ \A j \in Tasks \ {k} : composeTasks'[j] = composeTasks[j]
      /\ Compose!Running' = Compose!Running /\ Compose!Running \subseteq Tasks
      /\ \A j \in Compose!Running :
           /\ composeTasks'[j].kind = composeTasks[j].kind
           /\ composeTasks'[j].data = composeTasks[j].data
      /\ Compose!Listing' = Compose!Listing
  BY <1>1, ComposeTaskMoves
<1>3. composeTasks[k].phase = "loaded" => composeTasks[k].list \in Compose!Lists
  BY <1>1 DEF ComposeTask
<1>4. /\ composePage' \in Compose!Pages /\ composePage'.dialog = composePage.dialog
      /\ composePage'.target = composePage.target /\ composePage'.to = composePage.to
      /\ composePage'.loading = composePage.loading
      /\ composePage'.submitting = composePage.submitting
      /\ composePage'.rescheduling = composePage.rescheduling
      /\ composePage'.sourceLoading = composePage.sourceLoading
  BY <1>3, ComposeTypes DEF Compose!Pages
<1>5. ComposeTyped'
  BY <1>2, <1>4, ComposeTypes, ComposeTypedIntro
<1>6. Compose!NeverStuck'
  BY <1>2, <1>4 DEF ComposeInv, Compose!NeverStuck
<1>7. SourcesAgree' /\ Compose!RecipientsAsChosen'
  <2>1. Compose!Composing' <=> Compose!Composing
    BY <1>4 DEF Compose!Composing
  <2> QED
    BY <1>2, <1>4, <2>1, SourcesStand DEF ComposeInv
<1>8. ListKept'
  <2>1. SUFFICES ASSUME ~composeFlags.overlap
                 PROVE  ListKept'
    BY DEF ListKept
  <2>2. Compose!Stored' = Compose!Stored
    BY DEF Compose!Stored
  <2>3. \A j \in Compose!Listing : j = k
    BY <2>1 DEF ComposeInv, ListKept
  <2>4. CASE composePage' = composePage /\ t.phase = composeTasks[k].phase /\ t.list = composeTasks[k].list
    BY <1>2, <2>1, <2>2, <2>3, <2>4 DEF ComposeInv, ListKept
  <2>5. CASE /\ composePage' = [composePage EXCEPT !.scheduled = composeTasks[k].list]
             /\ composeTasks[k].phase = "loaded" /\ t.phase = "listed"
    <3>1. ~composeFlags.stale => composeTasks[k].list = Compose!Stored
      BY <2>1, <2>5 DEF ComposeInv, ListKept
    <3>2. composePage'.scheduled = composeTasks[k].list
      BY <2>5, ComposeTypes DEF Compose!Pages
    <3> QED
      BY <1>2, <2>1, <2>2, <2>3, <2>5, <3>1, <3>2 DEF ListKept
  <2> QED
    BY <2>4, <2>5
<1> QED
  BY <1>5, <1>6, <1>7, <1>8 DEF ComposeInv

(* The task of a list call ends without it.                                       *)
LEMMA ComposeLeavesBehind ==
  ASSUME ComposeInv, NEW k \in Compose!Listing, NEW t, ComposeTask(t), t.kind = "left",
         composeTasks[k].kind \in {"load", "create"},
         t.phase = composeTasks[k].phase, t.list = composeTasks[k].list,
         composeTasks' = [composeTasks EXCEPT ![k] = t], UNCHANGED <<batch, chosen, composeFlags>>,
         composePage' = Compose!Released(k, composePage)
  PROVE  ComposeInv'
<1>1. k \in Compose!Running /\ k \in Tasks /\ Compose!Running \subseteq Tasks
  BY DEF Compose!Listing, Compose!Running
<1>2. /\ DOMAIN composeTasks' = Tasks
      /\ \A j \in Tasks : composeTasks'[j] = Compose!NoTask \/ ComposeTask(composeTasks'[j])
      /\ composeTasks'[k] = t /\ k \in Compose!Running'
      /\ \A j \in Tasks \ {k} : composeTasks'[j] = composeTasks[j]
      /\ \A j \in Tasks \ {k} : j \in Compose!Running' <=> j \in Compose!Running
      /\ Compose!Running' \subseteq Tasks
  BY <1>1, ComposeTypes, ComposeTaskStep, ComposeIsTask
<1>3. Compose!Running' = Compose!Running
  BY <1>1, <1>2
<1>4. Compose!Listing' = Compose!Listing
  BY <1>1, <1>2, <1>3 DEF Compose!Listing
<1>5. composePage \in Compose!Pages
  BY ComposeTypes
<1>6. /\ composePage' \in Compose!Pages /\ composePage'.dialog = composePage.dialog
      /\ composePage'.target = composePage.target /\ composePage'.to = composePage.to
      /\ composePage'.scheduled = composePage.scheduled
      /\ composePage'.sourceLoading = composePage.sourceLoading
      /\ composePage'.loading => composePage.loading /\ composeTasks[k].kind # "load"
      /\ composePage'.submitting => composePage.submitting /\ composeTasks[k].kind # "create"
      /\ composePage'.rescheduling => composePage.rescheduling
  BY <1>5, ComposeReleases
<1>7. ComposeTyped'
  BY <1>2, <1>6, ComposeTypes, ComposeTypedIntro
<1>8. Compose!NeverStuck'
  <2>1. PICK ended : ended = {composeTasks[k].kind}
    OBVIOUS
  <2>2. /\ composePage'.loading => composePage.loading /\ "load" \notin ended
        /\ composePage'.submitting => composePage.submitting /\ "create" \notin ended
        /\ composePage'.rescheduling => composePage.rescheduling /\ "reschedule" \notin ended
        /\ composePage'.sourceLoading =>
             composePage.sourceLoading /\ "source" \notin ended /\ "options" \notin ended
    BY <1>6, <2>1
  <2>3. \A j \in Compose!Running : composeTasks[j].kind \notin ended =>
          j \in Compose!Running' /\ composeTasks'[j].kind = composeTasks[j].kind
    BY <1>1, <1>2, <2>1
  <2> QED
    BY <2>2, <2>3, ComposeTypes, ComposeFlagsStand DEF ComposeInv
<1>9. SourcesAgree' /\ Compose!RecipientsAsChosen'
  <2>1. Compose!Composing' => Compose!Composing
    BY <1>5, <1>6, ComposeTypes DEF Compose!Composing, Compose!Pages
  <2>2. /\ \A j \in Compose!Running' : composeTasks'[j].kind = "source" =>
             j \in Compose!Running /\ composeTasks'[j] = composeTasks[j]
        /\ \A j \in Compose!Running : composeTasks[j].kind = "source" =>
             j \in Compose!Running' /\ composeTasks'[j] = composeTasks[j]
    BY <1>1, <1>2, <1>3
  <2> QED
    BY <1>6, <2>1, <2>2, SourcesStand DEF ComposeInv
<1>10. ListKept'
  <2>1. SUFFICES ASSUME ~composeFlags.overlap
                 PROVE  ListKept'
    BY DEF ListKept
  <2>2. Compose!Stored' = Compose!Stored
    BY DEF Compose!Stored
  <2>3. \A j \in Compose!Listing : j = k
    BY <2>1 DEF ComposeInv, ListKept
  <2> QED
    BY <1>2, <1>4, <1>6, <2>1, <2>2, <2>3 DEF ComposeInv, ListKept
<1> QED
  BY <1>7, <1>8, <1>9, <1>10 DEF ComposeInv

(* What a task that lists the batches hears.                                     *)
LEMMA ComposeAnswers ==
  ASSUME ComposeInv, NEW k \in Tasks,
         \/ Compose!ListAnswered(k) \/ Compose!TaskFailed(k)
         \/ Compose!NotificationsAnswered(k) \/ Compose!NotificationsFail(k)
  PROVE  ComposeInv'
<1>1. k \in Compose!Running
  BY DEF Compose!ListAnswered, Compose!TaskFailed, Compose!NotificationsAnswered,
         Compose!NotificationsFail, Compose!Listing, Compose!Together
<1>2. PICK old : old = composeTasks[k]
  OBVIOUS
<1>3. /\ ComposeTask(old) /\ old.kind \in ComposeKinds /\ k \in DOMAIN composeTasks
      /\ composePage \in Compose!Pages
  BY <1>1, <1>2, ComposeTypes, ComposeTaskType
<1>4. k \in Compose!Listing
  <2>1. old.phase \in {"loaded", "failed"} \/ old.rest \/ k \in Compose!Listing
    BY <1>2
    DEF Compose!ListAnswered, Compose!TaskFailed, Compose!NotificationsAnswered,
        Compose!NotificationsFail, Compose!Together
  <2>2. Compose!ListAnswered(k) => old.phase = "loaded"
    BY <1>2 DEF Compose!ListAnswered
  <2>3. Compose!TaskFailed(k) => k \in Compose!Listing
    BY DEF Compose!TaskFailed
  <2>4. Compose!NotificationsAnswered(k) \/ Compose!NotificationsFail(k) => old.rest
    BY <1>2 DEF Compose!NotificationsAnswered, Compose!NotificationsFail, Compose!Together
  <2>5. old.phase = "loaded" \/ old.rest => old.kind \in Compose!Writes \cup {"load", "left"}
    BY <1>3 DEF ComposeTask, ComposePhases, ComposeKinds, Compose!Writes
  <2> QED
    BY <1>1, <1>2, <2>2, <2>3, <2>4, <2>5 DEF Compose!Listing
<1>5. CASE Compose!TaskFailed(k)
  <2>1. PICK shows : shows = composePage
    OBVIOUS
  <2>2. /\ composeTasks' = [composeTasks EXCEPT ![k] = Compose!NoTask]
        /\ UNCHANGED <<batch, chosen>> /\ composePage' = Compose!Released(k, shows)
        /\ composeFlags' = [composeFlags EXCEPT !.stale = TRUE]
    BY <1>5, <2>1 DEF Compose!TaskFailed
  <2> QED
    BY <1>4, <2>1, <2>2, ComposeListEnds
<1>6. CASE Compose!ListAnswered(k) /\ ~old.rest
  <2>1. PICK shows : shows = [composePage EXCEPT !.scheduled = composeTasks[k].list]
    OBVIOUS
  <2>2. /\ composeTasks' = [composeTasks EXCEPT ![k] = Compose!NoTask]
        /\ UNCHANGED <<batch, chosen>> /\ composePage' = Compose!Released(k, shows)
        /\ UNCHANGED composeFlags /\ composeTasks[k].phase = "loaded"
    BY <1>2, <1>6, <2>1 DEF Compose!ListAnswered
  <2> QED
    BY <1>4, <2>1, <2>2, ComposeListEnds
<1>7. CASE /\ Compose!NotificationsAnswered(k) \/ Compose!NotificationsFail(k)
           /\ old.phase = "listed"
  <2>1. PICK shows : shows = composePage
    OBVIOUS
  <2>2. /\ composeTasks' = [composeTasks EXCEPT ![k] = Compose!NoTask]
        /\ UNCHANGED <<batch, chosen>> /\ composePage' = Compose!Released(k, shows)
        /\ UNCHANGED composeFlags /\ composeTasks[k].phase = "listed"
    BY <1>2, <1>7, <2>1 DEF Compose!NotificationsAnswered, Compose!NotificationsFail
  <2> QED
    BY <1>4, <2>1, <2>2, ComposeListEnds
<1>8. CASE Compose!ListAnswered(k) /\ old.rest
  <2>1. PICK t : t = [old EXCEPT !.phase = "listed"]
    OBVIOUS
  <2>2. /\ composeTasks' = [composeTasks EXCEPT ![k] = t] /\ UNCHANGED <<batch, chosen, composeFlags>>
        /\ composePage' = [composePage EXCEPT !.scheduled = composeTasks[k].list]
        /\ old.phase = "loaded"
    BY <1>2, <1>3, <1>8, <2>1 DEF Compose!ListAnswered
  <2>3. "listed" \in ComposePhases(old.kind)
    BY <1>3, <1>8, <2>2 DEF ComposeTask, ComposePhases
  <2>4. ComposeTask(t) /\ t.kind = old.kind /\ t.data = old.data /\ t.phase = "listed"
    BY <1>3, <1>8, <2>1, <2>3 DEF ComposeTask
  <2> QED
    BY <1>2, <1>4, <2>2, <2>4, ComposeListMoves
<1>9. CASE Compose!NotificationsAnswered(k) /\ old.phase # "listed"
  <2>1. PICK t : t = [old EXCEPT !.rest = FALSE]
    OBVIOUS
  <2>2. /\ composeTasks' = [composeTasks EXCEPT ![k] = t] /\ composePage' = composePage
        /\ UNCHANGED <<batch, chosen, composeFlags>>
    BY <1>2, <1>3, <1>9, <2>1 DEF Compose!NotificationsAnswered
  <2>3. /\ ComposeTask(t) /\ t.kind = old.kind /\ t.data = old.data /\ t.phase = old.phase
        /\ t.list = old.list
    BY <1>3, <1>9, <2>1 DEF ComposeTask
  <2> QED
    BY <1>2, <1>4, <2>2, <2>3, ComposeListMoves
<1>10. CASE Compose!NotificationsFail(k) /\ old.phase # "listed"
  <2>1. PICK t : t = [old EXCEPT !.kind = "left", !.rest = FALSE]
    OBVIOUS
  <2>2. /\ composeTasks' = [composeTasks EXCEPT ![k] = t] /\ old.rest
        /\ composePage' = Compose!Released(k, composePage)
        /\ UNCHANGED <<batch, chosen, composeFlags>>
    BY <1>2, <1>3, <1>10, <2>1 DEF Compose!NotificationsFail, Compose!Together
  <2>3. /\ old.kind \in {"load", "create"} /\ old.phase \in ComposePhases("left")
        /\ old.target \in ComposeTargets("left") /\ old.data \in ComposeData("left")
    BY <1>3, <1>10, <2>2
    DEF ComposeTask, ComposePhases, ComposeTargets, ComposeData
  <2>4. /\ t.kind = "left" /\ t.phase = old.phase /\ t.target = old.target /\ t.data = old.data
        /\ t.list = old.list /\ ~t.rest
        /\ t \in [kind : ComposeKinds, phase : ComposePhases("left"),
                   target : ComposeTargets("left"), data : ComposeData("left"),
                   list : Compose!Lists \cup {Null}, rest : BOOLEAN]
    BY <1>3, <2>1, <2>3 DEF ComposeTask, ComposeKinds
  <2>5. ComposeTask(t)
    BY <1>3, <1>10, <2>4 DEF ComposeTask
  <2> QED
    BY <1>2, <1>4, <2>2, <2>3, <2>4, <2>5, ComposeLeavesBehind
<1> QED
  BY <1>5, <1>6, <1>7, <1>8, <1>9, <1>10

(* The services work while the page rests.                                       *)
LEMMA ComposeServes ==
  ASSUME ComposeInv, NEW k \in Tasks,
         Compose!ServeWrite(k) \/ Compose!ServeList(k) \/ Compose!CallFails(k)
  PROVE  ComposeInv'
<1>1. /\ k \in Compose!Running /\ UNCHANGED <<composePage, chosen>>
      /\ ComposeTask(composeTasks[k]) /\ composeTasks[k].kind \in ComposeKinds
  BY ComposeTypes, ComposeTaskType
  DEF Compose!ServeWrite, Compose!ServeList, Compose!CallFails
<1>2. PICK phase, list :
        /\ phase \in ComposePhases(composeTasks[k].kind)
        /\ list \in Compose!Lists \cup {Null} /\ (phase = "loaded" => list \in Compose!Lists)
        /\ phase \in {"failed", "done", "loaded"} /\ (phase = "done" => ~composeTasks[k].rest)
        /\ composeTasks' = [composeTasks EXCEPT ![k] =
             [composeTasks[k] EXCEPT !.phase = phase, !.list = list]]
        /\ Compose!ServeWrite(k) => phase \in {"failed", "done"}
        /\ Compose!CallFails(k) => phase = "failed"
        /\ Compose!ServeList(k) => phase = "loaded" /\ list = Compose!Stored
  <2>1. PICK old : old = composeTasks[k]
    OBVIOUS
  <2>2. /\ k \in DOMAIN composeTasks
        /\ old \in [kind : ComposeKinds, phase : ComposePhases(old.kind),
                    target : ComposeTargets(old.kind), data : ComposeData(old.kind),
                    list : Compose!Lists \cup {Null}, rest : BOOLEAN]
        /\ old.rest => old.phase # "asked"
    BY <1>1, <2>1, ComposeTypes DEF ComposeTask
  <2>3. CASE Compose!ServeWrite(k)
    <3>1. PICK phase \in {"failed", "done"} :
            composeTasks' = [composeTasks EXCEPT ![k].phase = phase]
      BY <2>3 DEF Compose!ServeWrite
    <3>2. composeTasks' = [composeTasks EXCEPT ![k] =
             [composeTasks[k] EXCEPT !.phase = phase, !.list = old.list]]
      BY <2>1, <2>2, <3>1
    <3>3. phase \in ComposePhases(old.kind) /\ ~Compose!ServeList(k) /\ ~old.rest
      BY <2>1, <2>2, <2>3, <3>1 DEF ComposePhases, Compose!ServeWrite, Compose!ServeList, Compose!Writes
    <3>4. Compose!CallFails(k) => phase = "failed"
      BY <2>1, <2>2, <3>1, <3>2 DEF Compose!CallFails
    <3>5. /\ phase \in {"failed", "done", "loaded"} /\ phase # "loaded"
          /\ phase = "done" => ~composeTasks[k].rest
      BY <2>1, <3>1, <3>3
    <3>6. PICK list : list = old.list
      OBVIOUS
    <3>7. /\ phase \in ComposePhases(composeTasks[k].kind) /\ list \in Compose!Lists \cup {Null}
          /\ phase = "loaded" => list \in Compose!Lists
          /\ composeTasks' = [composeTasks EXCEPT ![k] =
               [composeTasks[k] EXCEPT !.phase = phase, !.list = list]]
          /\ Compose!ServeWrite(k) => phase \in {"failed", "done"}
          /\ Compose!ServeList(k) => phase = "loaded" /\ list = Compose!Stored
      BY <2>1, <2>2, <3>1, <3>2, <3>3, <3>5, <3>6
    <3> QED
      BY <3>4, <3>5, <3>7, Zenon
  <2>4. CASE Compose!ServeList(k)
    <3>1. composeTasks' = [composeTasks EXCEPT ![k] =
             [composeTasks[k] EXCEPT !.phase = "loaded", !.list = Compose!Stored]]
      BY <2>1, <2>2, <2>4 DEF Compose!ServeList
    <3>2. Compose!Stored \in Compose!Lists
      BY ComposeTypes DEF Compose!Stored, Compose!Lists
    <3>3. old.phase = "reload" /\ "loaded" \in ComposePhases(old.kind)
      BY <2>1, <2>2, <2>4 DEF ComposePhases, Compose!ServeList
    <3>4. ~Compose!ServeWrite(k) /\ ~Compose!CallFails(k)
      BY <2>1, <2>2, <2>4, <3>1 DEF Compose!ServeWrite, Compose!CallFails, Compose!ServeList
    <3>5. PICK phase, list : phase = "loaded" /\ list = Compose!Stored
      OBVIOUS
    <3>6. /\ phase \in {"failed", "done", "loaded"} /\ phase # "done"
          /\ phase \in ComposePhases(composeTasks[k].kind)
          /\ list \in Compose!Lists \cup {Null} /\ (phase = "loaded" => list \in Compose!Lists)
          /\ phase = "done" => ~composeTasks[k].rest
          /\ Compose!ServeWrite(k) => phase \in {"failed", "done"}
          /\ Compose!CallFails(k) => phase = "failed"
          /\ Compose!ServeList(k) => phase = "loaded" /\ list = Compose!Stored
          /\ composeTasks' = [composeTasks EXCEPT ![k] =
               [composeTasks[k] EXCEPT !.phase = phase, !.list = list]]
      BY <2>1, <3>1, <3>2, <3>3, <3>4, <3>5
    <3> QED
      BY <3>6, Zenon
  <2>5. CASE Compose!CallFails(k)
    <3>1. PICK phase, list : phase = "failed" /\ list = old.list
      OBVIOUS
    <3>2. composeTasks' = [composeTasks EXCEPT ![k] =
             [composeTasks[k] EXCEPT !.phase = phase, !.list = list]]
      BY <2>1, <2>2, <2>5, <3>1 DEF Compose!CallFails
    <3>3. /\ phase \in ComposePhases(old.kind) /\ phase = "failed"
          /\ list \in Compose!Lists \cup {Null}
      BY <2>2, <3>1 DEF ComposePhases
    <3>4. ~Compose!ServeList(k) /\ (Compose!ServeWrite(k) => phase \in {"failed", "done"})
      <4>1. composeTasks'[k].phase = "failed"
        BY <2>1, <2>2, <3>1, <3>2
      <4>2. Compose!ServeList(k) => composeTasks'[k].phase = "loaded"
        BY <2>1, <2>2 DEF Compose!ServeList
      <4> QED
        BY <3>1, <4>1, <4>2
    <3>5. phase \in ComposePhases(composeTasks[k].kind) /\ (Compose!CallFails(k) => phase = "failed")
      BY <2>1, <3>1, <3>3
    <3>6. /\ phase \in {"failed", "done", "loaded"} /\ (phase = "done" => ~composeTasks[k].rest)
          /\ list \in Compose!Lists \cup {Null} /\ (phase = "loaded" => list \in Compose!Lists)
          /\ Compose!ServeWrite(k) => phase \in {"failed", "done"}
          /\ Compose!ServeList(k) => phase = "loaded" /\ list = Compose!Stored
      BY <3>1, <3>3, <3>4
    <3> QED
      BY <3>2, <3>5, <3>6, Zenon
  <2> QED
    BY <2>3, <2>4, <2>5, Zenon
<1>3. PICK t : t = [composeTasks[k] EXCEPT !.phase = phase, !.list = list]
  OBVIOUS
<1>4. /\ ComposeTask(t) /\ t.phase = phase /\ t.list = list
      /\ t.kind = composeTasks[k].kind /\ t.data = composeTasks[k].data
      /\ composeTasks' = [composeTasks EXCEPT ![k] = t]
  BY <1>1, <1>2, <1>3 DEF ComposeTask
<1>5. /\ DOMAIN composeTasks' = Tasks
      /\ \A j \in Tasks : composeTasks'[j] = Compose!NoTask \/ ComposeTask(composeTasks'[j])
      /\ composeTasks'[k] = t /\ \A j \in Tasks \ {k} : composeTasks'[j] = composeTasks[j]
      /\ Compose!Running' = Compose!Running /\ Compose!Running \subseteq Tasks
      /\ \A j \in Compose!Running :
           /\ composeTasks'[j].kind = composeTasks[j].kind
           /\ composeTasks'[j].data = composeTasks[j].data
      /\ Compose!Listing' = Compose!Listing
  BY <1>1, <1>4, ComposeTaskMoves
<1>6. /\ composeFlags' \in ComposeFlags /\ composeFlags'.crossed = composeFlags.crossed
      /\ composeFlags'.overlap = composeFlags.overlap
      /\ Compose!ServeWrite(k) \/ Compose!CallFails(k) => composeFlags' = composeFlags
      /\ Compose!ServeList(k) \/ composeFlags' = composeFlags
  <2>1. composeFlags \in ComposeFlags
    BY ComposeTypes
  <2>2. CASE Compose!ServeList(k)
    <3>1. composeFlags' = [composeFlags EXCEPT !.stale = FALSE]
      BY <2>2 DEF Compose!ServeList
    <3> QED
      BY <2>1, <2>2, <3>1 DEF ComposeFlags, Compose!ServeWrite, Compose!CallFails
  <2>3. CASE ~Compose!ServeList(k)
    BY <2>1, <2>3 DEF Compose!ServeWrite, Compose!CallFails
  <2> QED
    BY <2>2, <2>3
<1>7. /\ batch' \in [Batches -> Compose!Stages]
      /\ \A b \in Batches : batch'[b].stage = "pending" => batch'[b].at \in Times
      /\ ~Compose!ServeWrite(k) => batch' = batch
  <2>1. CASE ~Compose!ServeWrite(k)
    BY <2>1, ComposeTypes DEF Compose!ServeList, Compose!CallFails
  <2>2. CASE Compose!ServeWrite(k)
    <3>1. PICK task : task = composeTasks[k] /\ task.kind \in Compose!Writes /\ ComposeTask(task)
      BY <1>1, <2>2 DEF Compose!ServeWrite
    <3>2. batch' = batch \/ batch' \in Compose!Written(task)
      BY <2>2, <3>1 DEF Compose!ServeWrite
    <3>3. /\ batch \in [Batches -> Compose!Stages]
          /\ \A b \in Batches : batch[b].stage = "pending" => batch[b].at \in Times
      BY ComposeTypes
    <3>4. ASSUME task.kind = "create", batch' \in Compose!Written(task)
          PROVE  /\ batch' \in [Batches -> Compose!Stages]
                 /\ \A b \in Batches : batch'[b].stage = "pending" => batch'[b].at \in Times
      <4>1. task.data \in Compose!Triggers
        BY <3>1, <3>4 DEF ComposeTask, ComposeData
      <4>2. PICK n : n = CHOOSE b \in Compose!Unused : TRUE
        OBVIOUS
      <4>3. PICK row : row = [stage |-> IF task.data = Compose!Now THEN "sent" ELSE "pending",
                              at |-> task.data]
        OBVIOUS
      <4>4. n \in Batches /\ batch' = [batch EXCEPT ![n] = row]
        BY <3>4, <4>2, <4>3 DEF Compose!Written, Compose!Unused
      <4>5. row \in Compose!Stages /\ (row.stage = "pending" => row.at \in Times)
        BY <4>1, <4>3 DEF Compose!Stages, Compose!Triggers
      <4> QED
        BY <3>3, <4>4, <4>5
    <3>5. ASSUME task.kind = "cancel", batch' \in Compose!Written(task)
          PROVE  /\ batch' \in [Batches -> Compose!Stages]
                 /\ \A b \in Batches : batch'[b].stage = "pending" => batch'[b].at \in Times
      <4>1. task.target \in Batches
        BY <3>1, <3>5 DEF ComposeTask, ComposeTargets
      <4>2. PICK row : row = [batch[task.target] EXCEPT !.stage = "cancelled"]
        OBVIOUS
      <4>3. batch' = [batch EXCEPT ![task.target] = row]
        BY <3>5, <4>2 DEF Compose!Written
      <4>4. row \in Compose!Stages /\ row.stage = "cancelled"
        BY <3>3, <4>1, <4>2 DEF Compose!Stages
      <4> QED
        BY <3>3, <4>1, <4>3, <4>4
    <3>6. ASSUME task.kind = "reschedule", batch' \in Compose!Written(task)
          PROVE  /\ batch' \in [Batches -> Compose!Stages]
                 /\ \A b \in Batches : batch'[b].stage = "pending" => batch'[b].at \in Times
      <4>1. task.target \in Batches /\ task.data \in Times
        BY <3>1, <3>6 DEF ComposeTask, ComposeTargets, ComposeData
      <4>2. PICK row : row = [batch[task.target] EXCEPT !.at = task.data]
        OBVIOUS
      <4>3. batch' = [batch EXCEPT ![task.target] = row]
        BY <3>6, <4>2 DEF Compose!Written
      <4>4. row \in Compose!Stages /\ row.at \in Times
        BY <3>3, <4>1, <4>2 DEF Compose!Stages, Compose!Triggers
      <4> QED
        BY <3>3, <4>1, <4>3, <4>4
    <3> QED
      BY <2>2, <3>1, <3>2, <3>3, <3>4, <3>5, <3>6 DEF Compose!Writes
  <2> QED
    BY <2>1, <2>2
<1>8. ComposeTyped'
  BY <1>1, <1>5, <1>6, <1>7, ComposeTypes, ComposeTypedIntro
<1>9. Compose!NeverStuck'
  BY <1>1, <1>5 DEF ComposeInv, Compose!NeverStuck
<1>10. SourcesAgree' /\ Compose!RecipientsAsChosen'
  <2>1. Compose!Composing' <=> Compose!Composing
    BY <1>1 DEF Compose!Composing
  <2> QED
    BY <1>1, <1>5, <1>6, <2>1, SourcesStand DEF ComposeInv
<1>11. ListKept'
  <2>1. CASE k \notin Compose!Listing
    <3>1. composeTasks[k].kind \in {"source", "options"}
      BY <1>1, <2>1 DEF Compose!Listing, Compose!Writes, ComposeKinds
    <3>2. Compose!CallFails(k) /\ ~Compose!ServeList(k) /\ ~Compose!ServeWrite(k)
      BY <1>1, <3>1
      DEF Compose!ServeWrite, Compose!ServeList, Compose!Writes, ComposeTask, ComposePhases
    <3> QED
      BY <1>1, <1>4, <1>6, <1>7, <3>1, <3>2, ListIgnores
  <2>2. CASE k \in Compose!Listing
    <3>1. SUFFICES ASSUME ~composeFlags.overlap
                   PROVE  ListKept'
      BY <1>6 DEF ListKept
    <3>2. \A j \in Compose!Listing : j = k
      BY <2>2, <3>1 DEF ComposeInv, ListKept
    <3>3. CASE Compose!ServeList(k)
      <4>1. Compose!Stored' = Compose!Stored /\ t.phase = "loaded" /\ t.list = Compose!Stored
        BY <1>2, <1>4, <1>7, <3>3
        DEF Compose!Stored, Compose!ServeList
      <4> QED
        BY <1>5, <2>2, <3>2, <4>1 DEF ListKept
    <3>4. CASE ~Compose!ServeList(k)
      <4>1. t.phase \in {"failed", "done"}
        BY <1>1, <1>2, <1>4, <3>4
        DEF Compose!ServeWrite, Compose!CallFails
      <4> QED
        BY <1>5, <2>2, <3>2, <4>1 DEF ListKept
    <3> QED
      BY <3>3, <3>4
  <2> QED
    BY <2>1, <2>2
<1> QED
  BY <1>8, <1>9, <1>10, <1>11 DEF ComposeInv

(* A write is answered: its dialog closes, and the list is asked for.            *)
LEMMA ComposeWriteAnswered ==
  ASSUME ComposeInv, NEW k \in Tasks, Compose!WriteAnswered(k)
  PROVE  ComposeInv'
<1>1. /\ k \in Compose!Running /\ batch' = batch /\ composeTasks[k].kind \in Compose!Writes
      /\ k \in Compose!Listing
      /\ chosen' = IF composeTasks[k].kind = "create" THEN {} ELSE chosen
      /\ ComposeTask(composeTasks[k])
  BY ComposeTypes, ComposeTaskType DEF Compose!WriteAnswered, Compose!Listing
<1>2. /\ composePage \in Compose!Pages /\ chosen \subseteq Users /\ composeFlags \in ComposeFlags
      /\ composePage.dialog = "reschedule" => composePage.target \in Batches
      /\ composePage.loading => composePage.dialog = "none"
  BY ComposeTypes
<1>13. PICK both \in BOOLEAN : both <=> composeTasks[k].kind = "create"
  OBVIOUS
<1>3. PICK t : t = [composeTasks[k] EXCEPT !.phase = "reload", !.rest = both]
  OBVIOUS
<1>4. /\ ComposeTask(t) /\ t.phase = "reload"
      /\ t.kind = composeTasks[k].kind /\ t.data = composeTasks[k].data
      /\ composeTasks' = [composeTasks EXCEPT ![k] = t]
  <2>1. "reload" \in ComposePhases(composeTasks[k].kind)
    BY <1>1 DEF ComposePhases, Compose!Writes
  <2>2. composeTasks' = [composeTasks EXCEPT ![k].phase = "reload", ![k].rest = both]
    BY <1>13 DEF Compose!WriteAnswered
  <2>3. k \in DOMAIN composeTasks
    BY ComposeTypes
  <2> QED
    BY <1>1, <1>3, <1>13, <2>1, <2>2, <2>3 DEF ComposeTask
<1>5. /\ DOMAIN composeTasks' = Tasks
      /\ \A j \in Tasks : composeTasks'[j] = Compose!NoTask \/ ComposeTask(composeTasks'[j])
      /\ composeTasks'[k] = t /\ \A j \in Tasks \ {k} : composeTasks'[j] = composeTasks[j]
      /\ Compose!Running' = Compose!Running /\ Compose!Running \subseteq Tasks
      /\ \A j \in Compose!Running :
           /\ composeTasks'[j].kind = composeTasks[j].kind
           /\ composeTasks'[j].data = composeTasks[j].data
      /\ Compose!Listing' = Compose!Listing
  BY <1>1, <1>4, ComposeTaskMoves
<1>6. /\ composeFlags' \in ComposeFlags /\ composeFlags'.overlap = composeFlags.overlap
      /\ composeFlags'.stale = composeFlags.stale
      /\ ~composeFlags'.crossed => ~composeFlags.crossed
  <2>1. PICK loses \in BOOLEAN :
          loses <=> composeTasks[k].kind = "create" /\ Compose!ReadingSource
    OBVIOUS
  <2>2. composeFlags' = [composeFlags EXCEPT !.crossed = @ \/ loses]
    BY <2>1 DEF Compose!WriteAnswered
  <2> QED
    BY <1>2, <2>1, <2>2 DEF ComposeFlags
<1>7. PICK closed \in {"none", "compose", "reschedule"} :
        /\ closed = composePage.dialog \/ closed = "none"
        /\ composeTasks[k].kind = "create" =>
             /\ composePage' = [composePage EXCEPT !.dialog = closed, !.to = {}]
             /\ closed # "compose"
        /\ composeTasks[k].kind = "reschedule" =>
             /\ composePage' = [composePage EXCEPT !.dialog = closed, !.target = Null]
             /\ closed # "reschedule"
        /\ composeTasks[k].kind = "cancel" =>
             composePage' = composePage /\ closed = composePage.dialog
  <2>1. composePage.dialog \in {"none", "compose", "reschedule"}
    BY <1>2 DEF Compose!Pages
  <2>2. PICK closed : closed = CASE composeTasks[k].kind = "create" ->
                                      IF composePage.dialog = "compose" THEN "none" ELSE composePage.dialog
                                 [] composeTasks[k].kind = "reschedule" ->
                                      IF composePage.dialog = "reschedule" THEN "none" ELSE composePage.dialog
                                 [] OTHER -> composePage.dialog
    OBVIOUS
  <2>3. CASE composeTasks[k].kind = "create"
    BY <2>1, <2>2, <2>3 DEF Compose!WriteAnswered
  <2>4. CASE composeTasks[k].kind = "reschedule"
    BY <2>1, <2>2, <2>4 DEF Compose!WriteAnswered
  <2>5. CASE composeTasks[k].kind = "cancel"
    BY <2>1, <2>2, <2>5 DEF Compose!WriteAnswered
  <2> QED
    BY <1>1, <2>3, <2>4, <2>5 DEF Compose!Writes
<1>8. /\ composePage' \in Compose!Pages /\ composePage'.dialog = closed
      /\ closed = "reschedule" => composePage'.target = composePage.target
      /\ closed = "compose" => composePage'.to = composePage.to /\ composeTasks[k].kind # "create"
      /\ composePage'.loading = composePage.loading
      /\ composePage'.scheduled = composePage.scheduled
      /\ composePage'.submitting = composePage.submitting
      /\ composePage'.rescheduling = composePage.rescheduling
      /\ composePage'.sourceLoading = composePage.sourceLoading
  <2>1. CASE composeTasks[k].kind = "create"
    BY <1>2, <1>7, <2>1 DEF Compose!Pages
  <2>2. CASE composeTasks[k].kind = "reschedule"
    BY <1>2, <1>7, <2>2 DEF Compose!Pages
  <2>3. CASE composeTasks[k].kind = "cancel"
    BY <1>2, <1>7, <2>3
  <2> QED
    BY <1>1, <2>1, <2>2, <2>3 DEF Compose!Writes
<1>9. ComposeTyped'
  BY <1>1, <1>2, <1>5, <1>6, <1>7, <1>8, ComposeTypes, ComposeTypedIntro
<1>10. Compose!NeverStuck'
  BY <1>5, <1>8 DEF ComposeInv, Compose!NeverStuck
<1>11. SourcesAgree' /\ Compose!RecipientsAsChosen'
  <2>1. Compose!Composing' =>
          Compose!Composing /\ composePage'.to = composePage.to /\ chosen' = chosen
    BY <1>1, <1>7, <1>8 DEF Compose!Composing
  <2> QED
    BY <1>5, <1>6, <2>1, SourcesStand DEF ComposeInv
<1>12. ListKept'
  <2>1. SUFFICES ASSUME ~composeFlags.overlap
                 PROVE  ListKept'
    BY <1>6 DEF ListKept
  <2>2. \A j \in Compose!Listing : j = k
    BY <1>1, <2>1 DEF ComposeInv, ListKept
  <2> QED
    BY <1>1, <1>4, <1>5, <2>2 DEF ListKept
<1> QED
  BY <1>9, <1>10, <1>11, <1>12 DEF ComposeInv

(* The trigger time of a batch comes, unseen by the page.                        *)
LEMMA ComposeDeliver ==
  ASSUME ComposeInv, NEW b \in Batches, Compose!Deliver(b)
  PROVE  ComposeInv'
<1>1. /\ UNCHANGED <<composePage, chosen, composeTasks>>
      /\ batch[b].stage = "pending" /\ batch' = [batch EXCEPT ![b].stage = "sent"]
      /\ composeFlags' = [composeFlags EXCEPT !.stale = TRUE]
  BY DEF Compose!Deliver
<1>2. /\ composeFlags' \in ComposeFlags /\ composeFlags'.stale
      /\ composeFlags'.overlap = composeFlags.overlap
      /\ composeFlags'.crossed = composeFlags.crossed
  BY <1>1, ComposeTypes DEF ComposeFlags
<1>3. /\ batch' \in [Batches -> Compose!Stages]
      /\ \A c \in Batches : batch'[c].stage = "pending" => batch'[c].at \in Times
  <2>1. PICK row : row = [batch[b] EXCEPT !.stage = "sent"]
    OBVIOUS
  <2>2. batch' = [batch EXCEPT ![b] = row]
    BY <1>1, <2>1
  <2>3. row \in Compose!Stages /\ row.stage = "sent"
    BY <2>1, ComposeTypes DEF Compose!Stages
  <2> QED
    BY <2>2, <2>3, ComposeTypes
<1>4. Compose!Running' = Compose!Running /\ Compose!Listing' = Compose!Listing
  BY <1>1 DEF Compose!Running, Compose!Listing
<1>5. ComposeTyped'
  BY <1>1, <1>2, <1>3, ComposeTypes, ComposeTypedIntro
<1>6. Compose!NeverStuck'
  BY <1>1, <1>4 DEF ComposeInv, Compose!NeverStuck
<1>7. SourcesAgree' /\ Compose!RecipientsAsChosen'
  <2>1. Compose!Composing' <=> Compose!Composing
    BY <1>1 DEF Compose!Composing
  <2> QED
    BY <1>1, <1>2, <1>4, <2>1, SourcesStand DEF ComposeInv
<1>8. ListKept'
  BY <1>1, <1>2, <1>4 DEF ComposeInv, ListKept
<1> QED
  BY <1>5, <1>6, <1>7, <1>8 DEF ComposeInv

LEMMA ComposeInit == Compose!Init => ComposeInv
<1> SUFFICES ASSUME Compose!Init
             PROVE  ComposeInv
  OBVIOUS
<1>1. PICK at, k, t : /\ at = CHOOSE x \in Times : TRUE
                      /\ k = CHOOSE j \in Tasks : TRUE
                      /\ t = Compose!Task("load", "reload", Null, Null)
  OBVIOUS
<1>2. at \in Times /\ k \in Tasks
  BY <1>1, ComposeAssumption
<1>3. /\ ComposeTask(t) /\ t.kind = "load" /\ t.phase = "reload"
      /\ composeTasks = [j \in Tasks |-> IF j = k THEN t ELSE Compose!NoTask]
  BY <1>1
  DEF Compose!Init, Compose!Task, ComposeTask, ComposeKinds, ComposePhases, ComposeTargets,
      ComposeData
<1>4. /\ batch \in [Batches -> Compose!Stages]
      /\ \A b \in Batches : batch[b].stage = "pending" => batch[b].at \in Times
  <2>1. PICK first : first = CHOOSE n \in Batches : TRUE
    OBVIOUS
  <2>2. batch = [b \in Batches |-> IF b = first THEN [stage |-> "pending", at |-> at]
                                   ELSE [stage |-> "new", at |-> Compose!Now]]
    BY <1>1, <2>1 DEF Compose!Init
  <2> QED
    BY <1>2, <2>2 DEF Compose!Stages, Compose!Triggers
<1>5. /\ composePage \in Compose!Pages /\ composePage.dialog = "none" /\ composePage.loading
      /\ ~composePage.submitting /\ ~composePage.rescheduling /\ ~composePage.sourceLoading
      /\ chosen = {} /\ composeFlags \in ComposeFlags
  BY DEF Compose!Init, Compose!Pages, Compose!Lists, Compose!NoFlags, ComposeFlags
<1>6. Compose!Running = {k} /\ composeTasks[k] = t
  BY <1>2, <1>3 DEF Compose!Running, Compose!NoTask
<1>7. ComposeTyped
  <2>1. /\ t.kind \in Compose!Writes \cup {"load", "left", "source", "options"}
        /\ t.phase \in {"asked", "done", "failed", "reload", "loaded", "listed"}
        /\ t.list \in Compose!Lists \cup {Null} /\ t.rest \in BOOLEAN
    BY <1>3 DEF ComposeTask
  <2> QED
    BY <1>2, <1>3, <1>4, <1>5, <1>6, <2>1 DEF ComposeTyped, Compose!TypeOK
<1>8. Compose!NeverStuck
  BY <1>3, <1>5, <1>6 DEF Compose!NeverStuck
<1>9. SourcesAgree /\ Compose!RecipientsAsChosen
  BY <1>5 DEF SourcesAgree, Compose!RecipientsAsChosen, Compose!Composing
<1>10. ListKept
  <2>1. Compose!Listing = {k}
    BY <1>3, <1>6 DEF Compose!Listing
  <2> QED
    BY <1>3, <1>6, <2>1 DEF ListKept
<1> QED
  BY <1>7, <1>8, <1>9, <1>10 DEF ComposeInv

LEMMA ComposeStep == ComposeInv /\ Compose!Next => ComposeInv'
BY ComposeDialogs, ComposeWrites, ComposeReadStarts, ComposeReadEnds, ComposeAnswers,
   ComposeStreamed, ComposeServes, ComposeWriteAnswered, ComposeDeliver
DEF Compose!Next

-----------------------------------------------------------------------------
(* The notification centre. *)

LEMMA CenterValues ==
  /\ \A n \in Notes : n # Null
  /\ \A c \in Center!Copy : c # Null
  /\ \A p \in Center!Pages : p # Null
  /\ \A m \in Center!Calls : m # Null
BY CenterAssumption

(* The entries of a list after a copy is put into it.                            *)
LEMMA Streamed ==
  ASSUME NEW p \in Center!Pages \cup {Null}, NEW c \in Center!Copy \cup {Null}
  PROVE  /\ Center!MergeStreamed(p, c) \in Center!Pages \cup {Null}
         /\ Center!MergeStreamed(p, c) = Null <=> p = Null
         /\ p # Null => \A n \in Notes :
              Center!MergeStreamed(p, c).list[n] =
                IF c # Null /\ c.id = n THEN c.status ELSE p.list[n]
<1>1. CASE p = Null \/ c = Null
  BY <1>1, CenterValues DEF Center!MergeStreamed
<1>2. CASE p # Null /\ c # Null
  <2>1. /\ p \in Center!Pages /\ c \in Center!Copy
        /\ Center!MergeStreamed(p, c) = [p EXCEPT !.list[c.id] = c.status, !.loading = FALSE]
    BY <1>2 DEF Center!MergeStreamed
  <2>2. p.list \in [Notes -> Center!Status] /\ c.id \in Notes /\ c.status \in Center!Status
    BY <2>1 DEF Center!Pages, Center!Copy, Center!Status
  <2>3. Center!MergeStreamed(p, c) = [list |-> [p.list EXCEPT ![c.id] = c.status], loading |-> FALSE]
    BY <2>1 DEF Center!Pages
  <2>4. Center!MergeStreamed(p, c) \in Center!Pages
    BY <2>2, <2>3 DEF Center!Pages
  <2>5. \A n \in Notes : Center!MergeStreamed(p, c).list[n] =
                            IF c.id = n THEN c.status ELSE p.list[n]
    BY <2>2, <2>3
  <2> QED
    BY <1>2, <2>4, <2>5, CenterValues
<1> QED
  BY <1>1, <1>2

(* The entries of a list after one of them was read.                             *)
LEMMA ReadMerged ==
  ASSUME NEW p \in Center!Pages \cup {Null}, NEW r \in Notes \cup {Null}
  PROVE  /\ Center!MergeRead(p, r) \in Center!Pages \cup {Null}
         /\ Center!MergeRead(p, r) = Null <=> p = Null
         /\ p # Null => \A n \in Notes :
              Center!MergeRead(p, r).list[n] =
                IF r = n /\ p.list[n] # "absent" THEN "read" ELSE p.list[n]
<1>1. CASE p = Null \/ r = Null
  BY <1>1, CenterValues DEF Center!MergeRead
<1>2. CASE p # Null /\ r # Null
  <2>1. /\ p \in Center!Pages /\ r \in Notes
        /\ Center!MergeRead(p, r) =
             [p EXCEPT !.list[r] = IF @ = "absent" THEN @ ELSE "read"]
    BY <1>2 DEF Center!MergeRead
  <2>2. p.list \in [Notes -> Center!Status] /\ p.loading \in BOOLEAN
    BY <2>1 DEF Center!Pages
  <2>3. Center!MergeRead(p, r) =
          [list |-> [p.list EXCEPT ![r] = IF @ = "absent" THEN @ ELSE "read"],
           loading |-> p.loading]
    BY <2>1 DEF Center!Pages
  <2>4. Center!MergeRead(p, r) \in Center!Pages
    BY <2>1, <2>2, <2>3 DEF Center!Pages, Center!Status
  <2> QED
    BY <1>2, <2>1, <2>2, <2>3, <2>4, CenterValues
<1> QED
  BY <1>1, <1>2

LEMMA UnreadIsCounted ==
  Center!Unread = Cardinality({n \in Notes : inbox[n] = "unread"})
BY DEF Center!Unread, Center!Cardinality, Cardinality

(* The set that the counter counts is finite, so that one notification more or less     *)
(* is one more or less in the counter.                                                   *)
LEMMA Countable ==
  ASSUME NEW S \in SUBSET Notes
  PROVE  /\ Cardinality(S) \in Nat
         /\ \A n \in Notes \ S : Cardinality(S \cup {n}) = Cardinality(S) + 1
         /\ \A n \in S : Cardinality(S \ {n}) = Cardinality(S) - 1 /\ Cardinality(S) > 0
<1>1. IsFiniteSet(S)
  BY CenterAssumption, FS_Subset
<1>2. Cardinality(S) \in Nat
  BY <1>1, FS_CardinalityType
<1>3. \A n \in Notes \ S : Cardinality(S \cup {n}) = Cardinality(S) + 1
  BY <1>1, FS_AddElement
<1>4. ASSUME NEW n \in S
      PROVE  Cardinality(S \ {n}) = Cardinality(S) - 1 /\ Cardinality(S) > 0
  <2>1. Cardinality(S \ {n}) = Cardinality(S) - 1 /\ IsFiniteSet(S \ {n})
    BY <1>1, FS_RemoveElement
  <2>2. Cardinality(S \ {n}) \in Nat
    BY <2>1, FS_CardinalityType
  <2> QED
    BY <1>2, <2>1, <2>2
<1> QED
  BY <1>2, <1>3, <1>4

LEMMA CenterSlots ==
  ASSUME Center!TypeOK
  PROVE  /\ listPage = Null => \A l \in Loads : loads[l] = Center!NoLoad
         /\ (\E l \in Loads : loads[l] = Center!NoLoad)
              => Center!FreeLoad \in Loads /\ loads[Center!FreeLoad] = Center!NoLoad
         /\ (\E m \in MarkCalls : marks[m] = Null)
              => Center!FreeMark \in MarkCalls /\ marks[Center!FreeMark] = Null
<1>1. ASSUME listPage = Null, NEW l \in Loads
      PROVE  loads[l] = Center!NoLoad
  <2>1. loads[l].stage = "none"
    BY <1>1 DEF Center!TypeOK, Center!ListPending
  <2> QED
    BY <2>1 DEF Center!TypeOK, Center!NoLoad
<1> QED
  BY <1>1 DEF Center!FreeLoad, Center!FreeMark

LEMMA CenterPageTypes ==
  ASSUME Center!TypeOK
  PROVE  /\ listPage \in Center!Pages \cup {Null}
         /\ latest \in Center!Copy \cup {Null}
         /\ lastRead \in Notes \cup {Null}
         /\ \A m \in MarkCalls : marks[m] # Null => marks[m] \in Center!Calls /\ marks[m].id \in Notes
         /\ stream \in Seq(Center!Copy)
         /\ \A i \in 1..Len(stream) : stream[i] \in Center!Copy /\ stream[i].id \in Notes
<1>1. stream \in Seq(Center!Copy)
  BY DEF Center!TypeOK
<1>2. \A i \in 1..Len(stream) : stream[i] \in Center!Copy
  BY <1>1
<1>3. \A i \in 1..Len(stream) : stream[i].id \in Notes
  BY <1>2 DEF Center!Copy
<1>4. \A m \in MarkCalls : marks[m] # Null => marks[m] \in Center!Calls
  BY DEF Center!TypeOK
<1>5. \A m \in MarkCalls : marks[m] # Null => marks[m].id \in Notes
  BY <1>4 DEF Center!Calls
<1> QED
  BY <1>1, <1>2, <1>3, <1>4, <1>5 DEF Center!TypeOK

(* A mark that is asked for takes a free slot.                                    *)
LEMMA MarkAsked ==
  ASSUME Center!TypeOK, NEW by \in {"shell", "page"}, NEW n \in Notes, Center!AskMark(by, n)
  PROVE  \E m \in MarkCalls : \E c \in Center!Calls :
           /\ marks[m] = Null /\ marks' = [marks EXCEPT ![m] = c]
           /\ c = [by |-> by, id |-> n, stage |-> "asked", mounted |-> by = "page"]
<1>1. /\ Center!FreeMark \in MarkCalls /\ marks[Center!FreeMark] = Null
      /\ marks' = [marks EXCEPT ![Center!FreeMark] =
                     [by |-> by, id |-> n, stage |-> "asked", mounted |-> by = "page"]]
  BY CenterSlots DEF Center!AskMark
<1>2. [by |-> by, id |-> n, stage |-> "asked", mounted |-> by = "page"] \in Center!Calls
  BY DEF Center!Calls
<1> QED
  BY <1>1, <1>2

(* What the service sends reaches the stream as long as it is up.                 *)
LEMMA Sent ==
  ASSUME Center!TypeOK, NEW n \in Notes, NEW status \in {"unread", "read"}, Center!Send(n, status)
  PROVE  /\ stream' \in Seq(Center!Copy)
         /\ ~streamUp => stream' = stream
         /\ streamUp =>
              /\ Len(stream') = Len(stream) + 1
              /\ \A i \in 1..Len(stream) : stream'[i] = stream[i]
              /\ stream'[Len(stream')] = [id |-> n, status |-> status]
<1>1. [id |-> n, status |-> status] \in Center!Copy
  BY DEF Center!Copy
<1>2. stream \in Seq(Center!Copy)
  BY CenterPageTypes
<1>3. CASE streamUp
  <2>1. stream' = Append(stream, [id |-> n, status |-> status])
    BY <1>3 DEF Center!Send
  <2> QED
    BY <1>1, <1>2, <1>3, <2>1
<1>4. CASE ~streamUp
  BY <1>2, <1>4 DEF Center!Send
<1> QED
  BY <1>3, <1>4

LEMMA CenterTypes == Center!TypeOK /\ Center!Next => Center!TypeOK'
<1> SUFFICES ASSUME Center!TypeOK, Center!Next
             PROVE  Center!TypeOK'
  OBVIOUS
<1> USE DEF Center!shell, Center!pageVars, Center!channel, Center!bounds, Center!history,
            Center!Click, Center!Fault
<1>1. CASE Center!OpenPage
  <2>1. [list |-> [n \in Notes |-> "absent"], loading |-> TRUE] \in Center!Pages
    BY DEF Center!Pages, Center!Status
  <2>2. listPage' \in Center!Pages /\ listPage' # Null
    BY <1>1, <2>1, Streamed, ReadMerged, CenterPageTypes, CenterValues DEF Center!OpenPage
  <2>3. /\ \A l \in Loads : loads[l] = Center!NoLoad
        /\ Center!FreeLoad \in Loads
    BY <1>1, CenterSlots, CenterAssumption DEF Center!OpenPage
  <2> QED
    BY <1>1, <2>2, <2>3 DEF Center!TypeOK, Center!OpenPage, Center!Navigate, Center!Asked,
         Center!ListPending, Center!NoLoad
<1>2. CASE Center!LeavePage
  <2>1. marks' \in [MarkCalls -> Center!Calls \cup {Null}]
    BY <1>2 DEF Center!TypeOK, Center!LeavePage, Center!Calls
  <2> QED
    BY <1>2, <2>1 DEF Center!TypeOK, Center!LeavePage, Center!Navigate, Center!Asked, Center!NoLoad,
         Center!ListPending
<1>3. CASE Center!BadgeAnswered
  BY <1>3 DEF Center!TypeOK, Center!BadgeAnswered, Center!NoLoad, Center!ListPending
<1>4. CASE Center!ReceiveStreamed
  <2>1. /\ Head(stream) \in Center!Copy /\ stream' \in Seq(Center!Copy)
        /\ latest' = Head(stream) /\ listPage' = Center!MergeStreamed(listPage, Head(stream))
    BY <1>4 DEF Center!TypeOK, Center!ReceiveStreamed
  <2>2. listPage' \in Center!Pages \cup {Null} /\ (listPage' = Null <=> listPage = Null)
    BY <2>1, Streamed, CenterPageTypes
  <2> QED
    BY <1>4, <2>1, <2>2, CenterValues DEF Center!TypeOK, Center!ReceiveStreamed, Center!ListPending
<1>5. CASE Center!HideToast
  BY <1>5 DEF Center!TypeOK, Center!HideToast, Center!ListPending
<1>6. CASE Center!OpenToast
  <2>1. latest \in Center!Copy /\ latest.id \in Notes
    BY <1>6 DEF Center!TypeOK, Center!OpenToast, Center!Copy
  <2>2. marks' \in [MarkCalls -> Center!Calls \cup {Null}]
    <3>1. CASE latest.status = "unread"
      <4>1. Center!AskMark("shell", latest.id)
        BY <1>6, <3>1 DEF Center!OpenToast
      <4> QED
        BY <2>1, <4>1, MarkAsked DEF Center!TypeOK
    <3>2. CASE latest.status # "unread"
      BY <1>6, <3>2 DEF Center!OpenToast, Center!TypeOK
    <3> QED
      BY <3>1, <3>2
  <2>3. centerClicks' \in Nat /\ centerFaults' \in Nat
    BY <1>6 DEF Center!TypeOK, Center!OpenToast, Center!AskMark
  <2>5. raced' \in BOOLEAN
    BY <1>6 DEF Center!TypeOK, Center!OpenToast, Center!AskMark
  <2>6. listRaced' \in BOOLEAN
    BY <1>6 DEF Center!TypeOK, Center!OpenToast, Center!AskMark
  <2>4. /\ toast' = FALSE
        /\ UNCHANGED <<inbox, stream, streamUp, badge, load, latest, lastRead, listPage, loads>>
    BY <1>6 DEF Center!OpenToast
  <2> QED
    BY <2>2, <2>3, <2>4, <2>5, <2>6 DEF Center!TypeOK, Center!ListPending
<1>7. CASE Center!MarkReadOnPage
  <2>1. PICK n \in Notes : Center!AskMark("page", n)
    BY <1>7 DEF Center!MarkReadOnPage
  <2>2. marks' \in [MarkCalls -> Center!Calls \cup {Null}]
    BY <2>1, MarkAsked DEF Center!TypeOK
  <2> QED
    BY <1>7, <2>1, <2>2 DEF Center!TypeOK, Center!MarkReadOnPage, Center!AskMark, Center!ListPending
<1>8. CASE Center!ReloadList
  <2>1. Center!FreeLoad \in Loads
    BY <1>8, CenterSlots DEF Center!ReloadList
  <2> QED
    BY <1>8, <2>1 DEF Center!TypeOK, Center!ReloadList, Center!Asked, Center!ListPending
<1>9. ASSUME NEW m \in MarkCalls, Center!ShellMarked(m)
      PROVE  Center!TypeOK'
  <2>1. marks[m].id \in Notes /\ marks[m] # Null
    BY <1>9, CenterPageTypes DEF Center!ShellMarked, Center!Answered
  <2>2. latest' \in Center!Copy \cup {Null} /\ (latest' = Null <=> latest = Null)
    BY <1>9, CenterValues DEF Center!TypeOK, Center!ShellMarked, Center!Copy
  <2>3. listPage' \in Center!Pages \cup {Null} /\ (listPage' = Null <=> listPage = Null)
    <3>1. PICK r \in Notes \cup {Null} : r = IF lastRead = marks[m].id THEN Null ELSE marks[m].id
      BY <2>1
    <3>2. PICK p \in Center!Pages \cup {Null} :
            /\ p = IF latest # Null /\ latest.id = marks[m].id
                   THEN Center!MergeStreamed(listPage, latest') ELSE listPage
            /\ (p = Null <=> listPage = Null)
      BY <2>2, Streamed, CenterPageTypes
    <3>3. listPage' = Center!MergeRead(p, r)
      BY <1>9, <3>1, <3>2 DEF Center!ShellMarked
    <3> QED
      BY <3>2, <3>3, ReadMerged
  <2> QED
    BY <1>9, <2>1, <2>2, <2>3 DEF Center!TypeOK, Center!ShellMarked, Center!Answered,
         Center!HandleNotificationRead, Center!ListPending
<1>10. ASSUME NEW m \in MarkCalls, Center!PageMarked(m)
       PROVE  Center!TypeOK'
  <2>1. marks[m].id \in Notes /\ marks[m] # Null
    BY <1>10, CenterPageTypes DEF Center!PageMarked, Center!Answered
  <2>2. listPage' \in Center!Pages \cup {Null} /\ (listPage' = Null <=> listPage = Null)
    BY <1>10, <2>1, ReadMerged, CenterPageTypes DEF Center!PageMarked
  <2> QED
    BY <1>10, <2>1, <2>2 DEF Center!TypeOK, Center!PageMarked, Center!Answered,
         Center!HandleNotificationRead, Center!ListPending
<1>11. ASSUME NEW m \in MarkCalls, Center!MarkFailed(m) \/ Center!ServeMark(m) \/ Center!MarkFails(m)
       PROVE  Center!TypeOK'
  <2>1. marks[m] # Null /\ marks[m] \in Center!Calls /\ marks[m].id \in Notes
    BY <1>11, CenterPageTypes DEF Center!MarkFailed, Center!ServeMark, Center!MarkFails
  <2>2. CASE Center!MarkFailed(m)
    BY <2>1, <2>2 DEF Center!TypeOK, Center!MarkFailed, Center!ListPending
  <2>3. CASE Center!ServeMark(m)
    <3>1. stream' \in Seq(Center!Copy)
      BY <2>1, <2>3, Sent DEF Center!ServeMark
    <3>2. inbox' \in [Notes -> Center!Status]
      BY <2>1, <2>3 DEF Center!TypeOK, Center!ServeMark, Center!Status
    <3>3. marks' \in [MarkCalls -> Center!Calls \cup {Null}]
      BY <2>1, <2>3 DEF Center!TypeOK, Center!ServeMark, Center!Calls
    <3> QED
      BY <2>1, <2>3, <3>1, <3>2, <3>3 DEF Center!TypeOK, Center!ServeMark, Center!ListPending
  <2>4. CASE Center!MarkFails(m)
    <3>1. marks' \in [MarkCalls -> Center!Calls \cup {Null}]
      BY <2>1, <2>4 DEF Center!TypeOK, Center!MarkFails, Center!Calls
    <3> QED
      BY <2>4, <3>1 DEF Center!TypeOK, Center!MarkFails, Center!ListPending
  <2> QED
    BY <1>11, <2>2, <2>3, <2>4
<1>12. ASSUME NEW l \in Loads, Center!ListAnswered(l) \/ Center!ServeList(l) \/ Center!ListFails(l)
       PROVE  Center!TypeOK'
  <2>1. listPage \in Center!Pages
    BY <1>12 DEF Center!TypeOK, Center!ListAnswered, Center!ServeList, Center!ListFails,
                 Center!ListPending
  <2>2. CASE Center!ListAnswered(l)
    <3>1. loads[l].stage = "ok" => loads[l].list \in [Notes -> Center!Status]
      BY DEF Center!TypeOK
    <3>2. listPage' \in Center!Pages /\ listPage' # Null
      BY <2>1, <2>2, <3>1, CenterValues DEF Center!ListAnswered, Center!Pages
    <3> QED
      BY <2>2, <3>2 DEF Center!TypeOK, Center!ListAnswered, Center!NoLoad
  <2>3. CASE Center!ServeList(l)
    BY <2>1, <2>3, CenterValues DEF Center!TypeOK, Center!ServeList
  <2>4. CASE Center!ListFails(l)
    BY <2>1, <2>4, CenterValues DEF Center!TypeOK, Center!ListFails
  <2> QED
    BY <1>12, <2>2, <2>3, <2>4
<1>13. ASSUME NEW n \in Notes, Center!Deliver(n) \/ Center!ReadElsewhere(n)
       PROVE  Center!TypeOK'
  <2>1. inbox' \in [Notes -> Center!Status]
    BY <1>13 DEF Center!TypeOK, Center!Deliver, Center!ReadElsewhere, Center!Status
  <2>2. stream' \in Seq(Center!Copy)
    BY <1>13, Sent DEF Center!Deliver, Center!ReadElsewhere
  <2>3. raced' \in BOOLEAN
    BY <1>13 DEF Center!Deliver, Center!ReadElsewhere
  <2>4. UNCHANGED <<streamUp, badge, load, latest, toast, lastRead, listPage, loads, marks,
                    centerClicks, centerFaults, listRaced>>
    BY <1>13 DEF Center!Deliver, Center!ReadElsewhere
  <2> QED
    BY <2>1, <2>2, <2>3, <2>4 DEF Center!TypeOK, Center!ListPending
<1>14. CASE Center!ServeBadge
  <2>1. Center!Unread \in Nat
    BY UnreadIsCounted, Countable
  <2> QED
    BY <1>14, <2>1 DEF Center!TypeOK, Center!ServeBadge, Center!ListPending
<1>15. CASE Center!BadgeFails
  BY <1>15 DEF Center!TypeOK, Center!BadgeFails, Center!ListPending
<1>16. CASE Center!StreamBreaks
  <2>1. stream' \in Seq(Center!Copy)
    BY <1>16 DEF Center!StreamBreaks
  <2>2. raced' \in BOOLEAN
    BY <1>16 DEF Center!StreamBreaks
  <2>3. /\ streamUp' = FALSE /\ listRaced' = TRUE
        /\ centerClicks' \in Nat /\ centerFaults' \in Nat
        /\ UNCHANGED <<inbox, badge, load, latest, toast, lastRead, listPage, loads, marks>>
    BY <1>16 DEF Center!TypeOK, Center!StreamBreaks
  <2> QED
    BY <2>1, <2>2, <2>3 DEF Center!TypeOK, Center!ListPending
<1> QED
  BY <1>1, <1>2, <1>3, <1>4, <1>5, <1>6, <1>7, <1>8, <1>9, <1>10, <1>11, <1>12, <1>13, <1>14,
     <1>15, <1>16 DEF Center!Next

(* What the service has done stays done.                                          *)
LEMMA InboxGrows ==
  ASSUME Center!TypeOK, CenterKnown, Center!Next
  PROVE  \A n \in Notes : /\ inbox[n] # "absent" => inbox'[n] # "absent"
                          /\ inbox[n] = "read" => inbox'[n] = "read"
<1> USE DEF Center!shell, Center!pageVars, Center!channel
<1>1. ASSUME NEW m \in MarkCalls, Center!ServeMark(m)
      PROVE  inbox' = [inbox EXCEPT ![marks[m].id] = "read"]
  BY <1>1 DEF Center!ServeMark
<1>2. ASSUME NEW n \in Notes, Center!Deliver(n)
      PROVE  inbox[n] = "absent" /\ inbox' = [inbox EXCEPT ![n] = "unread"]
  BY <1>2 DEF Center!Deliver
<1>3. ASSUME NEW n \in Notes, Center!ReadElsewhere(n)
      PROVE  inbox' = [inbox EXCEPT ![n] = "read"]
  BY <1>3 DEF Center!ReadElsewhere
<1>4. \/ inbox' = inbox
      \/ \E m \in MarkCalls : Center!ServeMark(m)
      \/ \E n \in Notes : Center!Deliver(n) \/ Center!ReadElsewhere(n)
  BY DEF Center!Next, Center!OpenPage, Center!LeavePage, Center!Navigate, Center!BadgeAnswered,
       Center!ReceiveStreamed, Center!HideToast, Center!OpenToast, Center!MarkReadOnPage,
       Center!ReloadList, Center!ShellMarked, Center!PageMarked, Center!MarkFailed,
       Center!MarkFails, Center!ListAnswered, Center!ServeList, Center!ListFails,
       Center!ServeBadge, Center!BadgeFails, Center!StreamBreaks
<1>5. inbox \in [Notes -> Center!Status]
  BY DEF Center!TypeOK
<1>6. ASSUME NEW m \in MarkCalls, Center!ServeMark(m)
      PROVE  \A n \in Notes : /\ inbox[n] # "absent" => inbox'[n] # "absent"
                              /\ inbox[n] = "read" => inbox'[n] = "read"
  BY <1>1, <1>5, <1>6
<1>7. ASSUME NEW k \in Notes, Center!Deliver(k) \/ Center!ReadElsewhere(k)
      PROVE  \A n \in Notes : /\ inbox[n] # "absent" => inbox'[n] # "absent"
                              /\ inbox[n] = "read" => inbox'[n] = "read"
  BY <1>2, <1>3, <1>5, <1>7
<1> QED
  BY <1>4, <1>6, <1>7

(* The stream stands, is read by the shell, ends, or grows by what changes at the       *)
(* service.                                                                              *)
LEMMA StreamSteps ==
  ASSUME Center!TypeOK, StreamTells, Center!Next
  PROVE  \/ stream' = stream /\ streamUp' = streamUp /\ inbox' = inbox
         \/ Center!ReceiveStreamed
         \/ stream' = <<>> /\ ~streamUp'
         \/ /\ streamUp /\ streamUp'
            /\ \E c \in Center!Copy :
                 /\ inbox' = [inbox EXCEPT ![c.id] = c.status]
                 /\ Len(stream') = Len(stream) + 1
                 /\ \A i \in 1..Len(stream) : stream'[i] = stream[i]
                 /\ stream'[Len(stream')] = c
<1> USE DEF Center!shell, Center!pageVars, Center!channel
<1>1. ASSUME NEW n \in Notes, NEW status \in {"unread", "read"}, Center!Send(n, status),
             inbox' = [inbox EXCEPT ![n] = status], streamUp' = streamUp
      PROVE  \/ stream' = <<>> /\ ~streamUp'
             \/ /\ streamUp /\ streamUp'
                /\ \E c \in Center!Copy :
                     /\ inbox' = [inbox EXCEPT ![c.id] = c.status]
                     /\ Len(stream') = Len(stream) + 1
                     /\ \A i \in 1..Len(stream) : stream'[i] = stream[i]
                     /\ stream'[Len(stream')] = c
  <2>1. CASE ~streamUp
    BY <1>1, <2>1, Sent DEF StreamTells
  <2>2. CASE streamUp
    <3>1. PICK c \in Center!Copy : c = [id |-> n, status |-> status]
      BY DEF Center!Copy
    <3>2. c.id = n /\ c.status = status
      BY <3>1
    <3>3. /\ Len(stream') = Len(stream) + 1
          /\ \A i \in 1..Len(stream) : stream'[i] = stream[i]
          /\ stream'[Len(stream')] = c
      BY <1>1, <2>2, <3>1, Sent
    <3> QED
      BY <1>1, <2>2, <3>2, <3>3
  <2> QED
    BY <2>1, <2>2
<1>2. ASSUME NEW m \in MarkCalls, Center!ServeMark(m)
      PROVE  \/ stream' = <<>> /\ ~streamUp'
             \/ /\ streamUp /\ streamUp'
                /\ \E c \in Center!Copy :
                     /\ inbox' = [inbox EXCEPT ![c.id] = c.status]
                     /\ Len(stream') = Len(stream) + 1
                     /\ \A i \in 1..Len(stream) : stream'[i] = stream[i]
                     /\ stream'[Len(stream')] = c
  <2>1. marks[m].id \in Notes
    BY <1>2, CenterPageTypes DEF Center!ServeMark
  <2> QED
    BY <1>1, <1>2, <2>1 DEF Center!ServeMark
<1>3. ASSUME NEW n \in Notes, Center!Deliver(n) \/ Center!ReadElsewhere(n)
      PROVE  \/ stream' = <<>> /\ ~streamUp'
             \/ /\ streamUp /\ streamUp'
                /\ \E c \in Center!Copy :
                     /\ inbox' = [inbox EXCEPT ![c.id] = c.status]
                     /\ Len(stream') = Len(stream) + 1
                     /\ \A i \in 1..Len(stream) : stream'[i] = stream[i]
                     /\ stream'[Len(stream')] = c
  BY <1>1, <1>3 DEF Center!Deliver, Center!ReadElsewhere
<1>4. \/ stream' = stream /\ streamUp' = streamUp /\ inbox' = inbox
      \/ Center!ReceiveStreamed \/ Center!StreamBreaks
      \/ \E m \in MarkCalls : Center!ServeMark(m)
      \/ \E n \in Notes : Center!Deliver(n) \/ Center!ReadElsewhere(n)
  BY DEF Center!Next, Center!OpenPage, Center!LeavePage, Center!Navigate, Center!BadgeAnswered,
       Center!HideToast, Center!OpenToast, Center!MarkReadOnPage,
       Center!ReloadList, Center!ShellMarked, Center!PageMarked, Center!MarkFailed,
       Center!MarkFails, Center!ListAnswered, Center!ServeList, Center!ListFails,
       Center!ServeBadge, Center!BadgeFails
<1>5. Center!StreamBreaks => stream' = <<>> /\ ~streamUp'
  BY DEF Center!StreamBreaks
<1> QED
  BY <1>2, <1>3, <1>4, <1>5

(* The shell takes the first record.                                              *)
LEMMA Received ==
  ASSUME Center!TypeOK, Center!ReceiveStreamed
  PROVE  /\ Len(stream) \in Nat /\ Len(stream) > 0 /\ Len(stream') = Len(stream) - 1
         /\ \A i \in 1..Len(stream') : i + 1 \in 1..Len(stream) /\ stream'[i] = stream[i + 1]
         /\ 1 \in 1..Len(stream) /\ latest' = stream[1] /\ stream[1] \in Center!Copy
         /\ listPage' = Center!MergeStreamed(listPage, stream[1])
         /\ badge' = IF stream[1].status = "unread" THEN badge + 1 ELSE badge
<1>1. stream \in Seq(Center!Copy) /\ stream # <<>> /\ stream' = Tail(stream)
  BY CenterPageTypes DEF Center!ReceiveStreamed
<1>2. Head(stream) = stream[1] /\ 1 \in 1..Len(stream)
  BY <1>1
<1>3. /\ Len(stream) \in Nat /\ Len(stream) > 0 /\ Len(stream') = Len(stream) - 1
      /\ \A i \in 1..Len(stream') : i + 1 \in 1..Len(stream) /\ stream'[i] = stream[i + 1]
  BY <1>1
<1> QED
  BY <1>1, <1>2, <1>3 DEF Center!ReceiveStreamed

LEMMA TellsKept ==
  ASSUME Center!TypeOK, StreamTells, Center!Next
  PROVE  StreamTells'
<1>1. CASE stream' = stream /\ streamUp' = streamUp /\ inbox' = inbox
  BY <1>1 DEF StreamTells
<1>2. CASE Center!ReceiveStreamed
  <2>1. inbox' = inbox /\ streamUp' = streamUp /\ stream # <<>>
    BY <1>2 DEF Center!ReceiveStreamed
  <2>2. ASSUME NEW i \in 1..Len(stream'),
               \A j \in 1..Len(stream') : j > i => stream'[j].id # stream'[i].id
        PROVE  inbox'[stream'[i].id] = stream'[i].status
    <3>1. i + 1 \in 1..Len(stream) /\ stream'[i] = stream[i + 1]
      BY <1>2, Received
    <3>2. \A j \in 1..Len(stream) : j > i + 1 => stream[j].id # stream[i + 1].id
      <4>1. ASSUME NEW j \in 1..Len(stream), j > i + 1
            PROVE  stream[j].id # stream[i + 1].id
        <5>1. j - 1 \in 1..Len(stream') /\ j - 1 > i /\ stream'[j - 1] = stream[j]
          <6>1. j - 1 \in 1..Len(stream') /\ j - 1 > i /\ (j - 1) + 1 = j
            BY <1>2, <4>1, Received
          <6> QED
            BY <1>2, <6>1, Received
        <5> QED
          BY <2>2, <3>1, <5>1
      <4> QED
        BY <4>1
    <3> QED
      BY <2>1, <3>1, <3>2 DEF StreamTells
  <2>3. streamUp
    BY <2>1 DEF StreamTells
  <2> QED
    BY <2>1, <2>2, <2>3 DEF StreamTells
<1>3. CASE stream' = <<>>
  BY <1>3 DEF StreamTells
<1>4. ASSUME NEW c \in Center!Copy, streamUp',
             inbox' = [inbox EXCEPT ![c.id] = c.status],
             Len(stream') = Len(stream) + 1,
             \A i \in 1..Len(stream) : stream'[i] = stream[i],
             stream'[Len(stream')] = c
      PROVE  StreamTells'
  <2>1. inbox \in [Notes -> Center!Status] /\ c.id \in Notes /\ Len(stream) \in Nat
    BY CenterPageTypes DEF Center!TypeOK, Center!Copy
  <2>2. ASSUME NEW i \in 1..Len(stream'),
               \A j \in 1..Len(stream') : j > i => stream'[j].id # stream'[i].id
        PROVE  inbox'[stream'[i].id] = stream'[i].status
    <3>1. CASE i = Len(stream')
      BY <1>4, <2>1, <3>1
    <3>2. CASE i # Len(stream')
      <4>1. i \in 1..Len(stream) /\ Len(stream') \in 1..Len(stream') /\ Len(stream') > i
        BY <1>4, <2>1, <3>2
      <4>2. stream'[i] = stream[i] /\ stream[i].id # c.id /\ stream[i].id \in Notes
        BY <1>4, <2>2, <4>1, CenterPageTypes
      <4>3. \A j \in 1..Len(stream) : j > i => stream[j].id # stream[i].id
        <5>1. ASSUME NEW j \in 1..Len(stream), j > i
              PROVE  stream[j].id # stream[i].id
          <6>1. j \in 1..Len(stream') /\ stream'[j] = stream[j]
            BY <1>4, <2>1
          <6> QED
            BY <2>2, <4>2, <5>1, <6>1
        <5> QED
          BY <5>1
      <4>4. inbox[stream[i].id] = stream[i].status
        BY <4>1, <4>3 DEF StreamTells
      <4> QED
        BY <1>4, <2>1, <4>2, <4>4
    <3> QED
      BY <3>1, <3>2
  <2> QED
    BY <1>4, <2>2 DEF StreamTells
<1> QED
  BY <1>1, <1>2, <1>3, <1>4, StreamSteps

(* What the stream lists after a step.                                            *)
LEMMA ListedAfter ==
  ASSUME Center!TypeOK
  PROVE  /\ Center!ReceiveStreamed =>
              \A n \in Notes :
                /\ Listed(n) <=> Listed(n)' \/ n = stream[1].id
                /\ Announced(n) <=> Announced(n)' \/ (n = stream[1].id /\ stream[1].status = "unread")
         /\ \A c \in Center!Copy :
              /\ Len(stream') = Len(stream) + 1
              /\ \A i \in 1..Len(stream) : stream'[i] = stream[i]
              /\ stream'[Len(stream')] = c
              => \A n \in Notes :
                   /\ Listed(n)' <=> Listed(n) \/ n = c.id
                   /\ Announced(n)' <=> Announced(n) \/ (n = c.id /\ c.status = "unread")
<1>1. ASSUME Center!ReceiveStreamed, NEW n \in Notes
      PROVE  /\ Listed(n) <=> Listed(n)' \/ n = stream[1].id
             /\ Announced(n) <=> Announced(n)' \/ (n = stream[1].id /\ stream[1].status = "unread")
  <2>1. \A i \in 1..Len(stream) : i # 1 => i - 1 \in 1..Len(stream') /\ stream'[i - 1] = stream[i]
    <3>1. ASSUME NEW i \in 1..Len(stream), i # 1
          PROVE  i - 1 \in 1..Len(stream') /\ stream'[i - 1] = stream[i]
      <4>1. i - 1 \in 1..Len(stream') /\ (i - 1) + 1 = i
        BY <1>1, <3>1, Received
      <4> QED
        BY <1>1, <4>1, Received
    <3> QED
      BY <3>1
  <2>2. /\ \A i \in 1..Len(stream') : i + 1 \in 1..Len(stream) /\ stream'[i] = stream[i + 1]
        /\ 1 \in 1..Len(stream)
    BY <1>1, Received
  <2>3. Listed(n)' => Listed(n)
    BY <2>2 DEF Listed
  <2>4. Announced(n)' => Announced(n)
    BY <2>2 DEF Announced
  <2>5. Listed(n) => Listed(n)' \/ n = stream[1].id
    BY <2>1 DEF Listed
  <2>6. Announced(n) => Announced(n)' \/ (n = stream[1].id /\ stream[1].status = "unread")
    BY <2>1 DEF Announced
  <2> QED
    BY <2>2, <2>3, <2>4, <2>5, <2>6 DEF Listed, Announced
<1>2. ASSUME NEW c \in Center!Copy, Len(stream') = Len(stream) + 1,
             \A i \in 1..Len(stream) : stream'[i] = stream[i],
             stream'[Len(stream')] = c, NEW n \in Notes
      PROVE  /\ Listed(n)' <=> Listed(n) \/ n = c.id
             /\ Announced(n)' <=> Announced(n) \/ (n = c.id /\ c.status = "unread")
  <2>1. Len(stream) \in Nat
    BY CenterPageTypes
  <2>2. /\ Len(stream') \in 1..Len(stream')
        /\ \A i \in 1..Len(stream') : i \in 1..Len(stream) \/ i = Len(stream')
        /\ \A i \in 1..Len(stream) : i \in 1..Len(stream')
    BY <1>2, <2>1
  <2> QED
    BY <1>2, <2>2 DEF Listed, Announced
<1> QED
  BY <1>1, <1>2

(* The first part of CenterKnown, and what becomes of the list.                   *)
LEMMA LatestKept ==
  ASSUME Center!TypeOK, CenterKnown, Center!Next
  PROVE  latest' # Null =>
           \/ latest # Null /\ latest'.id = latest.id
           \/ Center!ReceiveStreamed
<1> USE DEF Center!shell
<1>1. latest' = latest \/ Center!ReceiveStreamed \/ \E m \in MarkCalls : Center!ShellMarked(m)
  BY DEF Center!Next, Center!OpenPage, Center!LeavePage, Center!Navigate, Center!BadgeAnswered,
       Center!HideToast, Center!OpenToast, Center!MarkReadOnPage,
       Center!ReloadList, Center!PageMarked, Center!MarkFailed, Center!ServeMark,
       Center!MarkFails, Center!ListAnswered, Center!ServeList, Center!ListFails,
       Center!Deliver, Center!ReadElsewhere, Center!ServeBadge, Center!BadgeFails,
       Center!StreamBreaks
<1>2. ASSUME NEW m \in MarkCalls, Center!ShellMarked(m), latest' # Null
      PROVE  latest # Null /\ latest'.id = latest.id
  BY <1>2, CenterPageTypes DEF Center!ShellMarked, Center!Copy
<1> QED
  BY <1>1, <1>2

(* The list of the page changes by what is known to the shell or the service.     *)
LEMMA PageSteps ==
  ASSUME Center!TypeOK, Center!Next
  PROVE  \/ listPage' = listPage
         \/ listPage' = Null
         \/ /\ Center!OpenPage /\ listPage' # Null
            /\ \A n \in Notes : listPage'.list[n] # "absent" => latest # Null /\ latest.id = n
         \/ /\ Center!ReceiveStreamed /\ listPage # Null /\ listPage' # Null
            /\ \A n \in Notes : listPage'.list[n] = IF stream[1].id = n THEN stream[1].status
                                                    ELSE listPage.list[n]
         \/ \E m \in MarkCalls :
              /\ Center!ShellMarked(m) /\ listPage # Null /\ listPage' # Null
              /\ \A n \in Notes :
                   listPage'.list[n] = IF /\ n = marks[m].id
                                          /\ \/ latest # Null /\ latest.id = n
                                             \/ lastRead # n /\ listPage.list[n] # "absent"
                                       THEN "read" ELSE listPage.list[n]
         \/ \E m \in MarkCalls :
              /\ Center!PageMarked(m) /\ listPage # Null /\ listPage' # Null
              /\ \A n \in Notes :
                   listPage'.list[n] = IF n = marks[m].id /\ listPage.list[n] # "absent"
                                       THEN "read" ELSE listPage.list[n]
         \/ \E l \in Loads :
              /\ Center!ListAnswered(l) /\ listPage # Null /\ listPage' # Null
              /\ loads[l].stage = "ok" => listPage'.list = loads[l].list
              /\ loads[l].stage # "ok" => listPage'.list = listPage.list
<1> USE DEF Center!pageVars
<1>1. \/ listPage' = listPage \/ Center!OpenPage \/ listPage' = Null \/ Center!ReceiveStreamed
      \/ \E m \in MarkCalls : Center!ShellMarked(m) \/ Center!PageMarked(m)
      \/ \E l \in Loads : Center!ListAnswered(l)
  BY DEF Center!Next, Center!LeavePage, Center!BadgeAnswered,
       Center!HideToast, Center!OpenToast, Center!MarkReadOnPage,
       Center!ReloadList, Center!MarkFailed, Center!ServeMark,
       Center!MarkFails, Center!ServeList, Center!ListFails,
       Center!Deliver, Center!ReadElsewhere, Center!ServeBadge, Center!BadgeFails,
       Center!StreamBreaks
<1>2. CASE Center!OpenPage
  <2>1. PICK p \in Center!Pages : p = [list |-> [n \in Notes |-> "absent"], loading |-> TRUE]
    BY DEF Center!Pages, Center!Status
  <2>2. p # Null /\ \A n \in Notes : p.list[n] = "absent"
    BY <2>1, CenterValues
  <2>3. PICK q \in Center!Pages \cup {Null} : q = Center!MergeStreamed(p, latest)
    BY Streamed, CenterPageTypes
  <2>4. q # Null /\ \A n \in Notes : q.list[n] # "absent" => latest # Null /\ latest.id = n
    BY <2>2, <2>3, Streamed, CenterPageTypes
  <2>5. listPage' = Center!MergeRead(q, lastRead)
    BY <1>2, <2>1, <2>3 DEF Center!OpenPage
  <2> QED
    BY <1>2, <2>4, <2>5, ReadMerged, CenterPageTypes
<1>3. CASE Center!ReceiveStreamed
  <2>1. stream[1] \in Center!Copy /\ listPage' = Center!MergeStreamed(listPage, stream[1])
    BY <1>3, Received
  <2> QED
    BY <1>3, <2>1, Streamed, CenterPageTypes, CenterValues
<1>4. ASSUME NEW m \in MarkCalls, Center!ShellMarked(m), listPage # Null
      PROVE  /\ listPage' # Null
             /\ \A n \in Notes :
                   listPage'.list[n] = IF /\ n = marks[m].id
                                          /\ \/ latest # Null /\ latest.id = n
                                             \/ lastRead # n /\ listPage.list[n] # "absent"
                                       THEN "read" ELSE listPage.list[n]
  <2>1. marks[m].id \in Notes
    BY <1>4, CenterPageTypes DEF Center!ShellMarked, Center!Answered
  <2>2. PICK r \in Notes \cup {Null} : r = IF lastRead = marks[m].id THEN Null ELSE marks[m].id
    BY <2>1
  <2>3. latest # Null /\ latest.id = marks[m].id =>
          /\ latest' \in Center!Copy /\ latest' # Null
          /\ latest'.id = marks[m].id /\ latest'.status = "read"
    BY <1>4, CenterPageTypes, CenterValues DEF Center!ShellMarked, Center!Copy
  <2>4. PICK p \in Center!Pages \cup {Null} :
          /\ p = IF latest # Null /\ latest.id = marks[m].id
                 THEN Center!MergeStreamed(listPage, latest') ELSE listPage
          /\ p # Null
          /\ \A n \in Notes :
               p.list[n] = IF n = marks[m].id /\ latest # Null /\ latest.id = n
                           THEN "read" ELSE listPage.list[n]
    BY <1>4, <2>3, Streamed, CenterPageTypes
  <2>5. listPage' = Center!MergeRead(p, r)
    BY <1>4, <2>2, <2>4 DEF Center!ShellMarked
  <2>6. /\ listPage' # Null
        /\ \A n \in Notes : listPage'.list[n] =
             IF r = n /\ p.list[n] # "absent" THEN "read" ELSE p.list[n]
    BY <2>4, <2>5, ReadMerged
  <2>7. \A n \in Notes : r = n <=> n = marks[m].id /\ lastRead # n
    BY <2>1, <2>2, CenterValues
  <2> QED
    BY <2>4, <2>6, <2>7
<1>5. ASSUME NEW m \in MarkCalls, Center!PageMarked(m), listPage # Null, listPage' # listPage
      PROVE  /\ listPage' # Null
             /\ \A n \in Notes :
                   listPage'.list[n] = IF n = marks[m].id /\ listPage.list[n] # "absent"
                                       THEN "read" ELSE listPage.list[n]
  <2>1. marks[m].id \in Notes
    BY <1>5, CenterPageTypes DEF Center!PageMarked, Center!Answered
  <2>2. listPage' = Center!MergeRead(listPage, marks[m].id)
    BY <1>5 DEF Center!PageMarked
  <2> QED
    BY <1>5, <2>1, <2>2, ReadMerged, CenterPageTypes
<1>6. ASSUME NEW m \in MarkCalls, Center!ShellMarked(m) \/ Center!PageMarked(m), listPage = Null
      PROVE  listPage' = Null
  BY <1>6 DEF Center!ShellMarked, Center!PageMarked, Center!MergeRead, Center!MergeStreamed
<1>7. ASSUME NEW l \in Loads, Center!ListAnswered(l)
      PROVE  /\ listPage # Null /\ listPage' # Null
             /\ loads[l].stage = "ok" => listPage'.list = loads[l].list
             /\ loads[l].stage # "ok" => listPage'.list = listPage.list
  <2>1. listPage # Null /\ listPage \in Center!Pages
    BY <1>7 DEF Center!TypeOK, Center!ListAnswered, Center!ListPending
  <2>2. loads[l].stage = "ok" => loads[l].list \in [Notes -> Center!Status]
    BY <1>7 DEF Center!TypeOK
  <2>3. /\ listPage' = [listPage EXCEPT !.loading = FALSE,
                          !.list = IF loads[l].stage = "ok" THEN loads[l].list ELSE @]
    BY <1>7 DEF Center!ListAnswered
  <2>4. listPage' \in Center!Pages /\ listPage'.list = IF loads[l].stage = "ok" THEN loads[l].list
                                                       ELSE listPage.list
    BY <2>1, <2>2, <2>3 DEF Center!Pages
  <2> QED
    BY <2>1, <2>4, CenterValues
<1> QED
  BY <1>1, <1>2, <1>3, <1>4, <1>5, <1>6, <1>7

(* The list calls of the page change by what the service has.                     *)
LEMMA LoadSteps ==
  ASSUME Center!TypeOK, Center!Next
  PROVE  \A l \in Loads : loads'[l].stage = "ok" =>
           \/ loads'[l] = loads[l] /\ listPage' # Null
           \/ Center!ServeList(l) /\ loads'[l].list = inbox
<1> USE DEF Center!pageVars
<1> SUFFICES ASSUME NEW l \in Loads, loads'[l].stage = "ok"
             PROVE  \/ loads'[l] = loads[l] /\ listPage' # Null
                    \/ Center!ServeList(l) /\ loads'[l].list = inbox
  OBVIOUS
<1>1. \/ loads' = loads
      \/ Center!OpenPage \/ Center!LeavePage \/ Center!ReloadList
      \/ \E k \in Loads : Center!ListAnswered(k) \/ Center!ServeList(k) \/ Center!ListFails(k)
  BY DEF Center!Next, Center!BadgeAnswered, Center!ReceiveStreamed,
       Center!HideToast, Center!OpenToast, Center!MarkReadOnPage,
       Center!ShellMarked, Center!PageMarked, Center!MarkFailed, Center!ServeMark,
       Center!MarkFails,
       Center!Deliver, Center!ReadElsewhere, Center!ServeBadge, Center!BadgeFails,
       Center!StreamBreaks
<1>2. listPage' # Null
  <2>1. Center!ListPending' => listPage' # Null
    BY CenterTypes DEF Center!TypeOK
  <2> QED
    BY <2>1 DEF Center!ListPending
<1>3. CASE Center!OpenPage \/ Center!ReloadList
  <2>1. loads' = [loads EXCEPT ![Center!FreeLoad] = Center!Asked]
    BY <1>3 DEF Center!OpenPage, Center!ReloadList
  <2>2. l # Center!FreeLoad
    BY <2>1 DEF Center!TypeOK, Center!Asked
  <2> QED
    BY <1>2, <2>1, <2>2 DEF Center!TypeOK
<1>4. CASE Center!LeavePage
  BY <1>4 DEF Center!LeavePage, Center!NoLoad
<1>5. ASSUME NEW k \in Loads, Center!ListAnswered(k)
      PROVE  loads'[l] = loads[l]
  BY <1>5 DEF Center!ListAnswered, Center!NoLoad, Center!TypeOK
<1>6. ASSUME NEW k \in Loads, Center!ServeList(k)
      PROVE  loads'[l] = loads[l] \/ (l = k /\ loads'[l].list = inbox)
  BY <1>6 DEF Center!ServeList, Center!TypeOK
<1>7. ASSUME NEW k \in Loads, Center!ListFails(k)
      PROVE  loads'[l] = loads[l]
  BY <1>7 DEF Center!ListFails, Center!TypeOK
<1> QED
  BY <1>1, <1>2, <1>3, <1>4, <1>5, <1>6, <1>7

(* The mark calls of a step: asked for, served, answered, or losing their page.   *)
LEMMA MarkSteps ==
  ASSUME Center!TypeOK, CenterKnown, Center!Next
  PROVE  \A m \in MarkCalls : marks'[m] # Null =>
           \/ /\ marks[m] # Null /\ marks'[m].id = marks[m].id
              /\ marks'[m].stage = marks[m].stage \/ Center!MarkFails(m)
           \/ /\ Center!ServeMark(m) /\ marks[m] # Null /\ marks[m].stage = "asked"
              /\ marks'[m].id = marks[m].id /\ marks'[m].stage = "ok"
              /\ inbox' = [inbox EXCEPT ![marks[m].id] = "read"]
           \/ /\ marks[m] = Null /\ marks'[m].stage = "asked" /\ inbox' = inbox
              /\ \E by \in {"shell", "page"} : Center!AskMark(by, marks'[m].id)
              /\ inbox[marks'[m].id] # "absent"
<1> SUFFICES ASSUME NEW m \in MarkCalls, marks'[m] # Null
             PROVE  \/ /\ marks[m] # Null /\ marks'[m].id = marks[m].id
                       /\ marks'[m].stage = marks[m].stage \/ Center!MarkFails(m)
                    \/ /\ Center!ServeMark(m) /\ marks[m] # Null /\ marks[m].stage = "asked"
                       /\ marks'[m].id = marks[m].id /\ marks'[m].stage = "ok"
                       /\ inbox' = [inbox EXCEPT ![marks[m].id] = "read"]
                    \/ /\ marks[m] = Null /\ marks'[m].stage = "asked" /\ inbox' = inbox
                       /\ \E by \in {"shell", "page"} : Center!AskMark(by, marks'[m].id)
                       /\ inbox[marks'[m].id] # "absent"
  OBVIOUS
<1>1. \/ marks' = marks
      \/ Center!LeavePage \/ Center!OpenToast \/ Center!MarkReadOnPage
      \/ \E k \in MarkCalls : \/ Center!ShellMarked(k) \/ Center!PageMarked(k)
                              \/ Center!MarkFailed(k) \/ Center!ServeMark(k) \/ Center!MarkFails(k)
  BY DEF Center!Next, Center!OpenPage, Center!BadgeAnswered, Center!ReceiveStreamed,
       Center!HideToast, Center!ReloadList,
       Center!ListAnswered, Center!ServeList, Center!ListFails,
       Center!Deliver, Center!ReadElsewhere, Center!ServeBadge, Center!BadgeFails,
       Center!StreamBreaks
<1>2. marks \in [MarkCalls -> Center!Calls \cup {Null}]
  BY DEF Center!TypeOK
<1>3. CASE Center!LeavePage
  <2>1. marks[m] # Null /\ marks[m] \in Center!Calls
        /\ marks'[m] = [marks[m] EXCEPT !.mounted = FALSE]
    BY <1>2, <1>3 DEF Center!LeavePage
  <2> QED
    BY <2>1 DEF Center!Calls
<1>4. ASSUME NEW by \in {"shell", "page"}, NEW n \in Notes, Center!AskMark(by, n),
             inbox[n] # "absent", inbox' = inbox
      PROVE  \/ /\ marks[m] # Null /\ marks'[m] = marks[m]
             \/ /\ marks[m] = Null /\ marks'[m].stage = "asked"
                /\ Center!AskMark(by, marks'[m].id)
                /\ inbox[marks'[m].id] # "absent"
  <2>1. PICK k \in MarkCalls : \E c \in Center!Calls :
           /\ marks[k] = Null /\ marks' = [marks EXCEPT ![k] = c]
           /\ c = [by |-> by, id |-> n, stage |-> "asked", mounted |-> by = "page"]
    BY <1>4, MarkAsked
  <2>2. CASE m = k
    <3>1. marks'[m] = [by |-> by, id |-> n, stage |-> "asked", mounted |-> by = "page"]
      BY <1>2, <2>1, <2>2
    <3>2. marks'[m].id = n /\ marks'[m].stage = "asked"
      BY <3>1
    <3> QED
      BY <1>4, <2>1, <2>2, <3>2
  <2>3. CASE m # k
    BY <1>2, <2>1, <2>3
  <2> QED
    BY <2>2, <2>3
<1>5. CASE Center!OpenToast
  <2>1. latest # Null /\ inbox[latest.id] # "absent" /\ latest.id \in Notes /\ inbox' = inbox
    BY <1>5, CenterPageTypes DEF Center!OpenToast, Center!TypeOK, CenterKnown, Center!Copy
  <2>2. CASE latest.status = "unread"
    <3>1. Center!AskMark("shell", latest.id)
      BY <1>5, <2>2 DEF Center!OpenToast
    <3> QED
      BY <1>4, <2>1, <3>1
  <2>3. CASE latest.status # "unread"
    BY <1>5, <2>3 DEF Center!OpenToast
  <2> QED
    BY <2>2, <2>3
<1>6. CASE Center!MarkReadOnPage
  <2>1. PICK n \in Notes : listPage.list[n] = "unread" /\ Center!AskMark("page", n)
    BY <1>6 DEF Center!MarkReadOnPage
  <2>2. inbox[n] # "absent" /\ inbox' = inbox
    BY <1>6, <2>1 DEF Center!MarkReadOnPage, CenterKnown
  <2> QED
    BY <1>4, <2>1, <2>2
<1>7. ASSUME NEW k \in MarkCalls, Center!ShellMarked(k) \/ Center!PageMarked(k) \/ Center!MarkFailed(k)
      PROVE  marks'[m] = marks[m]
  BY <1>2, <1>7 DEF Center!ShellMarked, Center!PageMarked, Center!MarkFailed, Center!Answered
<1>8. ASSUME NEW k \in MarkCalls, Center!ServeMark(k) \/ Center!MarkFails(k)
      PROVE  \/ marks'[m] = marks[m]
             \/ /\ m = k /\ marks[m] # Null /\ marks'[m].id = marks[m].id
                /\ Center!ServeMark(k) =>
                     /\ marks[m].stage = "asked" /\ marks'[m].stage = "ok"
                     /\ inbox' = [inbox EXCEPT ![marks[m].id] = "read"]
  <2>1. marks[k] \in Center!Calls /\ marks[k] # Null
    BY <1>2, <1>8 DEF Center!ServeMark, Center!MarkFails
  <2>2. CASE Center!ServeMark(k)
    <3>1. marks' = [marks EXCEPT ![k].stage = "ok"]
      BY <2>2 DEF Center!ServeMark
    <3>2. marks[k].stage = "asked" /\ inbox' = [inbox EXCEPT ![marks[k].id] = "read"]
      BY <2>2 DEF Center!ServeMark
    <3>3. marks'[k].id = marks[k].id /\ marks'[k].stage = "ok"
      BY <1>2, <2>1, <3>1 DEF Center!Calls
    <3>4. m # k => marks'[m] = marks[m]
      BY <1>2, <3>1
    <3> QED
      BY <2>1, <3>2, <3>3, <3>4
  <2>3. CASE Center!MarkFails(k) /\ ~Center!ServeMark(k)
    <3>1. marks' = [marks EXCEPT ![k].stage = "failed"]
      BY <2>3 DEF Center!MarkFails
    <3> QED
      BY <1>2, <2>1, <2>3, <3>1 DEF Center!Calls
  <2> QED
    BY <1>8, <2>2, <2>3
<1> QED
  BY <1>1, <1>3, <1>5, <1>6, <1>7, <1>8

LEMMA KnownKept ==
  ASSUME Center!TypeOK, StreamTells, CenterKnown, Center!Next
  PROVE  CenterKnown'
<1>1. \A n \in Notes : /\ inbox[n] # "absent" => inbox'[n] # "absent"
                       /\ inbox[n] = "read" => inbox'[n] = "read"
  BY InboxGrows
<1>2. Center!TypeOK'
  BY CenterTypes
<1>3. latest' # Null => inbox'[latest'.id] # "absent"
  <2>1. CASE Center!ReceiveStreamed
    BY <1>1, <2>1, Received, CenterPageTypes DEF CenterKnown
  <2>2. CASE ~Center!ReceiveStreamed
    <3>1. latest # Null => latest.id \in Notes
      BY CenterPageTypes DEF Center!Copy
    <3> QED
      BY <1>1, <2>2, <3>1, LatestKept DEF CenterKnown
  <2> QED
    BY <2>1, <2>2
<1>4. \A i \in 1..Len(stream') : inbox'[stream'[i].id] # "absent"
  <2>1. CASE stream' = stream
    BY <1>1, <2>1, CenterPageTypes DEF CenterKnown
  <2>2. CASE Center!ReceiveStreamed
    BY <1>1, <2>2, Received, CenterPageTypes DEF CenterKnown
  <2>3. CASE stream' = <<>>
    BY <2>3
  <2>4. ASSUME NEW c \in Center!Copy,
               inbox' = [inbox EXCEPT ![c.id] = c.status],
               Len(stream') = Len(stream) + 1,
               \A i \in 1..Len(stream) : stream'[i] = stream[i],
               stream'[Len(stream')] = c,
               NEW i \in 1..Len(stream')
        PROVE  inbox'[stream'[i].id] # "absent"
    <3>1. CASE i = Len(stream')
      <4>1. inbox \in [Notes -> Center!Status] /\ c.id \in Notes /\ c.status # "absent"
        BY DEF Center!TypeOK, Center!Copy
      <4> QED
        BY <2>4, <3>1, <4>1
    <3>2. CASE i # Len(stream')
      <4>1. i \in 1..Len(stream)
        BY <2>4, <3>2, CenterPageTypes
      <4> QED
        BY <1>1, <2>4, <4>1, CenterPageTypes DEF CenterKnown
    <3> QED
      BY <3>1, <3>2
  <2> QED
    BY <2>1, <2>2, <2>3, <2>4, StreamSteps
<1>5. listPage' # Null => \A n \in Notes : listPage'.list[n] # "absent" => inbox'[n] # "absent"
  <2> SUFFICES ASSUME listPage' # Null, NEW n \in Notes, listPage'.list[n] # "absent"
               PROVE  inbox[n] # "absent"
    BY <1>1
  <2>1. CASE listPage' = listPage
    BY <2>1 DEF CenterKnown
  <2>2. CASE latest # Null /\ latest.id = n
    BY <2>2 DEF CenterKnown
  <2>3. CASE Center!ReceiveStreamed /\ stream[1].id = n
    BY <2>3, Received DEF CenterKnown
  <2>4. CASE \E m \in MarkCalls : marks[m] # Null /\ marks[m].id = n
    BY <2>4 DEF CenterKnown
  <2>5. CASE listPage # Null /\ listPage.list[n] # "absent"
    BY <2>5 DEF CenterKnown
  <2>6. CASE \E l \in Loads : loads[l].stage = "ok" /\ loads[l].list[n] # "absent"
    BY <2>6 DEF CenterKnown
  <2>7. \A m \in MarkCalls : Center!ShellMarked(m) \/ Center!PageMarked(m) => marks[m] # Null
    BY DEF Center!ShellMarked, Center!PageMarked, Center!Answered
  <2> QED
    BY <2>1, <2>2, <2>3, <2>4, <2>5, <2>6, <2>7, PageSteps
<1>6. \A l \in Loads : loads'[l].stage = "ok" =>
        \A n \in Notes : loads'[l].list[n] # "absent" => inbox'[n] # "absent"
  BY <1>1, LoadSteps DEF CenterKnown
<1>7. \A m \in MarkCalls : marks'[m] # Null =>
        /\ inbox'[marks'[m].id] # "absent"
        /\ marks'[m].stage = "ok" => inbox'[marks'[m].id] = "read"
  <2> SUFFICES ASSUME NEW m \in MarkCalls, marks'[m] # Null
               PROVE  /\ inbox'[marks'[m].id] # "absent"
                      /\ marks'[m].stage = "ok" => inbox'[marks'[m].id] = "read"
    OBVIOUS
  <2>1. marks'[m].id \in Notes
    BY <1>2 DEF Center!TypeOK, Center!Calls
  <2>2. CASE /\ marks[m] # Null /\ marks'[m].id = marks[m].id
             /\ marks'[m].stage = marks[m].stage
    BY <1>1, <2>1, <2>2 DEF CenterKnown
  <2>3. CASE marks[m] # Null /\ marks'[m].id = marks[m].id /\ Center!MarkFails(m)
    <3>1. marks'[m].stage = "failed"
      BY <2>3 DEF Center!MarkFails, Center!TypeOK, Center!Calls
    <3> QED
      BY <1>1, <2>1, <2>3, <3>1 DEF CenterKnown
  <2>4. CASE /\ marks[m] # Null /\ marks'[m].id = marks[m].id
             /\ inbox' = [inbox EXCEPT ![marks[m].id] = "read"]
    <3>1. inbox'[marks'[m].id] = "read"
      BY <2>1, <2>4 DEF Center!TypeOK
    <3> QED
      BY <3>1
  <2>5. CASE marks'[m].stage = "asked" /\ inbox[marks'[m].id] # "absent"
    BY <1>1, <2>1, <2>5
  <2> QED
    BY <2>2, <2>3, <2>4, <2>5, MarkSteps
<1> QED
  BY <1>3, <1>4, <1>5, <1>6, <1>7 DEF CenterKnown

(* Only a page that opens makes a new start of the list.                          *)
LEMMA ListHistory ==
  ASSUME Center!Next, ~listRaced'
  PROVE  Center!OpenPage \/ ~listRaced
BY DEF Center!Next, Center!LeavePage, Center!BadgeAnswered, Center!ReceiveStreamed,
     Center!HideToast, Center!OpenToast, Center!AskMark, Center!MarkReadOnPage, Center!ReloadList,
     Center!ShellMarked, Center!PageMarked, Center!Answered, Center!MarkFailed, Center!ServeMark,
     Center!MarkFails, Center!ListAnswered, Center!ServeList, Center!ListFails,
     Center!Deliver, Center!ReadElsewhere, Center!ServeBadge, Center!BadgeFails,
     Center!StreamBreaks, Center!history

(* A list call that fails, and a stream that ends, are told apart.                *)
LEMMA ListFaults ==
  ASSUME Center!TypeOK, Center!Next, ~listRaced', listPage # Null
  PROVE  /\ streamUp => streamUp'
         /\ \A l \in Loads : loads'[l].stage = "failed" => loads[l].stage = "failed"
<1> USE DEF Center!channel, Center!pageVars
<1>1. streamUp' = streamUp
  BY DEF Center!Next, Center!OpenPage, Center!LeavePage, Center!Navigate, Center!BadgeAnswered,
     Center!ReceiveStreamed, Center!HideToast, Center!OpenToast, Center!MarkReadOnPage,
     Center!ReloadList, Center!ShellMarked, Center!PageMarked, Center!MarkFailed, Center!ServeMark,
     Center!MarkFails, Center!ListAnswered, Center!ServeList, Center!ListFails,
     Center!Deliver, Center!ReadElsewhere, Center!ServeBadge, Center!BadgeFails,
     Center!StreamBreaks
<1>2. ASSUME NEW l \in Loads, loads'[l].stage = "failed"
      PROVE  loads[l].stage = "failed"
  <2>1. \/ loads' = loads
        \/ Center!LeavePage \/ Center!ReloadList
        \/ \E k \in Loads : Center!ListAnswered(k) \/ Center!ServeList(k)
    BY DEF Center!Next, Center!OpenPage, Center!BadgeAnswered, Center!ReceiveStreamed,
       Center!HideToast, Center!OpenToast, Center!MarkReadOnPage, Center!ListFails,
       Center!ShellMarked, Center!PageMarked, Center!MarkFailed, Center!ServeMark,
       Center!MarkFails,
       Center!Deliver, Center!ReadElsewhere, Center!ServeBadge, Center!BadgeFails,
       Center!StreamBreaks
  <2>2. CASE Center!LeavePage
    BY <1>2, <2>2 DEF Center!LeavePage, Center!NoLoad
  <2>3. CASE Center!ReloadList
    BY <1>2, <2>3 DEF Center!ReloadList, Center!Asked, Center!TypeOK
  <2>4. ASSUME NEW k \in Loads, Center!ListAnswered(k) \/ Center!ServeList(k)
        PROVE  loads[l].stage = "failed"
    BY <1>2, <2>4 DEF Center!ListAnswered, Center!ServeList, Center!NoLoad, Center!TypeOK
  <2> QED
    BY <1>2, <2>1, <2>2, <2>3, <2>4
<1> QED
  BY <1>1, <1>2

(* While an answer with a list is on its way, the page changes by that answer only.  *)
LEMMA PageStands ==
  ASSUME Center!TypeOK, Center!Next, ~listRaced', listPage # Null, listPage' # Null,
         NEW l \in Loads, loads[l].stage = "ok", loads'[l].stage = "ok"
  PROVE  listPage' = listPage /\ ~Center!ReceiveStreamed
<1>1. Center!ListRead
  BY DEF Center!ListRead
<1>2. ~Center!ReceiveStreamed
  BY <1>1 DEF Center!ReceiveStreamed
<1>3. \A m \in MarkCalls : ~Center!ShellMarked(m) /\ ~Center!PageMarked(m)
  BY <1>1 DEF Center!ShellMarked, Center!PageMarked, Center!Answered
<1>4. ASSUME NEW k \in Loads, Center!ListAnswered(k)
      PROVE  FALSE
  <2>1. k = l
    BY <1>4 DEF Center!ListAnswered
  <2> QED
    BY <1>4, <2>1 DEF Center!ListAnswered, Center!NoLoad, Center!TypeOK
<1>5. ~Center!OpenPage
  BY DEF Center!OpenPage
<1> QED
  BY <1>2, <1>3, <1>4, <1>5, PageSteps

(* Nothing is waited for any more: the last answer has come.                      *)
LEMMA LastAnswer ==
  ASSUME Center!TypeOK, Center!Next, listPage' # Null, Center!ListPending, ~Center!ListPending'
  PROVE  \E l \in Loads : Center!ListAnswered(l)
<1> USE DEF Center!pageVars
<1>1. PICK l \in Loads : loads[l].stage # "none"
  BY DEF Center!ListPending
<1>2. loads'[l].stage = "none"
  BY DEF Center!ListPending
<1>3. \/ loads' = loads
      \/ Center!OpenPage \/ Center!ReloadList
      \/ \E k \in Loads : Center!ListAnswered(k) \/ Center!ServeList(k) \/ Center!ListFails(k)
  BY DEF Center!Next, Center!LeavePage, Center!BadgeAnswered, Center!ReceiveStreamed,
       Center!HideToast, Center!OpenToast, Center!MarkReadOnPage,
       Center!ShellMarked, Center!PageMarked, Center!MarkFailed, Center!ServeMark,
       Center!MarkFails,
       Center!Deliver, Center!ReadElsewhere, Center!ServeBadge, Center!BadgeFails,
       Center!StreamBreaks
<1>4. ~Center!OpenPage /\ ~Center!ReloadList
  BY <1>1, <1>2 DEF Center!OpenPage, Center!ReloadList, Center!Asked, Center!TypeOK
<1>5. \A k \in Loads : ~Center!ServeList(k) /\ ~Center!ListFails(k)
  BY <1>1, <1>2 DEF Center!ServeList, Center!ListFails, Center!TypeOK
<1> QED
  BY <1>1, <1>2, <1>3, <1>4, <1>5

LEMMA ListsKept ==
  ASSUME Center!TypeOK, CenterKnown, StreamTells, ListsExact, Center!Next
  PROVE  ListsExact'
<1> SUFFICES ASSUME listPage' # Null, ~listRaced'
             PROVE  /\ streamUp'
                    /\ \A l \in Loads : loads'[l].stage # "failed"
                    /\ \A l \in Loads : loads'[l].stage = "ok" => \A n \in Notes :
                         /\ ~Listed(n)' => loads'[l].list[n] = inbox'[n]
                         /\ listPage'.list[n] # "absent" => loads'[l].list[n] # "absent"
                    /\ ~Center!ListPending' =>
                         \A n \in Notes : ~Listed(n)' => listPage'.list[n] = inbox'[n]
  BY DEF ListsExact
<1>1. CASE Center!OpenPage
  <2>1. \A l \in Loads : loads[l] = Center!NoLoad
    BY <1>1, CenterSlots DEF Center!OpenPage
  <2>2. /\ Center!FreeLoad \in Loads
        /\ loads' = [loads EXCEPT ![Center!FreeLoad] = Center!Asked]
    BY <1>1, <2>1, CenterSlots, CenterAssumption DEF Center!OpenPage
  <2>3. \A l \in Loads : loads'[l].stage \in {"none", "asked"}
    BY <2>1, <2>2 DEF Center!TypeOK, Center!Asked, Center!NoLoad
  <2>4. Center!ListPending'
    BY <2>2 DEF Center!TypeOK, Center!Asked, Center!ListPending
  <2>5. streamUp'
    BY <1>1 DEF Center!OpenPage, Center!Navigate, Center!channel
  <2> QED
    BY <2>3, <2>4, <2>5
<1>2. CASE ~Center!OpenPage
  <2>1. ~listRaced
    BY <1>2, ListHistory
  <2>2. listPage # Null
    BY <1>2, PageSteps DEF Center!LeavePage
  <2>3. /\ streamUp /\ \A l \in Loads : loads[l].stage # "failed"
        /\ \A l \in Loads : loads[l].stage = "ok" => \A n \in Notes :
             /\ ~Listed(n) => loads[l].list[n] = inbox[n]
             /\ listPage.list[n] # "absent" => loads[l].list[n] # "absent"
        /\ ~Center!ListPending => \A n \in Notes : ~Listed(n) => listPage.list[n] = inbox[n]
    BY <2>1, <2>2 DEF ListsExact
  <2>4. streamUp' /\ \A l \in Loads : loads'[l].stage # "failed"
    BY <2>2, <2>3, ListFaults
  <2>5. inbox \in [Notes -> Center!Status]
    BY DEF Center!TypeOK
  <2>6. ASSUME ~Center!ReceiveStreamed, NEW n \in Notes, ~Listed(n)'
        PROVE  ~Listed(n) /\ inbox'[n] = inbox[n]
    <3>1. CASE stream' = stream /\ inbox' = inbox
      BY <2>6, <3>1 DEF Listed
    <3>2. ASSUME NEW c \in Center!Copy, inbox' = [inbox EXCEPT ![c.id] = c.status],
                 Len(stream') = Len(stream) + 1,
                 \A i \in 1..Len(stream) : stream'[i] = stream[i],
                 stream'[Len(stream')] = c
          PROVE  ~Listed(n) /\ inbox'[n] = inbox[n]
      BY <2>5, <2>6, <3>2, ListedAfter
    <3> QED
      BY <2>4, <2>6, <3>1, <3>2, StreamSteps
  <2>7. ASSUME NEW l \in Loads, loads'[l].stage = "ok", NEW n \in Notes
        PROVE  /\ ~Listed(n)' => loads'[l].list[n] = inbox'[n]
               /\ listPage'.list[n] # "absent" => loads'[l].list[n] # "absent"
    <3>1. CASE loads'[l] = loads[l]
      <4>1. listPage' = listPage /\ ~Center!ReceiveStreamed
        BY <2>1, <2>2, <2>7, <3>1, PageStands
      <4> QED
        BY <2>3, <2>6, <2>7, <3>1, <4>1
    <3>2. CASE Center!ServeList(l) /\ loads'[l].list = inbox
      <4>1. inbox' = inbox /\ listPage' = listPage
        BY <3>2 DEF Center!ServeList
      <4> QED
        BY <3>2, <4>1 DEF CenterKnown
    <3> QED
      BY <2>7, <3>1, <3>2, LoadSteps
  <2>8. ASSUME ~Center!ListPending', NEW n \in Notes, ~Listed(n)'
        PROVE  listPage'.list[n] = inbox'[n]
    <3>1. CASE Center!ListPending
      <4>1. PICK l \in Loads : Center!ListAnswered(l)
        BY <2>8, <3>1, LastAnswer
      <4>2. /\ loads[l].stage = "ok" /\ inbox' = inbox /\ stream' = stream
            /\ listPage' = [listPage EXCEPT !.loading = FALSE, !.list = loads[l].list]
        BY <2>3, <4>1 DEF Center!ListAnswered, Center!channel
      <4>3. listPage'.list = loads[l].list
        BY <2>2, <4>2, CenterPageTypes DEF Center!Pages
      <4> QED
        BY <2>3, <2>8, <4>2, <4>3 DEF Listed
    <3>2. CASE ~Center!ListPending /\ Center!ReceiveStreamed
      <4>1. /\ stream[1] \in Center!Copy /\ listPage' = Center!MergeStreamed(listPage, stream[1])
            /\ 1 \in 1..Len(stream) /\ inbox' = inbox
        BY <3>2, Received DEF Center!ReceiveStreamed
      <4>2. listPage'.list[n] = IF stream[1].id = n THEN stream[1].status ELSE listPage.list[n]
        <5>1. stream[1] # Null /\ listPage \in Center!Pages
          BY <2>2, <4>1, CenterValues, CenterPageTypes
        <5> QED
          BY <2>2, <4>1, <5>1, Streamed
      <4>3. CASE stream[1].id = n
        <5>1. \A j \in 1..Len(stream) : j > 1 => stream[j].id # stream[1].id
          <6>1. ASSUME NEW j \in 1..Len(stream), j > 1, stream[j].id = stream[1].id
                PROVE  FALSE
            <7>1. j - 1 \in 1..Len(stream') /\ (j - 1) + 1 = j
              BY <3>2, <6>1, Received
            <7>2. stream'[j - 1].id = n
              BY <3>2, <4>3, <6>1, <7>1, Received
            <7> QED
              BY <2>8, <7>1, <7>2 DEF Listed
          <6> QED
            BY <6>1
        <5>2. inbox[n] = stream[1].status
          BY <4>1, <4>3, <5>1 DEF StreamTells
        <5> QED
          BY <4>1, <4>2, <4>3, <5>2
      <4>4. CASE stream[1].id # n
        <5>1. ~Listed(n)
          BY <2>8, <3>2, <4>4, ListedAfter
        <5> QED
          BY <2>3, <3>2, <4>1, <4>2, <4>4, <5>1
      <4> QED
        BY <4>3, <4>4
    <3>3. CASE ~Center!ListPending /\ ~Center!ReceiveStreamed
      <4>1. ~Listed(n) /\ inbox'[n] = inbox[n] /\ listPage.list[n] = inbox[n]
        BY <2>3, <2>6, <2>8, <3>3
      <4>2. ASSUME NEW m \in MarkCalls, Center!ShellMarked(m) \/ Center!PageMarked(m), n = marks[m].id
            PROVE  inbox[n] = "read"
        BY <4>2 DEF Center!ShellMarked, Center!PageMarked, Center!Answered, CenterKnown
      <4>3. \A l \in Loads : ~Center!ListAnswered(l)
        BY <3>3 DEF Center!ListAnswered, Center!ListPending
      <4> QED
        BY <1>2, <3>3, <4>1, <4>2, <4>3, PageSteps
    <3> QED
      BY <3>1, <3>2, <3>3
  <2> QED
    BY <2>4, <2>7, <2>8
<1> QED
  BY <1>1, <1>2

LEMMA CountedRests ==
  ASSUME inbox' = inbox, stream' = stream, marks' = marks
  PROVE  Counted' = Counted /\ (RecordsExact => RecordsExact') /\ (MarksExact => MarksExact')
BY DEF Counted, Announced, MarkedOk, RecordsExact, MarksExact, Center!Marking

(* The counter starts anew when the path changes.                                 *)
LEMMA CounterAfterNavigate ==
  ASSUME Center!TypeOK, Center!OpenPage \/ Center!LeavePage
  PROVE  CounterExact'
<1> SUFFICES ASSUME ~raced'
             PROVE  /\ RecordsExact' /\ MarksExact'
                    /\ load'.stage = "asked"
  BY DEF CounterExact
<1>1. stream = <<>> /\ ~Center!Busy /\ stream' = stream /\ load' = Center!Asked
  BY DEF Center!OpenPage, Center!LeavePage, Center!Navigate, Center!channel
<1>2. \A m \in MarkCalls : marks'[m] = Null
  BY <1>1 DEF Center!Busy, Center!OpenPage, Center!LeavePage
<1>3. RecordsExact'
  BY <1>1 DEF RecordsExact
<1>4. MarksExact'
  BY <1>2 DEF MarksExact
<1> QED
  BY <1>1, <1>3, <1>4 DEF Center!Asked

(* The answer to the list call of the counter, and the service at work on it.     *)
LEMMA CounterAfterLoad ==
  ASSUME Center!TypeOK, CounterExact, Center!BadgeAnswered \/ Center!ServeBadge
  PROVE  CounterExact'
<1> USE DEF Center!channel, Center!history, Center!pageVars
<1> SUFFICES ASSUME ~raced'
             PROVE  CounterExact'
  BY DEF CounterExact
<1>1. ~raced /\ inbox' = inbox /\ stream' = stream /\ marks' = marks
  <2>1. inbox' = inbox /\ stream' = stream /\ marks' = marks
    BY DEF Center!BadgeAnswered, Center!ServeBadge
  <2>2. CASE Center!BadgeAnswered
    BY <2>1, <2>2 DEF Center!BadgeAnswered
  <2>3. CASE Center!ServeBadge
    BY <2>1, <2>3 DEF Center!ServeBadge
  <2> QED
    BY <2>2, <2>3
<1>2. Counted' = Counted /\ RecordsExact' /\ MarksExact'
  BY <1>1, CountedRests DEF CounterExact
<1>3. CASE Center!BadgeAnswered
  <2>1. load.stage = "ok" /\ badge' = load.unread /\ load' = Center!NoLoad
    BY <1>1, <1>3 DEF Center!BadgeAnswered, CounterExact
  <2> QED
    BY <1>1, <1>2, <2>1 DEF CounterExact, Center!NoLoad
<1>4. CASE Center!ServeBadge
  <2>1. stream = <<>> /\ \A m \in MarkCalls : marks[m] # Null => marks[m].stage # "ok"
    BY <1>4 DEF Center!ServeBadge
  <2>2. Counted = {n \in Notes : inbox[n] = "unread"}
    BY <2>1 DEF Counted, Announced, MarkedOk
  <2>3. load' = [stage |-> "ok", unread |-> Cardinality(Counted)]
    BY <1>4, <2>2, UnreadIsCounted DEF Center!ServeBadge
  <2> QED
    BY <1>2, <2>3 DEF CounterExact
<1> QED
  BY <1>3, <1>4

(* A record is counted when the shell receives it.                                *)
LEMMA CounterAfterRecord ==
  ASSUME Center!TypeOK, CounterExact, Center!ReceiveStreamed
  PROVE  CounterExact'
<1> USE DEF Center!history, Center!pageVars
<1> SUFFICES ASSUME ~raced'
             PROVE  CounterExact'
  BY DEF CounterExact
<1>1. ~raced /\ inbox' = inbox /\ marks' = marks /\ load' = load /\ load.stage # "ok"
  BY DEF Center!ReceiveStreamed
<1>2. RecordsExact /\ MarksExact /\ load.stage # "failed"
      /\ (load.stage = "none" => badge = Cardinality(Counted))
  BY <1>1 DEF CounterExact
<1>3. /\ \A i \in 1..Len(stream') : i + 1 \in 1..Len(stream) /\ stream'[i] = stream[i + 1]
      /\ 1 \in 1..Len(stream)
      /\ badge' = IF stream[1].status = "unread" THEN badge + 1 ELSE badge
  BY Received
<1>5. RecordsExact'
  <2>1. \A i \in 1..Len(stream') : stream'[i].status = "unread" =>
          /\ inbox'[stream'[i].id] = "unread"
          /\ ~ \E m \in MarkCalls : marks'[m] # Null /\ marks'[m].id = stream'[i].id
    BY <1>1, <1>2, <1>3 DEF RecordsExact, Center!Marking
  <2>2. ASSUME NEW i \in 1..Len(stream'), NEW j \in 1..Len(stream'),
               stream'[i].id = stream'[j].id, stream'[i].status = "unread",
               stream'[j].status = "unread"
        PROVE  i = j
    <3>1. i + 1 = j + 1
      BY <1>2, <1>3, <2>2 DEF RecordsExact
    <3> QED
      BY <3>1
  <2> QED
    BY <2>1, <2>2 DEF RecordsExact, Center!Marking
<1>6. MarksExact'
  BY <1>1, <1>2 DEF MarksExact
<1>7. \A n \in Notes : MarkedOk(n)' <=> MarkedOk(n)
  BY <1>1 DEF MarkedOk
<1>8. CASE stream[1].status = "unread"
  <2>1. PICK n \in Notes : n = stream[1].id
    BY <1>3, CenterPageTypes
  <2>2. inbox[n] = "unread" /\ ~Center!Marking(n)
    BY <1>2, <1>3, <1>8, <2>1 DEF RecordsExact
  <2>3. ~Announced(n)'
    <3>1. ASSUME NEW i \in 1..Len(stream'), stream'[i].id = n, stream'[i].status = "unread"
          PROVE  FALSE
      <4>1. i + 1 = 1
        BY <1>2, <1>3, <1>8, <2>1, <3>1 DEF RecordsExact
      <4> QED
        BY <4>1
    <3> QED
      BY <3>1 DEF Announced
  <2>4. Announced(n) /\ \A k \in Notes : k # n => (Announced(k)' <=> Announced(k))
    BY <1>8, <2>1, ListedAfter
  <2>5. ~MarkedOk(n)
    BY <2>2 DEF MarkedOk, Center!Marking
  <2>6. n \notin Counted /\ Counted' = Counted \cup {n}
    BY <1>1, <1>7, <2>2, <2>3, <2>4, <2>5 DEF Counted
  <2>7. Cardinality(Counted') = Cardinality(Counted) + 1
    BY <2>6, Countable DEF Counted
  <2> QED
    BY <1>1, <1>2, <1>3, <1>5, <1>6, <1>8, <2>7 DEF CounterExact
<1>9. CASE stream[1].status # "unread"
  <2>1. \A k \in Notes : Announced(k)' <=> Announced(k)
    BY <1>9, ListedAfter
  <2>2. Counted' = Counted
    BY <1>1, <1>7, <2>1 DEF Counted
  <2> QED
    BY <1>1, <1>2, <1>3, <1>5, <1>6, <1>9, <2>2 DEF CounterExact
<1> QED
  BY <1>8, <1>9

(* A delivery is counted once its record is received.                             *)
LEMMA CounterAfterDelivery ==
  ASSUME Center!TypeOK, CenterKnown, CounterExact, NEW n \in Notes, Center!Deliver(n)
  PROVE  CounterExact'
<1> USE DEF Center!shell
<1> SUFFICES ASSUME ~raced'
             PROVE  CounterExact'
  BY DEF CounterExact
<1>1. ~raced /\ streamUp /\ marks' = marks /\ load' = load /\ badge' = badge
  BY DEF Center!Deliver
<1>2. RecordsExact /\ MarksExact
  BY <1>1 DEF CounterExact
<1>3. inbox[n] = "absent" /\ inbox' = [inbox EXCEPT ![n] = "unread"] /\ Center!Send(n, "unread")
  BY DEF Center!Deliver
<1>4. inbox \in [Notes -> Center!Status]
  BY DEF Center!TypeOK
<1>5. PICK c \in Center!Copy : c = [id |-> n, status |-> "unread"]
  BY DEF Center!Copy
<1>6. c.id = n /\ c.status = "unread"
  BY <1>5
<1>7. /\ Len(stream') = Len(stream) + 1 /\ Len(stream) \in Nat
      /\ \A i \in 1..Len(stream) : stream'[i] = stream[i]
      /\ stream'[Len(stream')] = c
  <2>1. Len(stream) \in Nat
    BY CenterPageTypes
  <2>2. /\ Len(stream') = Len(stream) + 1
        /\ \A i \in 1..Len(stream) : stream'[i] = stream[i]
        /\ stream'[Len(stream')] = [id |-> n, status |-> "unread"]
    BY <1>1, <1>3, Sent
  <2> QED
    BY <1>5, <2>1, <2>2
<1>8. \A i \in 1..Len(stream) : stream[i].id # n /\ stream[i].id \in Notes
  BY <1>3, CenterPageTypes DEF CenterKnown
<1>9. \A m \in MarkCalls : marks[m] # Null => marks[m].id # n /\ marks[m].id \in Notes
  BY <1>3, CenterPageTypes DEF CenterKnown
<1>10. RecordsExact'
  <2>1. ASSUME NEW i \in 1..Len(stream'), stream'[i].status = "unread"
        PROVE  /\ inbox'[stream'[i].id] = "unread"
               /\ ~ \E m \in MarkCalls : marks'[m] # Null /\ marks'[m].id = stream'[i].id
    <3>1. CASE i \in 1..Len(stream)
      <4>1. stream'[i] = stream[i] /\ stream[i].id # n /\ stream[i].id \in Notes
        BY <1>7, <1>8, <3>1
      <4>2. /\ inbox[stream[i].id] = "unread"
            /\ ~ \E m \in MarkCalls : marks[m] # Null /\ marks[m].id = stream[i].id
        BY <1>2, <2>1, <3>1, <4>1 DEF RecordsExact, Center!Marking
      <4> QED
        BY <1>1, <1>3, <1>4, <4>1, <4>2
    <3>2. CASE i \notin 1..Len(stream)
      <4>1. i = Len(stream')
        BY <1>7, <3>2
      <4>2. stream'[i].id = n
        BY <1>6, <1>7, <4>1
      <4> QED
        BY <1>1, <1>3, <1>4, <1>9, <4>2
    <3> QED
      BY <3>1, <3>2
  <2>2. ASSUME NEW i \in 1..Len(stream'), NEW j \in 1..Len(stream'),
               stream'[i].id = stream'[j].id, stream'[i].status = "unread",
               stream'[j].status = "unread"
        PROVE  i = j
    <3>1. \A k \in 1..Len(stream') :
            \/ k \in 1..Len(stream) /\ stream'[k] = stream[k] /\ stream'[k].id # n
            \/ k = Len(stream') /\ stream'[k].id = n
      BY <1>6, <1>7, <1>8
    <3> QED
      BY <1>2, <2>2, <3>1 DEF RecordsExact
  <2> QED
    BY <2>1, <2>2 DEF RecordsExact, Center!Marking
<1>11. MarksExact'
  BY <1>1, <1>2, <1>3, <1>4, <1>9 DEF MarksExact
<1>12. Counted' = Counted
  <2>1. \A k \in Notes : Announced(k)' <=> Announced(k) \/ k = n
    BY <1>6, <1>7, ListedAfter
  <2>2. \A k \in Notes : MarkedOk(k)' <=> MarkedOk(k)
    BY <1>1 DEF MarkedOk
  <2>3. ~MarkedOk(n)
    BY <1>9 DEF MarkedOk
  <2>4. \A k \in Notes : (k \in Counted' <=> k \in Counted)
    BY <1>3, <1>4, <2>1, <2>2, <2>3 DEF Counted
  <2> QED
    BY <2>4 DEF Counted
<1> QED
  BY <1>1, <1>10, <1>11, <1>12 DEF CounterExact

(* A mark that is asked for concerns a notification that is unread and counted.   *)
LEMMA CounterAfterAsk ==
  ASSUME Center!TypeOK, CenterKnown, CounterExact,
         NEW by \in {"shell", "page"}, NEW n \in Notes, Center!AskMark(by, n),
         inbox[n] # "absent",
         inbox' = inbox, stream' = stream, load' = load, badge' = badge
  PROVE  CounterExact'
<1> SUFFICES ASSUME ~raced'
             PROVE  CounterExact'
  BY DEF CounterExact
<1>1. ~raced /\ inbox[n] # "read" /\ ~Center!Marking(n) /\ \A i \in 1..Len(stream) : stream[i].id # n
  BY DEF Center!AskMark
<1>2. RecordsExact /\ MarksExact
  BY <1>1 DEF CounterExact
<1>3. inbox[n] = "unread"
  BY <1>1 DEF Center!TypeOK, Center!Status
<1>4. PICK m \in MarkCalls : \E c \in Center!Calls :
           /\ marks[m] = Null /\ marks' = [marks EXCEPT ![m] = c]
           /\ c = [by |-> by, id |-> n, stage |-> "asked", mounted |-> by = "page"]
  BY MarkAsked
<1>5. /\ marks'[m].id = n /\ marks'[m].stage = "asked"
      /\ \A k \in MarkCalls : k # m => marks'[k] = marks[k]
  <2>1. PICK c \in Center!Calls :
           /\ marks' = [marks EXCEPT ![m] = c]
           /\ c = [by |-> by, id |-> n, stage |-> "asked", mounted |-> by = "page"]
    BY <1>4
  <2>2. c.id = n /\ c.stage = "asked"
    BY <2>1
  <2> QED
    BY <2>1, <2>2 DEF Center!TypeOK
<1>6. \A k \in MarkCalls : marks[k] # Null => marks[k].id # n
  BY <1>1 DEF Center!Marking
<1>7. RecordsExact'
  <2>1. \A i \in 1..Len(stream) :
          \A k \in MarkCalls : marks'[k] # Null /\ marks'[k].id = stream[i].id
             => marks[k] # Null /\ marks[k].id = stream[i].id
    BY <1>1, <1>5
  <2> QED
    BY <1>2, <2>1 DEF RecordsExact, Center!Marking
<1>8. MarksExact'
  <2>1. \A k \in MarkCalls : marks'[k] # Null =>
          /\ marks'[k].stage \in {"asked", "ok"}
          /\ marks'[k].stage = "asked" => inbox'[marks'[k].id] = "unread"
    BY <1>2, <1>3, <1>5 DEF MarksExact
  <2>2. \A k1, k2 \in MarkCalls :
          marks'[k1] # Null /\ marks'[k2] # Null /\ marks'[k1].id = marks'[k2].id => k1 = k2
    BY <1>2, <1>5, <1>6 DEF MarksExact
  <2> QED
    BY <2>1, <2>2 DEF MarksExact
<1>9. Counted' = Counted
  <2>1. \A k \in Notes : MarkedOk(k)' <=> MarkedOk(k)
    BY <1>4, <1>5 DEF MarkedOk
  <2>2. \A k \in Notes : Announced(k)' <=> Announced(k)
    BY DEF Announced
  <2> QED
    BY <2>1, <2>2 DEF Counted
<1> QED
  BY <1>1, <1>7, <1>8, <1>9 DEF CounterExact

(* A mark stays counted between the service and the browser.                       *)
LEMMA CounterAfterServe ==
  ASSUME Center!TypeOK, StreamTells, CenterKnown, CounterExact,
         NEW m \in MarkCalls, Center!ServeMark(m)
  PROVE  CounterExact'
<1> USE DEF Center!shell, Center!history
<1> SUFFICES ASSUME ~raced'
             PROVE  CounterExact'
  BY DEF CounterExact
<1>1. raced' = raced /\ load' = load /\ badge' = badge
  BY DEF Center!ServeMark
<1>2. RecordsExact /\ MarksExact
  BY <1>1 DEF CounterExact
<1>3. PICK n \in Notes : n = marks[m].id
  BY CenterPageTypes DEF Center!ServeMark
<1>4. /\ marks[m] # Null /\ marks[m].stage = "asked" /\ inbox[n] = "unread"
      /\ inbox' = [inbox EXCEPT ![n] = "read"] /\ Center!Send(n, "read")
  BY <1>2, <1>3 DEF Center!ServeMark, MarksExact
<1>5. inbox \in [Notes -> Center!Status]
  BY DEF Center!TypeOK
<1>6. /\ marks'[m] # Null /\ marks'[m].id = n /\ marks'[m].stage = "ok"
      /\ \A k \in MarkCalls : k # m => marks'[k] = marks[k]
  <2>1. marks \in [MarkCalls -> Center!Calls \cup {Null}] /\ marks[m] \in Center!Calls
    BY <1>4 DEF Center!TypeOK
  <2>2. marks' = [marks EXCEPT ![m].stage = "ok"]
    BY DEF Center!ServeMark
  <2>3. [marks[m] EXCEPT !.stage = "ok"] \in Center!Calls
    BY <2>1 DEF Center!Calls
  <2>4. marks'[m] \in Center!Calls /\ marks'[m].id = n /\ marks'[m].stage = "ok"
    BY <1>3, <2>1, <2>2, <2>3 DEF Center!Calls
  <2> QED
    BY <2>1, <2>2, <2>4, CenterValues
<1>7. \A k \in MarkCalls : k # m /\ marks[k] # Null => marks[k].id # n /\ marks[k].id \in Notes
  BY <1>2, <1>3, <1>4, CenterPageTypes DEF MarksExact
<1>8. /\ Len(stream) \in Nat
      /\ \A i \in 1..Len(stream) : i \in 1..Len(stream') /\ stream'[i] = stream[i]
      /\ \A i \in 1..Len(stream') :
           \/ i \in 1..Len(stream)
           \/ stream'[i].id = n /\ stream'[i].status = "read"
  <2>3. Len(stream) \in Nat
    BY CenterPageTypes
  <2>1. CASE streamUp
    <3>1. /\ Len(stream') = Len(stream) + 1
          /\ \A i \in 1..Len(stream) : stream'[i] = stream[i]
          /\ stream'[Len(stream')] = [id |-> n, status |-> "read"]
      BY <1>4, <2>1, Sent
    <3>2. stream'[Len(stream')].id = n /\ stream'[Len(stream')].status = "read"
      BY <3>1
    <3> QED
      BY <2>3, <3>1, <3>2
  <2>2. CASE ~streamUp
    <3>1. stream' = stream
      BY <1>4, <2>2, Sent
    <3> QED
      BY <2>3, <3>1
  <2> QED
    BY <2>1, <2>2
<1>9. \A i \in 1..Len(stream) : stream[i].status = "unread" => stream[i].id # n
  BY <1>2, <1>3, <1>4 DEF RecordsExact, Center!Marking
<1>10. RecordsExact'
  <2>1. ASSUME NEW i \in 1..Len(stream'), stream'[i].status = "unread"
        PROVE  /\ i \in 1..Len(stream) /\ stream'[i] = stream[i]
               /\ inbox'[stream'[i].id] = "unread"
               /\ ~ \E k \in MarkCalls : marks'[k] # Null /\ marks'[k].id = stream'[i].id
    <3>1. /\ i \in 1..Len(stream) /\ stream'[i] = stream[i]
          /\ stream[i].id # n /\ stream[i].id \in Notes
      BY <1>8, <1>9, <2>1, CenterPageTypes
    <3>2. /\ inbox[stream[i].id] = "unread"
          /\ ~ \E k \in MarkCalls : marks[k] # Null /\ marks[k].id = stream[i].id
      BY <1>2, <2>1, <3>1 DEF RecordsExact, Center!Marking
    <3>3. inbox'[stream[i].id] = "unread"
      BY <1>4, <1>5, <3>1, <3>2
    <3> QED
      BY <1>6, <3>1, <3>2, <3>3
  <2>2. \A i, j \in 1..Len(stream') :
          stream'[i].id = stream'[j].id /\ stream'[i].status = "unread"
            /\ stream'[j].status = "unread" => i = j
    BY <1>2, <2>1 DEF RecordsExact
  <2> QED
    BY <2>1, <2>2 DEF RecordsExact, Center!Marking
<1>11. MarksExact'
  <2>1. \A k \in MarkCalls : marks'[k] # Null =>
          /\ marks'[k].stage \in {"asked", "ok"}
          /\ marks'[k].stage = "asked" => inbox'[marks'[k].id] = "unread"
    BY <1>2, <1>4, <1>5, <1>6, <1>7 DEF MarksExact
  <2>2. \A k1, k2 \in MarkCalls :
          marks'[k1] # Null /\ marks'[k2] # Null /\ marks'[k1].id = marks'[k2].id => k1 = k2
    BY <1>2, <1>6, <1>7 DEF MarksExact
  <2> QED
    BY <2>1, <2>2 DEF MarksExact
<1>12. Counted' = Counted
  <2>1. \A k \in Notes : MarkedOk(k)' <=> MarkedOk(k) \/ k = n
    BY <1>3, <1>4, <1>6 DEF MarkedOk
  <2>2. \A k \in Notes : Announced(k)' <=> Announced(k)
    BY <1>8 DEF Announced
  <2>3. ~Announced(n)
    BY <1>9 DEF Announced
  <2>4. \A k \in Notes : k \in Counted' <=> k \in Counted
    BY <1>4, <1>5, <2>1, <2>2, <2>3 DEF Counted
  <2> QED
    BY <2>4 DEF Counted
<1> QED
  BY <1>1, <1>10, <1>11, <1>12 DEF CounterExact

(* The answer to a mark takes the notification off the counter.                    *)
LEMMA CounterAfterMark ==
  ASSUME Center!TypeOK, CenterKnown, CounterExact, NEW m \in MarkCalls, NEW by,
         Center!Answered(m, by), inbox' = inbox, stream' = stream, load' = load
  PROVE  CounterExact'
<1> SUFFICES ASSUME ~raced'
             PROVE  CounterExact'
  BY DEF CounterExact
<1>1. ~raced /\ load.stage # "ok"
  BY DEF Center!Answered
<1>2. RecordsExact /\ MarksExact /\ load.stage # "failed"
      /\ (load.stage = "none" => badge = Cardinality(Counted))
  BY <1>1 DEF CounterExact
<1>3. PICK n \in Notes : n = marks[m].id
  BY CenterPageTypes DEF Center!Answered
<1>4. marks[m] # Null /\ marks[m].stage = "ok" /\ inbox[n] = "read"
  BY <1>3 DEF Center!Answered, CenterKnown
<1>5. marks'[m] = Null /\ \A k \in MarkCalls : k # m => marks'[k] = marks[k]
  BY DEF Center!Answered, Center!TypeOK
<1>6. \A k \in MarkCalls : marks'[k] # Null => marks'[k] = marks[k] /\ marks[k] # Null /\ marks[k].id # n
  BY <1>2, <1>3, <1>4, <1>5 DEF MarksExact
<1>7. RecordsExact'
  BY <1>2, <1>6 DEF RecordsExact, Center!Marking
<1>8. MarksExact'
  BY <1>2, <1>6 DEF MarksExact
<1>9. n \in Counted /\ Counted' = Counted \ {n}
  <2>1. \A k \in Notes : MarkedOk(k) <=> MarkedOk(k)' \/ k = n
    BY <1>3, <1>4, <1>5, <1>6 DEF MarkedOk
  <2>2. ~MarkedOk(n)'
    BY <1>6 DEF MarkedOk
  <2>3. \A k \in Notes : Announced(k)' <=> Announced(k)
    BY DEF Announced
  <2> QED
    BY <1>4, <2>1, <2>2, <2>3 DEF Counted
<1>10. Cardinality(Counted') = Cardinality(Counted) - 1 /\ Cardinality(Counted) > 0
       /\ Cardinality(Counted) \in Nat
  BY <1>9, Countable DEF Counted
<1>11. badge' = IF badge = 0 THEN 0 ELSE badge - 1
  BY DEF Center!Answered, Center!HandleNotificationRead
<1> QED
  BY <1>1, <1>2, <1>7, <1>8, <1>10, <1>11 DEF CounterExact

(* Steps that neither the counter nor what it counts takes part in, and steps that     *)
(* count as a race.                                                                     *)
LEMMA CounterStands ==
  ASSUME Center!TypeOK, CounterExact,
         raced' = raced, inbox' = inbox, stream' = stream, marks' = marks,
         load' = load, badge' = badge
  PROVE  CounterExact'
BY CountedRests DEF CounterExact

LEMMA CounterKept ==
  ASSUME Center!TypeOK, CenterKnown, StreamTells, CounterExact, Center!Next
  PROVE  CounterExact'
<1> USE DEF Center!shell, Center!pageVars, Center!channel, Center!history, Center!bounds
<1>1. CASE Center!OpenPage \/ Center!LeavePage
  BY <1>1, CounterAfterNavigate
<1>2. CASE Center!BadgeAnswered \/ Center!ServeBadge
  BY <1>2, CounterAfterLoad
<1>3. CASE Center!ReceiveStreamed
  BY <1>3, CounterAfterRecord
<1>4. CASE Center!HideToast \/ Center!ReloadList
  BY <1>4, CounterStands DEF Center!HideToast, Center!ReloadList
<1>5. CASE Center!OpenToast
  <2>1. /\ latest # Null /\ latest.id \in Notes /\ inbox[latest.id] # "absent"
        /\ inbox' = inbox /\ stream' = stream /\ load' = load /\ badge' = badge
    BY <1>5, CenterPageTypes DEF Center!OpenToast, Center!TypeOK, CenterKnown, Center!Copy
  <2>2. CASE latest.status = "unread"
    <3>1. Center!AskMark("shell", latest.id)
      BY <1>5, <2>2 DEF Center!OpenToast
    <3> QED
      BY <2>1, <3>1, CounterAfterAsk
  <2>3. CASE latest.status # "unread"
    <3>1. marks' = marks /\ raced' = raced
      BY <1>5, <2>3 DEF Center!OpenToast
    <3> QED
      BY <2>1, <3>1, CounterStands
  <2> QED
    BY <2>2, <2>3
<1>6. CASE Center!MarkReadOnPage
  <2>1. PICK n \in Notes : listPage.list[n] = "unread" /\ Center!AskMark("page", n)
    BY <1>6 DEF Center!MarkReadOnPage
  <2>2. /\ inbox[n] # "absent" /\ inbox' = inbox /\ stream' = stream
        /\ load' = load /\ badge' = badge
    BY <1>6, <2>1 DEF Center!MarkReadOnPage, CenterKnown
  <2> QED
    BY <2>1, <2>2, CounterAfterAsk
<1>7. ASSUME NEW m \in MarkCalls, Center!ShellMarked(m)
      PROVE  CounterExact'
  <2>1. /\ Center!Answered(m, "shell")
        /\ inbox' = inbox /\ stream' = stream /\ load' = load
    BY <1>7 DEF Center!ShellMarked
  <2> QED
    BY <2>1, CounterAfterMark
<1>8. ASSUME NEW m \in MarkCalls, Center!PageMarked(m)
      PROVE  CounterExact'
  <2>1. /\ Center!Answered(m, "page")
        /\ inbox' = inbox /\ stream' = stream /\ load' = load
    BY <1>8 DEF Center!PageMarked
  <2> QED
    BY <2>1, CounterAfterMark
<1>9. ASSUME NEW m \in MarkCalls, Center!ServeMark(m)
      PROVE  CounterExact'
  BY <1>9, CounterAfterServe
<1>10. ASSUME NEW m \in MarkCalls, Center!MarkFailed(m)
       PROVE  CounterExact'
  <2>1. raced
    BY <1>10 DEF Center!MarkFailed, CounterExact, MarksExact
  <2>2. raced' = raced
    BY <1>10 DEF Center!MarkFailed
  <2> QED
    BY <2>1, <2>2 DEF CounterExact
<1>11. ASSUME NEW m \in MarkCalls, Center!MarkFails(m)
       PROVE  raced'
  BY <1>11 DEF Center!MarkFails
<1>12. ASSUME NEW l \in Loads, Center!ListAnswered(l) \/ Center!ServeList(l) \/ Center!ListFails(l)
       PROVE  CounterExact'
  <2>1. /\ raced' = raced /\ inbox' = inbox /\ stream' = stream /\ marks' = marks
        /\ load' = load /\ badge' = badge
    BY <1>12 DEF Center!ListAnswered, Center!ServeList, Center!ListFails
  <2> QED
    BY <2>1, CounterStands
<1>13. ASSUME NEW n \in Notes, Center!Deliver(n)
       PROVE  CounterExact'
  BY <1>13, CounterAfterDelivery
<1>14. ASSUME NEW n \in Notes, Center!ReadElsewhere(n)
       PROVE  raced'
  BY <1>14 DEF Center!ReadElsewhere
<1>15. CASE Center!BadgeFails
  BY <1>15 DEF Center!BadgeFails, CounterExact
<1>16. CASE Center!StreamBreaks
  <2>1. /\ raced' = (raced \/ stream # <<>>) /\ stream' = <<>>
        /\ inbox' = inbox /\ marks' = marks /\ load' = load /\ badge' = badge
    BY <1>16 DEF Center!StreamBreaks
  <2>2. CASE stream = <<>> /\ ~raced
    <3>1. Counted' = Counted /\ RecordsExact' /\ MarksExact'
      BY <2>1, <2>2, CountedRests DEF CounterExact
    <3> QED
      BY <2>1, <2>2, <3>1 DEF CounterExact
  <2>3. CASE stream # <<>> \/ raced
    <3>1. raced'
      BY <2>1, <2>3
    <3> QED
      BY <3>1 DEF CounterExact
  <2> QED
    BY <2>2, <2>3
<1>17. raced' => CounterExact'
  BY DEF CounterExact
<1> QED
  BY <1>1, <1>2, <1>3, <1>4, <1>5, <1>6, <1>7, <1>8, <1>9, <1>10, <1>11, <1>12, <1>13, <1>14,
     <1>15, <1>16, <1>17 DEF Center!Next

LEMMA CenterInit == Center!Init => CenterInv
<1> SUFFICES ASSUME Center!Init
             PROVE  CenterInv
  OBVIOUS
<1>1. /\ stream = <<>> /\ streamUp = TRUE /\ latest = Null /\ listPage = Null
      /\ load = Center!Asked /\ \A m \in MarkCalls : marks[m] = Null
      /\ \A l \in Loads : loads[l] = Center!NoLoad
  BY DEF Center!Init
<1>2. Center!TypeOK
  <2>1. inbox \in [Notes -> Center!Status]
    BY DEF Center!Init, Center!Status
  <2>2. stream \in Seq(Center!Copy)
    BY <1>1
  <2>3. ~Center!ListPending
    BY <1>1 DEF Center!ListPending, Center!NoLoad
  <2> QED
    BY <2>1, <2>2, <2>3 DEF Center!Init, Center!TypeOK, Center!Asked, Center!NoLoad
<1>3. CenterKnown
  BY <1>1 DEF CenterKnown, Center!NoLoad
<1>4. StreamTells
  BY <1>1 DEF StreamTells
<1>5. CounterExact
  <2>1. RecordsExact
    BY <1>1 DEF RecordsExact
  <2>2. MarksExact
    BY <1>1 DEF MarksExact
  <2> QED
    BY <1>1, <2>1, <2>2 DEF CounterExact, Center!Asked
<1>6. ListsExact
  BY <1>1 DEF ListsExact
<1> QED
  BY <1>2, <1>3, <1>4, <1>5, <1>6 DEF CenterInv

LEMMA CenterStep == CenterInv /\ Center!Next => CenterInv'
BY CenterTypes, KnownKept, TellsKept, CounterKept, ListsKept DEF CenterInv

LEMMA CenterRests == ASSUME CenterInv, UNCHANGED center PROVE CenterInv'
<1>1. /\ inbox' = inbox /\ stream' = stream /\ streamUp' = streamUp /\ badge' = badge
      /\ load' = load /\ latest' = latest /\ toast' = toast /\ lastRead' = lastRead
      /\ listPage' = listPage /\ loads' = loads /\ marks' = marks
      /\ centerClicks' = centerClicks /\ centerFaults' = centerFaults
      /\ raced' = raced /\ listRaced' = listRaced
  BY DEF center
<1>2. /\ Center!ListPending' <=> Center!ListPending
      /\ \A n : Listed(n)' <=> Listed(n)
  BY <1>1 DEF Center!ListPending, Listed
<1>3. Center!TypeOK'
  BY <1>1, <1>2 DEF CenterInv, Center!TypeOK
<1>4. CenterKnown' /\ StreamTells'
  BY <1>1 DEF CenterInv, CenterKnown, StreamTells
<1>5. CounterExact'
  BY <1>1, CounterStands DEF CenterInv
<1>6. ListsExact'
  BY <1>1, <1>2 DEF CenterInv, ListsExact
<1> QED
  BY <1>3, <1>4, <1>5, <1>6 DEF CenterInv

(* What the properties of the centre say follows from the invariant.              *)
LEMMA CenterMeans == CenterInv => Center!BadgeExact /\ Center!ListExact
<1> SUFFICES ASSUME CenterInv
             PROVE  Center!BadgeExact /\ Center!ListExact
  OBVIOUS
<1>1. ASSUME ~raced, load.stage = "none", ~Center!Busy, stream = <<>>
      PROVE  badge = Center!Unread
  <2>1. \A m \in MarkCalls : marks[m] = Null
    BY <1>1 DEF Center!Busy
  <2>2. Counted = {n \in Notes : inbox[n] = "unread"}
    BY <1>1, <2>1 DEF Counted, Announced, MarkedOk
  <2> QED
    BY <1>1, <2>2, UnreadIsCounted DEF CenterInv, CounterExact
<1>2. ASSUME listPage # Null, ~listRaced, ~Center!ListPending, stream = <<>>
      PROVE  listPage.list = inbox
  <2>1. \A n \in Notes : listPage.list[n] = inbox[n]
    BY <1>2 DEF CenterInv, ListsExact, Listed
  <2>2. listPage.list \in [Notes -> Center!Status] /\ inbox \in [Notes -> Center!Status]
    BY <1>2 DEF CenterInv, Center!TypeOK, Center!Pages
  <2> QED
    BY <2>1, <2>2
<1> QED
  BY <1>1, <1>2 DEF Center!BadgeExact, Center!ListExact

(* No step of the centre takes a notification off the list.                        *)
LEMMA NothingGoes ==
  ASSUME CenterInv, Center!Next, listPage # Null, listPage' # Null, ~listRaced',
         NEW n \in Notes, listPage.list[n] # "absent"
  PROVE  listPage'.list[n] # "absent"
<1>1. ~Center!OpenPage
  BY DEF Center!OpenPage
<1>2. ~listRaced
  BY <1>1, ListHistory
<1>3. ASSUME NEW l \in Loads, Center!ListAnswered(l)
      PROVE  loads[l].stage = "ok" /\ loads[l].list[n] # "absent"
  BY <1>2, <1>3 DEF CenterInv, ListsExact, Center!ListAnswered
<1>4. CASE Center!ReceiveStreamed
  <2>1. stream[1] \in Center!Copy
    BY <1>4, Received DEF CenterInv
  <2>2. stream[1].status # "absent"
    BY <2>1 DEF Center!Copy
  <2> QED
    BY <1>1, <1>3, <1>4, <2>2, PageSteps DEF CenterInv
<1>5. CASE ~Center!ReceiveStreamed
  BY <1>1, <1>3, <1>5, PageSteps DEF CenterInv
<1> QED
  BY <1>4, <1>5

-----------------------------------------------------------------------------
(* The project page.                                                             *)

LEMMA ProjectTaskType ==
  ASSUME ProjectTyped, NEW k \in Project!Running
  PROVE  /\ k \in Tasks /\ ProjectTask(projectTasks[k])
         /\ projectTasks[k].mounted => projectPage # Null /\ projectPage \in Project!PageState
BY DEF ProjectTyped, ProjectTask, Project!Running, Project!NoTask, Project!TypeOK

LEMMA ProjectIsTask ==
  ASSUME NEW t, ProjectTask(t)
  PROVE  /\ t # Project!NoTask /\ t.kind # "none" /\ t.mounted \in BOOLEAN
         /\ t.kind \in {"load", "create", "submit"} \cup SaveKinds \cup MemberKinds
         /\ t.phase \in {"asked", "done", "failed"} \cup Loading
         /\ t.rows \in [AllTeams -> Project!Row] \cup {Null}
         /\ t.project \in {OwnProject, OtherProject}
<1>1. /\ t.kind \in {"load", "create", "submit"} \cup SaveKinds \cup MemberKinds
      /\ t.phase \in ProjectPhases(t.kind)
      /\ t.rows \in [AllTeams -> Project!Row] \cup {Null}
      /\ t.project \in {OwnProject, OtherProject} /\ t.mounted \in BOOLEAN
  BY DEF ProjectTask
<1>2. t.kind # "none" /\ t # Project!NoTask
  BY <1>1 DEF SaveKinds, MemberKinds, Project!NoTask
<1> QED
  BY <1>1, <1>2 DEF ProjectPhases

LEMMA ProjectSlot ==
  ASSUME ProjectTyped, Project!Running # Tasks
  PROVE  Project!Slot \in Tasks /\ projectTasks[Project!Slot] = Project!NoTask
<1>1. \E k \in Tasks : projectTasks[k] = Project!NoTask
  BY ProjectIsTask DEF ProjectTyped, Project!Running
<1> QED
  BY <1>1 DEF Project!Slot

(* One task starts, takes another step, or ends; the others go on as they are.   *)
LEMMA ProjectOthers ==
  ASSUME ProjectTyped, NEW k \in Tasks, NEW t, projectTasks' = [projectTasks EXCEPT ![k] = t]
  PROVE  /\ DOMAIN projectTasks' = Tasks /\ projectTasks'[k] = t
         /\ \A j \in Tasks \ {k} :
              /\ projectTasks'[j] = projectTasks[j]
              /\ Project!Attached(j)' <=> Project!Attached(j)
              /\ Project!Loading(j)' <=> Project!Loading(j)
              /\ j \in Project!Running' <=> j \in Project!Running
              /\ j \in Project!Mattering' <=> j \in Project!Mattering
         /\ Project!Attached(k)' <=> t.kind # "none" /\ t.mounted
         /\ Project!Loading(k)' <=> t.kind # "none" /\ t.mounted /\ t.phase \in Loading
         /\ k \in Project!Running' <=> t.kind # "none"
         /\ k \in Project!Mattering' <=>
              t.kind # "none" /\ (t.mounted \/ t.phase \in {"asked", "done", "failed"})
         /\ Project!Running' \subseteq Tasks /\ Project!Mattering' \subseteq Tasks
<1>1. DOMAIN projectTasks = Tasks
  BY DEF ProjectTyped
<1>2. /\ DOMAIN projectTasks' = Tasks /\ projectTasks'[k] = t
      /\ \A j \in Tasks \ {k} : projectTasks'[j] = projectTasks[j]
  BY <1>1
<1>3. \A j \in Tasks \ {k} : /\ Project!Attached(j)' <=> Project!Attached(j)
                             /\ Project!Loading(j)' <=> Project!Loading(j)
  BY <1>2 DEF Project!Attached, Project!Loading
<1>4. \A j \in Tasks \ {k} : j \in Project!Running' <=> j \in Project!Running
  BY <1>2 DEF Project!Running
<1>5. \A j \in Tasks \ {k} : j \in Project!Mattering' <=> j \in Project!Mattering
  BY <1>2, <1>4 DEF Project!Mattering
<1>6. /\ Project!Attached(k)' <=> t.kind # "none" /\ t.mounted
      /\ Project!Loading(k)' <=> t.kind # "none" /\ t.mounted /\ t.phase \in Loading
  BY <1>2 DEF Project!Attached, Project!Loading, Loading
<1>7. k \in Project!Running' <=> t.kind # "none"
  BY <1>2 DEF Project!Running
<1>8. k \in Project!Mattering' <=>
        t.kind # "none" /\ (t.mounted \/ t.phase \in {"asked", "done", "failed"})
  BY <1>2, <1>7 DEF Project!Mattering
<1> QED
  BY <1>2, <1>3, <1>4, <1>5, <1>6, <1>7, <1>8 DEF Project!Running, Project!Mattering

LEMMA ProjectTypedIntro ==
  ASSUME ProjectTyped, UNCHANGED projectRole,
         projectRows' \in [AllTeams -> Project!Row], projectPage' \in Project!PageState \cup {Null},
         projectBounds' \in ProjectBounds, projectFlags' \in ProjectFlags,
         DOMAIN projectTasks' = Tasks,
         \A j \in Tasks : projectTasks'[j] = Project!NoTask \/ ProjectTask(projectTasks'[j]),
         \A j \in Project!Running' : projectTasks'[j].mounted => projectPage' # Null
  PROVE  ProjectTyped'
<1>1. ASSUME NEW k \in Project!Running'
      PROVE  /\ projectTasks'[k].kind \in {"load", "save", "saveAll", "create", "add", "leave", "remove", "submit"}
             /\ projectTasks'[k].phase \in {"asked", "done", "failed", "reload", "loaded", "loadFailed"}
             /\ projectTasks'[k].rows \in [AllTeams -> Project!Row] \cup {Null}
  <2>1. PICK t : t = projectTasks'[k] /\ ProjectTask(t)
    BY DEF Project!Running, Project!NoTask
  <2> QED
    BY <2>1, ProjectIsTask DEF SaveKinds, MemberKinds, Loading
<1>2. Project!TypeOK'
  BY <1>1 DEF Project!TypeOK, AllTeams
<1>3. (\A k \in Tasks : projectTasks[k] = Project!NoTask \/ ProjectTask(projectTasks[k]))'
  BY DEF ProjectTask
<1> QED
  BY <1>2, <1>3 DEF ProjectTyped

(* The types of the page's state, for a step that leaves some of it.              *)
LEMMA ProjectTypes ==
  ASSUME ProjectInv
  PROVE  /\ ProjectTyped /\ DOMAIN projectTasks = Tasks
         /\ projectRows \in [AllTeams -> Project!Row]
         /\ projectPage \in Project!PageState \cup {Null}
         /\ projectBounds \in ProjectBounds /\ projectFlags \in ProjectFlags
BY DEF ProjectInv, ProjectTyped, Project!TypeOK, AllTeams

LEMMA ProjectTaskStep ==
  ASSUME ProjectTyped, NEW k \in Tasks, NEW t, t = Project!NoTask \/ ProjectTask(t),
         t # Project!NoTask /\ t.mounted => projectPage' # Null,
         projectTasks' = [projectTasks EXCEPT ![k] = t], UNCHANGED projectRole,
         projectRows' \in [AllTeams -> Project!Row], projectPage' \in Project!PageState \cup {Null},
         projectPage # Null => projectPage' # Null,
         projectBounds' \in ProjectBounds, projectFlags' \in ProjectFlags
  PROVE  ProjectTyped'
<1>1. /\ DOMAIN projectTasks' = Tasks /\ projectTasks'[k] = t
      /\ Project!Running' \subseteq Tasks
      /\ \A j \in Tasks \ {k} : /\ projectTasks'[j] = projectTasks[j]
                                /\ j \in Project!Running' <=> j \in Project!Running
  BY ProjectOthers
<1>2. \A j \in Tasks : projectTasks'[j] = Project!NoTask \/ ProjectTask(projectTasks'[j])
  BY <1>1 DEF ProjectTyped
<1>3. ASSUME NEW j \in Project!Running', projectTasks'[j].mounted
      PROVE  projectPage' # Null
  <2>1. CASE j = k
    BY <1>1, <1>3, <2>1 DEF Project!Running, Project!NoTask
  <2>2. CASE j # k
    BY <1>1, <1>3, <2>2, ProjectTaskType
  <2> QED
    BY <2>1, <2>2
<1> QED
  BY <1>1, <1>2, <1>3, ProjectTypedIntro

(* A page that waits has a task of the kind to wait for: the one that takes the step,   *)
(* or one that it waited for before.                                                      *)
LEMMA ProjectWaited ==
  ASSUME ProjectTyped, NEW k \in Tasks, NEW t, projectTasks' = [projectTasks EXCEPT ![k] = t],
         NEW kinds, "none" \notin kinds,
         \/ t.kind \in kinds /\ t.mounted
         \/ /\ \E j \in Tasks : Project!Attached(j) /\ projectTasks[j].kind \in kinds
            /\ ~(Project!Attached(k) /\ projectTasks[k].kind \in kinds)
  PROVE  \E j \in Tasks : Project!Attached(j)' /\ projectTasks'[j].kind \in kinds
<1>1. CASE t.kind \in kinds /\ t.mounted
  BY <1>1, ProjectOthers
<1>2. CASE /\ \E j \in Tasks : Project!Attached(j) /\ projectTasks[j].kind \in kinds
           /\ ~(Project!Attached(k) /\ projectTasks[k].kind \in kinds)
  <2>1. PICK j \in Tasks : Project!Attached(j) /\ projectTasks[j].kind \in kinds
    BY <1>2
  <2>2. j \in Tasks \ {k}
    BY <1>2, <2>1
  <2>3. Project!Attached(j)' /\ projectTasks'[j] = projectTasks[j]
    BY <2>1, <2>2, ProjectOthers
  <2> QED
    BY <2>1, <2>3
<1> QED
  BY <1>1, <1>2

LEMMA ProjectNotStuck ==
  ASSUME ProjectTyped, Project!NeverStuck, NEW k \in Tasks, NEW t,
         projectTasks' = [projectTasks EXCEPT ![k] = t],
         projectPage' # Null /\ projectPage'.loading =>
           \/ t.kind # "none" /\ t.mounted /\ t.phase \in Loading
           \/ projectPage # Null /\ projectPage.loading /\ ~Project!Loading(k),
         projectPage' # Null /\ projectPage'.saving =>
           \/ t.kind \in {"save", "saveAll"} /\ t.mounted
           \/ /\ projectPage # Null /\ projectPage.saving
              /\ ~(Project!Attached(k) /\ projectTasks[k].kind \in {"save", "saveAll"}),
         projectPage' # Null /\ projectPage'.creating =>
           \/ t.kind \in {"create"} /\ t.mounted
           \/ /\ projectPage # Null /\ projectPage.creating
              /\ ~(Project!Attached(k) /\ projectTasks[k].kind \in {"create"}),
         projectPage' # Null /\ projectPage'.submitting =>
           \/ t.kind \in {"submit"} /\ t.mounted
           \/ /\ projectPage # Null /\ projectPage.submitting
              /\ ~(Project!Attached(k) /\ projectTasks[k].kind \in {"submit"})
  PROVE  Project!NeverStuck'
<1>1. ASSUME projectPage' # Null, projectPage'.loading
      PROVE  \E j \in Tasks : Project!Loading(j)'
  <2>1. CASE t.kind # "none" /\ t.mounted /\ t.phase \in Loading
    BY <2>1, ProjectOthers
  <2>2. CASE projectPage # Null /\ projectPage.loading /\ ~Project!Loading(k)
    <3>1. PICK j \in Tasks : Project!Loading(j)
      BY <2>2 DEF Project!NeverStuck
    <3>2. j \in Tasks \ {k}
      BY <2>2, <3>1
    <3> QED
      BY <3>1, <3>2, ProjectOthers
  <2> QED
    BY <1>1, <2>1, <2>2
<1>2. projectPage # Null =>
        /\ projectPage.saving =>
             \E j \in Tasks : Project!Attached(j) /\ projectTasks[j].kind \in {"save", "saveAll"}
        /\ projectPage.creating => \E j \in Tasks : Project!Attached(j) /\ projectTasks[j].kind \in {"create"}
        /\ projectPage.submitting => \E j \in Tasks : Project!Attached(j) /\ projectTasks[j].kind \in {"submit"}
  BY DEF Project!NeverStuck
<1>3. projectPage' # Null /\ projectPage'.saving =>
        \E j \in Tasks : Project!Attached(j)' /\ projectTasks'[j].kind \in {"save", "saveAll"}
  BY <1>2, ProjectWaited
<1>4. projectPage' # Null /\ projectPage'.creating =>
        \E j \in Tasks : Project!Attached(j)' /\ projectTasks'[j].kind \in {"create"}
  BY <1>2, ProjectWaited
<1>5. projectPage' # Null /\ projectPage'.submitting =>
        \E j \in Tasks : Project!Attached(j)' /\ projectTasks'[j].kind \in {"submit"}
  BY <1>2, ProjectWaited
<1> QED
  BY <1>1, <1>3, <1>4, <1>5 DEF Project!NeverStuck

(* A teacher's page starts to wait for a task when it waits for none.            *)
LEMMA TeacherStillWaits ==
  ASSUME ProjectTyped, TeacherWaits, NEW k \in Tasks, NEW t,
         projectTasks' = [projectTasks EXCEPT ![k] = t], UNCHANGED projectRole,
         projectRole = "teacher" /\ ~projectFlags'.moved =>
           /\ ~projectFlags.moved
           /\ t.kind # "none" /\ t.mounted =>
                /\ Project!Attached(k) \/ \A j \in Tasks : ~Project!Attached(j)
                /\ t.phase \in Loading => projectPage'.loading
                /\ t.kind \in SaveKinds => projectPage'.saving
           /\ ~Project!Attached(k) /\ ~(t.kind # "none" /\ t.mounted) =>
                projectPage'.loading = projectPage.loading /\ projectPage'.saving = projectPage.saving
  PROVE  TeacherWaits'
<1> SUFFICES ASSUME projectRole = "teacher", ~projectFlags'.moved
             PROVE  /\ \A k1, k2 \in Tasks : Project!Attached(k1)' /\ Project!Attached(k2)' => k1 = k2
                    /\ \A j \in Tasks : Project!Loading(j)' => projectPage'.loading
                    /\ \A j \in Tasks : Project!Attached(j)' /\ projectTasks'[j].kind \in SaveKinds =>
                         projectPage'.saving
  BY DEF TeacherWaits
<1>1. /\ \A k1, k2 \in Tasks : Project!Attached(k1) /\ Project!Attached(k2) => k1 = k2
      /\ \A j \in Tasks : Project!Loading(j) => projectPage.loading
      /\ \A j \in Tasks : Project!Attached(j) /\ projectTasks[j].kind \in SaveKinds => projectPage.saving
  BY DEF TeacherWaits
<1>2. /\ projectTasks'[k] = t
      /\ \A j \in Tasks \ {k} :
           /\ projectTasks'[j] = projectTasks[j]
           /\ Project!Attached(j)' <=> Project!Attached(j)
           /\ Project!Loading(j)' <=> Project!Loading(j)
      /\ Project!Attached(k)' <=> t.kind # "none" /\ t.mounted
      /\ Project!Loading(k)' <=> t.kind # "none" /\ t.mounted /\ t.phase \in Loading
  BY ProjectOthers
<1>3. \A j \in Tasks : Project!Loading(j) => Project!Attached(j)
  BY DEF Project!Loading
<1>4. ASSUME NEW k1 \in Tasks, NEW k2 \in Tasks, Project!Attached(k1)', Project!Attached(k2)'
      PROVE  k1 = k2
  BY <1>1, <1>2, <1>4
<1>5. ASSUME NEW j \in Tasks, j # k, Project!Attached(j)
      PROVE  projectPage'.loading = projectPage.loading /\ projectPage'.saving = projectPage.saving
  BY <1>1, <1>5
<1>6. ASSUME NEW j \in Tasks, Project!Loading(j)'
      PROVE  projectPage'.loading
  BY <1>1, <1>2, <1>3, <1>5, <1>6
<1>7. ASSUME NEW j \in Tasks, Project!Attached(j)', projectTasks'[j].kind \in SaveKinds
      PROVE  projectPage'.saving
  BY <1>1, <1>2, <1>5, <1>7
<1> QED
  BY <1>4, <1>6, <1>7

(* A save that runs alone finds stored what it has stored.                       *)
LEMMA StillStored ==
  ASSUME ProjectTyped, SavesStored, NEW k \in Tasks, NEW t,
         projectTasks' = [projectTasks EXCEPT ![k] = t], UNCHANGED projectRole,
         projectRole = "teacher" /\ ~projectFlags'.overlap =>
           /\ ~projectFlags.overlap
           /\ t.kind # "none" /\ (t.mounted \/ t.phase \in {"asked", "done", "failed"}) =>
                k \in Project!Mattering \/ Project!Mattering = {}
           /\ projectBounds'.elsewhere = 0 =>
                /\ projectBounds.elsewhere = 0
                /\ t.kind # "none" => SavedSoFar(t)'
                /\ \/ k \in Project!Mattering
                   \/ \A x \in AllTeams : projectRows'[x].mark = projectRows[x].mark
  PROVE  SavesStored'
<1> SUFFICES ASSUME projectRole = "teacher", ~projectFlags'.overlap
             PROVE  /\ \A k1, k2 \in Project!Mattering' : k1 = k2
                    /\ projectBounds'.elsewhere = 0 =>
                         \A j \in Project!Running' : \A u : u = projectTasks'[j] => SavedSoFar(u)'
  BY DEF SavesStored, SavedSoFar
<1>1. /\ \A k1, k2 \in Project!Mattering : k1 = k2
      /\ projectBounds.elsewhere = 0 => \A j \in Project!Running : SavedSoFar(projectTasks[j])
  BY DEF SavesStored
<1>2. /\ projectTasks'[k] = t
      /\ \A j \in Tasks \ {k} :
           /\ projectTasks'[j] = projectTasks[j]
           /\ j \in Project!Running' <=> j \in Project!Running
           /\ j \in Project!Mattering' <=> j \in Project!Mattering
      /\ k \in Project!Running' <=> t.kind # "none"
      /\ k \in Project!Mattering' <=>
           t.kind # "none" /\ (t.mounted \/ t.phase \in {"asked", "done", "failed"})
      /\ Project!Running' \subseteq Tasks /\ Project!Mattering' \subseteq Tasks
  BY ProjectOthers
<1>3. \A k1, k2 \in Project!Mattering' : k1 = k2
  BY <1>1, <1>2
<1>4. ASSUME projectBounds'.elsewhere = 0, NEW j \in Project!Running', NEW u, u = projectTasks'[j]
      PROVE  SavedSoFar(u)'
  <2>1. CASE j = k
    BY <1>2, <1>4, <2>1
  <2>2. CASE j # k
    <3>1. j \in Project!Running /\ u = projectTasks[j] /\ SavedSoFar(u)
      BY <1>1, <1>2, <1>4, <2>2
    <3>2. CASE \A x \in AllTeams : projectRows'[x].mark = projectRows[x].mark
      <4>1. u.kind = "saveAll" => DOMAIN u.data \subseteq AllTeams
        BY <3>1, ProjectTaskType DEF ProjectTask, ProjectData, SaveKinds, AllTeams
      <4> QED
        BY <3>1, <3>2, <4>1 DEF SavedSoFar
    <3>3. CASE k \in Project!Mattering
      <4>1. j \notin Project!Mattering
        BY <1>1, <2>2, <3>3
      <4> QED
        BY <3>1, <4>1 DEF SavedSoFar, Project!Mattering
    <3> QED
      BY <1>4, <3>2, <3>3
  <2> QED
    BY <2>1, <2>2
<1> QED
  BY <1>3, <1>4

(* What the page's own fields do.                                                *)
LEMMA ProjectQuiet ==
  ASSUME ProjectInv, projectPage # Null, projectPage' \in Project!PageState,
         UNCHANGED <<projectRole, projectRows, projectTasks, projectBounds, projectFlags>>,
         projectPage'.loading = projectPage.loading, projectPage'.saving = projectPage.saving,
         projectPage'.creating = projectPage.creating,
         projectPage'.submitting = projectPage.submitting, PageSound'
  PROVE  ProjectInv'
<1>1. projectPage' # Null
  BY ProjectAssumption DEF Project!PageState, AllTeams
<1>2. Project!Running' = Project!Running /\ Project!Mattering' = Project!Mattering
  BY DEF Project!Running, Project!Mattering
<1>3. ProjectTyped'
  <2>1. /\ ProjectTyped /\ projectRows' \in [AllTeams -> Project!Row]
        /\ projectBounds' \in ProjectBounds /\ projectFlags' \in ProjectFlags
        /\ DOMAIN projectTasks' = Tasks
        /\ \A j \in Tasks : projectTasks'[j] = Project!NoTask \/ ProjectTask(projectTasks'[j])
    BY DEF ProjectInv, ProjectTyped, Project!TypeOK, AllTeams
  <2> QED
    BY <1>1, <2>1, ProjectTypedIntro
<1>4. Project!NeverStuck'
  BY <1>1 DEF ProjectInv, Project!NeverStuck, Project!Attached, Project!Loading
<1>5. TeacherWaits'
  BY <1>1 DEF ProjectInv, TeacherWaits, Project!Attached, Project!Loading
<1>6. SavesStored'
  BY <1>2 DEF ProjectInv, SavesStored, SavedSoFar
<1> QED
  BY <1>3, <1>4, <1>5, <1>6 DEF ProjectInv

LEMMA ProjectDialogs ==
  ASSUME ProjectInv,
         \/ Project!OpenCreateTeamDialog \/ Project!CloseCreateTeamDialog
         \/ \E s \in Students : Project!PickMember(s)
         \/ \E t \in AllTeams : \E m \in Scores \cup {Null} : Project!SetEvaluationField(t, m)
  PROVE  ProjectInv'
<1>1. projectPage # Null => projectPage \in Project!PageState
  BY DEF ProjectInv, ProjectTyped, Project!TypeOK
<1>2. projectPage # Null =>
        /\ projectPage.dialog => projectRole = "student"
        /\ RowsOf(projectPage.shown, projectPage.rows)
        /\ \A t \in AllTeams : ProjectOf[t] # projectPage.shown => projectPage.drafts[t] = Null
  BY DEF ProjectInv, PageSound
<1>3. ASSUME projectPage # Null, projectPage' \in Project!PageState,
             UNCHANGED <<projectRole, projectRows, projectTasks, projectBounds, projectFlags>>,
             projectPage'.loading = projectPage.loading, projectPage'.saving = projectPage.saving,
             projectPage'.creating = projectPage.creating,
             projectPage'.submitting = projectPage.submitting,
             projectPage'.shown = projectPage.shown, projectPage'.rows = projectPage.rows,
             projectPage'.dialog => projectPage.dialog \/ projectRole = "student",
             \A t \in AllTeams : ProjectOf[t] # projectPage.shown =>
               projectPage'.drafts[t] = projectPage.drafts[t]
      PROVE  ProjectInv'
  <2>1. PageSound'
    BY <1>2, <1>3 DEF PageSound, RowsOf
  <2> QED
    BY <1>3, <2>1, ProjectQuiet
<1>4. CASE Project!OpenCreateTeamDialog
  BY <1>1, <1>3, <1>4 DEF Project!OpenCreateTeamDialog, Project!Shown, Project!PageState
<1>5. CASE Project!CloseCreateTeamDialog
  BY <1>1, <1>3, <1>5 DEF Project!CloseCreateTeamDialog, Project!Shown, Project!PageState
<1>6. ASSUME NEW s \in Students, Project!PickMember(s)
      PROVE  ProjectInv'
  BY <1>1, <1>3, <1>6 DEF Project!PickMember, Project!Shown, Project!PageState
<1>7. ASSUME NEW t \in AllTeams, NEW m \in Scores \cup {Null}, Project!SetEvaluationField(t, m)
      PROVE  ProjectInv'
  <2>1. /\ projectPage # Null /\ projectPage \in Project!PageState
        /\ projectPage' = [projectPage EXCEPT !.drafts[t] = m]
        /\ UNCHANGED <<projectRole, projectRows, projectTasks, projectBounds, projectFlags>>
        /\ projectPage.rows[t] # Project!NoTeam
    BY <1>1, <1>7 DEF Project!SetEvaluationField, Project!IsProjectTeacher, Project!Shown
  <2>2. ProjectOf[t] = projectPage.shown
    BY <1>2, <2>1 DEF RowsOf
  <2>3. /\ projectPage.drafts \in [AllTeams -> Scores \cup {Null}]
        /\ projectPage'.drafts = [projectPage.drafts EXCEPT ![t] = m]
    BY <2>1 DEF Project!PageState, AllTeams
  <2>4. projectPage'.drafts \in [AllTeams -> Scores \cup {Null}]
    BY <2>3
  <2>5. /\ projectPage' \in Project!PageState
        /\ projectPage'.loading = projectPage.loading /\ projectPage'.saving = projectPage.saving
        /\ projectPage'.creating = projectPage.creating
        /\ projectPage'.submitting = projectPage.submitting
        /\ projectPage'.shown = projectPage.shown /\ projectPage'.rows = projectPage.rows
        /\ projectPage'.dialog = projectPage.dialog
    BY <2>1, <2>3, <2>4 DEF Project!PageState, AllTeams
  <2> QED
    BY <1>3, <2>1, <2>2, <2>3, <2>5
<1> QED
  BY <1>4, <1>5, <1>6, <1>7

(* A teacher's page that shows its fields waits for nothing.                     *)
LEMMA TeacherFree ==
  ASSUME ProjectInv, projectRole = "teacher", ~projectFlags.moved,
         projectPage = Null \/ (~projectPage.loading /\ ~projectPage.saving),
         NEW j \in Tasks
  PROVE  ~Project!Attached(j)
<1> SUFFICES ASSUME Project!Attached(j)
             PROVE  FALSE
  OBVIOUS
<1>1. /\ j \in Project!Running /\ projectPage # Null /\ projectTasks[j].mounted
  BY ProjectTaskType DEF ProjectInv, Project!Attached, Project!Running
<1>2. PICK task : task = projectTasks[j] /\ ProjectTask(task)
  BY <1>1, ProjectTaskType DEF ProjectInv
<1>3. task.kind = "load" => task.phase \in Loading
  BY <1>2 DEF ProjectTask, ProjectPhases
<1>4. task.kind \in {"load"} \cup SaveKinds
  BY <1>2, ProjectIsTask DEF ProjectTask
<1>5. CASE task.kind = "load"
  BY <1>1, <1>2, <1>3, <1>5 DEF ProjectInv, TeacherWaits, Project!Loading, Loading
<1>6. CASE task.kind \in SaveKinds
  BY <1>1, <1>2, <1>6 DEF ProjectInv, TeacherWaits
<1> QED
  BY <1>4, <1>5, <1>6

(* A handler starts a task, or a new path does.                                  *)
LEMMA ProjectStart ==
  ASSUME ProjectInv, NEW t, ProjectTask(t), t.mounted, t.phase \in {"asked", "reload"},
         Project!Running # Tasks,
         projectTasks' = [projectTasks EXCEPT ![Project!Slot] = t],
         Project!Click, UNCHANGED <<projectRole, projectRows>>,
         projectFlags' \in ProjectFlags,
         ~projectFlags'.moved => ~projectFlags.moved,
         ~projectFlags'.overlap => ~projectFlags.overlap /\ Project!Mattering = {},
         projectPage' \in Project!PageState, PageSound',
         projectPage'.loading => (projectPage # Null /\ projectPage.loading) \/ t.phase = "reload",
         projectPage'.saving => (projectPage # Null /\ projectPage.saving) \/ t.kind \in SaveKinds,
         projectPage'.creating => (projectPage # Null /\ projectPage.creating) \/ t.kind = "create",
         projectPage'.submitting => (projectPage # Null /\ projectPage.submitting) \/ t.kind = "submit",
         t.phase = "reload" => projectPage'.loading,
         t.kind \in SaveKinds => projectPage'.saving,
         t.kind = "saveAll" => t.queue = DOMAIN t.data /\ t.phase = "asked",
         projectRole = "teacher" /\ ~projectFlags'.moved => \A j \in Tasks : ~Project!Attached(j)
  PROVE  ProjectInv'
<1>1. PICK k \in Tasks :
        projectTasks[k] = Project!NoTask /\ projectTasks' = [projectTasks EXCEPT ![k] = t]
  BY ProjectSlot DEF ProjectInv
<1>2. /\ projectPage' # Null /\ t.kind # "none"
      /\ ~Project!Attached(k) /\ ~Project!Loading(k)
  BY <1>1, ProjectIsTask, ProjectAssumption
  DEF Project!PageState, AllTeams, Project!Attached, Project!Loading, Project!NoTask
<1>3. projectBounds' \in ProjectBounds /\ projectBounds'.elsewhere = projectBounds.elsewhere
  BY DEF ProjectInv, ProjectTyped, ProjectBounds, Project!Click, Project!Clickable
<1>4. ProjectTyped'
  BY <1>1, <1>2, <1>3, ProjectTypes, ProjectTaskStep
<1>5. Project!NeverStuck'
  <2>1. ProjectTyped /\ Project!NeverStuck
    BY DEF ProjectInv
  <2>2. projectPage' # Null /\ projectPage'.loading =>
           \/ t.kind # "none" /\ t.mounted /\ t.phase \in Loading
           \/ projectPage # Null /\ projectPage.loading /\ ~Project!Loading(k)
    BY <1>2 DEF Loading
  <2>3. projectPage' # Null /\ projectPage'.saving =>
          \/ t.kind \in {"save", "saveAll"} /\ t.mounted
          \/ /\ projectPage # Null /\ projectPage.saving
             /\ ~(Project!Attached(k) /\ projectTasks[k].kind \in {"save", "saveAll"})
    BY <1>2 DEF SaveKinds
  <2>4. projectPage' # Null /\ projectPage'.creating =>
          \/ t.kind \in {"create"} /\ t.mounted
          \/ /\ projectPage # Null /\ projectPage.creating
             /\ ~(Project!Attached(k) /\ projectTasks[k].kind \in {"create"})
    BY <1>2
  <2>5. projectPage' # Null /\ projectPage'.submitting =>
          \/ t.kind \in {"submit"} /\ t.mounted
          \/ /\ projectPage # Null /\ projectPage.submitting
             /\ ~(Project!Attached(k) /\ projectTasks[k].kind \in {"submit"})
    BY <1>2
  <2> QED
    BY <1>1, <2>1, <2>2, <2>3, <2>4, <2>5, ProjectNotStuck
<1>6. TeacherWaits'
  <2>1. t.phase \in Loading => t.phase = "reload"
    BY DEF Loading
  <2>2. ProjectTyped /\ TeacherWaits
    BY DEF ProjectInv
  <2> QED
    BY <1>1, <1>2, <2>1, <2>2, TeacherStillWaits
<1>7. SavesStored'
  <2>1. SavedSoFar(t)'
    BY DEF SavedSoFar
  <2>2. ProjectTyped /\ SavesStored /\ UNCHANGED projectRole
    BY DEF ProjectInv
  <2>3. projectRole = "teacher" /\ ~projectFlags'.overlap =>
          /\ ~projectFlags.overlap
          /\ t.kind # "none" /\ (t.mounted \/ t.phase \in {"asked", "done", "failed"}) =>
               k \in Project!Mattering \/ Project!Mattering = {}
          /\ projectBounds'.elsewhere = 0 =>
               /\ projectBounds.elsewhere = 0
               /\ t.kind # "none" => SavedSoFar(t)'
               /\ \/ k \in Project!Mattering
                  \/ \A x \in AllTeams : projectRows'[x].mark = projectRows[x].mark
    BY <1>3, <2>1
  <2> QED
    BY <1>1, <2>2, <2>3, StillStored
<1> QED
  BY <1>4, <1>5, <1>6, <1>7 DEF ProjectInv

(* The teams with a draft to save are of the project that is taught.             *)
LEMMA SavedAreOwn ==
  ASSUME ProjectInv, Project!IsProjectTeacher, NEW t \in AllTeams, Project!CanSave(t)
  PROVE  t \in OwnTeams /\ projectPage.drafts[t] \in Scores
<1>1. projectPage # Null /\ projectPage.shown = OwnProject
  BY DEF Project!IsProjectTeacher, Project!Shown
<1>2. projectPage.drafts[t] \in Scores /\ projectPage.drafts[t] # Null
  BY ProjectAssumption DEF Project!CanSave
<1>3. ProjectOf[t] = OwnProject
  BY <1>1, <1>2 DEF ProjectInv, PageSound
<1> QED
  BY <1>2, <1>3, ProjectAssumption DEF ProjectOf, AllTeams

(* What a click leaves of the page, and how it records a task beside others.      *)
LEMMA ClickPages ==
  ASSUME ProjectInv, projectPage # Null
  PROVE  /\ projectPage \in Project!PageState
         /\ [projectPage EXCEPT !.saving = TRUE] \in Project!PageState
         /\ [projectPage EXCEPT !.creating = TRUE] \in Project!PageState
         /\ [projectPage EXCEPT !.submitting = TRUE] \in Project!PageState
         /\ projectPage.url \in {OwnProject, OtherProject}
         /\ projectPage.dialog => projectRole = "student"
         /\ RowsOf(projectPage.shown, projectPage.rows)
         /\ \A t \in AllTeams : ProjectOf[t] # projectPage.shown => projectPage.drafts[t] = Null
BY DEF ProjectInv, ProjectTyped, Project!TypeOK, Project!PageState, PageSound

LEMMA ClickFlags ==
  ASSUME ProjectInv, NEW t, Project!Start(t)
  PROVE  /\ projectFlags' \in ProjectFlags
         /\ projectFlags'.moved = projectFlags.moved
         /\ ~projectFlags'.overlap => ~projectFlags.overlap /\ Project!Mattering = {}
<1>1. /\ projectFlags \in ProjectFlags
      /\ projectFlags' = [projectFlags EXCEPT !.overlap = @ \/ Project!Mattering # {}]
  BY DEF ProjectInv, ProjectTyped, Project!Start
<1>2. (projectFlags.overlap \/ Project!Mattering # {}) \in BOOLEAN
  BY Zenon
<1> QED
  BY <1>1, <1>2 DEF ProjectFlags

(* A click on a page that shows the project: the task it starts is about the path.   *)
LEMMA ProjectClick ==
  ASSUME ProjectInv, Project!Shown, Project!Click, NEW t, ProjectTask(t), t.mounted,
         t.phase = "asked", Project!Start(t), UNCHANGED <<projectRole, projectRows>>,
         t.kind \in SaveKinds => ~projectPage.saving,
         t.kind = "saveAll" => t.queue = DOMAIN t.data,
         projectPage' = IF t.kind \in SaveKinds THEN [projectPage EXCEPT !.saving = TRUE]
                        ELSE IF t.kind = "create" THEN [projectPage EXCEPT !.creating = TRUE]
                        ELSE IF t.kind = "submit" THEN [projectPage EXCEPT !.submitting = TRUE]
                        ELSE projectPage,
         projectRole = "teacher" => t.kind \in SaveKinds
  PROVE  ProjectInv'
<1>1. /\ projectPage # Null /\ ~projectPage.loading /\ projectPage.shown # Null
      /\ Project!Running # Tasks
      /\ projectTasks' = [projectTasks EXCEPT ![Project!Slot] = t]
  BY DEF Project!Shown, Project!Start
<1>2. /\ projectPage' \in Project!PageState
      /\ projectPage'.loading = projectPage.loading
      /\ projectPage'.saving => projectPage.saving \/ t.kind \in SaveKinds
      /\ t.kind \in SaveKinds => projectPage'.saving
      /\ projectPage'.creating => projectPage.creating \/ t.kind = "create"
      /\ projectPage'.submitting => projectPage.submitting \/ t.kind = "submit"
      /\ projectPage'.shown = projectPage.shown /\ projectPage'.rows = projectPage.rows
      /\ projectPage'.drafts = projectPage.drafts /\ projectPage'.dialog = projectPage.dialog
  <2>1. CASE t.kind \in SaveKinds
    BY <1>1, <2>1, ClickPages DEF Project!PageState
  <2>2. CASE t.kind \notin SaveKinds /\ t.kind = "create"
    BY <1>1, <2>2, ClickPages DEF Project!PageState
  <2>3. CASE t.kind \notin SaveKinds /\ t.kind = "submit"
    BY <1>1, <2>3, ClickPages DEF Project!PageState
  <2>4. CASE t.kind \notin SaveKinds \cup {"create", "submit"}
    BY <1>1, <2>4, ClickPages DEF Project!PageState
  <2> QED
    BY <2>1, <2>2, <2>3, <2>4
<1>3. PageSound'
  BY <1>1, <1>2, ClickPages DEF PageSound, RowsOf
<1>4. projectRole = "teacher" /\ ~projectFlags'.moved => \A j \in Tasks : ~Project!Attached(j)
  BY <1>1, ClickFlags, TeacherFree
<1>5. /\ projectFlags' \in ProjectFlags
      /\ ~projectFlags'.moved => ~projectFlags.moved
      /\ ~projectFlags'.overlap => ~projectFlags.overlap /\ Project!Mattering = {}
  BY ClickFlags
<1> QED
  BY <1>1, <1>2, <1>3, <1>4, <1>5, ProjectStart

(* A path and its load.                                                          *)
LEMMA ProjectPath ==
  ASSUME ProjectInv, NEW p \in {OwnProject, OtherProject}, Project!Open(p) \/ Project!SwitchProject(p)
  PROVE  ProjectInv'
<1> DEFINE t == Project!Task("load", "reload", Null, Null, {})
<1>1. projectPage'.url = p
  <2>1. CASE Project!Open(p)
    BY <2>1 DEF Project!Open, Project!Mounted
  <2>2. CASE Project!SwitchProject(p)
    BY <2>2, ClickPages DEF Project!SwitchProject, Project!PageState
  <2> QED
    BY <2>1, <2>2
<1>2. ProjectTask(t) /\ t.mounted /\ t.kind = "load" /\ t.phase = "reload"
  BY <1>1 DEF Project!Task, ProjectTask, ProjectPhases, ProjectTeams, ProjectData, SaveKinds,
       MemberKinds, Loading
<1>3. /\ Project!Running # Tasks /\ Project!Click /\ UNCHANGED <<projectRole, projectRows>>
      /\ projectTasks' = [projectTasks EXCEPT ![Project!Slot] = t]
  BY DEF Project!Open, Project!SwitchProject, Project!EffectLoad, Project!Start
<1>4. CASE Project!Open(p)
  <2>1. /\ projectPage' \in Project!PageState
        /\ projectPage'.loading /\ projectPage'.shown = Null /\ ~projectPage'.saving
        /\ ~projectPage'.creating /\ ~projectPage'.submitting /\ ~projectPage'.dialog
        /\ projectPage'.rows = [x \in AllTeams |-> Project!NoTeam]
        /\ projectPage'.drafts = [x \in AllTeams |-> Null]
    BY <1>4 DEF Project!Open, Project!Mounted, Project!PageState, Project!NoTeam, Project!Row, AllTeams
  <2>2. PageSound'
    BY <2>1 DEF PageSound, RowsOf
  <2>3. /\ projectFlags' \in ProjectFlags
        /\ ~projectFlags'.moved => ~projectFlags.moved
        /\ ~projectFlags'.overlap => ~projectFlags.overlap /\ Project!Mattering = {}
        /\ projectRole = "teacher" /\ ~projectFlags'.moved => \A j \in Tasks : ~Project!Attached(j)
    <3>1. Project!Start(t) /\ projectPage = Null
      BY <1>4 DEF Project!Open, Project!EffectLoad
    <3> HIDE DEF t
    <3> QED
      BY <3>1, ClickFlags, TeacherFree
  <2> HIDE DEF t
  <2> QED
    BY <1>2, <1>3, <2>1, <2>2, <2>3, ProjectStart DEF SaveKinds
<1>5. CASE Project!SwitchProject(p)
  <2>1. /\ projectPage # Null /\ projectPage \in Project!PageState
        /\ projectPage' = [projectPage EXCEPT !.url = p, !.loading = TRUE]
    BY <1>5, ClickPages DEF Project!SwitchProject
  <2>2. /\ projectPage' \in Project!PageState /\ projectPage'.loading
        /\ projectPage'.saving = projectPage.saving /\ projectPage'.creating = projectPage.creating
        /\ projectPage'.submitting = projectPage.submitting
        /\ projectPage'.shown = projectPage.shown /\ projectPage'.rows = projectPage.rows
        /\ projectPage'.drafts = projectPage.drafts /\ projectPage'.dialog = projectPage.dialog
    BY <2>1 DEF Project!PageState
  <2>3. PageSound'
    BY <1>3, <2>1, <2>2, ClickPages DEF PageSound, RowsOf
  <2>4. /\ projectFlags \in ProjectFlags
        /\ projectFlags' = [projectFlags EXCEPT !.moved = @ \/ Project!Mattering # {},
                                                !.overlap = @ \/ Project!Mattering # {}]
    BY <1>5 DEF Project!SwitchProject, ProjectInv, ProjectTyped
  <2>5. /\ (projectFlags.moved \/ Project!Mattering # {}) \in BOOLEAN
        /\ (projectFlags.overlap \/ Project!Mattering # {}) \in BOOLEAN
    BY Zenon
  <2>6. /\ projectFlags' \in ProjectFlags
        /\ projectFlags'.moved = (projectFlags.moved \/ Project!Mattering # {})
        /\ projectFlags'.overlap = (projectFlags.overlap \/ Project!Mattering # {})
    BY <2>4, <2>5 DEF ProjectFlags
  <2>7. Project!Mattering = {} => \A j \in Tasks : ~Project!Attached(j)
    BY DEF Project!Mattering, Project!Running, Project!Attached
  <2> HIDE DEF t
  <2> QED
    BY <1>2, <1>3, <2>1, <2>2, <2>3, <2>6, <2>7, ProjectStart DEF SaveKinds
<1> QED
  BY <1>4, <1>5

(* The teacher saves what is typed, of teams of the own project.                 *)
LEMMA ProjectSaves ==
  ASSUME ProjectInv,
         Project!HandleSaveAllEvaluations \/ \E t \in AllTeams : Project!HandleSaveEvaluation(t)
  PROVE  ProjectInv'
<1>1. ASSUME NEW kind \in SaveKinds, NEW t, NEW saved \in SUBSET OwnTeams, NEW queue \in SUBSET saved,
             t \in saved, t \in AllTeams, kind = "saveAll" => queue = saved,
             \A d \in saved : projectPage.drafts[d] \in Scores,
             Project!IsProjectTeacher, Project!Click, ~projectPage.saving,
             projectPage' = [projectPage EXCEPT !.saving = TRUE],
             UNCHANGED <<projectRole, projectRows>>,
             Project!Start(Project!Task(kind, "asked", t, [d \in saved |-> projectPage.drafts[d]], queue))
      PROVE  ProjectInv'
  <2> DEFINE data == [d \in saved |-> projectPage.drafts[d]]
  <2> DEFINE task == Project!Task(kind, "asked", t, data, queue)
  <2>1. Project!Shown /\ projectPage # Null /\ projectRole = "teacher"
    BY <1>1 DEF Project!IsProjectTeacher, Project!Shown
  <2>2. projectPage'.url \in {OwnProject, OtherProject}
    BY <1>1, <2>1, ClickPages DEF Project!PageState
  <2>3. data \in [saved -> Scores] /\ DOMAIN data = saved
    BY <1>1
  <2>4. data \in ProjectData(kind)
    <3>1. ProjectData(kind) = UNION {[D -> Scores] : D \in SUBSET OwnTeams}
      BY <1>1 DEF ProjectData, SaveKinds, MemberKinds
    <3>2. [saved -> Scores] \in {[D -> Scores] : D \in SUBSET OwnTeams}
      OBVIOUS
    <3> QED
      BY <2>3, <3>1, <3>2
  <2>5. /\ task = [kind |-> kind, phase |-> "asked", team |-> t, data |-> data, queue |-> queue,
                   project |-> projectPage'.url, rows |-> Null, mounted |-> TRUE]
        /\ queue \in SUBSET AllTeams
    BY DEF Project!Task, AllTeams
  <2> HIDE DEF data, task
  <2>6. /\ task.kind = kind /\ task.phase = "asked" /\ task.team = t /\ task.data = data
        /\ task.queue = queue /\ task.mounted
    BY <2>5
  <2>7. ProjectTask(task)
    BY <1>1, <2>1, <2>2, <2>3, <2>4, <2>5, <2>6
    DEF ProjectTask, ProjectPhases, ProjectTeams, SaveKinds, MemberKinds
  <2>8. Project!Start(task)
    BY <1>1 DEF task, data
  <2> QED
    BY <1>1, <2>1, <2>3, <2>6, <2>7, <2>8, ProjectClick
<1>2. ASSUME NEW t \in AllTeams, Project!HandleSaveEvaluation(t)
      PROVE  ProjectInv'
  <2>1. Project!IsProjectTeacher /\ Project!CanSave(t)
    BY <1>2 DEF Project!HandleSaveEvaluation
  <2>2. {t} \in SUBSET OwnTeams /\ \A d \in {t} : projectPage.drafts[d] \in Scores
    BY <2>1, SavedAreOwn
  <2> QED
    BY <1>1, <1>2, <2>1, <2>2 DEF Project!HandleSaveEvaluation, SaveKinds
<1>3. CASE Project!HandleSaveAllEvaluations
  <2> DEFINE dirty == {t \in AllTeams : Project!CanSave(t)}
  <2>1. Project!IsProjectTeacher
    BY <1>3 DEF Project!HandleSaveAllEvaluations
  <2>2. dirty \in SUBSET OwnTeams /\ \A d \in dirty : projectPage.drafts[d] \in Scores
    BY <2>1, SavedAreOwn
  <2>3. PICK t \in dirty :
          Project!Start(Project!Task("saveAll", "asked", t, [d \in dirty |-> projectPage.drafts[d]], dirty))
    BY <1>3 DEF Project!HandleSaveAllEvaluations, AllTeams
  <2>4. t \in AllTeams
    BY <2>3
  <2>5. /\ Project!Click /\ ~projectPage.saving
        /\ projectPage' = [projectPage EXCEPT !.saving = TRUE]
        /\ UNCHANGED <<projectRole, projectRows>>
    BY <1>3 DEF Project!HandleSaveAllEvaluations
  <2> HIDE DEF dirty
  <2> QED
    BY <1>1, <2>1, <2>2, <2>3, <2>4, <2>5 DEF SaveKinds
<1> QED
  BY <1>2, <1>3

(* What a student asks for, of teams on show.                                    *)
LEMMA StudentClicks ==
  ASSUME ProjectInv,
         \/ Project!HandleCreateTeam
         \/ \E t \in AllTeams :
              \/ Project!HandleAddMember(t) \/ Project!HandleLeaveTeam(t)
              \/ \E s \in Students : Project!HandleRemoveMember(t, s)
              \/ \E f \in Files : Project!HandleSubmitFile(t, f)
  PROVE  ProjectInv'
<1>1. ASSUME NEW kind \in {"create", "submit"} \cup MemberKinds, NEW t \in ProjectTeams(kind),
             NEW data \in ProjectData(kind), Project!Shown, projectRole = "student", Project!Click,
             projectPage' = IF kind = "create" THEN [projectPage EXCEPT !.creating = TRUE]
                            ELSE IF kind = "submit" THEN [projectPage EXCEPT !.submitting = TRUE]
                            ELSE projectPage,
             Project!Start(Project!Task(kind, "asked", t, data, {})),
             UNCHANGED <<projectRole, projectRows>>
      PROVE  ProjectInv'
  <2> DEFINE task == Project!Task(kind, "asked", t, data, {})
  <2>1. projectPage # Null /\ kind \notin SaveKinds /\ kind # "load"
    BY <1>1 DEF Project!Shown, SaveKinds, MemberKinds
  <2>2. projectPage'.url \in {OwnProject, OtherProject}
    BY <1>1, <2>1, ClickPages DEF Project!PageState
  <2>3. task = [kind |-> kind, phase |-> "asked", team |-> t, data |-> data, queue |-> {},
                project |-> projectPage'.url, rows |-> Null, mounted |-> TRUE]
    BY DEF Project!Task
  <2> HIDE DEF task
  <2>4. /\ task.kind = kind /\ task.phase = "asked" /\ task.team = t /\ task.data = data
        /\ task.queue = {} /\ task.mounted
    BY <2>3
  <2>5. ProjectTask(task)
    BY <1>1, <2>1, <2>2, <2>3, <2>4 DEF ProjectTask, ProjectPhases, SaveKinds
  <2>6. Project!Start(task)
    BY <1>1 DEF task
  <2>7. projectPage' = IF task.kind \in SaveKinds THEN [projectPage EXCEPT !.saving = TRUE]
                       ELSE IF task.kind = "create" THEN [projectPage EXCEPT !.creating = TRUE]
                       ELSE IF task.kind = "submit" THEN [projectPage EXCEPT !.submitting = TRUE]
                       ELSE projectPage
    BY <1>1, <2>1, <2>4
  <2> QED
    BY <1>1, <2>1, <2>4, <2>5, <2>6, <2>7, ProjectClick DEF SaveKinds
<1>2. /\ Null \in ProjectTeams("create") /\ Null \in ProjectData("create")
      /\ \A kind \in MemberKinds : ProjectTeams(kind) = AllTeams /\ ProjectData(kind) = Students
      /\ ProjectTeams("submit") = AllTeams /\ ProjectData("submit") = Files
  BY DEF ProjectTeams, ProjectData, SaveKinds, MemberKinds
<1>3. CASE Project!HandleCreateTeam
  <2>1. projectRole = "student"
    BY <1>3, ClickPages DEF Project!HandleCreateTeam, Project!Shown
  <2> QED
    BY <1>1, <1>2, <1>3, <2>1 DEF Project!HandleCreateTeam
<1>4. ASSUME NEW t \in AllTeams, Project!HandleAddMember(t)
      PROVE  ProjectInv'
  <2>1. projectPage.pick \in Students
    BY <1>4, ClickPages DEF Project!HandleAddMember, Project!Shown, Project!PageState
  <2> QED
    BY <1>1, <1>2, <1>4, <2>1 DEF Project!HandleAddMember, Project!CanManageOwnTeam, MemberKinds
<1>5. ASSUME NEW t \in AllTeams, Project!HandleLeaveTeam(t)
      PROVE  ProjectInv'
  BY <1>1, <1>2, <1>5, ProjectAssumption DEF Project!HandleLeaveTeam, MemberKinds
<1>6. ASSUME NEW t \in AllTeams, NEW s \in Students, Project!HandleRemoveMember(t, s)
      PROVE  ProjectInv'
  BY <1>1, <1>2, <1>6 DEF Project!HandleRemoveMember, Project!CanManageOwnTeam, MemberKinds
<1>7. ASSUME NEW t \in AllTeams, NEW f \in Files, Project!HandleSubmitFile(t, f)
      PROVE  ProjectInv'
  BY <1>1, <1>2, <1>7 DEF Project!HandleSubmitFile
<1> QED
  BY <1>3, <1>4, <1>5, <1>6, <1>7

LEMMA ProjectLeave ==
  ASSUME ProjectInv, Project!Leave
  PROVE  ProjectInv'
<1>1. /\ projectPage' = Null /\ UNCHANGED <<projectRole, projectRows, projectFlags>>
      /\ projectBounds' \in ProjectBounds
      /\ projectBounds'.elsewhere = projectBounds.elsewhere
      /\ DOMAIN projectTasks' = Tasks
  BY DEF ProjectInv, ProjectTyped, ProjectBounds, Project!Leave, Project!Click, Project!Clickable
<1>2. ASSUME NEW k \in Tasks
      PROVE  \/ projectTasks[k] = Project!NoTask /\ projectTasks'[k] = Project!NoTask
             \/ /\ ProjectTask(projectTasks[k]) /\ ProjectTask(projectTasks'[k])
                /\ k \in Project!Running /\ ~projectTasks'[k].mounted
                /\ projectTasks'[k] = [projectTasks[k] EXCEPT !.mounted = FALSE]
                /\ projectTasks'[k].phase = projectTasks[k].phase
                /\ projectTasks'[k].kind = projectTasks[k].kind
  <2>1. CASE projectTasks[k] = Project!NoTask
    BY <2>1 DEF Project!Leave
  <2>2. CASE projectTasks[k] # Project!NoTask
    <3>1. PICK task : task = projectTasks[k] /\ ProjectTask(task)
      BY <2>2 DEF ProjectInv, ProjectTyped
    <3> DEFINE u == [task EXCEPT !.mounted = FALSE]
    <3>2. projectTasks'[k] = u
      BY <2>2, <3>1 DEF Project!Leave
    <3>3. /\ u.kind = task.kind /\ u.phase = task.phase /\ u.team = task.team /\ u.data = task.data
          /\ u.queue = task.queue /\ u.project = task.project /\ u.rows = task.rows
          /\ u.mounted = FALSE
      BY <3>1 DEF ProjectTask
    <3>4. u \in [kind : {"load", "create", "submit"} \cup SaveKinds \cup MemberKinds,
                 phase : ProjectPhases(task.kind), team : ProjectTeams(task.kind),
                 data : ProjectData(task.kind), queue : SUBSET AllTeams,
                 project : {OwnProject, OtherProject},
                 rows : [AllTeams -> Project!Row] \cup {Null}, mounted : BOOLEAN]
      BY <3>1 DEF ProjectTask
    <3> HIDE DEF u
    <3>5. ProjectTask(u)
      BY <3>1, <3>3, <3>4 DEF ProjectTask
    <3>6. k \in Project!Running
      BY <3>1, ProjectIsTask DEF Project!Running
    <3> QED
      BY <3>1, <3>2, <3>3, <3>5, <3>6 DEF u
  <2> QED
    BY <2>1, <2>2
<1>3. ASSUME NEW k \in Project!Running'
      PROVE  /\ k \in Tasks /\ k \in Project!Running /\ ~projectTasks'[k].mounted
             /\ projectTasks'[k] = [projectTasks[k] EXCEPT !.mounted = FALSE]
             /\ projectTasks'[k].phase = projectTasks[k].phase
  <2>1. k \in Tasks /\ projectTasks'[k] # Project!NoTask
    BY DEF Project!Running, Project!NoTask
  <2> QED
    BY <1>2, <2>1
<1>4. ProjectTyped'
  <2>1. /\ ProjectTyped /\ projectRows' \in [AllTeams -> Project!Row]
        /\ projectPage' \in Project!PageState \cup {Null} /\ projectFlags' \in ProjectFlags
    BY <1>1 DEF ProjectInv, ProjectTyped, Project!TypeOK, AllTeams
  <2>2. \A j \in Tasks : projectTasks'[j] = Project!NoTask \/ ProjectTask(projectTasks'[j])
    BY <1>2
  <2> QED
    BY <1>1, <1>3, <2>1, <2>2, ProjectTypedIntro
<1>5. Project!NeverStuck' /\ PageSound'
  BY <1>1 DEF Project!NeverStuck, PageSound
<1>6. TeacherWaits'
  <2>1. \A k \in Tasks : ~Project!Attached(k)'
    BY <1>3 DEF Project!Attached, Project!Running
  <2> QED
    BY <2>1 DEF TeacherWaits, Project!Loading
<1>7. SavesStored'
  <2> SUFFICES ASSUME projectRole = "teacher", ~projectFlags.overlap
               PROVE  /\ \A k1, k2 \in Project!Mattering' : k1 = k2
                      /\ projectBounds.elsewhere = 0 =>
                           \A k \in Project!Running' : \A u : u = projectTasks'[k] => SavedSoFar(u)'
    BY <1>1 DEF SavesStored, SavedSoFar
  <2>1. Project!Mattering' \subseteq Project!Mattering
    BY <1>3 DEF Project!Mattering
  <2>2. ASSUME projectBounds.elsewhere = 0, NEW k \in Project!Running', NEW u, u = projectTasks'[k]
        PROVE  SavedSoFar(u)'
    <3>1. PICK task : task = projectTasks[k] /\ ProjectTask(task) /\ SavedSoFar(task)
      BY <1>3, <2>2, ProjectTaskType DEF ProjectInv, SavesStored
    <3>2. u = [task EXCEPT !.mounted = FALSE]
      BY <1>3, <2>2, <3>1
    <3>3. /\ u.kind = task.kind /\ u.phase = task.phase /\ u.team = task.team /\ u.data = task.data
          /\ u.queue = task.queue
      BY <3>1, <3>2 DEF ProjectTask
    <3> QED
      BY <1>1, <3>1, <3>3 DEF SavedSoFar
  <2> QED
    BY <2>1, <2>2 DEF ProjectInv, SavesStored
<1> QED
  BY <1>4, <1>5, <1>6, <1>7 DEF ProjectInv

(* A task goes from one phase to another, as its kind has it.                    *)
LEMMA ProjectPhaseStep ==
  ASSUME NEW task, ProjectTask(task), NEW p \in ProjectPhases(task.kind), p # "loaded"
  PROVE  /\ ProjectTask([task EXCEPT !.phase = p])
         /\ [task EXCEPT !.phase = p].kind = task.kind /\ [task EXCEPT !.phase = p].phase = p
         /\ [task EXCEPT !.phase = p].team = task.team /\ [task EXCEPT !.phase = p].data = task.data
         /\ [task EXCEPT !.phase = p].queue = task.queue
         /\ [task EXCEPT !.phase = p].mounted = task.mounted
<1> DEFINE u == [task EXCEPT !.phase = p]
<1>1. /\ u.kind = task.kind /\ u.phase = p /\ u.team = task.team /\ u.data = task.data
      /\ u.queue = task.queue /\ u.project = task.project /\ u.rows = task.rows
      /\ u.mounted = task.mounted
  BY DEF ProjectTask
<1>2. u \in [kind : {"load", "create", "submit"} \cup SaveKinds \cup MemberKinds,
             phase : ProjectPhases(task.kind), team : ProjectTeams(task.kind),
             data : ProjectData(task.kind), queue : SUBSET AllTeams,
             project : {OwnProject, OtherProject},
             rows : [AllTeams -> Project!Row] \cup {Null}, mounted : BOOLEAN]
  BY DEF ProjectTask
<1> HIDE DEF u
<1>3. ProjectTask(u)
  BY <1>1, <1>2 DEF ProjectTask
<1> QED
  BY <1>1, <1>3 DEF u

(* A task takes its next step while the page stays as it is.                     *)
LEMMA ProjectServed ==
  ASSUME ProjectInv, NEW k \in Project!Running, NEW t, ProjectTask(t),
         projectTasks' = [projectTasks EXCEPT ![k] = t], UNCHANGED <<projectRole, projectPage>>,
         t.kind = projectTasks[k].kind, t.mounted = projectTasks[k].mounted,
         t.phase \in Loading <=> projectTasks[k].phase \in Loading,
         projectRows' \in [AllTeams -> Project!Row],
         projectBounds' \in ProjectBounds, projectBounds'.elsewhere = projectBounds.elsewhere,
         projectFlags' \in ProjectFlags, projectFlags'.moved = projectFlags.moved,
         projectFlags'.overlap = projectFlags.overlap,
         projectRole = "teacher" /\ ~projectFlags.overlap /\ projectBounds.elsewhere = 0 =>
           /\ SavedSoFar(t)'
           /\ \/ k \in Project!Mattering
              \/ \A x \in AllTeams : projectRows'[x].mark = projectRows[x].mark
  PROVE  ProjectInv'
<1>1. PICK task : task = projectTasks[k] /\ ProjectTask(task)
  BY ProjectTaskType DEF ProjectInv
<1>2. /\ k \in Tasks /\ t.kind # "none" /\ t # Project!NoTask
      /\ t.phase \in {"asked", "done", "failed"} \cup Loading
      /\ task.kind # "none" /\ task.phase \in {"asked", "done", "failed"} \cup Loading
      /\ task.mounted => projectPage # Null
  BY <1>1, ProjectTaskType, ProjectIsTask DEF ProjectInv
<1>3. /\ Project!Attached(k) <=> t.mounted
      /\ Project!Loading(k) <=> t.mounted /\ t.phase \in Loading
      /\ k \in Project!Mattering <=> t.mounted \/ t.phase \in {"asked", "done", "failed"}
  BY <1>1, <1>2 DEF Project!Attached, Project!Loading, Project!Mattering, Project!Running, Loading
<1>4. ProjectTyped'
  BY <1>1, <1>2, ProjectTypes, ProjectTaskStep
<1>5. Project!NeverStuck'
  <2>1. ProjectTyped /\ Project!NeverStuck
    BY DEF ProjectInv
  <2>2. projectPage' # Null /\ projectPage'.loading =>
           \/ t.kind # "none" /\ t.mounted /\ t.phase \in Loading
           \/ projectPage # Null /\ projectPage.loading /\ ~Project!Loading(k)
    BY <1>2, <1>3
  <2>3. projectPage' # Null /\ projectPage'.saving =>
          \/ t.kind \in {"save", "saveAll"} /\ t.mounted
          \/ /\ projectPage # Null /\ projectPage.saving
             /\ ~(Project!Attached(k) /\ projectTasks[k].kind \in {"save", "saveAll"})
    BY <1>3
  <2>4. projectPage' # Null /\ projectPage'.creating =>
          \/ t.kind \in {"create"} /\ t.mounted
          \/ /\ projectPage # Null /\ projectPage.creating
             /\ ~(Project!Attached(k) /\ projectTasks[k].kind \in {"create"})
    BY <1>3
  <2>5. projectPage' # Null /\ projectPage'.submitting =>
          \/ t.kind \in {"submit"} /\ t.mounted
          \/ /\ projectPage # Null /\ projectPage.submitting
             /\ ~(Project!Attached(k) /\ projectTasks[k].kind \in {"submit"})
    BY <1>3
  <2> QED
    BY <1>2, <2>1, <2>2, <2>3, <2>4, <2>5, ProjectNotStuck
<1>6. TeacherWaits'
  <2>1. ProjectTyped /\ TeacherWaits
    BY DEF ProjectInv
  <2>2. projectRole = "teacher" /\ ~projectFlags.moved /\ t.mounted =>
          /\ t.phase \in Loading => projectPage.loading
          /\ t.kind \in SaveKinds => projectPage.saving
    BY <1>1, <1>2, <1>3, <2>1 DEF TeacherWaits
  <2> QED
    BY <1>2, <1>3, <2>1, <2>2, TeacherStillWaits
<1>7. SavesStored'
  BY <1>2, <1>3, StillStored DEF ProjectInv
<1>8. PageSound'
  BY DEF ProjectInv, PageSound
<1> QED
  BY <1>4, <1>5, <1>6, <1>7, <1>8 DEF ProjectInv

(* The rows of the services.                                                     *)
LEMMA WithoutRow ==
  ASSUME NEW row \in Project!Row, NEW s
  PROVE  Project!Without(row, s) \in Project!Row /\ Project!Without(row, s).mark = row.mark
<1>1. CASE row.members \ {s} = {}
  BY <1>1 DEF Project!Without, Project!Row, Project!NoTeam
<1>2. CASE row.members \ {s} # {}
  <2>1. (CHOOSE m \in row.members \ {s} : TRUE) \in row.members \ {s}
    BY <1>2
  <2>2. (CHOOSE m \in row.members \ {s} : TRUE) \in Students
    BY <2>1 DEF Project!Row
  <2> QED
    BY <1>2, <2>2 DEF Project!Without, Project!Row
<1> QED
  BY <1>1, <1>2

LEMMA WrittenRows ==
  ASSUME projectRows \in [AllTeams -> Project!Row], NEW task, ProjectTask(task),
         NEW rows \in Project!Written(task)
  PROVE  /\ rows \in [AllTeams -> Project!Row]
         /\ task.kind \in SaveKinds =>
              /\ task.team \in OwnTeams
              /\ rows = [projectRows EXCEPT ![task.team] =
                           [projectRows[task.team] EXCEPT !.mark = task.data[task.team]]]
         /\ task.kind \notin SaveKinds =>
              \A x \in AllTeams : rows[x].mark = projectRows[x].mark
<1> DEFINE t == task.team
<1> DEFINE d == task.data
<1>1. /\ task.kind \in {"load", "create", "submit"} \cup SaveKinds \cup MemberKinds
      /\ t \in ProjectTeams(task.kind) /\ d \in ProjectData(task.kind)
      /\ task.kind \in SaveKinds => t \in DOMAIN d
      /\ task.project \in {OwnProject, OtherProject}
  BY DEF ProjectTask
<1>2. task.kind \notin {"load", "create"} => t \in AllTeams /\ projectRows[t] \in Project!Row
  BY <1>1 DEF ProjectTeams
<1>3. ASSUME task.kind # "create", NEW row \in Project!Row, rows = [projectRows EXCEPT ![t] = row],
             task.kind # "load", row.mark = projectRows[t].mark
      PROVE  rows \in [AllTeams -> Project!Row] /\ \A x \in AllTeams : rows[x].mark = projectRows[x].mark
  BY <1>2, <1>3
<1>4. CASE task.kind \in SaveKinds
  <2>1. PICK D \in SUBSET OwnTeams : d \in [D -> Scores]
    <3>1. ProjectData(task.kind) = UNION {[D -> Scores] : D \in SUBSET OwnTeams}
      BY <1>4 DEF ProjectData, SaveKinds, MemberKinds
    <3> QED
      BY <1>1, <3>1
  <2>2. d[t] \in Scores /\ t \in OwnTeams
    BY <1>1, <1>4, <2>1
  <2>3. t \in AllTeams /\ projectRows[t] \in Project!Row
    BY <2>2 DEF AllTeams
  <2>4. rows = [projectRows EXCEPT ![t] = [projectRows[t] EXCEPT !.mark = d[t]]]
    BY <1>4 DEF Project!Written, SaveKinds
  <2>5. [projectRows[t] EXCEPT !.mark = d[t]] \in Project!Row
    BY <2>2, <2>3 DEF Project!Row
  <2> QED
    BY <1>4, <2>2, <2>3, <2>4, <2>5
<1>5. CASE task.kind = "submit"
  <2>1. d \in Files
    BY <1>1, <1>5 DEF ProjectData, SaveKinds, MemberKinds
  <2>2. rows = [projectRows EXCEPT ![t] = [projectRows[t] EXCEPT !.file = d]]
    BY <1>5 DEF Project!Written
  <2>3. /\ [projectRows[t] EXCEPT !.file = d] \in Project!Row
        /\ [projectRows[t] EXCEPT !.file = d].mark = projectRows[t].mark
    BY <1>2, <1>5, <2>1 DEF Project!Row
  <2> HIDE DEF t, d
  <2> QED
    BY <1>3, <1>5, <2>2, <2>3 DEF SaveKinds
<1>6. CASE task.kind = "add"
  <2>1. d \in Students
    BY <1>1, <1>6 DEF ProjectData, SaveKinds, MemberKinds
  <2>2. rows = [projectRows EXCEPT ![t] = [projectRows[t] EXCEPT !.members = @ \cup {d}]]
    BY <1>6 DEF Project!Written
  <2>3. /\ [projectRows[t] EXCEPT !.members = @ \cup {d}] \in Project!Row
        /\ [projectRows[t] EXCEPT !.members = @ \cup {d}].mark = projectRows[t].mark
    BY <1>2, <1>6, <2>1 DEF Project!Row
  <2> HIDE DEF t, d
  <2> QED
    BY <1>3, <1>6, <2>2, <2>3 DEF SaveKinds
<1>7. CASE task.kind = "remove"
  <2>1. rows = [projectRows EXCEPT ![t] = Project!Without(projectRows[t], d)]
    BY <1>7 DEF Project!Written
  <2> QED
    BY <1>2, <1>3, <1>7, <2>1, WithoutRow DEF SaveKinds
<1>8. CASE task.kind = "leave"
  <2>1. rows = [projectRows EXCEPT ![t] = Project!Without(projectRows[t], Me)]
    BY <1>8 DEF Project!Written
  <2> QED
    BY <1>2, <1>3, <1>8, <2>1, WithoutRow DEF SaveKinds
<1>9. CASE task.kind = "create"
  <2>1. PICK n \in AllTeams :
          /\ projectRows[n] = Project!NoTeam
          /\ rows = [projectRows EXCEPT ![n] =
                       [Project!NoTeam EXCEPT !.members = {Me}, !.leader = Me]]
    BY <1>9 DEF Project!Written, AllTeams
  <2>2. /\ [Project!NoTeam EXCEPT !.members = {Me}, !.leader = Me] \in Project!Row
        /\ [Project!NoTeam EXCEPT !.members = {Me}, !.leader = Me].mark = Project!NoTeam.mark
    BY ProjectAssumption DEF Project!Row, Project!NoTeam
  <2> QED
    BY <1>9, <2>1, <2>2 DEF SaveKinds
<1>10. CASE task.kind = "load"
  BY <1>10 DEF Project!Written
<1> QED
  BY <1>1, <1>4, <1>5, <1>6, <1>7, <1>8, <1>9, <1>10 DEF MemberKinds

(* A list of the router has rows of its project only.                            *)
LEMMA ListingRows ==
  ASSUME projectRows \in [AllTeams -> Project!Row], NEW p
  PROVE  Project!Listing(p) \in [AllTeams -> Project!Row] /\ RowsOf(p, Project!Listing(p))
<1>1. Project!NoTeam \in Project!Row
  BY DEF Project!NoTeam, Project!Row
<1>2. \A t \in AllTeams : [projectRows[t] EXCEPT !.file = Null, !.mark = Null] \in Project!Row
  BY DEF Project!Row
<1> QED
  BY <1>1, <1>2 DEF Project!Listing, RowsOf, AllTeams

LEMMA ProjectServeWrite ==
  ASSUME ProjectInv, NEW k \in Tasks, Project!ServeWrite(k)
  PROVE  ProjectInv'
<1>1. k \in Project!Running
  BY DEF Project!ServeWrite, Project!Running
<1>2. PICK task : task = projectTasks[k] /\ ProjectTask(task)
  BY <1>1, ProjectTaskType DEF ProjectInv
<1>3. /\ task.phase = "asked" /\ UNCHANGED <<projectRole, projectPage, projectBounds, projectFlags>>
      /\ projectRows \in [AllTeams -> Project!Row]
      /\ projectBounds \in ProjectBounds /\ projectFlags \in ProjectFlags
  BY <1>2 DEF Project!ServeWrite, ProjectInv, ProjectTyped, Project!TypeOK, AllTeams
<1>4. task.kind # "load" /\ "done" \in ProjectPhases(task.kind) /\ "failed" \in ProjectPhases(task.kind)
  BY <1>2, <1>3 DEF ProjectTask, ProjectPhases, Loading
<1>5. k \in Project!Mattering
  BY <1>1, <1>2, <1>3 DEF Project!Mattering
<1>6. CASE Project!Written(task) = {}
  <2> DEFINE t == [task EXCEPT !.phase = "failed"]
  <2>1. UNCHANGED projectRows /\ projectTasks' = [projectTasks EXCEPT ![k] = t]
    BY <1>2, <1>6 DEF Project!ServeWrite
  <2>2. /\ ProjectTask(t) /\ t.kind = task.kind /\ t.mounted = task.mounted /\ t.phase = "failed"
    BY <1>2, <1>4, ProjectPhaseStep
  <2>3. t.phase \in Loading <=> task.phase \in Loading
    BY <1>3, <2>2 DEF Loading
  <2> HIDE DEF t
  <2>4. SavedSoFar(t)'
    BY <2>2 DEF SavedSoFar
  <2> QED
    BY <1>1, <1>2, <1>3, <1>5, <2>1, <2>2, <2>3, <2>4, ProjectServed
<1>7. CASE Project!Written(task) # {}
  <2> DEFINE t == [task EXCEPT !.phase = "done"]
  <2>1. projectRows' \in Project!Written(task) /\ projectTasks' = [projectTasks EXCEPT ![k] = t]
    BY <1>2, <1>7 DEF Project!ServeWrite
  <2>2. /\ ProjectTask(t) /\ t.kind = task.kind /\ t.mounted = task.mounted /\ t.phase = "done"
        /\ t.team = task.team /\ t.data = task.data /\ t.queue = task.queue
    BY <1>2, <1>4, ProjectPhaseStep
  <2>3. t.phase \in Loading <=> task.phase \in Loading
    BY <1>3, <2>2 DEF Loading
  <2> HIDE DEF t
  <2>4. /\ projectRows' \in [AllTeams -> Project!Row]
        /\ task.kind \in SaveKinds =>
             projectRows' = [projectRows EXCEPT ![task.team] =
                               [projectRows[task.team] EXCEPT !.mark = task.data[task.team]]]
    BY <1>2, <1>3, <2>1, WrittenRows
  <2>5. projectRole = "teacher" /\ ~projectFlags.overlap /\ projectBounds.elsewhere = 0 => SavedSoFar(t)'
    <3> SUFFICES ASSUME projectRole = "teacher", ~projectFlags.overlap, projectBounds.elsewhere = 0,
                        task.kind = "saveAll", NEW x \in DOMAIN task.data,
                        x \notin task.queue \/ x = task.team
                 PROVE  projectRows'[x].mark = task.data[x]
      BY <2>2 DEF SavedSoFar
    <3>1. DOMAIN task.data \subseteq AllTeams /\ task.team \in DOMAIN task.data
      BY <1>2 DEF ProjectTask, ProjectData, SaveKinds, AllTeams
    <3>2. SavedSoFar(task)
      BY <1>1, <1>2 DEF ProjectInv, SavesStored
    <3>3. CASE x = task.team
      <4>1. projectRows[x] \in Project!Row
        BY <1>3, <3>1
      <4> QED
        BY <1>3, <2>4, <3>1, <3>3, <4>1 DEF SaveKinds, Project!Row
    <3>4. CASE x # task.team
      <4>1. projectRows[x].mark = task.data[x]
        BY <1>3, <3>2, <3>4 DEF SavedSoFar
      <4> QED
        BY <1>3, <2>4, <3>1, <3>4, <4>1 DEF SaveKinds
    <3> QED
      BY <3>3, <3>4
  <2> QED
    BY <1>1, <1>2, <1>3, <1>5, <2>1, <2>2, <2>3, <2>4, <2>5, ProjectServed
<1> QED
  BY <1>6, <1>7

(* A part of a listing is one of the same project.                                *)
LEMMA PartRows ==
  ASSUME NEW p, NEW unmarked, NEW skipped,
         Project!Listing(p) \in [AllTeams -> Project!Row], RowsOf(p, Project!Listing(p))
  PROVE  /\ Project!PartOfListing(p, unmarked, skipped) \in [AllTeams -> Project!Row]
         /\ RowsOf(p, Project!PartOfListing(p, unmarked, skipped))
<1> DEFINE part(t) == Project!PartOfListing(p, unmarked, skipped)[t]
           whole(t) == Project!Listing(p)[t]
<1>1. Project!NoTeam \in Project!Row /\ [Project!NoTeam EXCEPT !.mark = Null] = Project!NoTeam
  BY DEF Project!NoTeam, Project!Row
<1>2. ASSUME NEW row \in Project!Row
      PROVE  [row EXCEPT !.mark = Null] \in Project!Row
  BY DEF Project!Row
<1>3. ASSUME NEW t \in AllTeams
      PROVE  part(t) \in {Project!NoTeam, [whole(t) EXCEPT !.mark = Null], whole(t)}
  BY DEF Project!PartOfListing, AllTeams
<1>4. ASSUME NEW t \in AllTeams
      PROVE  part(t) \in Project!Row
  <2>1. whole(t) \in Project!Row
    OBVIOUS
  <2> HIDE DEF part, whole
  <2> QED
    BY <1>1, <1>2, <1>3, <2>1
<1>5. Project!PartOfListing(p, unmarked, skipped) = [t \in AllTeams |-> part(t)]
  BY DEF Project!PartOfListing, AllTeams
<1>6. ASSUME NEW t \in AllTeams, ProjectOf[t] # p
      PROVE  part(t) = Project!NoTeam
  <2>1. whole(t) = Project!NoTeam
    BY <1>6 DEF RowsOf
  <2> HIDE DEF part, whole
  <2> QED
    BY <1>1, <1>3, <2>1
<1>7. RowsOf(p, Project!PartOfListing(p, unmarked, skipped))
  BY <1>6 DEF RowsOf
<1> HIDE DEF part, whole
<1> QED
  BY <1>4, <1>5, <1>7

LEMMA ProjectServeLoads ==
  ASSUME ProjectInv, NEW k \in Tasks, Project!ServeLoad(k) \/ Project!ServeLoadPartly(k)
  PROVE  ProjectInv'
<1>1. k \in Project!Running /\ UNCHANGED <<projectRole, projectRows, projectPage>>
  BY DEF Project!ServeLoad, Project!ServeLoadPartly, Project!Running
<1>2. PICK task : task = projectTasks[k] /\ ProjectTask(task)
  BY <1>1, ProjectTaskType DEF ProjectInv
<1>3. /\ task.phase = "reload" /\ projectRows \in [AllTeams -> Project!Row]
      /\ projectBounds \in ProjectBounds /\ projectFlags \in ProjectFlags /\ task.mounted \in BOOLEAN
  BY <1>2, ProjectIsTask
  DEF Project!ServeLoad, Project!ServeLoadPartly, ProjectInv, ProjectTyped, Project!TypeOK, AllTeams
<1>4. Project!Listing(task.project) \in [AllTeams -> Project!Row]
      /\ RowsOf(task.project, Project!Listing(task.project))
  BY <1>3, ListingRows
<1>5. ASSUME NEW rows \in [AllTeams -> Project!Row], RowsOf(task.project, rows),
             projectTasks' = [projectTasks EXCEPT ![k] = [task EXCEPT !.phase = "loaded", !.rows = rows]],
             projectBounds' \in ProjectBounds, projectBounds'.elsewhere = projectBounds.elsewhere,
             projectFlags' \in ProjectFlags, projectFlags'.moved = projectFlags.moved,
             projectFlags'.overlap = projectFlags.overlap
      PROVE  ProjectInv'
  <2> DEFINE t == [task EXCEPT !.phase = "loaded", !.rows = rows]
  <2>1. /\ t.kind = task.kind /\ t.phase = "loaded" /\ t.team = task.team /\ t.data = task.data
        /\ t.queue = task.queue /\ t.project = task.project /\ t.rows = rows
        /\ t.mounted = task.mounted
    BY <1>2 DEF ProjectTask
  <2>2. t \in [kind : {"load", "create", "submit"} \cup SaveKinds \cup MemberKinds,
               phase : ProjectPhases(task.kind), team : ProjectTeams(task.kind),
               data : ProjectData(task.kind), queue : SUBSET AllTeams,
               project : {OwnProject, OtherProject},
               rows : [AllTeams -> Project!Row] \cup {Null}, mounted : BOOLEAN]
    <3>1. "loaded" \in ProjectPhases(task.kind)
      BY DEF ProjectPhases, Loading
    <3> QED
      BY <1>2, <3>1 DEF ProjectTask
  <2>3. projectTasks' = [projectTasks EXCEPT ![k] = t]
    BY <1>5
  <2> HIDE DEF t
  <2>4. ProjectTask(t)
    BY <1>2, <1>3, <1>5, <2>1, <2>2 DEF ProjectTask
  <2>5. SavedSoFar(t)' /\ (t.phase \in Loading <=> task.phase \in Loading)
    BY <1>3, <2>1 DEF SavedSoFar, Loading
  <2> QED
    BY <1>1, <1>2, <1>3, <1>5, <2>1, <2>3, <2>4, <2>5, ProjectServed
<1>6. CASE Project!ServeLoad(k)
  <2>1. /\ projectTasks' = [projectTasks EXCEPT ![k] =
                              [task EXCEPT !.phase = "loaded", !.rows = Project!Listing(task.project)]]
        /\ UNCHANGED projectBounds
        /\ projectFlags' = [projectFlags EXCEPT !.stale = @ /\ ~task.mounted]
    BY <1>2, <1>6 DEF Project!ServeLoad
  <2>2. /\ projectFlags' \in ProjectFlags /\ projectFlags'.moved = projectFlags.moved
        /\ projectFlags'.overlap = projectFlags.overlap
    BY <1>3, <2>1 DEF ProjectFlags
  <2> QED
    BY <1>3, <1>4, <1>5, <2>1, <2>2
<1>7. CASE Project!ServeLoadPartly(k)
  <2>1. /\ projectBounds' = [projectBounds EXCEPT !.faults = @ + 1]
        /\ projectFlags' = [projectFlags EXCEPT !.stale = @ \/ task.mounted]
    BY <1>2, <1>7 DEF Project!ServeLoadPartly, Project!Fault
  <2>2. /\ projectFlags' \in ProjectFlags /\ projectFlags'.moved = projectFlags.moved
        /\ projectFlags'.overlap = projectFlags.overlap
    <3>1. (projectFlags.stale \/ task.mounted) \in BOOLEAN
      BY Zenon
    <3> QED
      BY <1>3, <2>1, <3>1 DEF ProjectFlags
  <2>3. projectBounds' \in ProjectBounds /\ projectBounds'.elsewhere = projectBounds.elsewhere
    BY <1>3, <2>1 DEF ProjectBounds
  <2>4. PICK unmarked \in SUBSET AllTeams :
          \E skipped \in SUBSET AllTeams :
            projectTasks' = [projectTasks EXCEPT ![k].phase = "loaded",
              ![k].rows = Project!PartOfListing(task.project, unmarked, skipped)]
    BY <1>2, <1>7, Zenon DEF Project!ServeLoadPartly, AllTeams
  <2>5. PICK skipped \in SUBSET AllTeams :
          projectTasks' = [projectTasks EXCEPT ![k].phase = "loaded",
            ![k].rows = Project!PartOfListing(task.project, unmarked, skipped)]
    BY <2>4, Zenon
  <2>6. PICK rows : rows = Project!PartOfListing(task.project, unmarked, skipped)
    OBVIOUS
  <2>7. projectTasks' = [projectTasks EXCEPT ![k] = [task EXCEPT !.phase = "loaded", !.rows = rows]]
    BY <1>2, <2>5, <2>6
  <2>8. rows \in [AllTeams -> Project!Row] /\ RowsOf(task.project, rows)
    BY <1>4, <2>6, PartRows
  <2> QED
    BY <1>5, <2>1, <2>2, <2>3, <2>7, <2>8
<1> QED
  BY <1>6, <1>7

LEMMA ProjectCallFails ==
  ASSUME ProjectInv, NEW k \in Tasks, Project!CallFails(k)
  PROVE  ProjectInv'
<1>1. k \in Project!Running /\ UNCHANGED <<projectRole, projectRows, projectPage, projectFlags>>
  BY DEF Project!CallFails, Project!Running
<1>2. PICK task : task = projectTasks[k] /\ ProjectTask(task)
  BY <1>1, ProjectTaskType DEF ProjectInv
<1>3. /\ projectRows \in [AllTeams -> Project!Row]
      /\ projectBounds \in ProjectBounds /\ projectFlags \in ProjectFlags
      /\ task.phase \in {"asked", "done", "reload", "loaded"}
  BY <1>2 DEF Project!CallFails, ProjectInv, ProjectTyped, Project!TypeOK, AllTeams
<1>4. PICK p : p = IF task.phase \in {"asked", "done"} THEN "failed" ELSE "loadFailed"
  OBVIOUS
<1> DEFINE t == [task EXCEPT !.phase = p]
<1>5. projectTasks' = [projectTasks EXCEPT ![k] = t]
  BY <1>2, <1>4 DEF Project!CallFails
<1>6. p \in ProjectPhases(task.kind) /\ p # "loaded"
  BY <1>2, <1>3, <1>4 DEF ProjectTask, ProjectPhases, Loading
<1>7. ProjectTask(t) /\ t.kind = task.kind /\ t.mounted = task.mounted /\ t.phase = p
  BY <1>2, <1>6, ProjectPhaseStep
<1> HIDE DEF t
<1>8. SavedSoFar(t)' /\ (t.phase \in Loading <=> task.phase \in Loading)
  BY <1>3, <1>4, <1>7 DEF SavedSoFar, Loading
<1>9. projectBounds' \in ProjectBounds /\ projectBounds'.elsewhere = projectBounds.elsewhere
  BY <1>3 DEF Project!CallFails, Project!Fault, ProjectBounds
<1> QED
  BY <1>1, <1>2, <1>3, <1>5, <1>7, <1>8, <1>9, ProjectServed

(* The loop over the drafts goes on to the next team.                            *)
LEMMA ProjectSaveNext ==
  ASSUME ProjectInv, NEW k \in Tasks, Project!SaveNext(k)
  PROVE  ProjectInv'
<1>1. /\ k \in Project!Running
      /\ UNCHANGED <<projectRole, projectRows, projectPage, projectBounds, projectFlags>>
  BY DEF Project!SaveNext, Project!Running
<1>2. PICK task : task = projectTasks[k] /\ ProjectTask(task)
  BY <1>1, ProjectTaskType DEF ProjectInv
<1>3. /\ projectRows \in [AllTeams -> Project!Row]
      /\ projectBounds \in ProjectBounds /\ projectFlags \in ProjectFlags
      /\ task.kind = "saveAll" /\ task.phase = "done"
  BY <1>2 DEF Project!SaveNext, ProjectInv, ProjectTyped, Project!TypeOK, AllTeams
<1> DEFINE rest == task.queue \ {task.team}
<1>4. PICK x \in rest :
        projectTasks' = [projectTasks EXCEPT ![k] =
                           [task EXCEPT !.team = x, !.queue = rest, !.phase = "asked"]]
  <2>1. DOMAIN projectTasks = Tasks /\ k \in Tasks
    BY ProjectTypes
  <2>2. PICK x \in rest :
          projectTasks' = [projectTasks EXCEPT ![k].team = x, ![k].queue = rest, ![k].phase = "asked"]
    BY <1>2 DEF Project!SaveNext
  <2> HIDE DEF rest
  <2>3. projectTasks' = [projectTasks EXCEPT ![k] =
                           [projectTasks[k] EXCEPT !.team = x, !.queue = rest, !.phase = "asked"]]
    BY <2>1, <2>2
  <2> QED
    BY <1>2, <2>3
<1> DEFINE t == [task EXCEPT !.team = x, !.queue = rest, !.phase = "asked"]
<1>5. /\ t.kind = task.kind /\ t.phase = "asked" /\ t.team = x /\ t.data = task.data
      /\ t.queue = rest /\ t.project = task.project /\ t.rows = task.rows
      /\ t.mounted = task.mounted
  BY <1>2 DEF ProjectTask
<1>6. t \in [kind : {"load", "create", "submit"} \cup SaveKinds \cup MemberKinds,
             phase : ProjectPhases(task.kind), team : ProjectTeams(task.kind),
             data : ProjectData(task.kind), queue : SUBSET AllTeams,
             project : {OwnProject, OtherProject},
             rows : [AllTeams -> Project!Row] \cup {Null}, mounted : BOOLEAN]
  <2>1. task.queue \subseteq AllTeams
    BY <1>2 DEF ProjectTask
  <2>2. x \in ProjectTeams(task.kind) /\ "asked" \in ProjectPhases(task.kind)
    BY <1>3, <2>1 DEF ProjectTeams, ProjectPhases
  <2> QED
    BY <1>2, <2>1, <2>2 DEF ProjectTask
<1>7. rest \subseteq DOMAIN task.data /\ x \in rest
  BY <1>2, <1>3 DEF ProjectTask
<1>8. \A y : y \notin rest => y \notin task.queue \/ y = task.team
  OBVIOUS
<1>9. projectTasks' = [projectTasks EXCEPT ![k] = t]
  BY <1>4
<1> HIDE DEF t, rest
<1>10. ProjectTask(t)
  BY <1>2, <1>3, <1>5, <1>6, <1>7 DEF ProjectTask, SaveKinds, MemberKinds
<1>11. projectRole = "teacher" /\ ~projectFlags.overlap /\ projectBounds.elsewhere = 0 => SavedSoFar(t)'
  <2> SUFFICES ASSUME projectRole = "teacher", ~projectFlags.overlap, projectBounds.elsewhere = 0
               PROVE  SavedSoFar(t)'
    OBVIOUS
  <2>1. SavedSoFar(task)
    BY <1>1, <1>2 DEF ProjectInv, SavesStored
  <2> QED
    BY <1>1, <1>3, <1>5, <1>8, <2>1 DEF SavedSoFar
<1>12. t.phase \in Loading <=> task.phase \in Loading
  BY <1>3, <1>5 DEF Loading
<1> QED
  BY <1>1, <1>2, <1>3, <1>5, <1>9, <1>10, <1>11, <1>12, ProjectServed

(* Another teacher or member changes a row.                                      *)
LEMMA ProjectElsewhere ==
  ASSUME ProjectInv, NEW t \in AllTeams, Project!Elsewhere(t)
  PROVE  ProjectInv'
<1>1. /\ UNCHANGED <<projectRole, projectPage, projectTasks>>
      /\ projectBounds' = [projectBounds EXCEPT !.elsewhere = @ + 1]
      /\ projectFlags' = [projectFlags EXCEPT !.stale = TRUE]
      /\ projectBounds \in ProjectBounds /\ projectFlags \in ProjectFlags
      /\ projectRows \in [AllTeams -> Project!Row]
  BY DEF Project!Elsewhere, ProjectInv, ProjectTyped, Project!TypeOK, AllTeams
<1>2. /\ projectBounds' \in ProjectBounds /\ projectBounds'.elsewhere # 0
      /\ projectFlags' \in ProjectFlags /\ projectFlags'.moved = projectFlags.moved
      /\ projectFlags'.overlap = projectFlags.overlap
  <2>1. projectBounds.elsewhere \in Nat /\ projectBounds'.elsewhere = projectBounds.elsewhere + 1
    BY <1>1 DEF ProjectBounds
  <2>2. projectBounds' \in ProjectBounds
    BY <1>1, <2>1 DEF ProjectBounds
  <2>3. projectBounds'.elsewhere # 0
    BY <2>1
  <2> QED
    BY <1>1, <2>2, <2>3 DEF ProjectFlags
<1>3. projectRows' \in [AllTeams -> Project!Row]
  <2>1. ASSUME NEW m \in Scores, projectRows' = [projectRows EXCEPT ![t].mark = m]
        PROVE  projectRows' \in [AllTeams -> Project!Row]
    <3>1. [projectRows[t] EXCEPT !.mark = m] \in Project!Row
      BY <1>1, <2>1 DEF Project!Row
    <3> QED
      BY <1>1, <2>1, <3>1
  <2>2. ASSUME NEW s \in Students, projectRows' = [projectRows EXCEPT ![t].members = {s}, ![t].leader = s]
        PROVE  projectRows' \in [AllTeams -> Project!Row]
    <3>1. [projectRows[t] EXCEPT !.members = {s}, !.leader = s] \in Project!Row
      BY <1>1, <2>2 DEF Project!Row
    <3>2. projectRows' = [projectRows EXCEPT ![t] = [projectRows[t] EXCEPT !.members = {s}, !.leader = s]]
      BY <1>1, <2>2 DEF Project!Row
    <3> QED
      BY <1>1, <3>1, <3>2
  <2>3. ASSUME NEW s \in Students, projectRows' = [projectRows EXCEPT ![t] = Project!Without(@, s)]
        PROVE  projectRows' \in [AllTeams -> Project!Row]
    BY <1>1, <2>3, WithoutRow
  <2> QED
    BY <2>1, <2>2, <2>3 DEF Project!Elsewhere
<1>4. Project!Running' = Project!Running /\ Project!Mattering' = Project!Mattering
  BY <1>1 DEF Project!Running, Project!Mattering
<1>5. ProjectTyped'
  <2>1. /\ ProjectTyped /\ projectPage' \in Project!PageState \cup {Null}
        /\ DOMAIN projectTasks' = Tasks
        /\ \A j \in Tasks : projectTasks'[j] = Project!NoTask \/ ProjectTask(projectTasks'[j])
    BY <1>1 DEF ProjectInv, ProjectTyped, Project!TypeOK
  <2>2. \A j \in Project!Running' : projectTasks'[j].mounted => projectPage' # Null
    BY <1>1, <1>4, <2>1, ProjectTaskType
  <2> QED
    BY <1>1, <1>2, <1>3, <2>1, <2>2, ProjectTypedIntro
<1>6. Project!NeverStuck' /\ PageSound'
  BY <1>1 DEF ProjectInv, Project!NeverStuck, Project!Attached, Project!Loading, PageSound
<1>7. TeacherWaits'
  BY <1>1, <1>2 DEF ProjectInv, TeacherWaits, Project!Attached, Project!Loading
<1>8. SavesStored'
  BY <1>1, <1>2, <1>4 DEF ProjectInv, SavesStored
<1> QED
  BY <1>5, <1>6, <1>7, <1>8 DEF ProjectInv

(* The code behind the awaits: a task ends, and lets go of the page it belongs to.   *)
LEMMA ProjectEnds ==
  ASSUME ProjectInv, NEW k \in Project!Running,
         projectTasks' = [projectTasks EXCEPT ![k] = Project!NoTask],
         UNCHANGED <<projectRole, projectRows, projectBounds>>,
         projectFlags' \in ProjectFlags, projectFlags'.moved = projectFlags.moved,
         projectFlags'.overlap = projectFlags.overlap, PageSound',
         ~projectTasks[k].mounted => projectPage' = projectPage,
         projectTasks[k].mounted =>
           /\ projectPage' \in Project!PageState
           /\ projectPage'.loading => projectPage.loading /\ projectTasks[k].phase \notin Loading
           /\ projectPage'.saving => projectPage.saving /\ projectTasks[k].kind \notin SaveKinds
           /\ projectPage'.creating => projectPage.creating /\ projectTasks[k].kind # "create"
           /\ projectPage'.submitting => projectPage.submitting /\ projectTasks[k].kind # "submit"
  PROVE  ProjectInv'
<1> DEFINE t == Project!NoTask
<1>1. PICK task : task = projectTasks[k] /\ ProjectTask(task)
  BY ProjectTaskType DEF ProjectInv
<1>2. /\ k \in Tasks /\ t.kind = "none" /\ task.kind # "none"
      /\ task.mounted => projectPage # Null
      /\ projectTasks' = [projectTasks EXCEPT ![k] = t]
  BY <1>1, ProjectTaskType, ProjectIsTask DEF ProjectInv, Project!NoTask
<1>3. /\ Project!Attached(k) <=> task.mounted
      /\ Project!Loading(k) <=> task.mounted /\ task.phase \in Loading
  BY <1>1, <1>2 DEF Project!Attached, Project!Loading, Loading
<1>4. /\ projectPage' \in Project!PageState \cup {Null}
      /\ projectPage # Null => projectPage' # Null
  BY <1>1, ProjectAssumption DEF ProjectInv, ProjectTyped, Project!TypeOK, Project!PageState, AllTeams
<1>5. ProjectTyped'
  BY <1>2, <1>4, ProjectTypes, ProjectTaskStep
<1> HIDE DEF t
<1>6. Project!NeverStuck'
  <2>1. ProjectTyped /\ Project!NeverStuck
    BY DEF ProjectInv
  <2>2. projectPage' # Null /\ projectPage'.loading =>
           \/ t.kind # "none" /\ t.mounted /\ t.phase \in Loading
           \/ projectPage # Null /\ projectPage.loading /\ ~Project!Loading(k)
    BY <1>1, <1>2, <1>3
  <2>3. projectPage' # Null /\ projectPage'.saving =>
          \/ t.kind \in {"save", "saveAll"} /\ t.mounted
          \/ /\ projectPage # Null /\ projectPage.saving
             /\ ~(Project!Attached(k) /\ projectTasks[k].kind \in {"save", "saveAll"})
    BY <1>1, <1>2, <1>3 DEF SaveKinds
  <2>4. projectPage' # Null /\ projectPage'.creating =>
          \/ t.kind \in {"create"} /\ t.mounted
          \/ /\ projectPage # Null /\ projectPage.creating
             /\ ~(Project!Attached(k) /\ projectTasks[k].kind \in {"create"})
    BY <1>1, <1>2, <1>3
  <2>5. projectPage' # Null /\ projectPage'.submitting =>
          \/ t.kind \in {"submit"} /\ t.mounted
          \/ /\ projectPage # Null /\ projectPage.submitting
             /\ ~(Project!Attached(k) /\ projectTasks[k].kind \in {"submit"})
    BY <1>1, <1>2, <1>3
  <2> QED
    BY <1>2, <2>1, <2>2, <2>3, <2>4, <2>5, ProjectNotStuck
<1>7. TeacherWaits'
  BY <1>1, <1>2, <1>3, TeacherStillWaits DEF ProjectInv
<1>8. SavesStored'
  BY <1>2, StillStored DEF ProjectInv
<1> QED
  BY <1>5, <1>6, <1>7, <1>8 DEF ProjectInv

(* What finally leaves of a page.                                                *)
LEMMA ProjectReleased ==
  ASSUME NEW k, NEW p \in Project!PageState,
         projectTasks[k].kind \in {"load", "create", "submit"} \cup SaveKinds \cup MemberKinds
  PROVE  LET q == Project!Released(k, p)
         IN /\ q \in Project!PageState
            /\ q.loading = p.loading /\ q.shown = p.shown /\ q.rows = p.rows
            /\ q.drafts = p.drafts /\ q.dialog = p.dialog
            /\ q.saving => p.saving /\ projectTasks[k].kind \notin SaveKinds
            /\ q.creating => p.creating /\ projectTasks[k].kind # "create"
            /\ q.submitting => p.submitting /\ projectTasks[k].kind # "submit"
<1>1. CASE projectTasks[k].kind \in SaveKinds
  <2>1. Project!Released(k, p) = [p EXCEPT !.saving = FALSE]
    BY <1>1 DEF Project!Released, SaveKinds
  <2> QED
    BY <1>1, <2>1 DEF Project!PageState, SaveKinds
<1>2. CASE projectTasks[k].kind = "create"
  <2>1. Project!Released(k, p) = [p EXCEPT !.creating = FALSE]
    BY <1>2 DEF Project!Released
  <2> QED
    BY <1>2, <2>1 DEF Project!PageState, SaveKinds
<1>3. CASE projectTasks[k].kind = "submit"
  <2>1. Project!Released(k, p) = [p EXCEPT !.submitting = FALSE]
    BY <1>3 DEF Project!Released
  <2> QED
    BY <1>3, <2>1 DEF Project!PageState, SaveKinds
<1>4. CASE projectTasks[k].kind \notin SaveKinds \cup {"create", "submit"}
  <2>1. Project!Released(k, p) = p
    BY <1>4 DEF Project!Released, SaveKinds
  <2> QED
    BY <1>4, <2>1 DEF SaveKinds
<1> QED
  BY <1>1, <1>2, <1>3, <1>4

LEMMA ProjectWriteAnswered ==
  ASSUME ProjectInv, NEW k \in Tasks, Project!WriteAnswered(k)
  PROVE  ProjectInv'
<1>1. k \in Project!Running /\ UNCHANGED <<projectRole, projectRows, projectBounds, projectFlags>>
  BY DEF Project!WriteAnswered, Project!Running
<1>2. PICK task : task = projectTasks[k] /\ ProjectTask(task)
  BY <1>1, ProjectTaskType DEF ProjectInv
<1>3. /\ task.phase = "done" /\ task.kind # "none" /\ task.kind # "load"
      /\ "reload" \in ProjectPhases(task.kind)
      /\ task.mounted => projectPage # Null /\ projectPage \in Project!PageState
  BY <1>1, <1>2, ProjectTaskType, ProjectIsTask
  DEF Project!WriteAnswered, ProjectInv, ProjectTask, ProjectPhases, Loading
<1> DEFINE t == [task EXCEPT !.phase = "reload"]
<1>4. /\ ProjectTask(t) /\ t.kind = task.kind /\ t.mounted = task.mounted /\ t.phase = "reload"
      /\ projectTasks' = [projectTasks EXCEPT ![k] = t]
  BY <1>2, <1>3, ProjectPhaseStep DEF Project!WriteAnswered, Project!BeginReload
<1> HIDE DEF t
<1>5. ~task.mounted => projectPage' = projectPage
  BY <1>2 DEF Project!WriteAnswered, Project!BeginReload, Project!SetPage
<1>6. ASSUME task.mounted
      PROVE  /\ projectPage' \in Project!PageState /\ projectPage'.loading
             /\ projectPage'.saving = projectPage.saving
             /\ projectPage'.creating = projectPage.creating
             /\ projectPage'.submitting = projectPage.submitting
             /\ projectPage'.shown = projectPage.shown /\ projectPage'.rows = projectPage.rows
             /\ projectPage'.drafts = projectPage.drafts
             /\ projectPage'.dialog => projectPage.dialog
  <2>1. CASE task.kind = "create"
    <3>1. projectPage' = [[projectPage EXCEPT !.dialog = FALSE] EXCEPT !.loading = TRUE]
      BY <1>2, <1>6, <2>1 DEF Project!WriteAnswered, Project!BeginReload, Project!SetPage
    <3> QED
      BY <1>3, <1>6, <3>1 DEF Project!PageState
  <2>2. CASE task.kind = "add"
    <3>1. projectPage' = [[projectPage EXCEPT !.pick = Null] EXCEPT !.loading = TRUE]
      BY <1>2, <1>6, <2>2 DEF Project!WriteAnswered, Project!BeginReload, Project!SetPage
    <3> QED
      BY <1>3, <1>6, <3>1 DEF Project!PageState
  <2>3. CASE task.kind \notin {"create", "add"}
    <3>1. projectPage' = [projectPage EXCEPT !.loading = TRUE]
      BY <1>2, <1>6, <2>3 DEF Project!WriteAnswered, Project!BeginReload, Project!SetPage
    <3> QED
      BY <1>3, <1>6, <3>1 DEF Project!PageState
  <2> QED
    BY <2>1, <2>2, <2>3
<1>7. /\ projectPage' \in Project!PageState \cup {Null}
      /\ projectPage # Null => projectPage' # Null
      /\ t.mounted => projectPage' # Null
  BY <1>3, <1>4, <1>5, <1>6, ProjectAssumption DEF ProjectInv, ProjectTyped, Project!TypeOK,
       Project!PageState, AllTeams
<1>8. PageSound'
  <2>1. CASE ~task.mounted
    BY <1>1, <1>5, <2>1 DEF ProjectInv, PageSound
  <2>2. CASE task.mounted
    BY <1>1, <1>3, <1>6, <2>2, ClickPages DEF PageSound, RowsOf
  <2> QED
    BY <2>1, <2>2
<1>9. ProjectTyped'
  BY <1>1, <1>4, <1>7, ProjectTypes, ProjectTaskStep
<1>10. /\ Project!Attached(k) <=> task.mounted
       /\ ~Project!Loading(k) /\ k \in Project!Mattering
  BY <1>1, <1>2, <1>3 DEF Project!Attached, Project!Loading, Project!Mattering
<1>11. Project!NeverStuck'
  <2>1. ProjectTyped /\ Project!NeverStuck
    BY DEF ProjectInv
  <2>2. projectPage' # Null /\ projectPage'.loading =>
           \/ t.kind # "none" /\ t.mounted /\ t.phase \in Loading
           \/ projectPage # Null /\ projectPage.loading /\ ~Project!Loading(k)
    BY <1>3, <1>4, <1>5, <1>10 DEF Loading
  <2>3. projectPage' # Null /\ projectPage'.saving =>
          \/ t.kind \in {"save", "saveAll"} /\ t.mounted
          \/ /\ projectPage # Null /\ projectPage.saving
             /\ ~(Project!Attached(k) /\ projectTasks[k].kind \in {"save", "saveAll"})
    BY <1>2, <1>3, <1>4, <1>5, <1>6, <1>10
  <2>4. projectPage' # Null /\ projectPage'.creating =>
          \/ t.kind \in {"create"} /\ t.mounted
          \/ /\ projectPage # Null /\ projectPage.creating
             /\ ~(Project!Attached(k) /\ projectTasks[k].kind \in {"create"})
    BY <1>2, <1>3, <1>4, <1>5, <1>6, <1>10
  <2>5. projectPage' # Null /\ projectPage'.submitting =>
          \/ t.kind \in {"submit"} /\ t.mounted
          \/ /\ projectPage # Null /\ projectPage.submitting
             /\ ~(Project!Attached(k) /\ projectTasks[k].kind \in {"submit"})
    BY <1>2, <1>3, <1>4, <1>5, <1>6, <1>10
  <2> QED
    BY <1>4, <2>1, <2>2, <2>3, <2>4, <2>5, ProjectNotStuck
<1>12. TeacherWaits'
  <2>1. ProjectTyped /\ TeacherWaits
    BY DEF ProjectInv
  <2>2. projectRole = "teacher" /\ ~projectFlags.moved /\ task.mounted /\ task.kind \in SaveKinds =>
          projectPage.saving
    BY <1>2, <1>10, <2>1 DEF TeacherWaits
  <2> QED
    BY <1>1, <1>4, <1>5, <1>6, <1>10, <2>1, <2>2, TeacherStillWaits
<1>13. SavesStored'
  <2>1. SavedSoFar(t)'
    BY <1>4 DEF SavedSoFar
  <2> QED
    BY <1>1, <1>4, <1>10, <2>1, StillStored DEF ProjectInv
<1> QED
  BY <1>8, <1>9, <1>11, <1>12, <1>13 DEF ProjectInv

LEMMA ProjectWriteFailed ==
  ASSUME ProjectInv, NEW k \in Tasks, Project!WriteFailed(k)
  PROVE  ProjectInv'
<1>1. /\ k \in Project!Running /\ UNCHANGED <<projectRole, projectRows, projectBounds>>
      /\ projectTasks' = [projectTasks EXCEPT ![k] = Project!NoTask]
  BY DEF Project!WriteFailed, Project!Running, Project!End
<1>2. PICK task : task = projectTasks[k] /\ ProjectTask(task)
  BY <1>1, ProjectTaskType DEF ProjectInv
<1>3. /\ task.phase \notin Loading
      /\ task.mounted => projectPage # Null /\ projectPage \in Project!PageState
      /\ task.kind \in {"load", "create", "submit"} \cup SaveKinds \cup MemberKinds
  BY <1>1, <1>2, ProjectTaskType, ProjectIsTask DEF Project!WriteFailed, ProjectInv, Loading
<1>4. /\ projectFlags' \in ProjectFlags /\ projectFlags'.moved = projectFlags.moved
      /\ projectFlags'.overlap = projectFlags.overlap
  BY DEF Project!WriteFailed, ProjectFlags, ProjectInv, ProjectTyped
<1>5. projectPage' = IF task.mounted THEN Project!Released(k, projectPage) ELSE projectPage
  BY <1>2 DEF Project!WriteFailed, Project!SetPage
<1>6. task.mounted =>
        /\ projectPage' \in Project!PageState
        /\ projectPage'.loading = projectPage.loading
        /\ projectPage'.shown = projectPage.shown /\ projectPage'.rows = projectPage.rows
        /\ projectPage'.drafts = projectPage.drafts /\ projectPage'.dialog = projectPage.dialog
        /\ projectPage'.saving => projectPage.saving /\ task.kind \notin SaveKinds
        /\ projectPage'.creating => projectPage.creating /\ task.kind # "create"
        /\ projectPage'.submitting => projectPage.submitting /\ task.kind # "submit"
  BY <1>2, <1>3, <1>5, ProjectReleased
<1>7. PageSound'
  <2>1. CASE ~task.mounted
    BY <1>1, <1>5, <2>1 DEF ProjectInv, PageSound
  <2>2. CASE task.mounted
    BY <1>1, <1>3, <1>6, <2>2, ClickPages DEF PageSound, RowsOf
  <2> QED
    BY <2>1, <2>2
<1> QED
  BY <1>1, <1>2, <1>3, <1>4, <1>5, <1>6, <1>7, ProjectEnds

(* The answer of loadData: one project, or the failed load, and no spinner.      *)
LEMMA ProjectLoadAnswered ==
  ASSUME ProjectInv, NEW k \in Tasks, Project!LoadAnswered(k)
  PROVE  ProjectInv'
<1>1. k \in Project!Running /\ UNCHANGED <<projectRole, projectRows, projectBounds>>
  BY DEF Project!LoadAnswered, Project!Running
<1>2. PICK task : task = projectTasks[k] /\ ProjectTask(task)
  BY <1>1, ProjectTaskType DEF ProjectInv
<1>3. /\ task.phase \in {"loaded", "loadFailed"} /\ task.kind # "none"
      /\ task.mounted => projectPage # Null /\ projectPage \in Project!PageState
      /\ task.project \in {OwnProject, OtherProject} /\ task.mounted \in BOOLEAN
      /\ projectFlags \in ProjectFlags
      /\ projectPage \in Project!PageState \cup {Null}
  BY <1>1, <1>2, ProjectTaskType, ProjectIsTask
  DEF Project!LoadAnswered, ProjectInv, ProjectTyped, Project!TypeOK
<1>4. PICK after :
        after = [Project!Released(k, IF task.phase = "loaded"
                                     THEN [projectPage EXCEPT
                                             !.shown = task.project, !.rows = task.rows,
                                             !.drafts = [t \in AllTeams |-> task.rows[t].mark]]
                                     ELSE projectPage) EXCEPT !.loading = FALSE]
  OBVIOUS
<1>5. task.mounted =>
        /\ after \in Project!PageState /\ after.loading = FALSE
        /\ after.saving => projectPage.saving /\ task.kind \notin SaveKinds
        /\ after.creating => projectPage.creating /\ task.kind # "create"
        /\ after.submitting => projectPage.submitting /\ task.kind # "submit"
        /\ after.dialog => projectRole = "student"
        /\ RowsOf(after.shown, after.rows)
        /\ \A t \in AllTeams : ProjectOf[t] # after.shown => after.drafts[t] = Null
  <2> SUFFICES ASSUME task.mounted
               PROVE  /\ after \in Project!PageState /\ after.loading = FALSE
                      /\ after.saving => projectPage.saving /\ task.kind \notin SaveKinds
                      /\ after.creating => projectPage.creating /\ task.kind # "create"
                      /\ after.submitting => projectPage.submitting /\ task.kind # "submit"
                      /\ after.dialog => projectRole = "student"
                      /\ RowsOf(after.shown, after.rows)
                      /\ \A t \in AllTeams : ProjectOf[t] # after.shown => after.drafts[t] = Null
    OBVIOUS
  <2>2. /\ projectPage # Null /\ projectPage \in Project!PageState
        /\ task.kind \in {"load", "create", "submit"} \cup SaveKinds \cup MemberKinds
        /\ task.project \in {OwnProject, OtherProject}
        /\ task.phase = "loaded" => task.rows \in [AllTeams -> Project!Row] /\ RowsOf(task.project, task.rows)
    BY <1>1, <1>2, <1>3, ProjectTaskType, ProjectIsTask DEF ProjectInv, ProjectTask
  <2> DEFINE drafts == [t \in AllTeams |-> task.rows[t].mark]
  <2> DEFINE filled == [projectPage EXCEPT !.shown = task.project, !.rows = task.rows, !.drafts = drafts]
  <2>3. PICK p : p = IF task.phase = "loaded" THEN filled ELSE projectPage
    OBVIOUS
  <2>4. /\ p \in Project!PageState
        /\ p.saving = projectPage.saving /\ p.creating = projectPage.creating
        /\ p.submitting = projectPage.submitting /\ p.dialog = projectPage.dialog
        /\ RowsOf(p.shown, p.rows)
        /\ \A t \in AllTeams : ProjectOf[t] # p.shown => p.drafts[t] = Null
    <3>1. CASE task.phase = "loaded"
      <4>1. /\ drafts \in [AllTeams -> Scores \cup {Null}]
            /\ \A t \in AllTeams : ProjectOf[t] # task.project => drafts[t] = Null
        <5>1. \A t \in AllTeams : task.rows[t].mark \in Scores \cup {Null}
          BY <2>2, <3>1 DEF Project!Row
        <5>2. \A t \in AllTeams : ProjectOf[t] # task.project => task.rows[t].mark = Null
          BY <2>2, <3>1 DEF RowsOf, Project!NoTeam
        <5>3. drafts \in [AllTeams -> Scores \cup {Null}]
          BY <5>1
        <5> QED
          BY <5>2, <5>3
      <4> HIDE DEF drafts
      <4>2. p = [projectPage EXCEPT !.shown = task.project, !.rows = task.rows, !.drafts = drafts]
        BY <2>3, <3>1
      <4>3. /\ p \in Project!PageState
            /\ p.saving = projectPage.saving /\ p.creating = projectPage.creating
            /\ p.submitting = projectPage.submitting /\ p.dialog = projectPage.dialog
            /\ p.shown = task.project /\ p.rows = task.rows /\ p.drafts = drafts
        BY <2>2, <3>1, <4>1, <4>2 DEF Project!PageState, AllTeams
      <4> QED
        BY <2>2, <3>1, <4>1, <4>3
    <3>2. CASE task.phase # "loaded"
      BY <2>2, <2>3, <3>2, ClickPages
    <3> QED
      BY <3>1, <3>2
  <2>5. after = [Project!Released(k, p) EXCEPT !.loading = FALSE]
    BY <1>4, <2>3
  <2> HIDE DEF filled, drafts
  <2>6. PICK q : /\ q = Project!Released(k, p) /\ q \in Project!PageState
                 /\ q.shown = p.shown /\ q.rows = p.rows /\ q.drafts = p.drafts /\ q.dialog = p.dialog
                 /\ q.saving => p.saving /\ task.kind \notin SaveKinds
                 /\ q.creating => p.creating /\ task.kind # "create"
                 /\ q.submitting => p.submitting /\ task.kind # "submit"
    BY <1>1, <1>2, <2>2, <2>4, ProjectReleased
  <2>7. /\ after \in Project!PageState /\ after.loading = FALSE
        /\ after.shown = q.shown /\ after.rows = q.rows /\ after.drafts = q.drafts
        /\ after.dialog = q.dialog /\ after.saving = q.saving /\ after.creating = q.creating
        /\ after.submitting = q.submitting
    BY <2>5, <2>6 DEF Project!PageState
  <2> QED
    BY <1>1, <1>2, <2>2, <2>4, <2>6, <2>7, ClickPages
<1> DEFINE returns == task.kind = "create" /\ (projectPage = Null \/ projectPage.url # task.project)
<1>6. /\ IF ~returns
         THEN /\ projectPage' = IF task.mounted THEN after ELSE projectPage
              /\ projectTasks' = [projectTasks EXCEPT ![k] = Project!NoTask]
         ELSE /\ projectPage' = IF projectPage = Null THEN Project!Mounted(task.project)
                                ELSE [(IF task.mounted THEN after ELSE projectPage)
                                        EXCEPT !.url = task.project, !.loading = TRUE]
              /\ projectTasks' = [projectTasks EXCEPT ![k] =
                                    Project!Task("load", "reload", Null, Null, {})]
      /\ projectFlags' = [projectFlags EXCEPT
           !.moved = @ \/ (returns /\ Project!Running # {k}),
           !.stale = @ \/ (task.mounted /\ task.phase = "loadFailed")]
  BY <1>2, <1>4 DEF Project!LoadAnswered, Project!SetPage, Project!End, AllTeams
<1>7. /\ projectFlags' \in ProjectFlags /\ projectFlags'.overlap = projectFlags.overlap
      /\ projectFlags'.moved = (projectFlags.moved \/ (returns /\ Project!Running # {k}))
  <2>1. /\ (projectFlags.moved \/ (returns /\ Project!Running # {k})) \in BOOLEAN
        /\ (projectFlags.stale \/ (task.mounted /\ task.phase = "loadFailed")) \in BOOLEAN
    BY Zenon
  <2> HIDE DEF returns
  <2> QED
    BY <1>3, <1>6, <2>1 DEF ProjectFlags
<1>8. CASE ~returns
  <2>1. PageSound'
    <3>1. CASE ~task.mounted
      BY <1>1, <1>6, <1>8, <3>1 DEF ProjectInv, PageSound
    <3>2. CASE task.mounted
      <4>1. projectPage' = after
        BY <1>6, <1>8, <3>2
      <4> QED
        BY <1>1, <1>5, <3>2, <4>1 DEF PageSound, RowsOf
    <3> QED
      BY <3>1, <3>2
  <2>2. /\ projectTasks' = [projectTasks EXCEPT ![k] = Project!NoTask]
        /\ projectPage' = IF task.mounted THEN after ELSE projectPage
    BY <1>6, <1>8
  <2>3. projectFlags'.moved = projectFlags.moved
    BY <1>3, <1>7, <1>8 DEF ProjectFlags
  <2> HIDE DEF returns
  <2> QED
    BY <1>1, <1>2, <1>5, <1>7, <2>1, <2>2, <2>3, ProjectEnds
<1>9. CASE returns
  <2>1. projectRole = "student" /\ task.kind = "create"
    BY <1>2, <1>9 DEF ProjectTask
  <2>2. PICK q \in Project!PageState :
          /\ projectPage' = [q EXCEPT !.url = task.project, !.loading = TRUE]
          /\ projectPage = Null => ~q.saving /\ ~q.creating /\ ~q.submitting
          /\ projectPage # Null =>
               /\ q.saving => projectPage.saving
               /\ q.creating => projectPage.creating /\ ~task.mounted
               /\ q.submitting => projectPage.submitting
          /\ RowsOf(q.shown, q.rows)
          /\ \A t \in AllTeams : ProjectOf[t] # q.shown => q.drafts[t] = Null
    <3>1. CASE projectPage = Null
      <4> DEFINE q == Project!Mounted(task.project)
      <4>1. /\ q.loading = TRUE /\ q.url = task.project /\ q.shown = Null
            /\ ~q.saving /\ ~q.creating /\ ~q.submitting
            /\ q.rows = [t \in AllTeams |-> Project!NoTeam] /\ q.drafts = [t \in AllTeams |-> Null]
            /\ q \in Project!PageState
        BY <1>3 DEF Project!Mounted, Project!PageState, Project!NoTeam, Project!Row, AllTeams
      <4>2. projectPage' = q
        BY <1>6, <1>9, <3>1
      <4> HIDE DEF q
      <4>3. [q EXCEPT !.url = task.project, !.loading = TRUE] = q
        BY <4>1 DEF Project!PageState
      <4>4. RowsOf(q.shown, q.rows) /\ \A t \in AllTeams : q.drafts[t] = Null
        BY <4>1 DEF RowsOf
      <4> QED
        BY <3>1, <4>1, <4>2, <4>3, <4>4
    <3>2. CASE projectPage # Null /\ task.mounted
      <4>1. projectPage' = [after EXCEPT !.url = task.project, !.loading = TRUE]
        BY <1>6, <1>9, <3>2
      <4> QED
        BY <1>5, <2>1, <3>2, <4>1
    <3>3. CASE projectPage # Null /\ ~task.mounted
      <4>1. projectPage' = [projectPage EXCEPT !.url = task.project, !.loading = TRUE]
        BY <1>6, <1>9, <3>3
      <4> QED
        BY <3>3, <4>1, ClickPages
    <3> QED
      BY <3>1, <3>2, <3>3
  <2>3. /\ projectPage' \in Project!PageState /\ projectPage'.loading = TRUE
        /\ projectPage'.url = task.project
        /\ projectPage'.saving = q.saving /\ projectPage'.creating = q.creating
        /\ projectPage'.submitting = q.submitting
        /\ projectPage'.shown = q.shown /\ projectPage'.rows = q.rows
        /\ projectPage'.drafts = q.drafts
    BY <1>3, <2>2 DEF Project!PageState
  <2>4. projectPage' # Null
    BY <2>3, ProjectAssumption DEF Project!PageState, AllTeams
  <2> DEFINE t == Project!Task("load", "reload", Null, Null, {})
  <2>5. ProjectTask(t) /\ t.mounted /\ t.kind = "load" /\ t.phase = "reload"
    BY <1>3, <2>3 DEF Project!Task, ProjectTask, ProjectPhases, ProjectTeams, ProjectData, SaveKinds,
         MemberKinds, Loading
  <2>6. projectTasks' = [projectTasks EXCEPT ![k] = t]
    BY <1>6, <1>9
  <2> HIDE DEF t, returns
  <2>7. ProjectTyped'
    BY <1>1, <1>7, <2>3, <2>4, <2>5, <2>6, ProjectTypes, ProjectTaskStep
  <2>8. PageSound'
    BY <1>1, <2>1, <2>2, <2>3 DEF PageSound, RowsOf
  <2>9. Project!NeverStuck'
    <3>1. ProjectTyped /\ Project!NeverStuck
      BY DEF ProjectInv
    <3>2. projectPage' # Null /\ projectPage'.loading =>
             \/ t.kind # "none" /\ t.mounted /\ t.phase \in Loading
             \/ projectPage # Null /\ projectPage.loading /\ ~Project!Loading(k)
      BY <2>5 DEF Loading
    <3>3. projectPage' # Null /\ projectPage'.saving =>
            \/ t.kind \in {"save", "saveAll"} /\ t.mounted
            \/ /\ projectPage # Null /\ projectPage.saving
               /\ ~(Project!Attached(k) /\ projectTasks[k].kind \in {"save", "saveAll"})
      BY <1>2, <2>1, <2>2, <2>3
    <3>4. projectPage' # Null /\ projectPage'.creating =>
            \/ t.kind \in {"create"} /\ t.mounted
            \/ /\ projectPage # Null /\ projectPage.creating
               /\ ~(Project!Attached(k) /\ projectTasks[k].kind \in {"create"})
      BY <1>2, <2>2, <2>3 DEF Project!Attached
    <3>5. projectPage' # Null /\ projectPage'.submitting =>
            \/ t.kind \in {"submit"} /\ t.mounted
            \/ /\ projectPage # Null /\ projectPage.submitting
               /\ ~(Project!Attached(k) /\ projectTasks[k].kind \in {"submit"})
      BY <1>2, <2>1, <2>2, <2>3
    <3> QED
      BY <2>6, <3>1, <3>2, <3>3, <3>4, <3>5, ProjectNotStuck
  <2>10. TeacherWaits' /\ SavesStored'
    BY <1>1, <2>1 DEF TeacherWaits, SavesStored
  <2> QED
    BY <2>7, <2>8, <2>9, <2>10 DEF ProjectInv
<1> QED
  BY <1>8, <1>9

LEMMA ProjectInit == Project!Init => ProjectInv
<1> SUFFICES ASSUME Project!Init
             PROVE  ProjectInv
  OBVIOUS
<1>1. /\ projectPage = Null /\ projectTasks = [k \in Tasks |-> Project!NoTask]
      /\ projectRole \in {"teacher", "student"}
  BY DEF Project!Init
<1>2. Project!Running = {} /\ Project!Mattering = {} /\ \A k \in Tasks : ~Project!Attached(k)
  BY <1>1 DEF Project!Running, Project!Mattering, Project!NoTask, Project!Attached
<1>3. projectRows \in [AllTeams -> Project!Row]
  <2>1. Project!Empty \in [AllTeams -> Project!Row]
    BY DEF Project!Empty, Project!NoTeam, Project!Row, AllTeams
  <2>2. Project!Formed \in [AllTeams -> Project!Row]
    <3>1. (CHOOSE s \in Students \ {Me} : TRUE) \in Students
      BY ProjectAssumption
    <3>2. [Project!NoTeam EXCEPT !.members = Students \ {Me},
                                 !.leader = CHOOSE s \in Students \ {Me} : TRUE] \in Project!Row
      BY <3>1 DEF Project!NoTeam, Project!Row
    <3> QED
      BY <3>2 DEF Project!Formed, AllTeams
  <2> QED
    BY <2>1, <2>2 DEF Project!Init
<1>4. ProjectTyped
  <2>1. projectBounds \in ProjectBounds /\ projectFlags \in ProjectFlags
    BY DEF Project!Init, ProjectBounds, ProjectFlags, Project!NoFlags
  <2> QED
    BY <1>1, <1>2, <1>3, <2>1 DEF ProjectTyped, Project!TypeOK, AllTeams
<1> QED
  BY <1>1, <1>2, <1>4 DEF ProjectInv, Project!NeverStuck, PageSound, TeacherWaits, SavesStored, Project!Loading

(* Whatever the page, its user or the services do next.                          *)
LEMMA ProjectStep == ProjectInv /\ Project!Next => ProjectInv'
<1>1. ASSUME ProjectInv, Project!Next
      PROVE  \/ \E p \in {OwnProject, OtherProject} : Project!Open(p) \/ Project!SwitchProject(p)
             \/ Project!Leave \/ Project!OpenCreateTeamDialog \/ Project!CloseCreateTeamDialog
             \/ Project!HandleCreateTeam \/ Project!HandleSaveAllEvaluations
             \/ \E t \in AllTeams :
                  \/ \E m \in Scores \cup {Null} : Project!SetEvaluationField(t, m)
                  \/ Project!HandleSaveEvaluation(t) \/ Project!HandleAddMember(t)
                  \/ Project!HandleLeaveTeam(t)
                  \/ \E s \in Students : Project!HandleRemoveMember(t, s)
                  \/ \E f \in Files : Project!HandleSubmitFile(t, f)
                  \/ Project!Elsewhere(t)
             \/ \E s \in Students : Project!PickMember(s)
             \/ \E k \in Tasks :
                  \/ Project!SaveNext(k) \/ Project!WriteAnswered(k) \/ Project!WriteFailed(k)
                  \/ Project!LoadAnswered(k) \/ Project!ServeWrite(k) \/ Project!ServeLoad(k)
                  \/ Project!ServeLoadPartly(k) \/ Project!CallFails(k)
  BY <1>1 DEF Project!Next, AllTeams
<1> QED
  BY <1>1, ProjectDialogs, ProjectPath, ProjectSaves, StudentClicks, ProjectLeave, ProjectSaveNext,
     ProjectWriteAnswered, ProjectWriteFailed, ProjectLoadAnswered, ProjectServeWrite,
     ProjectServeLoads, ProjectCallFails, ProjectElsewhere

LEMMA ProjectRests == ASSUME ProjectInv, UNCHANGED project PROVE ProjectInv'
<1>1. UNCHANGED <<projectRole, projectRows, projectPage, projectTasks, projectBounds, projectFlags>>
  BY DEF project
<1>2. Project!Running' = Project!Running /\ Project!Mattering' = Project!Mattering
  BY <1>1 DEF Project!Running, Project!Mattering
<1>3. ProjectTyped'
  <2>1. Project!TypeOK'
    BY <1>1, <1>2 DEF ProjectInv, ProjectTyped, Project!TypeOK
  <2> QED
    BY <1>1, <2>1 DEF ProjectInv, ProjectTyped, ProjectTask
<1>4. Project!NeverStuck'
  BY <1>1 DEF ProjectInv, Project!NeverStuck, Project!Loading, Project!Attached
<1>5. PageSound' /\ TeacherWaits'
  BY <1>1 DEF ProjectInv, PageSound, TeacherWaits, Project!Loading, Project!Attached
<1>6. SavesStored'
  BY <1>1, <1>2 DEF ProjectInv, SavesStored, SavedSoFar
<1> QED
  BY <1>3, <1>4, <1>5, <1>6 DEF ProjectInv

(* While a teacher can type, the page waits for no load.                         *)
LEMMA TypedUndisturbed == ProjectInv => Project!NothingOverwritten
BY DEF ProjectInv, TeacherWaits, Project!NothingOverwritten, Project!Shown

(* The task that reaches its reload has answered its last write.                 *)
LEMMA WriteConcludes ==
  ASSUME ProjectInv, Project!Next, NEW k \in Tasks,
         projectTasks[k].kind = "saveAll", projectTasks[k].phase = "done",
         projectTasks'[k].kind = "saveAll", projectTasks'[k].phase = "reload"
  PROVE  Project!WriteAnswered(k)
<1>1. DOMAIN projectTasks = Tasks
  BY DEF ProjectInv, ProjectTyped
<1>2. projectTasks'[k] # projectTasks[k]
  OBVIOUS
<1>3. ASSUME Project!Running # Tasks, NEW t, projectTasks' = [projectTasks EXCEPT ![Project!Slot] = t]
      PROVE  FALSE
  <2>1. projectTasks[Project!Slot] = Project!NoTask
    BY <1>3, ProjectSlot DEF ProjectInv
  <2>2. k # Project!Slot
    BY <2>1 DEF Project!NoTask
  <2> QED
    BY <1>1, <1>2, <1>3, <2>2
<1>4. \A t : ~Project!Start(t)
  BY <1>3 DEF Project!Start
<1>5. \A p \in {OwnProject, OtherProject} : ~Project!Open(p) /\ ~Project!SwitchProject(p)
  BY <1>3, <1>4 DEF Project!Open, Project!EffectLoad, Project!SwitchProject
<1>6. ~Project!Leave
  <2>1. ASSUME Project!Leave
        PROVE  FALSE
    <3>1. projectTasks'[k] = [projectTasks[k] EXCEPT !.mounted = FALSE]
      BY <2>1 DEF Project!Leave, Project!NoTask
    <3>2. k \in Project!Running /\ ProjectTask(projectTasks[k])
      BY ProjectTaskType DEF ProjectInv, Project!Running
    <3>3. projectTasks'[k].phase = projectTasks[k].phase
      BY <3>1, <3>2 DEF ProjectTask
    <3> QED
      BY <3>3
  <2> QED
    BY <2>1
<1>7. /\ ~Project!OpenCreateTeamDialog /\ ~Project!CloseCreateTeamDialog
      /\ ~Project!HandleCreateTeam /\ ~Project!HandleSaveAllEvaluations
      /\ \A s \in Students : ~Project!PickMember(s)
      /\ \A t \in AllTeams :
           /\ \A m \in Scores \cup {Null} : ~Project!SetEvaluationField(t, m)
           /\ ~Project!HandleSaveEvaluation(t) /\ ~Project!HandleAddMember(t)
           /\ ~Project!HandleLeaveTeam(t)
           /\ \A s \in Students : ~Project!HandleRemoveMember(t, s)
           /\ \A f \in Files : ~Project!HandleSubmitFile(t, f)
           /\ ~Project!Elsewhere(t)
  BY <1>2, <1>4
  DEF Project!OpenCreateTeamDialog, Project!CloseCreateTeamDialog, Project!HandleCreateTeam,
      Project!HandleSaveAllEvaluations, Project!PickMember, Project!SetEvaluationField,
      Project!HandleSaveEvaluation, Project!HandleAddMember, Project!HandleLeaveTeam,
      Project!HandleRemoveMember, Project!HandleSubmitFile, Project!Elsewhere
<1>8. PICK j \in Tasks :
        \/ Project!SaveNext(j) \/ Project!WriteAnswered(j) \/ Project!WriteFailed(j)
        \/ Project!LoadAnswered(j) \/ Project!ServeWrite(j) \/ Project!ServeLoad(j)
        \/ Project!ServeLoadPartly(j) \/ Project!CallFails(j)
  BY <1>5, <1>6, <1>7 DEF Project!Next, AllTeams
<1>9. j = k
  BY <1>1, <1>2, <1>8
  DEF Project!SaveNext, Project!WriteAnswered, Project!WriteFailed, Project!LoadAnswered,
      Project!ServeWrite, Project!ServeLoad, Project!ServeLoadPartly, Project!CallFails,
      Project!BeginReload, Project!End
<1>10. ProjectTask(projectTasks[k])
  BY ProjectTaskType DEF ProjectInv, Project!Running
<1>11. ~Project!SaveNext(k)
  <2>1. ASSUME Project!SaveNext(k)
        PROVE  FALSE
    <3>1. PICK t : projectTasks' = [projectTasks EXCEPT
                     ![k].team = t,
                     ![k].queue = projectTasks[k].queue \ {projectTasks[k].team},
                     ![k].phase = "asked"]
      BY <2>1 DEF Project!SaveNext
    <3>2. projectTasks'[k].phase = "asked"
      BY <1>1, <1>10, <3>1 DEF ProjectTask
    <3> QED
      BY <3>2
  <2> QED
    BY <2>1
<1>12. ~Project!CallFails(k)
  <2>1. ASSUME projectTasks' = [projectTasks EXCEPT ![k].phase = "failed"]
        PROVE  FALSE
    <3>1. projectTasks'[k].phase = "failed"
      BY <1>1, <1>10, <2>1 DEF ProjectTask
    <3> QED
      BY <3>1
  <2> QED
    BY <2>1 DEF Project!CallFails
<1> QED
  BY <1>8, <1>9, <1>11, <1>12
  DEF Project!WriteFailed, Project!LoadAnswered, Project!ServeWrite, Project!ServeLoad,
      Project!ServeLoadPartly

(* "Saved n evaluations": the reload after saving all drafts finds each of them stored. *)
LEMMA AllAreSaved ==
  ASSUME ProjectInv, Project!Next, NEW k \in Tasks,
         projectTasks[k].kind = "saveAll", projectTasks[k].phase = "done",
         projectTasks'[k].kind = "saveAll", projectTasks'[k].phase = "reload",
         projectBounds.elsewhere = 0, ~projectFlags.overlap
  PROVE  \A t \in DOMAIN projectTasks[k].data : projectRows[t].mark = projectTasks[k].data[t]
<1>1. projectTasks[k].queue = {projectTasks[k].team}
  BY WriteConcludes DEF Project!WriteAnswered
<1>2. k \in Project!Running /\ ProjectTask(projectTasks[k])
  BY ProjectTaskType DEF ProjectInv, Project!Running
<1>3. SavedSoFar(projectTasks[k])
  BY <1>2 DEF ProjectTask, SaveKinds, ProjectInv, SavesStored
<1> QED
  BY <1>1, <1>3 DEF SavedSoFar

(* A grade is changed in a project that is taught: the save that asks for it is about    *)
(* the drafts of one, whatever is on show when it is served.                                *)
LEMMA GradesTaught == ProjectInv /\ Project!Next => Project!GradesOwn
<1> SUFFICES ASSUME ProjectInv, Project!Next, NEW t \in AllTeams,
                    projectRows'[t].mark # projectRows[t].mark, projectBounds' = projectBounds
             PROVE  ProjectOf[t] \in {OwnProject}
  BY DEF Project!GradesOwn, AllTeams
<1>1. projectBounds \in ProjectBounds /\ projectRows \in [AllTeams -> Project!Row]
  BY DEF ProjectInv, ProjectTyped, Project!TypeOK, AllTeams
<1>2. projectRows' # projectRows
  OBVIOUS
<1>3. \A i \in AllTeams : ~Project!Elsewhere(i)
  BY <1>1 DEF Project!Elsewhere, ProjectBounds
<1>4. PICK k \in Tasks : Project!ServeWrite(k)
  BY <1>2, <1>3
  DEF Project!Next, AllTeams, Project!Open, Project!SwitchProject, Project!Leave,
      Project!OpenCreateTeamDialog, Project!CloseCreateTeamDialog, Project!HandleCreateTeam,
      Project!HandleSaveAllEvaluations, Project!PickMember, Project!SetEvaluationField,
      Project!HandleSaveEvaluation, Project!HandleAddMember, Project!HandleLeaveTeam,
      Project!HandleRemoveMember, Project!HandleSubmitFile, Project!SaveNext,
      Project!WriteAnswered, Project!WriteFailed, Project!LoadAnswered, Project!ServeLoad,
      Project!ServeLoadPartly, Project!CallFails
<1>5. k \in Project!Running /\ ProjectTask(projectTasks[k])
  BY <1>4, ProjectTaskType DEF ProjectInv, Project!ServeWrite, Project!Running
<1>6. projectRows' \in Project!Written(projectTasks[k])
  BY <1>2, <1>4 DEF Project!ServeWrite
<1>7. projectTasks[k].kind \in SaveKinds
  BY <1>1, <1>5, <1>6, WrittenRows
<1>8. projectTasks[k].team \in OwnTeams /\ t = projectTasks[k].team
  <2>1. PICK task : task = projectTasks[k]
    OBVIOUS
  <2>2. ProjectTask(task) /\ projectRows' \in Project!Written(task) /\ task.kind \in SaveKinds
    BY <1>5, <1>6, <1>7, <2>1
  <2>3. /\ task.team \in OwnTeams
        /\ projectRows' = [projectRows EXCEPT ![task.team] =
                             [projectRows[task.team] EXCEPT !.mark = task.data[task.team]]]
    BY <1>1, <2>2, WrittenRows
  <2>4. \A x \in AllTeams \ {task.team} : projectRows'[x] = projectRows[x]
    BY <1>1, <2>3
  <2> QED
    BY <2>1, <2>3, <2>4
<1> QED
  BY <1>8, ProjectAssumption DEF ProjectOf, AllTeams

-----------------------------------------------------------------------------
(* What the project page shows.                                                  *)

(* The router lists the same rows to the same user.                              *)
LEMMA ListingsKept ==
  ASSUME UNCHANGED <<projectRole, projectRows>>
  PROVE  Listings' = Listings
<1>1. \A p \in {OwnProject, OtherProject} : Project!Listing(p)' = Project!Listing(p)
  BY DEF Project!Listing
<1> QED
  BY <1>1 DEF Listings

(* The one task that matters starts, goes on or ends.                            *)
LEMMA ProjectShowsTask ==
  ASSUME ProjectTyped, NEW k \in Tasks, NEW t, t = Project!NoTask \/ t.kind # "none",
         projectTasks' = [projectTasks EXCEPT ![k] = t],
         \A j \in Tasks \ {k} : j \notin Project!Mattering,
         t # Project!NoTask /\ projectPage' # Null => t.mounted \/ t.phase \in Loading,
         t # Project!NoTask /\ t.mounted =>
           /\ t.project = projectPage'.url
           /\ t.phase \in Loading => projectPage'.loading
           /\ t.phase = "loaded" /\ ~projectFlags'.stale => t.rows = Listings'[t.project],
         Project!Shown' /\ ~projectFlags'.stale /\ (t # Project!NoTask => ~t.mounted) =>
           /\ projectPage'.shown = projectPage'.url
           /\ projectPage'.rows = Listings'[projectPage'.url]
  PROVE  ProjectShows'
<1>1. /\ projectTasks'[k] = t
      /\ \A j \in Tasks \ {k} : /\ projectTasks'[j] = projectTasks[j]
                                /\ j \in Project!Running' <=> j \in Project!Running
                                /\ j \in Project!Mattering' <=> j \in Project!Mattering
      /\ Project!Running' \subseteq Tasks /\ Project!Mattering' \subseteq Tasks
      /\ k \in Project!Mattering' <=>
              t.kind # "none" /\ (t.mounted \/ t.phase \in {"asked", "done", "failed"})
      /\ k \in Project!Running' <=> t.kind # "none"
  BY ProjectOthers
<1>2. t.kind # "none" <=> t # Project!NoTask
  BY DEF Project!NoTask
<1>3. \A j \in Project!Mattering' : j = k
  BY <1>1
<1>4. projectPage' # Null => \A j \in Project!Mattering' : projectTasks'[j].mounted
  BY <1>1, <1>2, <1>3 DEF Loading
<1>5. \A j \in Project!Running' : projectTasks'[j].mounted => j = k /\ t # Project!NoTask
  <2>1. ASSUME NEW j \in Project!Running', projectTasks'[j].mounted
        PROVE  j = k
    BY <1>3, <2>1 DEF Project!Mattering
  <2> QED
    BY <1>1, <1>2, <2>1
<1>6. \A j \in Project!Running' : projectTasks'[j].mounted =>
        LET task == projectTasks'[j]
        IN /\ task.project = projectPage'.url
           /\ task.phase \in Loading => projectPage'.loading
           /\ task.phase = "loaded" /\ ~projectFlags'.stale =>
                task.rows = Listings'[task.project]
  BY <1>1, <1>5
<1>7. ASSUME Project!Shown', ~projectFlags'.stale, Project!Mattering' = {}
      PROVE  /\ projectPage'.shown = projectPage'.url
             /\ projectPage'.rows = Listings'[projectPage'.url]
  <2>1. t # Project!NoTask => ~t.mounted
    BY <1>1, <1>2, <1>7
  <2> QED
    BY <1>7, <2>1
<1> QED
  BY <1>3, <1>4, <1>6, <1>7 DEF ProjectShows

(* A task that does not matter does not disturb the one that does.               *)
LEMMA ProjectShowsIdle ==
  ASSUME ProjectTyped, ProjectShows, NEW k \in Tasks, k \notin Project!Mattering, NEW t,
         projectTasks' = [projectTasks EXCEPT ![k] = t],
         t.kind = "none" \/ (~t.mounted /\ t.phase \in Loading),
         UNCHANGED <<projectRole, projectRows, projectPage>>,
         projectFlags'.overlap = projectFlags.overlap, projectFlags'.stale = projectFlags.stale,
         projectFlags'.moved = projectFlags.moved
  PROVE  ProjectShows'
<1>1. /\ projectTasks'[k] = t
      /\ \A j \in Tasks \ {k} : /\ projectTasks'[j] = projectTasks[j]
                                /\ j \in Project!Running' <=> j \in Project!Running
                                /\ j \in Project!Mattering' <=> j \in Project!Mattering
      /\ Project!Running' \subseteq Tasks /\ Project!Mattering' \subseteq Tasks
      /\ k \in Project!Mattering' <=>
              t.kind # "none" /\ (t.mounted \/ t.phase \in {"asked", "done", "failed"})
      /\ k \in Project!Running' <=> t.kind # "none"
  BY ProjectOthers
<1>2. k \notin Project!Mattering'
  BY <1>1 DEF Loading
<1>3. Project!Mattering' = Project!Mattering
  <2>1. Project!Mattering \subseteq Tasks
    BY DEF Project!Mattering, Project!Running
  <2> QED
    BY <1>1, <1>2, <2>1
<1>4. \A j \in Project!Mattering : projectTasks'[j] = projectTasks[j]
  BY <1>1, <1>2, <1>3
<1>5. /\ \A j \in Project!Running' : projectTasks'[j].mounted => j \in Project!Mattering
      /\ \A j \in Project!Mattering : j \in Project!Running
  BY <1>3 DEF Project!Mattering
<1>6. Project!Shown' <=> Project!Shown
  BY DEF Project!Shown
<1>7. Listings' = Listings
  BY ListingsKept
<1>8. SUFFICES ASSUME ~projectFlags'.overlap, ~projectFlags'.moved
               PROVE  ProjectShows'
  BY DEF ProjectShows
<1>9. /\ \A k1, k2 \in Project!Mattering' : k1 = k2
      /\ projectPage' # Null => \A j \in Project!Mattering' : projectTasks'[j].mounted
  BY <1>3, <1>4, <1>8 DEF ProjectShows
<1>10. ASSUME NEW j \in Project!Running', projectTasks'[j].mounted
       PROVE  LET task == projectTasks'[j]
              IN /\ task.project = projectPage'.url
                 /\ task.phase \in Loading => projectPage'.loading
                 /\ task.phase = "loaded" /\ ~projectFlags'.stale =>
                      task.rows = Listings'[task.project]
  <2>1. /\ j \in Project!Running /\ projectTasks'[j] = projectTasks[j]
        /\ projectTasks[j].mounted
    BY <1>4, <1>5, <1>10
  <2>2. /\ projectTasks[j].project = projectPage.url
        /\ projectTasks[j].phase \in Loading => projectPage.loading
        /\ projectTasks[j].phase = "loaded" /\ ~projectFlags.stale =>
             projectTasks[j].rows = Listings[projectTasks[j].project]
    BY <1>8, <2>1 DEF ProjectShows
  <2> QED
    BY <1>7, <2>1, <2>2
<1>11. ASSUME ~projectFlags'.stale, Project!Shown', Project!Mattering' = {}
       PROVE  /\ projectPage'.shown = projectPage'.url
              /\ projectPage'.rows = Listings'[projectPage'.url]
  <2>1. /\ projectPage.shown = projectPage.url
        /\ projectPage.rows = Listings[projectPage.url]
    BY <1>3, <1>6, <1>8, <1>11 DEF ProjectShows
  <2> QED
    BY <2>1, <1>7
<1> QED
  BY <1>9, <1>10, <1>11 DEF ProjectShows

(* The page goes, and its tasks go on without it.                                *)
LEMMA ProjectShowsGone ==
  ASSUME ProjectTyped, ProjectShows, Project!Leave
  PROVE  ProjectShows'
<1>1. ASSUME NEW j \in Project!Running'
      PROVE  /\ j \in Project!Running /\ ~projectTasks'[j].mounted
             /\ projectTasks'[j].phase = projectTasks[j].phase
  <2>1. /\ j \in Tasks /\ j \in Project!Running
        /\ projectTasks'[j] = [projectTasks[j] EXCEPT !.mounted = FALSE]
    BY <1>1 DEF Project!Leave, Project!Running, Project!NoTask
  <2>2. ProjectTask(projectTasks[j])
    BY <2>1, ProjectTaskType
  <2> QED
    BY <2>1, <2>2 DEF ProjectTask
<1>2. \A j \in Project!Mattering' : j \in Project!Mattering
  BY <1>1 DEF Project!Mattering
<1>3. projectPage' = Null /\ projectFlags' = projectFlags
  BY DEF Project!Leave
<1> QED
  BY <1>1, <1>2, <1>3 DEF ProjectShows, Project!Shown

(* Dialogs, picks and drafts, what others write, and the steps of other pages.   *)
LEMMA ProjectShowsQuiet ==
  ASSUME ProjectShows, UNCHANGED <<projectRole, projectTasks>>,
         projectFlags'.overlap = projectFlags.overlap, projectFlags'.moved = projectFlags.moved,
         \/ projectPage' = projectPage
         \/ /\ projectPage # Null /\ projectPage'.url = projectPage.url
            /\ projectPage'.shown = projectPage.shown /\ projectPage'.rows = projectPage.rows
            /\ projectPage'.loading = projectPage.loading,
         \/ projectFlags'.stale
         \/ UNCHANGED projectRows /\ projectFlags'.stale = projectFlags.stale
  PROVE  ProjectShows'
<1>1. Project!Running' = Project!Running /\ Project!Mattering' = Project!Mattering
  BY DEF Project!Running, Project!Mattering
<1>2. Project!Shown' => Project!Shown
  BY DEF Project!Shown
<1>3. /\ projectPage' # Null => projectPage # Null
      /\ projectPage # Null =>
           /\ projectPage'.url = projectPage.url /\ projectPage'.shown = projectPage.shown
           /\ projectPage'.rows = projectPage.rows /\ projectPage'.loading = projectPage.loading
      /\ projectPage'.url = projectPage.url /\ projectPage'.loading = projectPage.loading
  OBVIOUS
<1>4. SUFFICES ASSUME ~projectFlags'.overlap, ~projectFlags'.moved
               PROVE  ProjectShows'
  BY DEF ProjectShows
<1>5. /\ \A k1, k2 \in Project!Mattering : k1 = k2
      /\ projectPage # Null => \A k \in Project!Mattering : projectTasks[k].mounted
      /\ \A k \in Project!Running : projectTasks[k].mounted =>
           /\ projectTasks[k].project = projectPage.url
           /\ projectTasks[k].phase \in Loading => projectPage.loading
           /\ projectTasks[k].phase = "loaded" /\ ~projectFlags.stale =>
                projectTasks[k].rows = Listings[projectTasks[k].project]
      /\ Project!Shown /\ ~projectFlags.stale /\ Project!Mattering = {} =>
           /\ projectPage.shown = projectPage.url
           /\ projectPage.rows = Listings[projectPage.url]
  BY <1>4 DEF ProjectShows
<1>6. ~projectFlags'.stale => Listings' = Listings
  BY ListingsKept
<1>7. ASSUME NEW k \in Project!Running', projectTasks'[k].mounted
      PROVE  LET task == projectTasks'[k]
             IN /\ task.project = projectPage'.url
                /\ task.phase \in Loading => projectPage'.loading
                /\ task.phase = "loaded" /\ ~projectFlags'.stale =>
                     task.rows = Listings'[task.project]
  BY <1>1, <1>3, <1>5, <1>6, <1>7
<1>8. ASSUME Project!Shown', ~projectFlags'.stale, Project!Mattering' = {}
      PROVE  /\ projectPage'.shown = projectPage'.url
             /\ projectPage'.rows = Listings'[projectPage'.url]
  <2>1. projectPage # Null
    BY <1>2, <1>8 DEF Project!Shown
  <2> QED
    BY <1>1, <1>2, <1>3, <1>5, <1>6, <1>8, <2>1
<1> QED
  BY <1>1, <1>3, <1>5, <1>7, <1>8 DEF ProjectShows

(* A click, or a new path: nothing else matters by then, or overlap says so.     *)
LEMMA ProjectShowsStart ==
  ASSUME ProjectInv, ProjectShows, NEW t, t.kind # "none", t.mounted, t.phase \in {"asked", "reload"},
         t.project = projectPage'.url, t.phase = "reload" => projectPage'.loading,
         Project!Running # Tasks, projectTasks' = [projectTasks EXCEPT ![Project!Slot] = t],
         ~projectFlags'.overlap => Project!Mattering = {}
  PROVE  ProjectShows'
<1>1. ProjectTyped /\ Project!Slot \in Tasks
  BY ProjectSlot DEF ProjectInv
<1>2. SUFFICES ASSUME ~projectFlags'.overlap
               PROVE  ProjectShows'
  BY DEF ProjectShows
<1>3. \A j \in Tasks \ {Project!Slot} : j \notin Project!Mattering
  BY <1>2
<1>4. t # Project!NoTask
  BY DEF Project!NoTask
<1>5. /\ t.phase \in Loading => projectPage'.loading
      /\ t.phase # "loaded"
  BY DEF Loading
<1> QED
  BY <1>1, <1>3, <1>4, <1>5, ProjectShowsTask

(* A new path, with the page or under it.                                         *)
LEMMA ProjectShowsPath ==
  ASSUME ProjectInv, ProjectShows, NEW p \in {OwnProject, OtherProject},
         Project!Open(p) \/ Project!SwitchProject(p)
  PROVE  ProjectShows'
<1> DEFINE t == Project!Task("load", "reload", Null, Null, {})
<1>1. t.kind # "none" /\ t.mounted /\ t.phase = "reload" /\ t.project = projectPage'.url
  BY DEF Project!Task
<1>2. Project!Running # Tasks /\ projectTasks' = [projectTasks EXCEPT ![Project!Slot] = t]
  BY DEF Project!Open, Project!SwitchProject, Project!EffectLoad, Project!Start
<1>3. projectPage'.loading
  <2>1. CASE Project!Open(p)
    BY <2>1 DEF Project!Open, Project!Mounted
  <2>2. CASE Project!SwitchProject(p)
    BY <2>2, ClickPages DEF Project!SwitchProject, Project!PageState
  <2> QED
    BY <2>1, <2>2
<1>4. ~projectFlags'.overlap => Project!Mattering = {}
  <2>1. CASE Project!Open(p)
    <3>1. Project!Start(t)
      BY <2>1 DEF Project!Open, Project!EffectLoad
    <3> HIDE DEF t
    <3> QED
      BY <3>1, ClickFlags
  <2>2. CASE Project!SwitchProject(p)
    <3>1. PICK moved, over \in BOOLEAN :
            /\ projectFlags' = [projectFlags EXCEPT !.moved = moved, !.overlap = over]
            /\ ~over => Project!Mattering = {}
      BY <2>2 DEF Project!SwitchProject
    <3> QED
      BY <3>1, ProjectTypes DEF ProjectFlags
  <2> QED
    BY <2>1, <2>2
<1> HIDE DEF t
<1> QED
  BY <1>1, <1>2, <1>3, <1>4, ProjectShowsStart

(* The clicks that start a task.                                                  *)
LEMMA ProjectShowsClicks ==
  ASSUME ProjectInv, ProjectShows,
         \/ Project!HandleSaveAllEvaluations \/ Project!HandleCreateTeam
         \/ \E t \in AllTeams :
              \/ Project!HandleSaveEvaluation(t)
              \/ Project!HandleAddMember(t) \/ Project!HandleLeaveTeam(t)
              \/ \E s \in Students : Project!HandleRemoveMember(t, s)
              \/ \E f \in Files : Project!HandleSubmitFile(t, f)
  PROVE  ProjectShows'
<1>1. ASSUME NEW kind, kind # "none", NEW team, NEW data, NEW queue,
             Project!Start(Project!Task(kind, "asked", team, data, queue))
      PROVE  ProjectShows'
  <2> DEFINE t == Project!Task(kind, "asked", team, data, queue)
  <2>1. t.kind # "none" /\ t.mounted /\ t.phase = "asked" /\ t.project = projectPage'.url
    BY <1>1 DEF Project!Task
  <2>2. Project!Start(t)
    BY <1>1
  <2> HIDE DEF t
  <2>3. /\ Project!Running # Tasks /\ projectTasks' = [projectTasks EXCEPT ![Project!Slot] = t]
        /\ ~projectFlags'.overlap => Project!Mattering = {}
    BY <2>2, ClickFlags DEF Project!Start
  <2> QED
    BY <2>1, <2>3, ProjectShowsStart
<1>2. CASE Project!HandleSaveAllEvaluations
  BY <1>1, <1>2 DEF Project!HandleSaveAllEvaluations
<1>3. CASE Project!HandleCreateTeam
  BY <1>1, <1>3 DEF Project!HandleCreateTeam
<1>4. ASSUME NEW t \in AllTeams,
             \/ Project!HandleSaveEvaluation(t)
             \/ Project!HandleAddMember(t) \/ Project!HandleLeaveTeam(t)
             \/ \E s \in Students : Project!HandleRemoveMember(t, s)
             \/ \E f \in Files : Project!HandleSubmitFile(t, f)
      PROVE  ProjectShows'
  BY <1>1, <1>4
  DEF Project!HandleSaveEvaluation, Project!HandleAddMember, Project!HandleLeaveTeam,
      Project!HandleRemoveMember, Project!HandleSubmitFile
<1> QED
  BY <1>2, <1>3, <1>4

(* What is known of the task that matters, and of the page with it.              *)
LEMMA ProjectShowsKnown ==
  ASSUME ProjectInv, ProjectShows, ~projectFlags.overlap, ~projectFlags.moved,
         NEW k \in Project!Mattering
  PROVE  LET task == projectTasks[k]
         IN /\ \A j \in Tasks \ {k} : j \notin Project!Mattering
            /\ projectPage # Null <=> task.mounted
            /\ task.mounted => task.project = projectPage.url
            /\ task.mounted /\ task.phase \in Loading => projectPage.loading
            /\ task.mounted /\ task.phase = "loaded" /\ ~projectFlags.stale =>
                 task.rows = Listings[task.project]
<1>1. k \in Project!Running
  BY DEF Project!Mattering
<1>2. projectTasks[k].mounted => projectPage # Null
  BY <1>1, ProjectTaskType DEF ProjectInv
<1>3. /\ projectPage # Null => projectTasks[k].mounted
      /\ \A j \in Tasks \ {k} : j \notin Project!Mattering
  BY DEF ProjectShows
<1>4. projectTasks[k].mounted =>
        /\ projectTasks[k].project = projectPage.url
        /\ projectTasks[k].phase \in Loading => projectPage.loading
        /\ projectTasks[k].phase = "loaded" /\ ~projectFlags.stale =>
             projectTasks[k].rows = Listings[projectTasks[k].project]
  BY <1>1 DEF ProjectShows
<1> QED
  BY <1>2, <1>3, <1>4

(* A task goes on while the page stays as it is.                                 *)
LEMMA ProjectShowsServed ==
  ASSUME ProjectInv, ProjectShows, NEW k \in Project!Running, NEW t, t.kind # "none",
         projectTasks' = [projectTasks EXCEPT ![k] = t], UNCHANGED <<projectRole, projectPage>>,
         t.mounted = projectTasks[k].mounted, t.project = projectTasks[k].project,
         projectTasks[k].phase \in {"asked", "done", "failed"} \cup Loading,
         t.phase \in {"asked", "done", "failed"} \cup Loading,
         projectTasks[k].phase \in Loading <=> t.phase \in Loading,
         projectFlags'.overlap = projectFlags.overlap, projectFlags'.moved = projectFlags.moved,
         ~t.mounted /\ t.phase \in Loading =>
           UNCHANGED projectRows /\ projectFlags'.stale = projectFlags.stale,
         t.mounted /\ t.phase = "loaded" /\ ~projectFlags'.stale => t.rows = Listings'[t.project]
  PROVE  ProjectShows'
<1>1. PICK task : task = projectTasks[k]
  OBVIOUS
<1>2. k \in Tasks /\ ProjectTyped /\ t # Project!NoTask
  BY DEF ProjectInv, Project!Running, Project!NoTask
<1>3. k \in Project!Mattering <=> t.mounted \/ t.phase \notin Loading
  BY DEF Project!Mattering, Loading
<1>4. CASE ~t.mounted /\ t.phase \in Loading
  <2>1. k \notin Project!Mattering
    BY <1>3, <1>4
  <2> QED
    BY <1>2, <1>4, <2>1, ProjectShowsIdle
<1>5. CASE t.mounted \/ t.phase \notin Loading
  <2>1. SUFFICES ASSUME ~projectFlags'.overlap, ~projectFlags'.moved
                 PROVE  ProjectShows'
    BY DEF ProjectShows
  <2>2. k \in Project!Mattering /\ ~projectFlags.overlap /\ ~projectFlags.moved
    BY <1>3, <1>5, <2>1
  <2>3. /\ \A j \in Tasks \ {k} : j \notin Project!Mattering
        /\ projectPage # Null <=> task.mounted
        /\ task.mounted => task.project = projectPage.url
        /\ task.mounted /\ task.phase \in Loading => projectPage.loading
    BY <1>1, <2>2, ProjectShowsKnown
  <2>4. t.mounted =>
          /\ t.project = projectPage'.url
          /\ t.phase \in Loading => projectPage'.loading
          /\ t.phase = "loaded" /\ ~projectFlags'.stale => t.rows = Listings'[t.project]
    BY <1>1, <2>3
  <2>5. projectPage' # Null => t.mounted
    BY <1>1, <2>3
  <2>6. Project!Shown' => t.mounted
    BY <2>5 DEF Project!Shown
  <2> QED
    BY <1>2, <2>3, <2>4, <2>5, <2>6, ProjectShowsTask
<1> QED
  BY <1>4, <1>5

(* The services.                                                                 *)
LEMMA ProjectShowsServices ==
  ASSUME ProjectInv, ProjectShows, NEW k \in Tasks,
         \/ Project!SaveNext(k) \/ Project!ServeWrite(k) \/ Project!ServeLoad(k)
         \/ Project!ServeLoadPartly(k) \/ Project!CallFails(k)
  PROVE  ProjectShows'
<1>1. /\ k \in Project!Running /\ UNCHANGED <<projectRole, projectPage>>
      /\ projectFlags \in ProjectFlags /\ DOMAIN projectTasks = Tasks
  BY ProjectTypes
  DEF Project!SaveNext, Project!ServeWrite, Project!ServeLoad, Project!ServeLoadPartly,
      Project!CallFails, Project!Running
<1>2. PICK task : task = projectTasks[k] /\ ProjectTask(task)
  BY <1>1, ProjectTaskType DEF ProjectInv
<1>3. /\ task.kind # "none" /\ task.phase \in {"asked", "done", "failed"} \cup Loading
      /\ task.project \in {OwnProject, OtherProject} /\ task.mounted \in BOOLEAN
  BY <1>2, ProjectIsTask
<1>4. ASSUME NEW phase, NEW team, NEW queue, NEW rows
      PROVE  LET t == [task EXCEPT !.phase = phase, !.team = team, !.queue = queue, !.rows = rows]
             IN /\ t.kind = task.kind /\ t.mounted = task.mounted /\ t.project = task.project
                /\ t.phase = phase /\ t.rows = rows
  BY <1>2 DEF ProjectTask
<1>5. ASSUME NEW phase, phase \in {"asked", "done", "failed"} \cup Loading, NEW team, NEW queue, NEW rows,
             projectTasks' = [projectTasks EXCEPT ![k] =
               [task EXCEPT !.phase = phase, !.team = team, !.queue = queue, !.rows = rows]],
             task.phase \in Loading <=> phase \in Loading,
             projectFlags'.overlap = projectFlags.overlap, projectFlags'.moved = projectFlags.moved,
             ~task.mounted /\ phase \in Loading =>
               UNCHANGED projectRows /\ projectFlags'.stale = projectFlags.stale,
             task.mounted /\ phase = "loaded" /\ ~projectFlags'.stale => rows = Listings'[task.project]
      PROVE  ProjectShows'
  <2>1. PICK t : t = [task EXCEPT !.phase = phase, !.team = team, !.queue = queue, !.rows = rows]
    OBVIOUS
  <2>2. /\ t.kind # "none" /\ t.mounted = task.mounted /\ t.project = task.project
        /\ t.phase = phase /\ t.rows = rows
    BY <1>3, <1>4, <2>1
  <2>3. projectTasks' = [projectTasks EXCEPT ![k] = t]
    BY <1>5, <2>1
  <2>4. /\ t.mounted = projectTasks[k].mounted /\ t.project = projectTasks[k].project
        /\ projectTasks[k].phase \in {"asked", "done", "failed"} \cup Loading
        /\ t.phase \in {"asked", "done", "failed"} \cup Loading
        /\ projectTasks[k].phase \in Loading <=> t.phase \in Loading
    BY <1>2, <1>3, <1>5, <2>2
  <2>5. /\ ~t.mounted /\ t.phase \in Loading =>
             UNCHANGED projectRows /\ projectFlags'.stale = projectFlags.stale
        /\ t.mounted /\ t.phase = "loaded" /\ ~projectFlags'.stale => t.rows = Listings'[t.project]
    BY <1>5, <2>2
  <2> QED
    BY <1>1, <1>5, <2>2, <2>3, <2>4, <2>5, ProjectShowsServed
<1>6. PICK team, queue, listed : team = task.team /\ queue = task.queue /\ listed = task.rows
  OBVIOUS
<1>7. ASSUME NEW phase, phase \in {"asked", "done", "failed"} \cup Loading, NEW rows,
              \/ projectTasks' = [projectTasks EXCEPT ![k].phase = phase] /\ phase # "loaded"
              \/ projectTasks' = [projectTasks EXCEPT ![k].phase = phase, ![k].rows = rows],
              task.phase \in Loading <=> phase \in Loading,
              projectFlags'.overlap = projectFlags.overlap, projectFlags'.moved = projectFlags.moved,
              ~task.mounted /\ phase \in Loading =>
                UNCHANGED projectRows /\ projectFlags'.stale = projectFlags.stale,
              task.mounted /\ phase = "loaded" /\ ~projectFlags'.stale => rows = Listings'[task.project]
      PROVE  ProjectShows'
  <2>1. CASE projectTasks' = [projectTasks EXCEPT ![k].phase = phase] /\ phase # "loaded"
    <3>1. projectTasks' = [projectTasks EXCEPT ![k] =
               [task EXCEPT !.phase = phase, !.team = team, !.queue = queue, !.rows = listed]]
      BY <1>1, <1>2, <1>6, <2>1 DEF ProjectTask
    <3>2. task.mounted /\ phase = "loaded" /\ ~projectFlags'.stale => listed = Listings'[task.project]
      BY <2>1
    <3> QED
      BY <1>5, <1>7, <3>1, <3>2
  <2>2. CASE projectTasks' = [projectTasks EXCEPT ![k].phase = phase, ![k].rows = rows]
    <3>1. projectTasks' = [projectTasks EXCEPT ![k] =
               [task EXCEPT !.phase = phase, !.team = team, !.queue = queue, !.rows = rows]]
      BY <1>1, <1>2, <1>6, <2>2 DEF ProjectTask
    <3> QED
      BY <1>5, <1>7, <3>1
  <2> QED
    BY <1>7, <2>1, <2>2
<1>8. CASE Project!SaveNext(k)
  <2>1. PICK t, rest : projectTasks' = [projectTasks EXCEPT
                          ![k].team = t, ![k].queue = rest, ![k].phase = "asked"]
    BY <1>8 DEF Project!SaveNext
  <2>2. projectTasks' = [projectTasks EXCEPT ![k] =
               [task EXCEPT !.phase = "asked", !.team = t, !.queue = rest, !.rows = task.rows]]
    BY <1>1, <1>2, <2>1 DEF ProjectTask
  <2>3. task.phase = "done" /\ UNCHANGED projectFlags
    BY <1>2, <1>8 DEF Project!SaveNext
  <2>4. /\ "asked" \in {"asked", "done", "failed"} \cup Loading
        /\ task.phase \in Loading <=> "asked" \in Loading
    BY <2>3 DEF Loading
  <2>5. /\ projectFlags'.overlap = projectFlags.overlap /\ projectFlags'.moved = projectFlags.moved
        /\ "asked" \notin Loading
    BY <2>3 DEF Loading
  <2> QED
    BY <1>5, <2>2, <2>4, <2>5
<1>9. CASE Project!ServeWrite(k)
  <2>1. PICK phase \in {"failed", "done"} : projectTasks' = [projectTasks EXCEPT ![k].phase = phase]
    BY <1>9 DEF Project!ServeWrite
  <2>2. task.phase = "asked" /\ UNCHANGED projectFlags
    BY <1>2, <1>9 DEF Project!ServeWrite
  <2>3. /\ phase \in {"asked", "done", "failed"} \cup Loading /\ phase \notin Loading
        /\ task.phase \in Loading <=> phase \in Loading
    BY <2>1, <2>2 DEF Loading
  <2>4. projectFlags'.overlap = projectFlags.overlap /\ projectFlags'.moved = projectFlags.moved
    BY <2>2
  <2>5. phase # "loaded"
    BY <2>1
  <2> QED
    BY <1>7, <2>1, <2>3, <2>4, <2>5
<1>10. CASE Project!CallFails(k)
  <2>1. PICK phase : /\ projectTasks' = [projectTasks EXCEPT ![k].phase = phase]
                     /\ phase = IF task.phase \in {"asked", "done"} THEN "failed" ELSE "loadFailed"
    BY <1>2, <1>10 DEF Project!CallFails
  <2>2. /\ task.phase \in {"asked", "done", "reload", "loaded"}
        /\ UNCHANGED <<projectRows, projectFlags>>
    BY <1>2, <1>10 DEF Project!CallFails
  <2>3. /\ phase \in {"asked", "done", "failed"} \cup Loading /\ phase # "loaded"
        /\ task.phase \in Loading <=> phase \in Loading
    BY <2>1, <2>2 DEF Loading
  <2>4. /\ projectFlags'.overlap = projectFlags.overlap /\ projectFlags'.moved = projectFlags.moved
        /\ projectFlags'.stale = projectFlags.stale
    BY <2>2
  <2> QED
    BY <1>7, <2>1, <2>2, <2>3, <2>4
<1>11. CASE Project!ServeLoad(k)
  <2>1. /\ task.phase = "reload" /\ UNCHANGED projectRows
        /\ projectTasks' = [projectTasks EXCEPT ![k].phase = "loaded",
                                                ![k].rows = Project!Listing(task.project)]
        /\ projectFlags' = [projectFlags EXCEPT !.stale = @ /\ ~task.mounted]
    BY <1>2, <1>11 DEF Project!ServeLoad
  <2>2. PICK stale \in BOOLEAN : /\ projectFlags' = [projectFlags EXCEPT !.stale = stale]
                                 /\ ~task.mounted => stale = projectFlags.stale
    BY <1>1, <2>1 DEF ProjectFlags
  <2>3. /\ projectFlags'.overlap = projectFlags.overlap /\ projectFlags'.moved = projectFlags.moved
        /\ ~task.mounted => projectFlags'.stale = projectFlags.stale
    BY <1>1, <2>2 DEF ProjectFlags
  <2>4. PICK rows : rows = Project!Listing(task.project)
    OBVIOUS
  <2>5. rows = Listings'[task.project]
    BY <1>1, <1>3, <2>1, <2>4, ListingsKept DEF Listings
  <2>6. projectTasks' = [projectTasks EXCEPT ![k].phase = "loaded", ![k].rows = rows]
    BY <2>1, <2>4
  <2>7. /\ "loaded" \in {"asked", "done", "failed"} \cup Loading
        /\ task.phase \in Loading <=> "loaded" \in Loading
    BY <2>1 DEF Loading
  <2> QED
    BY <1>7, <2>1, <2>3, <2>5, <2>6, <2>7
<1>12. CASE Project!ServeLoadPartly(k)
  <2>1. PICK rows : /\ task.phase = "reload" /\ UNCHANGED projectRows
                    /\ projectTasks' = [projectTasks EXCEPT ![k].phase = "loaded", ![k].rows = rows]
                    /\ projectFlags' = [projectFlags EXCEPT !.stale = @ \/ task.mounted]
    BY <1>2, <1>12 DEF Project!ServeLoadPartly
  <2>2. PICK stale \in BOOLEAN : /\ projectFlags' = [projectFlags EXCEPT !.stale = stale]
                                 /\ IF task.mounted THEN stale ELSE stale = projectFlags.stale
    BY <1>1, <2>1 DEF ProjectFlags
  <2>3. /\ projectFlags'.overlap = projectFlags.overlap /\ projectFlags'.moved = projectFlags.moved
        /\ IF task.mounted THEN projectFlags'.stale ELSE projectFlags'.stale = projectFlags.stale
    BY <1>1, <2>2 DEF ProjectFlags
  <2>4. /\ "loaded" \in {"asked", "done", "failed"} \cup Loading
        /\ task.phase \in Loading <=> "loaded" \in Loading
    BY <2>1 DEF Loading
  <2>5. ~task.mounted => projectFlags'.stale = projectFlags.stale
    BY <2>3
  <2>6. task.mounted => projectFlags'.stale
    BY <2>3
  <2> QED
    BY <1>7, <2>1, <2>3, <2>4, <2>5, <2>6
<1> QED
  BY <1>8, <1>9, <1>10, <1>11, <1>12

(* The answers.                                                                  *)
LEMMA ReleasedPath ==
  ASSUME NEW k, NEW p \in Project!PageState
  PROVE  Project!Released(k, p).url = p.url
<1>1. \/ Project!Released(k, p) = [p EXCEPT !.saving = FALSE]
      \/ Project!Released(k, p) = [p EXCEPT !.creating = FALSE]
      \/ Project!Released(k, p) = [p EXCEPT !.submitting = FALSE]
      \/ Project!Released(k, p) = p
  BY DEF Project!Released
<1> QED
  BY <1>1 DEF Project!PageState

(* A write that is done or has failed.                                           *)
LEMMA ProjectShowsWritten ==
  ASSUME ProjectInv, ProjectShows, NEW k \in Tasks, Project!WriteAnswered(k) \/ Project!WriteFailed(k)
  PROVE  ProjectShows'
<1>1. k \in Project!Running /\ UNCHANGED projectRole /\ projectFlags \in ProjectFlags
      /\ ProjectTyped
  BY ProjectTypes DEF Project!WriteAnswered, Project!WriteFailed, Project!Running
<1>2. PICK task : task = projectTasks[k] /\ ProjectTask(task)
  BY <1>1, ProjectTaskType DEF ProjectInv
<1>3. /\ task.kind # "none" /\ task.phase \in {"done", "failed"}
      /\ task.kind \in {"load", "create", "submit"} \cup SaveKinds \cup MemberKinds
      /\ task.mounted => projectPage \in Project!PageState
  BY <1>1, <1>2, ProjectIsTask, ProjectTaskType DEF Project!WriteAnswered, Project!WriteFailed
<1>4. /\ projectFlags'.overlap = projectFlags.overlap /\ projectFlags'.moved = projectFlags.moved
      /\ Project!WriteFailed(k) => projectFlags'.stale
  BY <1>1 DEF Project!WriteAnswered, Project!WriteFailed, ProjectFlags
<1>5. SUFFICES ASSUME ~projectFlags'.overlap, ~projectFlags'.moved
               PROVE  ProjectShows'
  BY DEF ProjectShows
<1>6. k \in Project!Mattering /\ ~projectFlags.overlap /\ ~projectFlags.moved
  BY <1>1, <1>2, <1>3, <1>4, <1>5 DEF Project!Mattering
<1>7. /\ \A j \in Tasks \ {k} : j \notin Project!Mattering
      /\ projectPage # Null <=> task.mounted
      /\ task.mounted => task.project = projectPage.url
  BY <1>2, <1>6, ProjectShowsKnown
<1>8. CASE Project!WriteAnswered(k)
  <2> DEFINE t == [task EXCEPT !.phase = "reload"]
  <2>1. /\ t.phase = "reload" /\ t.kind # "none" /\ t.mounted = task.mounted
        /\ t.project = task.project
        /\ projectTasks' = [projectTasks EXCEPT ![k] = t]
    <3>1. projectTasks' = [projectTasks EXCEPT ![k].phase = "reload"]
      BY <1>8 DEF Project!WriteAnswered, Project!BeginReload
    <3> QED
      BY <1>1, <1>2, <1>3, <3>1 DEF ProjectTask
  <2>2. CASE task.mounted
    <3>1. PICK after : /\ after \in { [projectPage EXCEPT !.dialog = FALSE],
                                       [projectPage EXCEPT !.pick = Null], projectPage }
                       /\ projectPage' = [after EXCEPT !.loading = TRUE]
      BY <1>2, <1>8, <2>2 DEF Project!WriteAnswered, Project!BeginReload, Project!SetPage
    <3>2. after \in Project!PageState /\ after.url = projectPage.url
      BY <1>3, <2>2, <3>1 DEF Project!PageState
    <3>3. projectPage'.loading /\ projectPage'.url = projectPage.url
      BY <3>1, <3>2 DEF Project!PageState
    <3> HIDE DEF t
    <3>4. /\ t # Project!NoTask /\ t.phase # "loaded" /\ ~Project!Shown'
          /\ t.phase \in Loading
      BY <2>1, <3>3 DEF Project!NoTask, Project!Shown, Loading
    <3>5. /\ t.mounted /\ t.project = projectPage'.url /\ projectPage'.loading
      BY <1>7, <2>1, <2>2, <3>3
    <3> QED
      BY <1>1, <1>7, <2>1, <3>4, <3>5, ProjectShowsTask
  <2>3. CASE ~task.mounted
    <3>1. projectPage' = projectPage /\ projectPage = Null
      BY <1>2, <1>7, <1>8, <2>3 DEF Project!WriteAnswered, Project!BeginReload, Project!SetPage
    <3> HIDE DEF t
    <3>2. ~Project!Shown' /\ t # Project!NoTask /\ ~t.mounted /\ projectPage' = Null
      BY <2>1, <2>3, <3>1 DEF Project!Shown, Project!NoTask
    <3> QED
      BY <1>1, <1>7, <2>1, <3>2, ProjectShowsTask
  <2> QED
    BY <2>2, <2>3
<1>9. CASE Project!WriteFailed(k)
  <2>1. projectTasks' = [projectTasks EXCEPT ![k] = Project!NoTask]
    BY <1>9 DEF Project!WriteFailed, Project!End
  <2> QED
    BY <1>1, <1>4, <1>7, <1>9, <2>1, ProjectShowsTask
<1> QED
  BY <1>8, <1>9

(* The list that the page waited for, or the load that failed.                   *)
LEMMA ProjectShowsLoaded ==
  ASSUME ProjectInv, ProjectShows, NEW k \in Tasks, Project!LoadAnswered(k)
  PROVE  ProjectShows'
<1>1. /\ k \in Project!Running /\ UNCHANGED <<projectRole, projectRows>>
      /\ projectFlags \in ProjectFlags /\ ProjectTyped /\ DOMAIN projectTasks = Tasks
  BY ProjectTypes DEF Project!LoadAnswered, Project!Running
<1>2. PICK task : task = projectTasks[k] /\ ProjectTask(task)
  BY <1>1, ProjectTaskType DEF ProjectInv
<1>3. /\ task.kind # "none" /\ task.phase \in {"loaded", "loadFailed"} /\ task.phase \in Loading
      /\ task.kind \in {"load", "create", "submit"} \cup SaveKinds \cup MemberKinds
      /\ task.project \in {OwnProject, OtherProject} /\ task.mounted \in BOOLEAN
      /\ task.mounted => projectPage # Null /\ projectPage \in Project!PageState
      /\ projectPage # Null => projectPage \in Project!PageState
  BY <1>1, <1>2, ProjectIsTask, ProjectTaskType, ProjectTypes DEF Project!LoadAnswered, Loading
<1> DEFINE returns == task.kind = "create" /\ (projectPage = Null \/ projectPage.url # task.project)
           filled == [projectPage EXCEPT !.shown = task.project, !.rows = task.rows,
                                         !.drafts = [t \in AllTeams |-> task.rows[t].mark]]
<1>4. PICK p : p = IF task.phase = "loaded" THEN filled ELSE projectPage
  OBVIOUS
<1>5. PICK after : after = [Project!Released(k, p) EXCEPT !.loading = FALSE]
  OBVIOUS
<1>6. IF ~returns
      THEN /\ projectPage' = IF task.mounted THEN after ELSE projectPage
           /\ projectTasks' = [projectTasks EXCEPT ![k] = Project!NoTask]
      ELSE /\ projectPage' = IF projectPage = Null THEN Project!Mounted(task.project)
                             ELSE [(IF task.mounted THEN after ELSE projectPage)
                                     EXCEPT !.url = task.project, !.loading = TRUE]
           /\ projectTasks' = [projectTasks EXCEPT ![k] =
                                 Project!Task("load", "reload", Null, Null, {})]
  BY <1>2, <1>4, <1>5 DEF Project!LoadAnswered, Project!SetPage, Project!End, AllTeams
<1>7. PICK moved, stale \in BOOLEAN :
        /\ projectFlags' = [projectFlags EXCEPT !.moved = moved, !.stale = stale]
        /\ moved <=> projectFlags.moved \/ (returns /\ Project!Running # {k})
        /\ stale <=> projectFlags.stale \/ (task.mounted /\ task.phase = "loadFailed")
  <2>1. /\ (projectFlags.moved \/ (returns /\ Project!Running # {k})) \in BOOLEAN
        /\ (projectFlags.stale \/ (task.mounted /\ task.phase = "loadFailed")) \in BOOLEAN
    BY Zenon
  <2>2. projectFlags' = [projectFlags EXCEPT
           !.moved = @ \/ (returns /\ Project!Running # {k}),
           !.stale = @ \/ (task.mounted /\ task.phase = "loadFailed")]
    BY <1>2 DEF Project!LoadAnswered
  <2> QED
    BY <2>1, <2>2
<1>8. /\ projectFlags'.overlap = projectFlags.overlap
      /\ projectFlags'.moved = moved /\ projectFlags'.stale = stale
  BY <1>1, <1>7 DEF ProjectFlags
<1>9. SUFFICES ASSUME ~projectFlags'.overlap, ~projectFlags'.moved
               PROVE  ProjectShows'
  BY DEF ProjectShows
<1>10. ~projectFlags.overlap /\ ~projectFlags.moved /\ (returns => Project!Running = {k})
  BY <1>7, <1>8, <1>9
<1>11. task.mounted =>
        /\ \A j \in Tasks \ {k} : j \notin Project!Mattering
        /\ task.project = projectPage.url
        /\ task.phase = "loaded" /\ ~projectFlags.stale => task.rows = Listings[task.project]
  <2>1. ASSUME task.mounted
        PROVE  k \in Project!Mattering
    BY <1>1, <1>2, <2>1 DEF Project!Mattering
  <2> HIDE DEF returns
  <2> QED
    BY <1>2, <1>10, <2>1, ProjectShowsKnown
<1>12. CASE returns
  <2> DEFINE t == Project!Task("load", "reload", Null, Null, {})
  <2>1. ~task.mounted
    BY <1>3, <1>11, <1>12
  <2>2. projectPage'.loading
    <3>1. CASE projectPage = Null
      <4>1. projectPage' = Project!Mounted(task.project)
        BY <1>6, <1>12, <3>1
      <4> QED
        BY <4>1 DEF Project!Mounted
    <3>2. CASE projectPage # Null
      BY <1>3, <1>6, <1>12, <2>1, <3>2 DEF Project!PageState
    <3> QED
      BY <3>1, <3>2
  <2>3. /\ t.kind # "none" /\ t # Project!NoTask /\ t.mounted /\ t.phase = "reload"
        /\ t.project = projectPage'.url
    BY DEF Project!Task, Project!NoTask
  <2>4. projectTasks' = [projectTasks EXCEPT ![k] = t]
    BY <1>6, <1>12
  <2>5. \A j \in Tasks \ {k} : j \notin Project!Mattering
    BY <1>10, <1>12 DEF Project!Mattering
  <2> HIDE DEF t
  <2>6. ~Project!Shown'
    BY <2>2 DEF Project!Shown
  <2> QED
    BY <1>1, <2>2, <2>3, <2>4, <2>5, <2>6, ProjectShowsTask
<1>13. CASE ~returns /\ ~task.mounted
  <2>1. /\ projectPage' = projectPage
        /\ projectTasks' = [projectTasks EXCEPT ![k] = Project!NoTask]
        /\ projectFlags'.moved = projectFlags.moved /\ projectFlags'.stale = projectFlags.stale
    BY <1>1, <1>6, <1>7, <1>8, <1>13 DEF ProjectFlags
  <2>2. k \notin Project!Mattering
    BY <1>2, <1>3, <1>13 DEF Project!Mattering
  <2>3. Project!NoTask.kind = "none"
    BY DEF Project!NoTask
  <2> HIDE DEF returns
  <2> QED
    BY <1>1, <1>8, <2>1, <2>2, <2>3, ProjectShowsIdle
<1>14. CASE ~returns /\ task.mounted
  <2>1. projectPage' = after /\ projectTasks' = [projectTasks EXCEPT ![k] = Project!NoTask]
    BY <1>6, <1>14
  <2>2. /\ p \in Project!PageState /\ p.url = projectPage.url
        /\ task.phase = "loaded" => p.shown = task.project /\ p.rows = task.rows
    <3>1. CASE task.phase = "loaded"
      <4>1. task.rows \in [AllTeams -> Project!Row]
        BY <1>2, <3>1 DEF ProjectTask
      <4>2. \A t \in AllTeams : task.rows[t].mark \in Scores \cup {Null}
        BY <4>1 DEF Project!Row
      <4>3. PICK drafts \in [AllTeams -> Scores \cup {Null}] :
              drafts = [t \in AllTeams |-> task.rows[t].mark]
        BY <4>2
      <4>4. p = [projectPage EXCEPT !.shown = task.project, !.rows = task.rows, !.drafts = drafts]
        BY <1>4, <3>1, <4>3
      <4> HIDE DEF filled, returns
      <4> QED
        BY <1>3, <1>14, <4>1, <4>4 DEF Project!PageState, AllTeams
    <3>2. CASE task.phase # "loaded"
      BY <1>3, <1>14, <1>4, <3>2
    <3> QED
      BY <3>1, <3>2
  <2> HIDE DEF filled, returns
  <2>3. PICK q : /\ q = Project!Released(k, p) /\ q \in Project!PageState
                 /\ q.url = p.url /\ q.shown = p.shown /\ q.rows = p.rows
    BY <1>2, <1>3, <2>2, ProjectReleased, ReleasedPath
  <2>4. /\ projectPage'.url = q.url /\ projectPage'.shown = q.shown /\ projectPage'.rows = q.rows
    BY <1>5, <2>1, <2>3 DEF Project!PageState
  <2>5. ASSUME ~projectFlags'.stale
        PROVE  projectPage'.shown = projectPage'.url /\ projectPage'.rows = Listings'[projectPage'.url]
    <3>1. task.phase = "loaded" /\ ~projectFlags.stale
      BY <1>3, <1>7, <1>8, <1>14, <2>5
    <3> QED
      BY <1>1, <1>11, <1>14, <2>2, <2>3, <2>4, <3>1, ListingsKept
  <2> QED
    BY <1>1, <1>11, <1>14, <2>1, <2>5, ProjectShowsTask
<1> QED
  BY <1>12, <1>13, <1>14

(* Whatever happens on the page and in the services.                              *)
LEMMA ProjectShowsStep == ProjectInv /\ ProjectShows /\ Project!Next => ProjectShows'
<1> SUFFICES ASSUME ProjectInv, ProjectShows, Project!Next
             PROVE  ProjectShows'
  OBVIOUS
<1>1. /\ ProjectTyped /\ projectFlags \in ProjectFlags
      /\ projectPage # Null => projectPage \in Project!PageState
  BY ProjectTypes
<1>2. ASSUME Project!Shown, UNCHANGED <<projectRole, projectRows, projectTasks, projectFlags>>,
             projectPage'.url = projectPage.url, projectPage'.shown = projectPage.shown,
             projectPage'.rows = projectPage.rows, projectPage'.loading = projectPage.loading
      PROVE  ProjectShows'
  <2>1. projectPage # Null
    BY <1>2 DEF Project!Shown
  <2> QED
    BY <1>2, <2>1, ProjectShowsQuiet
<1>3. CASE Project!OpenCreateTeamDialog
  BY <1>1, <1>2, <1>3 DEF Project!OpenCreateTeamDialog, Project!Shown, Project!PageState
<1>4. CASE Project!CloseCreateTeamDialog
  BY <1>1, <1>2, <1>4 DEF Project!CloseCreateTeamDialog, Project!Shown, Project!PageState
<1>5. ASSUME NEW s \in Students, Project!PickMember(s)
      PROVE  ProjectShows'
  BY <1>1, <1>2, <1>5 DEF Project!PickMember, Project!Shown, Project!PageState
<1>6. ASSUME NEW t \in AllTeams, NEW m \in Scores \cup {Null}, Project!SetEvaluationField(t, m)
      PROVE  ProjectShows'
  <2>1. PICK drafts : projectPage' = [projectPage EXCEPT !.drafts = drafts]
    BY <1>6 DEF Project!SetEvaluationField
  <2> QED
    BY <1>1, <1>2, <1>6, <2>1
    DEF Project!SetEvaluationField, Project!IsProjectTeacher, Project!Shown, Project!PageState
<1>7. ASSUME NEW t \in AllTeams, Project!Elsewhere(t)
      PROVE  ProjectShows'
  <2>1. /\ projectFlags'.stale /\ projectFlags'.overlap = projectFlags.overlap
        /\ projectFlags'.moved = projectFlags.moved
        /\ UNCHANGED <<projectRole, projectPage, projectTasks>>
    BY <1>1, <1>7 DEF Project!Elsewhere, ProjectFlags
  <2> QED
    BY <2>1, ProjectShowsQuiet
<1>8. CASE Project!Leave
  BY <1>1, <1>8, ProjectShowsGone
<1>9. CASE \E p \in {OwnProject, OtherProject} : Project!Open(p) \/ Project!SwitchProject(p)
  BY <1>9, ProjectShowsPath
<1>10. CASE \/ Project!HandleSaveAllEvaluations \/ Project!HandleCreateTeam
            \/ \E t \in AllTeams :
                 \/ Project!HandleSaveEvaluation(t)
                 \/ Project!HandleAddMember(t) \/ Project!HandleLeaveTeam(t)
                 \/ \E s \in Students : Project!HandleRemoveMember(t, s)
                 \/ \E f \in Files : Project!HandleSubmitFile(t, f)
  BY <1>10, ProjectShowsClicks
<1>11. ASSUME NEW k \in Tasks,
              \/ Project!SaveNext(k) \/ Project!WriteAnswered(k) \/ Project!WriteFailed(k)
              \/ Project!LoadAnswered(k) \/ Project!ServeWrite(k) \/ Project!ServeLoad(k)
              \/ Project!ServeLoadPartly(k) \/ Project!CallFails(k)
       PROVE  ProjectShows'
  BY <1>11, ProjectShowsServices, ProjectShowsWritten, ProjectShowsLoaded
<1> QED
  BY <1>3, <1>4, <1>5, <1>6, <1>7, <1>8, <1>9, <1>10, <1>11 DEF Project!Next, AllTeams

(* No page is there in the beginning.                                             *)
LEMMA ProjectShowsInit == Project!Init => ProjectShows
<1> SUFFICES ASSUME Project!Init
             PROVE  ProjectShows
  OBVIOUS
<1>1. Project!Running = {} /\ Project!Mattering = {} /\ ~Project!Shown
  BY DEF Project!Init, Project!Running, Project!Mattering, Project!NoTask, Project!Shown
<1> QED
  BY <1>1 DEF ProjectShows

(* The steps of other pages.                                                      *)
LEMMA ProjectShowsRests == ASSUME ProjectShows, UNCHANGED project PROVE ProjectShows'
BY ProjectShowsQuiet DEF project

(* A page that waits for nothing shows what is stored.                            *)
LEMMA ProjectShowsStored == ProjectInv /\ ProjectShows => Project!ShowsOwnWrites
<1> SUFFICES ASSUME ProjectInv, ProjectShows, Project!Shown, Project!Running = {},
                    ~projectFlags.stale, ~projectFlags.overlap, ~projectFlags.moved
             PROVE  /\ projectPage.shown = projectPage.url
                    /\ projectPage.rows = Project!Listing(projectPage.url)
  BY DEF Project!ShowsOwnWrites
<1>1. Project!Mattering = {}
  BY DEF Project!Mattering
<1>2. projectPage.url \in {OwnProject, OtherProject}
  BY ClickPages DEF Project!Shown
<1>3. projectPage.shown = projectPage.url /\ projectPage.rows = Listings[projectPage.url]
  BY <1>1 DEF ProjectShows
<1> QED
  BY <1>2, <1>3 DEF Listings

-----------------------------------------------------------------------------
(* The pages side by side: each invariant survives the steps of the other pages. *)

LEMMA AccountRests == ASSUME AccountInv, UNCHANGED accounts PROVE AccountInv'
<1>1. /\ accountRows' = accountRows /\ accountPage' = accountPage
      /\ accountTasks' = accountTasks /\ accountFlags' = accountFlags
  BY DEF accounts
<1>2. /\ Account!Running' = Account!Running
      /\ \A k : Account!Attached(k)' <=> Account!Attached(k)
  BY <1>1 DEF Account!Running, Account!Attached
<1>3. AccountTyped'
  BY <1>1, <1>2 DEF AccountInv, AccountTyped, Account!TypeOK
<1>4. AccountSaves' /\ Account!NeverStuck'
  BY <1>1, <1>2 DEF AccountInv, AccountSaves, Saving, Account!NeverStuck
<1>5. Account!AdminRemains' /\ Account!EmailsUnique'
  BY <1>1 DEF AccountInv, AccountKept, Account!AdminRemains, Account!IsAdmin,
              Account!EmailsUnique, Account!Exists
<1>6. ChecksHold'
  <2>1. /\ Account!Checked' = Account!Checked
        /\ \A a, form : Account!Allowed(a, form)' <=> Account!Allowed(a, form)
    BY <1>1, <1>2 DEF Account!Checked, Account!Allowed, Account!Taken, Account!OnlyAdmin,
                      Account!IsAdmin, Account!Exists
  <2> QED
    BY <1>1, <2>1 DEF AccountInv, AccountKept, ChecksHold
<1> QED
  BY <1>3, <1>4, <1>5, <1>6 DEF AccountInv, AccountKept

LEMMA SubjectRests == ASSUME SubjectInv, UNCHANGED subjects PROVE SubjectInv'
<1>1. /\ subjectRole' = subjectRole /\ subjectRows' = subjectRows /\ sentTo' = sentTo
      /\ subjectPage' = subjectPage /\ subjectTasks' = subjectTasks
      /\ subjectBounds' = subjectBounds /\ subjectFlags' = subjectFlags
  BY DEF subjects
<1>2. /\ Subject!Running' = Subject!Running /\ Subject!Mattering' = Subject!Mattering
      /\ \A k : Subject!Attached(k)' <=> Subject!Attached(k)
      /\ Subject!Shown' <=> Subject!Shown
      /\ \A task : SubjectTaskSound(task)' <=> SubjectTaskSound(task)
      /\ \A d : DialogSound(d)' <=> DialogSound(d)
  BY <1>1 DEF Subject!Running, Subject!Mattering, Subject!Attached, Subject!Shown,
              SubjectTaskSound, DialogSound
<1>3. /\ Subject!Listing' = Subject!Listing
      /\ \A task : Subject!Allowed(task)' <=> Subject!Allowed(task)
  BY <1>1 DEF Subject!Listing, Subject!Allowed
<1>4. SubjectTyped'
  BY <1>1, <1>2 DEF SubjectInv, SubjectTyped, Subject!TypeOK
<1>5. Subject!NeverStuck' /\ Subject!SentToOwnTeam'
  BY <1>1, <1>2 DEF SubjectInv, Subject!NeverStuck, Subject!SentToOwnTeam
<1>6. SubjectLinks' /\ Subject!NoOrphans'
  BY <1>1, <1>2, <1>3 DEF SubjectInv, SubjectLinks, Subject!NoOrphans
<1>7. TeamsListed' /\ Subject!TeamsAreRegistered'
  BY <1>1 DEF SubjectInv, TeamsListed, Subject!TeamsAreRegistered, Subject!Registered
<1>8. SubjectCopies'
  BY <1>1, <1>2, <1>3 DEF SubjectInv, SubjectCopies, Undisturbed
<1> QED
  BY <1>4, <1>5, <1>6, <1>7, <1>8 DEF SubjectInv

LEMMA ProfileRests == ASSUME ProfileInv, UNCHANGED profile PROVE ProfileInv'
<1>1. /\ stored' = stored /\ shell' = shell /\ profileTasks' = profileTasks
      /\ profileFlags' = profileFlags
  BY DEF profile
<1>2. /\ Profile!Running' = Profile!Running
      /\ \A k : Profile!Attached(k)' <=> Profile!Attached(k)
      /\ \A k, kind : SavingKind(k, kind)' <=> SavingKind(k, kind)
  BY <1>1 DEF Profile!Running, Profile!Attached, SavingKind
<1>3. ProfileTyped'
  BY <1>1, <1>2 DEF ProfileInv, ProfileTyped, Profile!TypeOK
<1>4. Profile!NeverStuck' /\ ProfileSaves'
  BY <1>1, <1>2 DEF ProfileInv, Profile!NeverStuck, ProfileSaves
<1>5. MessagesKept' /\ PictureKept' /\ Profile!SuccessTrue'
  BY <1>1, <1>2 DEF ProfileInv, MessagesKept, PictureKept, Profile!SuccessTrue
<1> QED
  BY <1>3, <1>4, <1>5 DEF ProfileInv

LEMMA ComposeRests == ASSUME ComposeInv, UNCHANGED compose PROVE ComposeInv'
<1>1. /\ batch' = batch /\ composePage' = composePage /\ chosen' = chosen
      /\ composeTasks' = composeTasks /\ composeFlags' = composeFlags
  BY DEF compose
<1>2. /\ Compose!Running' = Compose!Running /\ Compose!Listing' = Compose!Listing
      /\ Compose!Composing' <=> Compose!Composing
  BY <1>1 DEF Compose!Running, Compose!Listing, Compose!Composing
<1>3. ComposeTyped'
  BY <1>1, <1>2 DEF ComposeInv, ComposeTyped, Compose!TypeOK
<1>4. Compose!NeverStuck'
  BY <1>1, <1>2 DEF ComposeInv, Compose!NeverStuck
<1>5. SourcesAgree' /\ Compose!RecipientsAsChosen'
  BY <1>1, <1>2, SourcesStand DEF ComposeInv
<1>6. ListKept'
  BY <1>1, <1>2, ListStands DEF ComposeInv
<1> QED
  BY <1>3, <1>4, <1>5, <1>6 DEF ComposeInv

PagesInv ==
  /\ AccountInv /\ SubjectInv /\ ProfileInv /\ ComposeInv /\ CenterInv
  /\ DetailInv /\ ProjectInv

LEMMA PagesInit == Init => PagesInv
BY AccountInit, SubjectInit, ProfileInit, ComposeInit, CenterInit, DetailInit, ProjectInit
DEF Init, PagesInv

LEMMA PagesStep == PagesInv /\ [Next]_vars => PagesInv'
<1> SUFFICES ASSUME PagesInv, [Next]_vars
             PROVE  PagesInv'
  OBVIOUS
<1>1. AccountInv'
  <2>1. Account!Next \/ UNCHANGED accounts
    BY DEF Next, vars
  <2> QED
    BY <2>1, AccountStep, AccountRests DEF PagesInv
<1>2. SubjectInv'
  <2>1. Subject!Next \/ UNCHANGED subjects
    BY DEF Next, vars
  <2> QED
    BY <2>1, SubjectStep, SubjectRests DEF PagesInv
<1>3. ProfileInv'
  <2>1. Profile!Next \/ UNCHANGED profile
    BY DEF Next, vars
  <2> QED
    BY <2>1, ProfileStep, ProfileRests DEF PagesInv
<1>4. ComposeInv'
  <2>1. Compose!Next \/ UNCHANGED compose
    BY DEF Next, vars
  <2> QED
    BY <2>1, ComposeStep, ComposeRests DEF PagesInv
<1>5. CenterInv'
  <2>1. Center!Next \/ UNCHANGED center
    BY DEF Next, vars
  <2> QED
    BY <2>1, CenterStep, CenterRests DEF PagesInv
<1>6. DetailInv'
  <2>1. Detail!Next \/ UNCHANGED details
    BY DEF Next, vars
  <2> QED
    BY <2>1, DetailStep, DetailRests DEF PagesInv
<1>7. ProjectInv'
  <2>1. Project!Next \/ UNCHANGED project
    BY DEF Next, vars
  <2> QED
    BY <2>1, ProjectStep, ProjectRests DEF PagesInv
<1> QED
  BY <1>1, <1>2, <1>3, <1>4, <1>5, <1>6, <1>7 DEF PagesInv

LEMMA PagesHold == Spec => []PagesInv
BY PagesInit, PagesStep, PTL DEF Spec

(* What the pages show, beside what PagesInv says of their tasks.                 *)
PagesShow == AccountShows /\ SubjectShows /\ DetailShows /\ PicksSound /\ ProjectShows

(* No page is there in the beginning.                                            *)
LEMMA PagesShowInit == Init => PagesShow
BY AccountShowsInit, SubjectShowsInit, DetailShowsInit, PicksInit, ProjectShowsInit
DEF Init, PagesShow

(* A step is one of the page in focus, and rests the others.                      *)
LEMMA PagesShowStep == PagesInv /\ PagesShow /\ [Next]_vars => PagesShow'
<1> SUFFICES ASSUME PagesInv, PagesShow, [Next]_vars
             PROVE  PagesShow'
  OBVIOUS
<1>1. AccountShows'
  <2>1. Account!Next \/ UNCHANGED accounts
    BY DEF Next, vars
  <2> QED
    BY <2>1, AccountShowsStep, AccountShowsRests DEF PagesInv, PagesShow
<1>2. SubjectShows'
  <2>1. Subject!Next \/ UNCHANGED subjects
    BY DEF Next, vars
  <2> QED
    BY <2>1, SubjectShowsStep, SubjectShowsRests DEF PagesInv, PagesShow
<1>3. DetailShows' /\ PicksSound'
  <2>1. Detail!Next \/ UNCHANGED details
    BY DEF Next, vars
  <2> QED
    BY <2>1, DetailShowsStep, DetailShowsRests, PicksStep, PicksRests DEF PagesInv, PagesShow
<1>4. ProjectShows'
  <2>1. Project!Next \/ UNCHANGED project
    BY DEF Next, vars
  <2> QED
    BY <2>1, ProjectShowsStep, ProjectShowsRests DEF PagesInv, PagesShow
<1> QED
  BY <1>1, <1>2, <1>3, <1>4 DEF PagesShow

(* The dialog and the compose form keep what they show in their invariants.       *)
LEMMA PagesShowStored == PagesInv /\ PagesShow => ShownAsStored
<1> SUFFICES ASSUME PagesInv, PagesShow
             PROVE  ShownAsStored
  OBVIOUS
<1>1. Compose!ListAsStored
  BY DEF PagesInv, ComposeInv, ListKept, Compose!ListAsStored, Compose!Listing, Compose!Running
<1>2. Profile!AvatarCurrent
  BY DEF PagesInv, ProfileInv, PictureKept, SavingKind, Profile!AvatarCurrent
<1>3. Account!AccountsAsStored
  BY AccountShowsStored DEF PagesInv, PagesShow
<1>4. Subject!ShowsOwnWrites /\ Detail!SubjectAsStored /\ Project!ShowsOwnWrites
  BY SubjectShowsStored, DetailShowsStored, ProjectShowsStored DEF PagesInv, PagesShow
<1> QED
  BY <1>1, <1>2, <1>3, <1>4 DEF ShownAsStored

(* Once nothing runs, every page shows what the services hold, own writes included: the      *)
(* scheduled batches, the project and the subject of the path, the subjects, the accounts       *)
(* and an open form, the picture in the header; for any number of tasks, clicks, failures and      *)
(* answers to pages that are gone, but for what "stale", "overlap", "moved" and "early" name:         *)
(* failed calls, changes by others, tasks at once, and a path set back by a page left behind            *)
(* (loadData of ProjectDetailPage.jsx:119, SubjectsPage.jsx:135 and SubjectDetailPage.jsx:161,             *)
(* loadUsers of AdminUsersPage.jsx:50, NotificationsPage.jsx:226, AppShell.jsx:367).                          *)
THEOREM PagesShowWhatIsStored == Spec => []ShownAsStored
<1>1. PagesInv /\ PagesShow /\ [Next]_vars => PagesShow'
  BY PagesShowStep
<1>2. Spec => []PagesShow
  BY PagesHold, PagesShowInit, <1>1, PTL DEF Spec
<1> QED
  BY PagesHold, <1>2, PagesShowStored, PTL

(* However the calls of the pages interleave with those of other pages, other browsers     *)
(* and failures: while no write falls between a check of a service and its write, an admin     *)
(* remains and e-mails are unique; no project loses its subject; and a student's teams stay       *)
(* within the subjects they are registered for, which only a hidden button and a check of            *)
(* the router ensure (service.rs:217-239, SubjectManager.cs:101, projects.rs:197-223,                    *)
(* SubjectsPage.jsx:536-546).                                                                                *)
THEOREM ServicesStaySound == Spec => []ServicesSound
<1>1. PagesInv => ServicesSound
  BY DEF PagesInv, AccountInv, AccountKept, SubjectInv, ServicesSound
<1> QED
  BY PagesHold, <1>1, PTL

(* "Saved" in the profile dialog is true while it is on show, and who is sent to a project    *)
(* after creating a team is in that team (AppShell.jsx:311-419, SubjectsPage.jsx:341-347),        *)
(* for any number of saves, failures and answers of pages that are gone.                              *)
THEOREM ReportsAreTrue == Spec => []SuccessTrue
<1>1. PagesInv => SuccessTrue
  BY DEF PagesInv, SubjectInv, ProfileInv, SuccessTrue
<1> QED
  BY PagesHold, <1>1, PTL

(* However reading a source, late answers about the sources, failures, dialogs and other      *)
(* calls interleave, the compose form holds the recipients chosen in it, unless it was edited     *)
(* or closed while a source was read (NotificationsPage.jsx:545-568).                                *)
THEOREM FormsHoldTheChosen == Spec => []RecipientsAsChosen
<1>1. PagesInv => RecipientsAsChosen
  BY DEF PagesInv, ComposeInv, RecipientsAsChosen
<1> QED
  BY PagesHold, <1>1, PTL

(* Once every list call, record and mark has arrived, the counter in the header is the       *)
(* number of unread notifications (AppShell.jsx:176-221, :268-270), for any number of             *)
(* notifications, calls, visits and faults, in every interleaving but those that "raced" names.    *)
THEOREM CounterTellsUnread == Spec => []BadgeExact
<1>1. PagesInv => BadgeExact
  BY CenterMeans DEF PagesInv, BadgeExact
<1> QED
  BY PagesHold, <1>1, PTL

(* And the list of the mounted page is that of the service, though list answers, records      *)
(* and marks arrive in any order (NotificationsPage.jsx:221-301).                                *)
THEOREM ListTellsServer == Spec => []ListExact
<1>1. PagesInv => ListExact
  BY CenterMeans DEF PagesInv, ListExact
<1> QED
  BY PagesHold, <1>1, PTL

(* No step takes a notification off the list of a mounted page, though every list answer       *)
(* replaces the list (NotificationsPage.jsx:221-224).                                             *)
THEOREM ListedStaysListed == Spec => NothingVanishes
<1>1. PagesInv /\ [Next]_vars =>
        [listPage # Null /\ listPage' # Null /\ ~listRaced' =>
           \A n \in Notes : listPage.list[n] # "absent" => listPage'.list[n] # "absent"]_Center!vars
  <2> SUFFICES ASSUME PagesInv, [Next]_vars, Center!vars' # Center!vars,
                      listPage # Null, listPage' # Null, ~listRaced',
                      NEW n \in Notes, listPage.list[n] # "absent"
               PROVE  listPage'.list[n] # "absent"
    OBVIOUS
  <2>1. Center!Next
    BY DEF Next, vars, center, Center!vars, Center!shell, Center!pageVars, Center!channel,
           Center!bounds, Center!history
  <2> QED
    BY <2>1, NothingGoes DEF PagesInv
<1> QED
  BY PagesHold, <1>1, PTL DEF Spec, NothingVanishes, Center!NothingVanishes

(* The state of all seven pages keeps its types (the useState calls of their components),     *)
(* for any sets of users, rows and calls.                                                        *)
THEOREM PagesStayTyped == Spec => []TypeOK
<1>1. PagesInv => TypeOK
  BY CenterMeans
  DEF PagesInv, TypeOK, AccountInv, AccountTyped, SubjectInv, SubjectTyped, ProfileInv, ProfileTyped,
      ComposeInv, ComposeTyped, CenterInv, DetailInv, DetailTyped, ProjectInv, ProjectTyped
<1> QED
  BY PagesHold, <1>1, PTL

(* A spinner or a disabled button always has a call of its page behind it whose answer or       *)
(* failure ends it, whatever fails, overtakes or is left behind: the finally clauses of six        *)
(* pages (ProjectDetailPage.jsx:182, :252, :272, :334, :371 and those of the other pages).            *)
THEOREM NothingStaysStuck == Spec => []NeverStuck
<1>1. PagesInv => NeverStuck
  BY DEF PagesInv, NeverStuck, AccountInv, SubjectInv, ProfileInv, ComposeInv, DetailInv, ProjectInv
<1> QED
  BY PagesHold, <1>1, PTL

(* No answer of a load is on its way while a teacher can type, so that no draft is replaced      *)
(* under their hands, unless the path changed under a running task                                  *)
(* (ProjectDetailPage.jsx:126, :981, :993).                                                            *)
THEOREM DraftsAreKept == Spec => []NothingOverwritten
<1>1. PagesInv => NothingOverwritten
  BY TypedUndisturbed DEF PagesInv, NothingOverwritten
<1> QED
  BY PagesHold, <1>1, PTL

(* When "Saved n evaluations" appears, all n drafts of the click are stored, for any number of   *)
(* teams and whatever the page shows by then (ProjectDetailPage.jsx:257-275).                        *)
THEOREM SavedMeansStored == Spec => AllSaved
<1>1. PagesInv /\ [Next]_vars =>
        [\A k \in Tasks :
           /\ projectTasks[k].kind = "saveAll" /\ projectTasks[k].phase = "done"
           /\ projectTasks'[k].kind = "saveAll" /\ projectTasks'[k].phase = "reload"
           /\ projectBounds.elsewhere = 0 /\ ~projectFlags.overlap
           => \A t \in DOMAIN projectTasks[k].data :
                projectRows[t].mark = projectTasks[k].data[t]]_Project!vars
  <2> SUFFICES ASSUME PagesInv, [Next]_vars, Project!vars' # Project!vars, NEW k \in Tasks,
                      projectTasks[k].kind = "saveAll", projectTasks[k].phase = "done",
                      projectTasks'[k].kind = "saveAll", projectTasks'[k].phase = "reload",
                      projectBounds.elsewhere = 0, ~projectFlags.overlap
               PROVE  \A t \in DOMAIN projectTasks[k].data :
                        projectRows[t].mark = projectTasks[k].data[t]
    OBVIOUS
  <2>1. Project!Next
    BY DEF Next, vars, project, Project!vars
  <2> QED
    BY <2>1, AllAreSaved DEF PagesInv
<1> QED
  BY PagesHold, <1>1, PTL DEF Spec, AllSaved, Project!AllSaved

(* A teacher's page changes evaluations of the project that is taught only, and removes          *)
(* students from subjects that are taught only: the services ask nobody, and the pages decide        *)
(* by copies that late answers replace (ProjectDetailPage.jsx:65-66, :747, :958,                        *)
(* SubjectDetailPage.jsx).                                                                                *)
THEOREM TeachersActOnOwn == Spec => TeachersOwnOnly
<1>1. PagesInv /\ [Next]_vars => [Project!GradesOwn /\ Detail!RemovesOwn]_vars
  <2> SUFFICES ASSUME PagesInv, Next
               PROVE  Project!GradesOwn /\ Detail!RemovesOwn
    OBVIOUS
  <2>1. Project!GradesOwn
    <3>1. Project!Next \/ UNCHANGED project
      BY DEF Next
    <3>2. CASE UNCHANGED project
      BY <3>2 DEF project, Project!GradesOwn
    <3> QED
      BY <3>1, <3>2, GradesTaught DEF PagesInv
  <2>2. Detail!RemovesOwn
    <3>1. Detail!Next \/ UNCHANGED details
      BY DEF Next
    <3>2. CASE UNCHANGED details
      BY <3>2 DEF details, Detail!RemovesOwn
    <3> QED
      BY <3>1, <3>2, RemovesTaught DEF PagesInv
  <2> QED
    BY <2>1, <2>2
<1> QED
  BY PagesHold, <1>1, PTL DEF Spec, TeachersOwnOnly
=============================================================================
