---------------------------- MODULE BatchLifecycle ----------------------------
(***************************************************************************)
(* What a scheduled batch of notifications promises: it is pending until it *)
(* is delivered, no earlier than the time it is scheduled for, or cancelled; *)
(* its time moves only while it is pending; and both ends are final.         *)
(***************************************************************************)
EXTENDS Naturals

CONSTANTS Batches, Time

VARIABLES status, trigger, clock     (* trigger is 0 when the batch is not pending *)

vars == <<status, trigger, clock>>

Init ==
  /\ status = [b \in Batches |-> "unknown"]
  /\ trigger = [b \in Batches |-> 0]
  /\ clock = 0

Schedule(b, t) ==
  /\ status[b] = "unknown"
  /\ status' = [status EXCEPT ![b] = "pending"]
  /\ trigger' = [trigger EXCEPT ![b] = t]
  /\ UNCHANGED clock

Reschedule(b, t) ==
  /\ status[b] = "pending"
  /\ trigger' = [trigger EXCEPT ![b] = t]
  /\ UNCHANGED <<status, clock>>

Decide(b, decision) ==
  /\ status[b] = "pending"
  /\ decision = "delivered" => trigger[b] <= clock
  /\ status' = [status EXCEPT ![b] = decision]
  /\ trigger' = [trigger EXCEPT ![b] = 0]
  /\ UNCHANGED clock

Tick == clock' \in Time /\ clock' > clock /\ UNCHANGED <<status, trigger>>

Next ==
  \/ \E b \in Batches, t \in Time : Schedule(b, t) \/ Reschedule(b, t)
  \/ \E b \in Batches : Decide(b, "delivered") \/ Decide(b, "cancelled")
  \/ Tick

Spec == Init /\ [][Next]_vars
=============================================================================
