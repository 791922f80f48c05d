------------------------- MODULE MCNotificationService -------------------------
(* The notification service on small instances: sets of model values in the .cfg. *)
EXTENDS NotificationInvariant, TLC

(* Threads, batches, users and creators are only compared. *)
Symmetry ==
  Permutations(Threads) \cup Permutations(Batches) \cup Permutations(Users)
    \cup Permutations(Creators)
=============================================================================
