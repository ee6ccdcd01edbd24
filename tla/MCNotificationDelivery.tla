---------------------- MODULE MCNotificationDelivery ----------------------
(* Instances of NotificationDelivery for TLC. *)
EXTENDS NotificationDelivery, TLC

OutageOnly == {"outage", "giveUp"}
AllFaults == FaultKinds

Symmetry == Permutations(Consumers)

=============================================================================
