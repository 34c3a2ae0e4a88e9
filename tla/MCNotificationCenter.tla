------------------------ MODULE MCNotificationCenter ------------------------
(* Constants for model checking NotificationCenter. *)
EXTENDS NotificationCenter

=============================================================================
