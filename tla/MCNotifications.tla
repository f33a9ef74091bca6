-------------------------- MODULE MCNotifications --------------------------
(* Small instances of Notifications for TLC. *)
EXTENDS Notifications

CONSTANTS n1, n2, w1, r1
=============================================================================
