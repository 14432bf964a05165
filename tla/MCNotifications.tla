---------------------------- MODULE MCNotifications ----------------------------
(* Two replicas, one recipient with an e-mail address and one without.     *)
EXTENDS Notifications
===============================================================================
