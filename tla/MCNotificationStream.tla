------------------------ MODULE MCNotificationStream ------------------------
(* Small instances of NotificationStream for TLC. *)
EXTENDS NotificationStream
=============================================================================
