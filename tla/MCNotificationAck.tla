------------------------- MODULE MCNotificationAck --------------------------
(* One local read and one further activity on the thread, without faults.  *)
EXTENDS NotificationAck
=============================================================================
