------------------------ MODULE MCNotificationDelivery ------------------------
(***************************************************************************)
(* Instance of NotificationDelivery for TLC: two notifications for a       *)
(* guardian who moves between two chats.                                   *)
(***************************************************************************)
EXTENDS NotificationDelivery
===============================================================================
